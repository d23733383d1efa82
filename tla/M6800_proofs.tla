---------------------------- MODULE M6800_proofs ----------------------------
(***************************************************************************)
(* Proofs about M6800 and M6800Programs, for every program, every content  *)
(* of the memory and every operand: the machine stays a machine of bytes   *)
(* and words, sums and differences set their flags as the exact ones ask,  *)
(* instructions end where the disassembler's lines end, comparisons        *)
(* decide, decimal sums are decimal, calls and interrupts return, programs *)
(* on words compute sums, differences, shifts, negations, products and     *)
(* copies, and OUTCH lights the LEDs of its digit.                         *)
(***************************************************************************)
EXTENDS M6800Programs, SequenceTheorems, TLAPS

-----------------------------------------------------------------------------
(* Bytes, words and flags *)

(* The provers enumerate a range of numbers: that of words stays folded. *)
UpTo(n) == 0 .. n

LEMMA Words16 == \A w : w \in Word <=> w \in Int /\ 0 <= w /\ w <= 65535
<1> DEFINE top == 65535
<1>1. Word = UpTo(top)
  BY DEF UpTo, Word
<1>2. top \in Int /\ \A w \in Int : w <= 65535 <=> w <= top
  OBVIOUS
<1> HIDE DEF top
<1>3. \A w : w \in UpTo(top) <=> w \in Int /\ 0 <= w /\ w <= top
  BY <1>2 DEF UpTo
<1> QED BY <1>1, <1>2, <1>3

LEMMA Numbers == Byte \subseteq Word /\ Word \subseteq Int
<1>1. ASSUME NEW w \in Byte PROVE w \in Word
  BY Words16 DEF Byte
<1> QED BY <1>1, Words16

LEMMA Remainders == ASSUME NEW w \in Int PROVE w % 256 \in Byte /\ w % 256 \in Int
BY DEF Byte

LEMMA Wraps ==
  ASSUME NEW w \in Int
  PROVE  /\ Wrap(w) \in Word
         /\ w \in Word => Wrap(w) = w
<1>1. 0 <= w % 65536 /\ w % 65536 <= 65535 /\ w % 65536 \in Int
  OBVIOUS
<1>2. 0 <= w /\ w <= 65535 => w % 65536 = w
  OBVIOUS
<1>3. w \in Word => 0 <= w /\ w <= 65535
  BY Words16
<1>4. Wrap(w) \in Word
  BY <1>1, Words16 DEF Wrap
<1> QED BY <1>2, <1>3, <1>4 DEF Wrap

(* An address, and one a few bytes further *)
LEMMA Displaced ==
  ASSUME NEW w \in Word
  PROVE  /\ \A i \in -255 .. 255 : Wrap(w + i) \in Word
         /\ Wrap(w + 1) \in Word /\ Wrap(w + 2) \in Word /\ Wrap(w + 3) \in Word
         /\ Wrap(w + 7) \in Word /\ Wrap(w - 1) \in Word
<1>1. w \in Int
  BY Words16
<1>2. \A i \in Int : w + i \in Int /\ w - i \in Int
  BY <1>1
<1>3. \A i \in Int : Wrap(w + i) \in Word /\ Wrap(w - i) \in Word
  BY <1>2, Wraps
<1> QED BY <1>3

LEMMA Halves ==
  ASSUME NEW w \in Word
  PROVE  High(w) \in Byte /\ Low(w) \in Byte /\ 256 * High(w) + Low(w) = w
<1>1. w \in Int /\ 0 <= w /\ w <= 65535
  BY Words16
<1>2. w \div 256 \in 0 .. 255 /\ w % 256 \in 0 .. 255
      /\ 256 * (w \div 256) + (w % 256) = w
  BY <1>1
<1>3. (w \div 256) % 256 = w \div 256
  BY <1>2
<1> QED BY <1>2, <1>3 DEF High, Low, Byte

LEMMA Joined ==
  ASSUME NEW high \in Byte, NEW low \in Byte
  PROVE  256 * high + low \in Word
<1>1. /\ high \in Int /\ 0 <= high /\ high <= 255
      /\ low \in Int /\ 0 <= low /\ low <= 255
  BY DEF Byte
<1>2. 0 <= 256 * high + low /\ 256 * high + low <= 65535 /\ 256 * high + low \in Int
  BY <1>1
<1> QED BY <1>2, Words16

LEMMA HighBit == ASSUME NEW t \in Byte PROVE t \div 128 \in {0, 1}
BY DEF Byte

LEMMA ByteOfBits == ASSUME NEW bits PROVE ByteOf(bits) \in Byte
BY DEF ByteOf, Byte

LEMMA BitsOfByte == ASSUME NEW w PROVE BitsOf(w) \in Flags
BY DEF BitsOf, Flags

LEMMA FlagNumbers == {C, V, Z, N, I, H} \subseteq 0 .. 7
BY DEF C, V, Z, N, I, H

LEMMA Whens == ASSUME NEW p, NEW flag \in 0 .. 7 PROVE When(p, flag) \in Flags
BY DEF When, Flags

(* What an instruction does to a byte and the flags *)
Outcome == [r : Byte, cc : Flags]

LEMMA Results ==
  ASSUME NEW r \in Int, NEW f \in Flags
  PROVE  Result(r, f) \in Outcome
BY DEF Result, Outcome, Byte

LEMMA SetsOfFlags ==
  ASSUME NEW f \in Flags, NEW p, NEW t, NEW r
  PROVE  /\ CLR_NZV(f) \in Flags /\ CLR_NZVC(f) \in Flags
         /\ CLR_HNZVC(f) \in Flags
         /\ SET_NZ8(r) \in Flags /\ SET_NZ16(r) \in Flags
         /\ SET_V8(p, t, r) \in Flags /\ SET_C8(r) \in Flags
         /\ SET_H(p, t, r) \in Flags /\ SET_FLAGS8(p, t, r) \in Flags
         /\ SET_FLAGS8I(r) \in Flags /\ SET_FLAGS8D(r) \in Flags
         /\ SET_V_SHIFT(f) \in Flags
<1>1. /\ SET_NZ8(r) \in Flags /\ SET_NZ16(r) \in Flags
      /\ SET_V8(p, t, r) \in Flags /\ SET_C8(r) \in Flags
      /\ SET_H(p, t, r) \in Flags
  <2>1. \A c, g : g \in {C, V, Z, N, H} => When(c, g) \in Flags
    BY Whens, FlagNumbers
  <2> HIDE DEF When, C, V, Z, N, H
  <2>2. \A f1, f2 : f1 \in Flags /\ f2 \in Flags => f1 \union f2 \in Flags
    BY DEF Flags
  <2> QED BY <2>1, <2>2 DEF SET_NZ8, SET_NZ16, SET_V8, SET_C8, SET_H
<1>2. SET_FLAGS8I(r) \in Flags /\ SET_FLAGS8D(r) \in Flags
  BY <1>1, FlagNumbers DEF SET_FLAGS8I, SET_FLAGS8D, When, Flags
<1>3. SET_V_SHIFT(f) \in Flags
  BY FlagNumbers DEF SET_V_SHIFT, When, Flags
<1> QED
  BY <1>1, <1>2, <1>3 DEF SET_FLAGS8, CLR_NZV, CLR_NZVC, CLR_HNZVC, Flags

LEMMA Carries == ASSUME NEW f PROVE Carry(f) \in {0, 1}
BY DEF Carry

LEMMA Unions ==
  ASSUME NEW f \in Flags, NEW g \in Flags PROVE f \union g \in Flags
BY DEF Flags

LEMMA SumsAndLogic ==
  ASSUME NEW p \in Byte, NEW t \in Byte, NEW carry \in {0, 1}, NEW f \in Flags
  PROVE  /\ Minus(p, t, carry, f) \in Outcome
         /\ Plus(p, t, carry, f) \in Outcome
         /\ Logic(p, f) \in Outcome
         /\ ShiftedRight(t, carry, f) \in Outcome
         /\ ShiftedLeft(t, carry, f) \in Outcome
         /\ Decimal(p, f) \in Outcome
<1>1. /\ Wrap(p - t - carry) \in Int /\ p + t + carry \in Int
      /\ 128 * carry + t \div 2 \in Int /\ 2 * t + carry \in Int /\ p \in Int
  BY DEF Byte, Wrap
<1>2. Minus(p, t, carry, f) \in Outcome
  BY <1>1, Results, SetsOfFlags, Unions DEF Minus
<1>3. Plus(p, t, carry, f) \in Outcome
  BY <1>1, Results, SetsOfFlags, Unions DEF Plus
<1>4. Logic(p, f) \in Outcome
  BY <1>1, Results, SetsOfFlags, Unions DEF Logic
<1>5. ShiftedRight(t, carry, f) \in Outcome
  <2> DEFINE r == 128 * carry + t \div 2
             g == CLR_NZVC(f) \union SET_NZ8(r) \union When(t % 2 = 1, C)
  <2>1. When(t % 2 = 1, C) \in Flags
    BY Whens, FlagNumbers
  <2>2. g \in Flags
    <3>1. CLR_NZVC(f) \in Flags /\ SET_NZ8(r) \in Flags
      BY SetsOfFlags
    <3> QED BY <2>1, <3>1, Unions
  <2> HIDE DEF g
  <2>3. r \in Int /\ SET_V_SHIFT(g) \in Flags
    BY <1>1, <2>2, SetsOfFlags
  <2>4. Result(r, SET_V_SHIFT(g)) \in Outcome
    BY <2>3, Results
  <2> QED BY <2>4 DEF ShiftedRight, g
<1>6. ShiftedLeft(t, carry, f) \in Outcome
  BY <1>1, Results, SetsOfFlags, Unions DEF ShiftedLeft
<1>7. Decimal(p, f) \in Outcome
  <2> DEFINE lsn == p % 16
             msn == p - lsn
             low == IF lsn > 9 \/ H \in f THEN 6 ELSE 0
             high == IF (msn > 128 /\ lsn > 9) \/ msn > 144 \/ C \in f THEN 96 ELSE 0
  <2>1. p + low + high \in Int
    BY DEF Byte
  <2> HIDE DEF low, high
  <2>2. Result(p + low + high, CLR_NZV(f) \union SET_NZ8(p + low + high)
                 \union SET_C8(p + low + high)) \in Outcome
    BY <2>1, Results, SetsOfFlags, Unions
  <2> QED BY <2>2 DEF Decimal, low, high
<1> QED BY <1>2, <1>3, <1>4, <1>5, <1>6, <1>7

AluColumns == (0 .. 11) \ {3}

LEMMA AluOutcome ==
  ASSUME NEW column \in AluColumns,
         NEW p \in Byte, NEW t \in Byte, NEW f \in Flags
  PROVE  Alu(column, p, t, f) \in Outcome
<1>1. Logic(Xor(p, t), f) \in Outcome
  BY ByteOfBits, SumsAndLogic DEF Xor
<1>2. /\ Logic(ByteOf(BitsOf(p) \cap BitsOf(t)), f) \in Outcome
      /\ Logic(ByteOf(BitsOf(p) \union BitsOf(t)), f) \in Outcome
  BY ByteOfBits, SumsAndLogic
<1>3. /\ \A c \in {0, 1} : /\ Minus(p, t, c, f) \in Outcome
                            /\ Plus(p, t, c, f) \in Outcome
      /\ Logic(p, f) \in Outcome /\ Logic(t, f) \in Outcome
  BY SumsAndLogic
<1>4. column \in {0, 1, 2, 4, 5, 6, 7, 8, 9, 10, 11}
  BY DEF AluColumns
<1> QED BY <1>1, <1>2, <1>3, <1>4, Carries DEF Alu

LEMMA ModifyOutcome ==
  ASSUME NEW column \in Modifying, NEW t \in Byte, NEW f \in Flags
  PROVE  Modify(column, t, f) \in Outcome
<1>1. Minus(0, t, 0, f) \in Outcome
  <2>1. 0 \in Byte
    BY DEF Byte
  <2> QED BY <2>1, SumsAndLogic
<1>2. [Logic(255 - t, f) EXCEPT !.cc = @ \union {C}] \in Outcome
  <2>1. 255 - t \in Byte
    BY DEF Byte
  <2>2. Logic(255 - t, f) \in Outcome
    BY <2>1, SumsAndLogic
  <2>3. Logic(255 - t, f).cc \union {C} \in Flags
    BY <2>2, FlagNumbers DEF Outcome, Flags
  <2> QED BY <2>2, <2>3 DEF Outcome
<1>3. \A bit \in {0, 1} : /\ ShiftedRight(t, bit, f) \in Outcome
                           /\ ShiftedLeft(t, bit, f) \in Outcome
  BY SumsAndLogic
<1>4. t \div 128 \in {0, 1}
  BY HighBit
<1>5. Result((t - 1) % 256, CLR_NZV(f) \union SET_FLAGS8D((t - 1) % 256)) \in Outcome
  <2>1. (t - 1) % 256 \in Int
    <3>1. t - 1 \in Int
      BY DEF Byte
    <3> QED BY <3>1, Remainders
  <2>2. CLR_NZV(f) \union SET_FLAGS8D((t - 1) % 256) \in Flags
    BY SetsOfFlags, Unions
  <2> QED BY <2>1, <2>2, Results
<1>6. Result((t + 1) % 256, CLR_NZV(f) \union SET_FLAGS8I((t + 1) % 256)) \in Outcome
  <2>1. (t + 1) % 256 \in Int
    <3>1. t + 1 \in Int
      BY DEF Byte
    <3> QED BY <3>1, Remainders
  <2>2. CLR_NZV(f) \union SET_FLAGS8I((t + 1) % 256) \in Flags
    BY SetsOfFlags, Unions
  <2> QED BY <2>1, <2>2, Results
<1>7. Result(t, CLR_NZVC(f) \union SET_NZ8(t)) \in Outcome
  <2>1. t \in Int
    BY DEF Byte
  <2> QED BY <2>1, Results, SetsOfFlags, Unions
<1>8. Result(0, CLR_NZVC(f) \union {Z}) \in Outcome
  <2>1. {Z} \in Flags
    BY FlagNumbers DEF Flags
  <2> QED BY <2>1, Results, SetsOfFlags, Unions
<1> QED
  BY <1>1, <1>2, <1>3, <1>4, <1>5, <1>6, <1>7, <1>8, Carries
     DEF Modify, Modifying

-----------------------------------------------------------------------------
(* Memory and the stack *)

Bus == [mem : [Mapped -> Byte], last : Byte,
        segment : [Positions -> SUBSET Segments]]

(* The registers and the bus hold what their widths allow. *)
MachineOK ==
  /\ pc \in Word /\ x \in Word /\ s \in Word
  /\ d \in Accumulators
  /\ cc \in Flags
  /\ bus \in Bus
  /\ wai_state \in BOOLEAN

LEMMA Reads ==
  ASSUME bus \in Bus, NEW addr
  PROVE  RM(addr) \in Byte /\ RM16(addr) \in Word
<1>1. \A a : RM(a) \in Byte
  BY DEF RM, Bus
<1> QED BY <1>1, Joined DEF RM16

LEMMA Latches ==
  ASSUME NEW addr \in DisplayAddresses
  PROVE  Position(addr) \in Positions /\ Segment(addr) \in Segments
<1>1. addr \in Int /\ 6 - ((addr \div 16) % 8) \in Int
  BY DEF DisplayAddresses
<1> QED BY <1>1 DEF Position, Segment, Positions, Segments

LEMMA Writes ==
  ASSUME NEW m \in Bus, NEW addr, NEW v \in Byte
  PROVE  Written(m, addr, v) \in Bus
<1>1. CASE addr \in Writable
  <2>1. [m EXCEPT !.mem[addr] = v, !.last = v] \in Bus
    BY <1>1, MachineAssumption DEF Bus
  <2>2. addr \notin DisplayAddresses
    BY <1>1, MachineAssumption
  <2> QED BY <1>1, <2>1, <2>2 DEF Written
<1>2. CASE addr \notin Writable /\ addr \in DisplayAddresses
  <2>1. Latched(m.segment, addr, v) \in [Positions -> SUBSET Segments]
    <3>1. m.segment \in [Positions -> SUBSET Segments]
      BY DEF Bus
    <3>2. Position(addr) \in Positions /\ Segment(addr) \in Segments
      BY <1>2, Latches
    <3> QED BY <3>1, <3>2 DEF Latched
  <2>2. [m EXCEPT !.segment = Latched(m.segment, addr, v), !.last = v] \in Bus
    BY <2>1 DEF Bus
  <2> QED BY <1>2, <2>2 DEF Written
<1>3. CASE addr \notin Writable /\ addr \notin DisplayAddresses
  BY <1>3 DEF Written
<1> QED BY <1>1, <1>2, <1>3

LEMMA WordWrites ==
  ASSUME NEW m \in Bus, NEW addr, NEW w \in Word
  PROVE  WM16(m, addr, w) \in Bus
BY Writes, Halves DEF WM16

Pushed == [bus : Bus, s : Word]

LEMMA Pushes ==
  ASSUME NEW m \in Pushed
  PROVE  /\ \A v \in Byte : PushByte(m, v) \in Pushed
         /\ \A w \in Word : PushWord(m, w) \in Pushed
<1>1. ASSUME NEW n \in Pushed, NEW v \in Byte PROVE PushByte(n, v) \in Pushed
  <2>1. n.s \in Word
    BY DEF Pushed
  <2>2. Wrap(n.s - 1) \in Word
    BY <2>1, Displaced
  <2>3. Written(n.bus, n.s, v) \in Bus
    BY Writes DEF Pushed
  <2> QED BY <2>2, <2>3 DEF PushByte, Pushed
<1> QED BY <1>1, Halves DEF PushWord

LEMMA Pulls ==
  ASSUME bus \in Bus, NEW i
  PROVE  Pulled(i) \in Byte /\ PulledWord(i) \in Word
BY Reads, Joined DEF Pulled, PulledWord

LEMMA Modes ==
  ASSUME MachineOK, NEW mode \in {IMM8, IMM16, DIRECT, INDEXED, EXTENDED, RELATIVE}
  PROVE  mode.ea \in Word /\ mode.next \in Word
<1>1. /\ Wrap(pc + 1) \in Word /\ Wrap(pc + 2) \in Word /\ Wrap(pc + 3) \in Word
  BY Displaced DEF MachineOK
<1>2. RM(Wrap(pc + 1)) \in Byte /\ RM16(Wrap(pc + 1)) \in Word
  BY Reads DEF MachineOK
<1>3. Wrap(x + RM(Wrap(pc + 1))) \in Word
  <2>1. x \in Int /\ RM(Wrap(pc + 1)) \in Int
    BY <1>2, Numbers DEF MachineOK
  <2>2. x + RM(Wrap(pc + 1)) \in Int
    BY <2>1
  <2> QED BY <2>2, Wraps
<1>4. Wrap(pc + 2 + SIGNED(RM(Wrap(pc + 1)))) \in Word
  <2>1. pc \in Int /\ RM(Wrap(pc + 1)) \in Int
    BY <1>2, Numbers DEF MachineOK
  <2>2. pc + 2 + SIGNED(RM(Wrap(pc + 1))) \in Int
    BY <2>1 DEF SIGNED
  <2> QED BY <2>2, Wraps
<1>5. /\ IMM8.ea \in Word /\ IMM8.next \in Word
      /\ IMM16.ea \in Word /\ IMM16.next \in Word
      /\ EXTENDED.ea \in Word /\ EXTENDED.next \in Word
  BY <1>1, <1>2 DEF IMM8, IMM16, EXTENDED
<1>6. /\ DIRECT.ea \in Word /\ DIRECT.next \in Word
      /\ INDEXED.ea \in Word /\ INDEXED.next \in Word
      /\ RELATIVE.ea \in Word /\ RELATIVE.next \in Word
  BY <1>1, <1>2, <1>3, <1>4, Numbers DEF DIRECT, INDEXED, RELATIVE
<1> QED BY <1>5, <1>6

-----------------------------------------------------------------------------
(* Every instruction leaves a machine *)

LEMMA Columns ==
  ASSUME NEW row \in 0 .. 15, NEW c \in 0 .. 15
  PROVE  (16 * row + c) % 16 = c /\ (16 * row + c) \div 16 = row
BY DEF Byte

LEMMA ModifyColumn ==
  ASSUME NEW first \in {64, 80, 96, 112}, Fetch({first + c : c \in Modifying})
  PROVE  Column \in Modifying
<1>1. PICK c \in Modifying : Opcode = first + c
  BY DEF Fetch
<1>2. PICK row \in 0 .. 15 : first = 16 * row
  <2>1. 64 = 16 * 4 /\ 80 = 16 * 5 /\ 96 = 16 * 6 /\ 112 = 16 * 7
    OBVIOUS
  <2> QED BY <2>1
<1>3. c \in 0 .. 15
  BY DEF Modifying
<1> QED BY <1>1, <1>2, <1>3, Columns DEF Column

LEMMA AluColumn ==
  ASSUME NEW first \in {128, 144, 160, 176, 192, 208, 224, 240},
         Fetch({first + c : c \in AluColumns})
  PROVE  Column \in AluColumns
<1>1. PICK c \in AluColumns : Opcode = first + c
  BY DEF Fetch
<1>2. PICK row \in 0 .. 15 : first = 16 * row
  <2>1. /\ 128 = 16 * 8 /\ 144 = 16 * 9 /\ 160 = 16 * 10 /\ 176 = 16 * 11
        /\ 192 = 16 * 12 /\ 208 = 16 * 13 /\ 224 = 16 * 14 /\ 240 = 16 * 15
    OBVIOUS
  <2> QED BY <2>1
<1>3. c \in 0 .. 15
  BY DEF AluColumns
<1> QED BY <1>1, <1>2, <1>3, Columns DEF Column

LEMMA AccumulatorsHold ==
  ASSUME MachineOK, NEW acc \in {"a", "b"}
  PROVE  /\ d[acc] \in Byte
         /\ \A v \in Byte : [d EXCEPT ![acc] = v] \in Accumulators
BY DEF MachineOK, Accumulators

LEMMA StateIsPushed ==
  ASSUME MachineOK
  PROVE  PushState \in Pushed
<1>1. Stack \in Pushed
  BY DEF Stack, Pushed, MachineOK
<1>2. PushWord(Stack, Wrap(pc + 1)) \in Pushed
  BY <1>1, Pushes, Displaced DEF MachineOK
<1>3. PushWord(PushWord(Stack, Wrap(pc + 1)), x) \in Pushed
  BY <1>2, Pushes DEF MachineOK
<1>4. d["a"] \in Byte /\ d["b"] \in Byte /\ ByteOf(cc) \in Byte
  BY AccumulatorsHold, ByteOfBits
<1> QED BY <1>3, <1>4, Pushes DEF PushState

LEMMA FirstRowsHold ==
  ASSUME MachineOK, FlagRow \/ AccumulatorRow \/ BranchRow \/ StackPointerRow
  PROVE  MachineOK'
<1>1. /\ Wrap(pc + 1) \in Word
      /\ Wrap(x + 1) \in Word /\ Wrap(x - 1) \in Word
      /\ Wrap(s + 1) \in Word /\ Wrap(s - 1) \in Word
  BY Displaced DEF MachineOK
<1>2. CASE FlagRow
  <2>1. x' \in Word
    BY <1>1, <1>2 DEF FlagRow, MachineOK
  <2>2. d' \in Accumulators
    BY <1>2, AccumulatorsHold, ByteOfBits DEF FlagRow, MachineOK
  <2>3. cc' \in Flags
    <3>1. BitsOf(d["a"]) \in Flags
      BY BitsOfByte
    <3>2. \A flags : cc \ flags \in Flags
      BY DEF MachineOK, Flags
    <3>3. When(x' = 0, Z) \in Flags /\ {V} \in Flags /\ {C} \in Flags /\ {I} \in Flags
      BY Whens, FlagNumbers DEF Flags
    <3>4. CASE Inherent({8, 9}) /\ cc' = (cc \ {Z}) \union When(x' = 0, Z)
      BY <3>2, <3>3, <3>4, Unions
    <3>5. CASE /\ Inherent({11, 13, 15})
               /\ cc' = cc \union {CASE Opcode = 11 -> V [] Opcode = 13 -> C
                                     [] Opcode = 15 -> I}
      <4>1. cc' = cc \union {V} \/ cc' = cc \union {C} \/ cc' = cc \union {I}
        BY <3>5 DEF Inherent, Fetch
      <4> QED BY <4>1, <3>3, Unions DEF MachineOK
    <3> QED BY <1>2, <3>1, <3>2, <3>4, <3>5 DEF FlagRow, MachineOK
  <2>4. pc' \in Word /\ UNCHANGED <<s, bus, wai_state>>
    BY <1>1, <1>2 DEF FlagRow, Inherent
  <2> QED BY <2>1, <2>2, <2>3, <2>4 DEF MachineOK
<1>3. CASE AccumulatorRow
  <2>1. TwoAccumulators(Opcode) \in Outcome
    <3>1. d["a"] \in Byte /\ d["b"] \in Byte /\ cc \in Flags
      BY AccumulatorsHold DEF MachineOK
    <3>2. /\ Minus(d["a"], d["b"], 0, cc) \in Outcome
          /\ Plus(d["a"], d["b"], 0, cc) \in Outcome
          /\ Logic(d["a"], cc) \in Outcome /\ Logic(d["b"], cc) \in Outcome
          /\ Decimal(d["a"], cc) \in Outcome
      BY <3>1, SumsAndLogic
    <3> QED
      BY <1>3, <3>2 DEF AccumulatorRow, Inherent, Fetch, TwoAccumulators
  <2>2. d' \in Accumulators
    BY <1>3, <2>1, AccumulatorsHold DEF AccumulatorRow, Outcome, MachineOK
  <2>3. cc' \in Flags
    BY <1>3, <2>1 DEF AccumulatorRow, Outcome
  <2> QED
    BY <1>1, <1>3, <2>2, <2>3 DEF AccumulatorRow, Inherent, MachineOK
<1>4. CASE BranchRow
  BY <1>4, Modes DEF BranchRow, MachineOK
<1>5. CASE StackPointerRow
  BY <1>1, <1>5 DEF StackPointerRow, Inherent, MachineOK
<1> QED BY <1>2, <1>3, <1>4, <1>5

LEMMA StackRowsHold ==
  ASSUME MachineOK, ByteStackRow \/ RTS \/ RTI \/ SWI \/ WAI
  PROVE  MachineOK'
<1>1. /\ Wrap(pc + 1) \in Word
      /\ Wrap(s + 1) \in Word /\ Wrap(s + 2) \in Word /\ Wrap(s + 7) \in Word
  BY Displaced DEF MachineOK
<1>2. \A i : Pulled(i) \in Byte /\ PulledWord(i) \in Word
  BY Pulls DEF MachineOK
<1>3. CASE ByteStackRow
  <2>1. Stack \in Pushed
    BY DEF Stack, Pushed, MachineOK
  <2>2. \A acc \in {"a", "b"} : PushByte(Stack, d[acc]) \in Pushed
    BY <2>1, AccumulatorsHold, Pushes
  <2>3. d' \in Accumulators
    BY <1>2, <1>3, AccumulatorsHold DEF ByteStackRow, MachineOK
  <2>4. bus' \in Bus /\ s' \in Word
    BY <1>1, <1>3, <2>2 DEF ByteStackRow, MachineOK, Pushed
  <2> QED BY <1>1, <1>3, <2>3, <2>4 DEF ByteStackRow, Inherent, MachineOK
<1>4. CASE RTS
  BY <1>1, <1>2, <1>4 DEF RTS, MachineOK
<1>5. CASE RTI
  <2>1. d' \in Accumulators
    <3>1. d' = [b |-> Pulled(2), a |-> Pulled(3)]
      BY <1>5 DEF RTI
    <3>2. [b |-> Pulled(2), a |-> Pulled(3)] \in [b : Byte, a : Byte]
      BY <1>2
    <3>3. \A r \in [b : Byte, a : Byte] : r \in [{"a", "b"} -> Byte]
      OBVIOUS
    <3> QED BY <3>1, <3>2, <3>3 DEF Accumulators
  <2> QED BY <1>1, <1>2, <1>5, <2>1, BitsOfByte DEF RTI, MachineOK
<1>6. CASE SWI
  <2>1. PushState \in Pushed
    BY StateIsPushed
  <2>2. pc' \in Word
    <3>1. \A addr : (IF addr \in Mapped THEN PushState.bus.mem[addr]
                     ELSE PushState.bus.last) \in Byte
      BY <2>1 DEF Pushed, Bus
    <3> QED BY <1>6, <3>1, Joined DEF SWI
  <2>3. cc' \in Flags
    <3>1. {I} \in Flags
      BY FlagNumbers DEF Flags
    <3> QED BY <1>6, <3>1, Unions DEF SWI, MachineOK
  <2>4. bus' \in Bus /\ s' \in Word
    BY <1>6, <2>1 DEF SWI, Pushed
  <2> QED BY <1>6, <2>2, <2>3, <2>4 DEF SWI, MachineOK
<1>7. CASE WAI
  <2>1. bus' \in Bus /\ s' \in Word
    BY <1>7, StateIsPushed DEF WAI, Pushed
  <2> QED BY <1>1, <1>7, <2>1 DEF WAI, Inherent, MachineOK
<1> QED BY <1>3, <1>4, <1>5, <1>6, <1>7

LEMMA ModifyHolds ==
  ASSUME MachineOK,
         ModifyARow \/ ModifyBRow \/ ModifyIndexedRow \/ ModifyExtendedRow
  PROVE  MachineOK'
<1>1. ASSUME NEW first \in {64, 80}, NEW acc \in {"a", "b"},
             ModifyAccumulator(first, acc)
      PROVE  MachineOK'
  <2>1. Modify(Column, d[acc], cc) \in Outcome
    <3>1. Column \in Modifying
      BY <1>1, ModifyColumn DEF ModifyAccumulator, Inherent
    <3> QED BY <3>1, AccumulatorsHold, ModifyOutcome DEF MachineOK
  <2>2. /\ cc' = Modify(Column, d[acc], cc).cc
        /\ d' = [d EXCEPT ![acc] = Modify(Column, d[acc], cc).r]
    BY <1>1 DEF ModifyAccumulator
  <2>3. d' \in Accumulators /\ cc' \in Flags
    BY <2>1, <2>2, AccumulatorsHold DEF Outcome
  <2>4. pc' \in Word
    BY <1>1, Displaced DEF ModifyAccumulator, Inherent, MachineOK
  <2> QED BY <1>1, <2>3, <2>4 DEF ModifyAccumulator, MachineOK
<1>2. ASSUME NEW first \in {96, 112}, NEW mode \in {INDEXED, EXTENDED},
             ModifyMemory(first, mode)
      PROVE  MachineOK'
  <2>1. mode.ea \in Word /\ mode.next \in Word
    BY Modes
  <2>2. Fetch({first + c : c \in Modifying}) =>
          Modify(Column, RM(mode.ea), cc) \in Outcome
    <3> SUFFICES ASSUME Fetch({first + c : c \in Modifying})
                 PROVE  Modify(Column, RM(mode.ea), cc) \in Outcome
      OBVIOUS
    <3>1. Column \in Modifying
      BY ModifyColumn
    <3>2. RM(mode.ea) \in Byte /\ cc \in Flags
      BY Reads DEF MachineOK
    <3> QED BY <3>1, <3>2, ModifyOutcome
  <2>3. Fetch({first + c : c \in Modifying}) =>
          Written(bus, mode.ea, Modify(Column, RM(mode.ea), cc).r) \in Bus
    BY <2>2, Writes DEF MachineOK, Outcome
  <2>4. cc' \in Flags /\ bus' \in Bus
    BY <1>2, <2>2, <2>3 DEF ModifyMemory, Outcome, MachineOK
  <2> QED BY <1>2, <2>1, <2>4 DEF ModifyMemory, MachineOK
<1> QED
  BY <1>1, <1>2 DEF ModifyARow, ModifyBRow, ModifyIndexedRow, ModifyExtendedRow

LEMMA AccumulatorHolds ==
  ASSUME MachineOK,
         NEW first \in {128, 144, 160, 176, 192, 208, 224, 240},
         NEW acc \in {"a", "b"},
         NEW mode \in {IMM8, DIRECT, INDEXED, EXTENDED},
         Accumulator(first, acc, mode)
  PROVE  MachineOK'
<1>1. mode.ea \in Word /\ mode.next \in Word
  BY Modes
<1>2. Alu(Column, d[acc], RM(mode.ea), cc) \in Outcome
  <2>1. Column \in AluColumns
    BY AluColumn DEF Accumulator, AluColumns
  <2> QED BY <2>1, AccumulatorsHold, Reads, AluOutcome DEF MachineOK
<1>3. d' \in Accumulators /\ cc' \in Flags
  BY <1>2, AccumulatorsHold DEF Accumulator, Outcome, MachineOK
<1>4. bus' \in Bus
  BY Writes, AccumulatorsHold DEF Accumulator, MachineOK
<1> QED BY <1>1, <1>3, <1>4 DEF Accumulator, MachineOK

LEMMA StackRowHolds ==
  ASSUME MachineOK, NEW first \in Int,
         NEW mode \in {IMM16, DIRECT, INDEXED, EXTENDED},
         NEW target \in {RELATIVE, DIRECT, INDEXED, EXTENDED},
         StackRow(first, mode, target)
  PROVE  MachineOK'
<1>1. /\ mode.ea \in Word /\ mode.next \in Word
      /\ target.ea \in Word /\ target.next \in Word
  BY Modes
<1>2. CASE CMPX(first, mode)
  <2>1. \A w : ComparedX(w, cc) \in Flags
    <3>1. \A p, g : g \in {N, Z} => When(p, g) \in Flags
      BY Whens, FlagNumbers
    <3>2. \A p, t, r : SET_V8(p, t, r) \in Flags
      BY SetsOfFlags DEF MachineOK
    <3>3. CLR_NZV(cc) \in Flags
      BY SetsOfFlags DEF MachineOK
    <3> TAKE w
    <3> PICK r : r = Wrap(High(x) - High(w))
      OBVIOUS
    <3>4. ComparedX(w, cc) = ((CLR_NZV(cc) \union When(r % 256 >= 128, N))
            \union SET_V8(High(x), High(w), r)) \union When(x = w, Z)
      BY DEF ComparedX
    <3>5. When(r % 256 >= 128, N) \in Flags /\ When(x = w, Z) \in Flags
      BY <3>1
    <3>6. SET_V8(High(x), High(w), r) \in Flags
      BY <3>2
    <3>7. CLR_NZV(cc) \union When(r % 256 >= 128, N) \in Flags
      BY <3>3, <3>5, Unions
    <3>8. (CLR_NZV(cc) \union When(r % 256 >= 128, N))
            \union SET_V8(High(x), High(w), r) \in Flags
      BY <3>6, <3>7, Unions
    <3> QED BY <3>4, <3>5, <3>8, Unions
  <2> QED BY <1>1, <1>2, <2>1 DEF CMPX, MachineOK
<1>3. CASE Call(first + 1, target)
  <2>1. PushWord(Stack, target.next) \in Pushed
    BY <1>1, Pushes DEF Stack, Pushed, MachineOK
  <2> QED BY <1>1, <1>3, <2>1 DEF Call, MachineOK, Pushed
<1>4. \A w : CLR_NZV(cc) \union SET_NZ16(w) \in Flags
  BY SetsOfFlags, Unions DEF MachineOK
<1>5. CASE LoadWord(first + 2, mode, s) /\ UNCHANGED x
  BY <1>1, <1>4, <1>5, Reads DEF LoadWord, MachineOK
<1>6. CASE StoreWord(first + 3, mode, s)
  BY <1>1, <1>4, <1>6, WordWrites DEF StoreWord, MachineOK
<1> QED BY <1>2, <1>3, <1>5, <1>6 DEF StackRow

LEMMA IndexRowHolds ==
  ASSUME MachineOK, NEW first \in Int,
         NEW mode \in {IMM16, DIRECT, INDEXED, EXTENDED}, IndexRow(first, mode)
  PROVE  MachineOK'
<1>1. mode.ea \in Word /\ mode.next \in Word
  BY Modes
<1>2. \A w : CLR_NZV(cc) \union SET_NZ16(w) \in Flags
  BY SetsOfFlags, Unions DEF MachineOK
<1>3. CASE LoadWord(first, mode, x) /\ UNCHANGED s
  BY <1>1, <1>2, <1>3, Reads DEF LoadWord, MachineOK
<1>4. CASE StoreWord(first + 1, mode, x)
  BY <1>1, <1>2, <1>4, WordWrites DEF StoreWord, MachineOK
<1> QED BY <1>3, <1>4 DEF IndexRow

LEMMA MachineSteps == MachineOK /\ [Next]_vars => MachineOK'
<1> SUFFICES ASSUME MachineOK, [Next]_vars PROVE MachineOK'
  OBVIOUS
<1>1. CASE \E length \in 1 .. 3 : Illegal(length)
  <2>1. PICK length \in 1 .. 3 : Illegal(length)
    BY <1>1
  <2>2. Wrap(pc + length) \in Word
    BY Displaced DEF MachineOK
  <2> QED BY <2>1, <2>2 DEF Illegal, MachineOK
<1>2. CASE FlagRow \/ AccumulatorRow \/ BranchRow \/ StackPointerRow
  BY <1>2, FirstRowsHold
<1>3. CASE ByteStackRow \/ RTS \/ RTI \/ SWI \/ WAI
  BY <1>3, StackRowsHold
<1>4. CASE ModifyARow \/ ModifyBRow \/ ModifyIndexedRow \/ ModifyExtendedRow
  BY <1>4, ModifyHolds
<1>5. CASE ImmediateARow \/ DirectARow \/ IndexedARow \/ ExtendedARow
  BY <1>5, AccumulatorHolds
     DEF ImmediateARow, DirectARow, IndexedARow, ExtendedARow
<1>6. CASE ImmediateBRow \/ DirectBRow \/ IndexedBRow \/ ExtendedBRow
  BY <1>6, AccumulatorHolds
     DEF ImmediateBRow, DirectBRow, IndexedBRow, ExtendedBRow
<1>7. CASE ImmediateSRow \/ DirectSRow \/ IndexedSRow \/ ExtendedSRow
  BY <1>7, StackRowHolds
     DEF ImmediateSRow, DirectSRow, IndexedSRow, ExtendedSRow
<1>8. CASE ImmediateXRow \/ DirectXRow \/ IndexedXRow \/ ExtendedXRow
  BY <1>8, IndexRowHolds
     DEF ImmediateXRow, DirectXRow, IndexedXRow, ExtendedXRow
<1>9. CASE UNCHANGED vars
  BY <1>9 DEF vars, MachineOK
<1> QED
  BY <1>1, <1>2, <1>3, <1>4, <1>5, <1>6, <1>7, <1>8, <1>9 DEF Next

LEMMA MachineBoots == Init => MachineOK
<1> SUFFICES ASSUME Init PROVE MachineOK
  OBVIOUS
<1>1. Boot(task) \in [pc : Word, x : Word, s : Word, d : Accumulators,
                      cc : Flags, mem : [Mapped -> Byte], code : SUBSET Word]
  BY MachineAssumption DEF Init
<1>2. bus \in Bus
  <2>1. PICK last \in LastWrites, segment \in Lamps :
          bus = [mem |-> Boot(task).mem, last |-> last, segment |-> segment]
    BY DEF Init
  <2>2. last \in Byte /\ segment \in [Positions -> SUBSET Segments]
    BY MachineAssumption
  <2> QED BY <1>1, <2>1, <2>2 DEF Bus
<1> QED BY <1>1, <1>2 DEF Init, MachineOK

(* Registers and memory hold bytes and words in every reachable state, whatever
   the program is: the handlers of cpu/6800ops.hxx leave nothing in a register
   that is wider than it. *)
THEOREM MachineStays == Spec => []MachineOK
BY MachineBoots, MachineSteps, PTL DEF Spec

-----------------------------------------------------------------------------
(* Which handlers an opcode has *)

LEMMA LowOpcodes ==
  ASSUME \/ FlagRow \/ AccumulatorRow \/ BranchRow
         \/ StackPointerRow \/ ByteStackRow \/ RTS \/ RTI \/ SWI \/ WAI
         \/ ModifyARow \/ ModifyBRow \/ ModifyIndexedRow \/ ModifyExtendedRow
  PROVE  Opcode < 128
<1>1. CASE FlagRow \/ AccumulatorRow \/ BranchRow \/ StackPointerRow
  BY <1>1 DEF FlagRow, AccumulatorRow, BranchRow, StackPointerRow, Inherent, Fetch
<1>2. CASE ByteStackRow \/ RTS \/ RTI \/ SWI \/ WAI
  BY <1>2 DEF ByteStackRow, RTS, RTI, SWI, WAI, Inherent, Fetch
<1>3. \A first \in {64, 80, 96, 112}, c \in Modifying : first + c < 128
  BY DEF Modifying
<1>4. CASE ModifyARow \/ ModifyBRow
  BY <1>3, <1>4
     DEF ModifyARow, ModifyBRow, ModifyAccumulator, Inherent, Fetch
<1>5. CASE ModifyIndexedRow \/ ModifyExtendedRow
  BY <1>3, <1>5 DEF ModifyIndexedRow, ModifyExtendedRow, ModifyMemory, Fetch
<1> QED BY <1>1, <1>2, <1>4, <1>5

LEMMA WordOpcodes ==
  ASSUME \/ ImmediateSRow \/ DirectSRow \/ IndexedSRow \/ ExtendedSRow
         \/ ImmediateXRow \/ DirectXRow \/ IndexedXRow \/ ExtendedXRow
  PROVE  Opcode \in {140, 141, 142, 143, 156, 157, 158, 159,
                     172, 173, 174, 175, 188, 189, 190, 191,
                     206, 207, 222, 223, 238, 239, 254, 255}
<1>1. ASSUME NEW first \in Int, NEW mode, NEW target, StackRow(first, mode, target)
      PROVE  Opcode \in {first, first + 1, first + 2, first + 3}
  BY <1>1 DEF StackRow, CMPX, Call, LoadWord, StoreWord, Fetch
<1>2. ASSUME NEW first \in Int, NEW mode, IndexRow(first, mode)
      PROVE  Opcode \in {first, first + 1}
  BY <1>2 DEF IndexRow, LoadWord, StoreWord, Fetch
<1>3. CASE ImmediateSRow \/ DirectSRow \/ IndexedSRow \/ ExtendedSRow
  BY <1>1, <1>3 DEF ImmediateSRow, DirectSRow, IndexedSRow, ExtendedSRow
<1>4. CASE ImmediateXRow \/ DirectXRow \/ IndexedXRow \/ ExtendedXRow
  BY <1>2, <1>4 DEF ImmediateXRow, DirectXRow, IndexedXRow, ExtendedXRow
<1> QED BY <1>3, <1>4

LEMMA IllegalAre ==
  ASSUME NEW length \in 1 .. 3, NEW code0 \in IllegalOpcodes(length)
  PROVE  \/ length = 1 /\ code0 \in {0, 2, 3, 4, 5, 18, 19, 20, 21, 24, 26, 28, 29,
                                     30, 31, 56, 58, 60, 61, 65, 66, 69, 75, 78,
                                     81, 82, 85, 91, 94}
         \/ length = 2 /\ code0 \in {97, 98, 101, 107, 131, 147, 163, 195, 211,
                                     227, 220, 221, 236, 237}
         \/ length = 3 /\ code0 \in {113, 114, 117, 123, 179, 243, 204, 205, 252,
                                     253}
<1>1. CASE length = 1
  BY <1>1 DEF IllegalOpcodes
<1>2. CASE length = 2
  BY <1>2 DEF IllegalOpcodes
<1>3. CASE length = 3
  BY <1>3 DEF IllegalOpcodes
<1> QED BY <1>1, <1>2, <1>3

-----------------------------------------------------------------------------
(* Sums and differences *)

(* The flags that the bits of a 16-bit result r set *)
LEMMA FlagBits ==
  ASSUME NEW f \in Flags, NEW g \in {{}, {H}}, NEW p, NEW t, NEW r,
         NEW cleared \in {CLR_NZVC(f), CLR_HNZVC(f)}
  PROVE  LET set == cleared \union SET_FLAGS8(p, t, r) \union g
         IN  /\ C \in set <=> (r \div 256) % 2 = 1
             /\ V \in set <=> (p \div 128 + t \div 128 + r \div 128 + r \div 256) % 2 = 1
             /\ N \in set <=> r % 256 >= 128
             /\ Z \in set <=> r % 256 = 0
<1>1. cleared \cap {C, V, N, Z} = {} /\ g \cap {C, V, N, Z} = {}
  BY DEF CLR_NZVC, CLR_HNZVC, C, V, N, Z, H
<1>2. /\ C \in SET_FLAGS8(p, t, r) <=> (r \div 256) % 2 = 1
      /\ V \in SET_FLAGS8(p, t, r) <=>
           (p \div 128 + t \div 128 + r \div 128 + r \div 256) % 2 = 1
      /\ N \in SET_FLAGS8(p, t, r) <=> r % 256 >= 128
      /\ Z \in SET_FLAGS8(p, t, r) <=> r % 256 = 0
  <2> DEFINE c == (r \div 256) % 2 = 1
             v == (p \div 128 + t \div 128 + r \div 128 + r \div 256) % 2 = 1
             n == r % 256 >= 128
             z == r % 256 = 0
  <2>1. SET_FLAGS8(p, t, r) = When(n, N) \union When(z, Z) \union When(v, V)
                                \union When(c, C)
    BY DEF SET_FLAGS8, SET_NZ8, SET_V8, SET_C8
  <2> HIDE DEF c, v, n, z
  <2>2. SET_FLAGS8(p, t, r) = (IF n THEN {N} ELSE {}) \union (IF z THEN {Z} ELSE {})
           \union (IF v THEN {V} ELSE {}) \union (IF c THEN {C} ELSE {})
    BY <2>1 DEF When
  <2>3. /\ C \in SET_FLAGS8(p, t, r) <=> c
        /\ V \in SET_FLAGS8(p, t, r) <=> v
        /\ N \in SET_FLAGS8(p, t, r) <=> n
        /\ Z \in SET_FLAGS8(p, t, r) <=> z
    BY <2>2 DEF C, V, N, Z
  <2> QED BY <2>3 DEF c, v, n, z
<1> QED BY <1>1, <1>2

(* What the bits of r say of an exact result, unsigned and signed *)
BitsSay(p, t, r, exact, signed) ==
  /\ (r \div 256) % 2 = 1 <=> exact \notin Byte
  /\ (p \div 128 + t \div 128 + r \div 128 + r \div 256) % 2 = 1
       <=> signed \notin -128 .. 127
  /\ r % 256 = exact % 256

LEMMA DifferenceBits ==
  ASSUME NEW p \in Byte, NEW t \in Byte, NEW b \in {0, 1}
  PROVE  BitsSay(p, t, Wrap(p - t - b), p - t - b, SIGNED(p) - SIGNED(t) - b)
<1> DEFINE r == Wrap(p - t - b)
<1>1. (r \div 256) % 2 = 1 <=> p - t - b \notin Byte
  BY DEF Wrap, Byte
<1>2. r % 256 = (p - t - b) % 256
  BY DEF Wrap, Byte
<1>3. (p \div 128 + t \div 128 + r \div 128 + r \div 256) % 2 = 1
        <=> SIGNED(p) - SIGNED(t) - b \notin -128 .. 127
  <2>1. CASE p >= t + b
    <3>1. r = p - t - b
      BY <2>1 DEF Wrap, Byte
    <3>2. p \div 128 = IF p >= 128 THEN 1 ELSE 0
      BY DEF Byte
    <3>3. t \div 128 = IF t >= 128 THEN 1 ELSE 0
      BY DEF Byte
    <3>4. r \div 128 = IF p - t - b >= 128 THEN 1 ELSE 0
      BY <2>1, <3>1 DEF Byte
    <3>5. r \div 256 = 0
      BY <2>1, <3>1 DEF Byte
    <3> HIDE DEF r
    <3> QED BY <2>1, <3>2, <3>3, <3>4, <3>5 DEF Byte, SIGNED
  <2>2. CASE ~(p >= t + b)
    <3>1. r = 65536 + (p - t - b)
      BY <2>2 DEF Wrap, Byte
    <3>2. p \div 128 = IF p >= 128 THEN 1 ELSE 0
      BY DEF Byte
    <3>3. t \div 128 = IF t >= 128 THEN 1 ELSE 0
      BY DEF Byte
    <3>4. r \div 128 = IF p - t - b >= -128 THEN 511 ELSE 510
      BY <2>2, <3>1 DEF Byte
    <3>5. r \div 256 = 255
      BY <2>2, <3>1 DEF Byte
    <3> HIDE DEF r
    <3> QED BY <2>2, <3>2, <3>3, <3>4, <3>5 DEF Byte, SIGNED
  <2> QED BY <2>1, <2>2
<1> QED BY <1>1, <1>2, <1>3 DEF BitsSay

LEMMA SumBits ==
  ASSUME NEW p \in Byte, NEW t \in Byte, NEW b \in {0, 1}
  PROVE  BitsSay(p, t, p + t + b, p + t + b, SIGNED(p) + SIGNED(t) + b)
<1>1. ((p + t + b) \div 256) % 2 = 1 <=> p + t + b \notin Byte
  BY DEF Byte
<1>2. (p \div 128 + t \div 128 + (p + t + b) \div 128 + (p + t + b) \div 256) % 2 = 1
        <=> SIGNED(p) + SIGNED(t) + b \notin -128 .. 127
  BY DEF Byte, SIGNED
<1> QED BY <1>1, <1>2 DEF BitsSay

(* The flags that sums and differences ask for *)
Asked(f, exact, signed) ==
  /\ C \in f <=> exact \notin Byte
  /\ V \in f <=> signed \notin -128 .. 127
  /\ N \in f <=> exact % 256 >= 128
  /\ Z \in f <=> exact % 256 = 0

LEMMA FlagsFromBits ==
  ASSUME NEW f \in Flags, NEW g \in {{}, {H}}, NEW p, NEW t, NEW r,
         NEW cleared \in {CLR_NZVC(f), CLR_HNZVC(f)},
         NEW exact, NEW signed, BitsSay(p, t, r, exact, signed)
  PROVE  Asked(cleared \union SET_FLAGS8(p, t, r) \union g, exact, signed)
<1> DEFINE set == cleared \union SET_FLAGS8(p, t, r) \union g
<1>1. /\ C \in set <=> (r \div 256) % 2 = 1
      /\ V \in set <=> (p \div 128 + t \div 128 + r \div 128 + r \div 256) % 2 = 1
      /\ N \in set <=> r % 256 >= 128
      /\ Z \in set <=> r % 256 = 0
  BY FlagBits
<1> HIDE DEF set
<1>2. Asked(set, exact, signed)
  <2>1. C \in set <=> exact \notin Byte
    BY <1>1 DEF BitsSay
  <2>2. V \in set <=> signed \notin -128 .. 127
    BY <1>1 DEF BitsSay
  <2>3. /\ N \in set <=> exact % 256 >= 128
        /\ Z \in set <=> exact % 256 = 0
    BY <1>1 DEF BitsSay
  <2> QED BY <2>1, <2>2, <2>3 DEF Asked
<1> QED BY <1>2 DEF set

LEMMA DifferencesExact ==
  ASSUME NEW p \in Byte, NEW t \in Byte, NEW b \in {0, 1}, NEW f \in Flags
  PROVE  Asked(Minus(p, t, b, f).cc, p - t - b, SIGNED(p) - SIGNED(t) - b)
<1> DEFINE r == Wrap(p - t - b)
<1>1. Minus(p, t, b, f).cc = CLR_NZVC(f) \union SET_FLAGS8(p, t, r) \union {}
  BY DEF Minus, Result
<1>2. BitsSay(p, t, r, p - t - b, SIGNED(p) - SIGNED(t) - b)
  BY DifferenceBits
<1> DEFINE exact == p - t - b
           signed == SIGNED(p) - SIGNED(t) - b
<1> HIDE DEF r, exact, signed
<1>3. Asked(CLR_NZVC(f) \union SET_FLAGS8(p, t, r) \union {}, exact, signed)
  BY <1>2, FlagsFromBits DEF exact, signed
<1> QED BY <1>1, <1>3 DEF exact, signed

LEMMA SumsExact ==
  ASSUME NEW p \in Byte, NEW t \in Byte, NEW b \in {0, 1}, NEW f \in Flags
  PROVE  Asked(Plus(p, t, b, f).cc, p + t + b, SIGNED(p) + SIGNED(t) + b)
<1> DEFINE r == p + t + b
<1>1. Plus(p, t, b, f).cc = CLR_HNZVC(f) \union SET_FLAGS8(p, t, r) \union SET_H(p, t, r)
  BY DEF Plus, Result
<1>2. SET_H(p, t, r) \in {{}, {H}}
  BY DEF SET_H, When
<1>3. BitsSay(p, t, r, p + t + b, SIGNED(p) + SIGNED(t) + b)
  BY SumBits
<1> DEFINE exact == p + t + b
           signed == SIGNED(p) + SIGNED(t) + b
<1> HIDE DEF r, exact, signed
<1>4. Asked(CLR_HNZVC(f) \union SET_FLAGS8(p, t, r) \union SET_H(p, t, r),
            exact, signed)
  BY <1>2, <1>3, FlagsFromBits DEF exact, signed
<1> QED BY <1>1, <1>4 DEF exact, signed

(* The operations of the additive columns *)
LEMMA AdditiveAlu ==
  ASSUME NEW column \in {0, 1, 2, 9, 11},
         NEW p \in Byte, NEW t \in Byte, NEW f \in Flags
  PROVE  LET carry == IF column \in {2, 9} THEN Carry(f) ELSE 0
         IN  Asked(Alu(column, p, t, f).cc,
                   IF column < 8 THEN p - t - carry ELSE p + t + carry,
                   IF column < 8 THEN SIGNED(p) - SIGNED(t) - carry
                   ELSE SIGNED(p) + SIGNED(t) + carry)
<1> DEFINE carry == IF column \in {2, 9} THEN Carry(f) ELSE 0
<1>1. carry \in {0, 1}
  BY Carries
<1>2. CASE column \in {0, 1, 2}
  <2>1. Alu(column, p, t, f) = Minus(p, t, carry, f)
    BY <1>2 DEF Alu
  <2>2. column < 8
    BY <1>2
  <2> HIDE DEF carry
  <2>3. Asked(Alu(column, p, t, f).cc, p - t - carry, SIGNED(p) - SIGNED(t) - carry)
    BY <1>1, <2>1, DifferencesExact
  <2> QED BY <2>2, <2>3 DEF carry
<1>3. CASE column \in {9, 11}
  <2>1. Alu(column, p, t, f) = Plus(p, t, carry, f)
    BY <1>3 DEF Alu
  <2>2. ~(column < 8)
    BY <1>3
  <2> HIDE DEF carry
  <2>3. Asked(Alu(column, p, t, f).cc, p + t + carry, SIGNED(p) + SIGNED(t) + carry)
    BY <1>1, <2>1, SumsExact
  <2> QED BY <2>2, <2>3 DEF carry
<1> QED BY <1>2, <1>3

LEMMA AdditiveRow ==
  ASSUME MachineOK, NEW row \in 8 .. 15, NEW acc, NEW mode,
         NEW i \in 0 .. 3, row % 4 = i, acc = IF row < 12 THEN "a" ELSE "b",
         mode = CASE i = 0 -> IMM8 [] i = 1 -> DIRECT
                  [] i = 2 -> INDEXED [] i = 3 -> EXTENDED,
         Accumulator(16 * row, acc, mode)
  PROVE  ExactFlags
<1> SUFFICES ASSUME Opcode \in Additive PROVE ExactFlags
  BY DEF ExactFlags
<1>1. PICK r \in 8 .. 15, c \in {0, 1, 2, 9, 11} : Opcode = 16 * r + c
  BY DEF Additive
<1>2. PICK c2 \in AluColumns : Opcode = 16 * row + c2
  BY DEF Accumulator, Fetch, AluColumns
<1>3. Opcode \div 16 = row /\ Column = c
  <2>1. c2 \in 0 .. 15 /\ c \in 0 .. 15 /\ row \in 0 .. 15 /\ r \in 0 .. 15
    BY DEF AluColumns
  <2>2. Opcode \div 16 = row /\ Opcode % 16 = c
    BY <1>1, <1>2, <2>1, Columns
  <2> QED BY <2>2 DEF Column
<1>4. acc = IF Opcode < 192 THEN "a" ELSE "b"
  BY <1>2 DEF AluColumns
<1>5. RM(mode.ea) = Operand((Opcode \div 16) % 4)
  BY <1>3 DEF Operand
<1> DEFINE p == d[acc]
           t == RM(mode.ea)
           carry == IF Column \in {2, 9} THEN Carry(cc) ELSE 0
<1>6. p \in Byte /\ t \in Byte /\ cc \in Flags
  BY AccumulatorsHold, Reads DEF MachineOK
<1>7. cc' = Alu(Column, p, t, cc).cc
  BY DEF Accumulator
<1>8. carry \in {0, 1}
  BY Carries
<1>9. Asked(cc', IF Column < 8 THEN p - t - carry ELSE p + t + carry,
            IF Column < 8 THEN SIGNED(p) - SIGNED(t) - carry
            ELSE SIGNED(p) + SIGNED(t) + carry)
  BY <1>3, <1>6, <1>7, AdditiveAlu
<1> HIDE DEF p, t, carry
<1> QED
  BY <1>4, <1>5, <1>9, ZenonT(60) DEF Asked, ExactFlags, p, t, carry

(* Sums and differences of bytes set their flags as the exact ones ask: the
   macros of cpu/m6800.cpp are right for all operands, carries and modes. *)
THEOREM FlagsAreExact == Spec => FlagsExact
<1>1. MachineOK /\ [Next]_vars => [ExactFlags]_vars
  <2> SUFFICES ASSUME MachineOK, Next PROVE ExactFlags
    OBVIOUS
  <2>1. Opcode \in Additive =>
          Opcode \in 128 .. 255 /\ Column \in {0, 1, 2, 9, 11}
    <3> SUFFICES ASSUME NEW r \in 8 .. 15, NEW c \in {0, 1, 2, 9, 11},
                        Opcode = 16 * r + c
                 PROVE  Opcode \in 128 .. 255 /\ Column \in {0, 1, 2, 9, 11}
      BY DEF Additive
    <3>1. Column = c
      BY Columns DEF Column
    <3>2. Opcode \in 128 .. 255
      OBVIOUS
    <3> QED BY <3>1, <3>2
  <2>2. CASE Opcode \notin Additive
    BY <2>2 DEF ExactFlags
  <2>3. CASE \E length \in 1 .. 3 : Illegal(length)
    BY <2>1, <2>2, <2>3, IllegalAre DEF Illegal, Fetch, Column
  <2>4. CASE \/ FlagRow \/ AccumulatorRow \/ BranchRow
             \/ StackPointerRow \/ ByteStackRow \/ RTS \/ RTI \/ SWI \/ WAI
             \/ ModifyARow \/ ModifyBRow \/ ModifyIndexedRow \/ ModifyExtendedRow
    BY <2>1, <2>2, <2>4, LowOpcodes
  <2>5. CASE \/ ImmediateSRow \/ DirectSRow \/ IndexedSRow \/ ExtendedSRow
             \/ ImmediateXRow \/ DirectXRow \/ IndexedXRow \/ ExtendedXRow
    BY <2>1, <2>2, <2>5, WordOpcodes DEF Column
  <2>6. CASE ImmediateARow \/ DirectARow \/ IndexedARow \/ ExtendedARow
    BY <2>6, AdditiveRow
       DEF ImmediateARow, DirectARow, IndexedARow, ExtendedARow
  <2>7. CASE ImmediateBRow \/ DirectBRow \/ IndexedBRow \/ ExtendedBRow
    BY <2>7, AdditiveRow
       DEF ImmediateBRow, DirectBRow, IndexedBRow, ExtendedBRow
  <2> QED BY <2>3, <2>4, <2>5, <2>6, <2>7 DEF Next
<1> QED BY <1>1, MachineBoots, MachineSteps, PTL DEF Spec, FlagsExact

-----------------------------------------------------------------------------
(* The table of the disassembler *)

(* The opcodes with an argument of a word, and of a byte *)
WordArgs ==
  {97, 98, 101, 107} \union 112 .. 127 \union {131, 140, 142, 143}
    \union 176 .. 191 \union {195} \union 204 .. 207 \union 240 .. 255

ByteArgs == (32 .. 47 \union 96 .. 111 \union 128 .. 175 \union 192 .. 239) \ WordArgs

LEMMA Args00 ==
  ASSUME NEW code0 \in 0 .. 63
  PROVE  /\ code0 \in 32 .. 47 => ArgsOf(code0) = "rel"
         /\ code0 \notin 32 .. 47 => ArgsOf(code0) \in {"inh", "sx1"}
<1> DEFINE part == IF code0 < 64 THEN Args00To3F ELSE IF code0 < 128 THEN Args40To7F
                   ELSE IF code0 < 192 THEN Args80ToBF ELSE ArgsC0ToFF
           kinds == {k \in DOMAIN part : code0 \in part[k]}
<1>0. part = Args00To3F
  OBVIOUS
<1>1. ArgsOf(code0) = IF kinds = {} THEN "inh" ELSE CHOOSE k \in kinds : TRUE
  BY DEF ArgsOf
<1> HIDE DEF part
<1>2. Rows(2, 2) = 32 .. 47
  BY DEF Rows
<1>3. /\ DOMAIN part = {"sx1", "rel"}
      /\ part["sx1"] = {18, 19} /\ part["rel"] = 32 .. 47
  BY <1>0, <1>2 DEF Args00To3F
<1>4. code0 \in 32 .. 47 => kinds = {"rel"}
  BY <1>3
<1>5. code0 \notin 32 .. 47 => kinds = {} \/ kinds = {"sx1"}
  BY <1>3
<1> HIDE DEF kinds
<1> QED BY <1>1, <1>4, <1>5

LEMMA Args40 ==
  ASSUME NEW code0 \in 64 .. 127
  PROVE  /\ code0 < 96 => ArgsOf(code0) = "inh"
         /\ code0 \in 96 .. 111 \ WordArgs => ArgsOf(code0) = "idx"
         /\ code0 \in 112 .. 127 => ArgsOf(code0) \in {"ext", "imd"}
         /\ code0 = 126 => ArgsOf(code0) = "ext"
<1> DEFINE part == IF code0 < 64 THEN Args00To3F ELSE IF code0 < 128 THEN Args40To7F
                   ELSE IF code0 < 192 THEN Args80ToBF ELSE ArgsC0ToFF
           kinds == {k \in DOMAIN part : code0 \in part[k]}
<1>0. part = Args40To7F
  OBVIOUS
<1>1. ArgsOf(code0) = IF kinds = {} THEN "inh" ELSE CHOOSE k \in kinds : TRUE
  BY DEF ArgsOf
<1> HIDE DEF part
<1>2. Rows(6, 6) = 96 .. 111 /\ Rows(7, 7) = 112 .. 127
  BY DEF Rows
<1>3. /\ Cells({6}, {1, 2, 5, 11}) = {97, 98, 101, 107}
      /\ Cells({7}, {1, 2, 5, 11}) = {113, 114, 117, 123}
  BY DEF Cells
<1>4. /\ DOMAIN part = {"idx", "imx", "ext", "imd"}
      /\ part["idx"] = 96 .. 111 \ {97, 98, 101, 107}
      /\ part["imx"] = {97, 98, 101, 107}
      /\ part["ext"] = 112 .. 127 \ {113, 114, 117, 123}
      /\ part["imd"] = {113, 114, 117, 123}
  BY <1>0, <1>2, <1>3 DEF Args40To7F
<1>5. code0 < 96 => kinds = {}
  BY <1>4
<1>6. code0 \in 96 .. 111 \ WordArgs => kinds = {"idx"}
  BY <1>4 DEF WordArgs
<1>7. code0 \in 112 .. 127 => kinds = {"ext"} \/ kinds = {"imd"}
  BY <1>4
<1>8. code0 = 126 => kinds = {"ext"}
  BY <1>4
<1> HIDE DEF kinds
<1> QED BY <1>1, <1>5, <1>6, <1>7, <1>8

LEMMA Args80 ==
  ASSUME NEW code0 \in 128 .. 191
  PROVE  /\ code0 \in 128 .. 143 \ WordArgs => ArgsOf(code0) \in {"imb", "rel"}
         /\ code0 = 141 => ArgsOf(code0) = "rel"
         /\ code0 \in {131, 140, 142, 143} => ArgsOf(code0) = "imw"
         /\ code0 \in 144 .. 175 => ArgsOf(code0) \in {"dir", "idx"}
         /\ code0 \in 176 .. 191 => ArgsOf(code0) = "ext"
<1> DEFINE part == IF code0 < 64 THEN Args00To3F ELSE IF code0 < 128 THEN Args40To7F
                   ELSE IF code0 < 192 THEN Args80ToBF ELSE ArgsC0ToFF
           kinds == {k \in DOMAIN part : code0 \in part[k]}
<1>0. part = Args80ToBF
  OBVIOUS
<1>1. ArgsOf(code0) = IF kinds = {} THEN "inh" ELSE CHOOSE k \in kinds : TRUE
  BY DEF ArgsOf
<1> HIDE DEF part
<1>2. /\ Rows(8, 8) = 128 .. 143 /\ Rows(9, 9) = 144 .. 159
      /\ Rows(10, 10) = 160 .. 175 /\ Rows(11, 11) = 176 .. 191
  BY DEF Rows
<1>3. Cells({8}, {3, 12, 14, 15}) = {131, 140, 142, 143}
  BY DEF Cells
<1>4. /\ DOMAIN part = {"imb", "imw", "rel", "dir", "idx", "ext"}
      /\ part["imb"] = 128 .. 143 \ ({131, 140, 142, 143} \union {141})
      /\ part["imw"] = {131, 140, 142, 143}
      /\ part["rel"] = {141}
      /\ part["dir"] = 144 .. 159
      /\ part["idx"] = 160 .. 175
      /\ part["ext"] = 176 .. 191
  BY <1>0, <1>2, <1>3 DEF Args80ToBF
<1>5. code0 \in 128 .. 143 \ WordArgs => kinds = {"imb"} \/ kinds = {"rel"}
  BY <1>4 DEF WordArgs
<1>6. code0 = 141 => kinds = {"rel"}
  BY <1>4
<1>7. code0 \in {131, 140, 142, 143} => kinds = {"imw"}
  BY <1>4
<1>8. code0 \in 144 .. 175 => kinds = {"dir"} \/ kinds = {"idx"}
  BY <1>4
<1>9. code0 \in 176 .. 191 => kinds = {"ext"}
  BY <1>4
<1> HIDE DEF kinds
<1> QED BY <1>1, <1>5, <1>6, <1>7, <1>8, <1>9

LEMMA ArgsC0 ==
  ASSUME NEW code0 \in 192 .. 255
  PROVE  /\ code0 \in 192 .. 207 \ WordArgs => ArgsOf(code0) = "imb"
         /\ code0 \in {195} \union 204 .. 207 => ArgsOf(code0) = "imw"
         /\ code0 \in 208 .. 239 => ArgsOf(code0) \in {"dir", "idx"}
         /\ code0 \in 240 .. 255 => ArgsOf(code0) = "ext"
<1> DEFINE part == IF code0 < 64 THEN Args00To3F ELSE IF code0 < 128 THEN Args40To7F
                   ELSE IF code0 < 192 THEN Args80ToBF ELSE ArgsC0ToFF
           kinds == {k \in DOMAIN part : code0 \in part[k]}
<1>0. part = ArgsC0ToFF
  OBVIOUS
<1>1. ArgsOf(code0) = IF kinds = {} THEN "inh" ELSE CHOOSE k \in kinds : TRUE
  BY DEF ArgsOf
<1> HIDE DEF part
<1>2. /\ Rows(12, 12) = 192 .. 207 /\ Rows(13, 13) = 208 .. 223
      /\ Rows(14, 14) = 224 .. 239 /\ Rows(15, 15) = 240 .. 255
  BY DEF Rows
<1>3. Cells({12}, {3} \union 12 .. 15) = {195, 204, 205, 206, 207}
  <2>1. {3} \union 12 .. 15 = {3, 12, 13, 14, 15}
    OBVIOUS
  <2> QED BY <2>1 DEF Cells
<1>4. /\ DOMAIN part = {"imb", "imw", "dir", "idx", "ext"}
      /\ part["imb"] = 192 .. 207 \ {195, 204, 205, 206, 207}
      /\ part["imw"] = {195, 204, 205, 206, 207}
      /\ part["dir"] = 208 .. 223
      /\ part["idx"] = 224 .. 239
      /\ part["ext"] = 240 .. 255
  BY <1>0, <1>2, <1>3 DEF ArgsC0ToFF
<1>5. code0 \in 192 .. 207 \ WordArgs => kinds = {"imb"}
  BY <1>4 DEF WordArgs
<1>6. code0 \in {195} \union 204 .. 207 => kinds = {"imw"}
  BY <1>4
<1>7. code0 \in 208 .. 239 => kinds = {"dir"} \/ kinds = {"idx"}
  BY <1>4
<1>8. code0 \in 240 .. 255 => kinds = {"ext"}
  BY <1>4
<1> HIDE DEF kinds
<1> QED BY <1>1, <1>5, <1>6, <1>7, <1>8

(* The length that the disassembler gives to an opcode that the 6800 has *)
LEMMA Lengths ==
  ASSUME NEW code0 \in Byte \ {97, 98, 101, 107}
  PROVE  ArgsLength(ArgsOf(code0)) =
           IF code0 \in WordArgs THEN 3 ELSE IF code0 \in ByteArgs THEN 2 ELSE 1
<1>1. CASE code0 \in 0 .. 63
  <2>1. code0 \notin WordArgs /\ (code0 \in ByteArgs <=> code0 \in 32 .. 47)
    BY <1>1 DEF WordArgs, ByteArgs
  <2> QED BY <1>1, <2>1, Args00 DEF ArgsLength
<1>2. CASE code0 \in 64 .. 127
  <2>1. /\ code0 \in WordArgs <=> code0 \in 112 .. 127
        /\ code0 \in ByteArgs <=> code0 \in 96 .. 111
    BY <1>2 DEF WordArgs, ByteArgs
  <2>2. code0 < 96 \/ code0 \in 96 .. 111 \/ code0 \in 112 .. 127
    BY <1>2
  <2> QED BY <1>2, <2>1, <2>2, Args40 DEF ArgsLength
<1>3. CASE code0 \in 128 .. 191
  <2>1. /\ code0 \in WordArgs <=> code0 \in {131, 140, 142, 143} \union 176 .. 191
        /\ code0 \in ByteArgs <=> code0 \in 128 .. 175 \ {131, 140, 142, 143}
    BY <1>3 DEF WordArgs, ByteArgs
  <2> QED BY <1>3, <2>1, Args80 DEF ArgsLength
<1>4. CASE code0 \in 192 .. 255
  <2>1. /\ code0 \in WordArgs <=> code0 \in {195} \union 204 .. 207 \union 240 .. 255
        /\ code0 \in ByteArgs <=> code0 \in 192 .. 239 \ ({195} \union 204 .. 207)
    BY <1>4 DEF WordArgs, ByteArgs
  <2> QED BY <1>4, <2>1, ArgsC0 DEF ArgsLength
<1> QED BY <1>1, <1>2, <1>3, <1>4 DEF Byte

-----------------------------------------------------------------------------
(* Instructions end where their lines end *)

OpcodeLength(code0) ==
  IF code0 \in WordArgs THEN 3 ELSE IF code0 \in ByteArgs THEN 2 ELSE 1

LEMMA ValidLengths ==
  ASSUME NEW code0 \in Byte, code0 \in Valid
  PROVE  /\ code0 \notin {97, 98, 101, 107, 131, 195}
         /\ InstructionLength(code0) = OpcodeLength(code0)
<1>1. code0 \notin {97, 98, 101, 107}
  <2>1. {97, 98, 101, 107} \subseteq Cells(4 .. 7, {1, 2, 5, 11})
    <3>1. /\ 97 = 16 * 6 + 1 /\ 98 = 16 * 6 + 2 /\ 101 = 16 * 6 + 5
          /\ 107 = 16 * 6 + 11 /\ 6 \in 4 .. 7
      OBVIOUS
    <3> QED BY <3>1 DEF Cells
  <2>2. code0 \in 64 .. 127 => code0 \notin Valid00To3F \union Valid80ToBF \union ValidC0ToFF
    BY DEF Valid00To3F, Valid80ToBF, ValidC0ToFF, Rows
  <2> QED BY <2>1, <2>2 DEF Valid, Valid40To7F
<1>2. code0 # 131
  <2>1. 131 \in Cells(8 .. 11, {3})
    <3>1. 131 = 16 * 8 + 3 /\ 8 \in 8 .. 11
      OBVIOUS
    <3> QED BY <3>1 DEF Cells
  <2>2. 131 \notin Valid00To3F \union Valid40To7F \union ValidC0ToFF
    BY DEF Valid00To3F, Valid40To7F, ValidC0ToFF, Rows
  <2> QED BY <2>1, <2>2 DEF Valid, Valid80ToBF
<1>3. code0 # 195
  <2>1. 195 \in Cells(12 .. 15, {3})
    <3>1. 195 = 16 * 12 + 3 /\ 12 \in 12 .. 15
      OBVIOUS
    <3> QED BY <3>1 DEF Cells
  <2>2. 195 \notin Valid00To3F \union Valid40To7F \union Valid80ToBF
    BY DEF Valid00To3F, Valid40To7F, Valid80ToBF, Rows
  <2> QED BY <2>1, <2>2 DEF Valid, ValidC0ToFF
<1>4. InstructionLength(code0) = OpcodeLength(code0)
  BY <1>1, Lengths DEF InstructionLength, OpcodeLength
<1> QED BY <1>1, <1>2, <1>3, <1>4

LEMMA OpcodeIsByte == ASSUME MachineOK PROVE Opcode \in Byte
BY Reads DEF MachineOK, Opcode

(* An instruction that goes on behind itself *)
LEMMA GoesOn ==
  ASSUME MachineOK, NEW n, pc' = Wrap(pc + n),
         Opcode \in Valid => OpcodeLength(Opcode) = n,
         Opcode \notin Transfers
  PROVE  EndsAsShown
<1>1. Opcode \in Valid => pc' = Wrap(pc + InstructionLength(Opcode))
  BY OpcodeIsByte, ValidLengths
<1> QED
  BY <1>1 DEF EndsAsShown, Transfers, IsSubroutine, IsReturn

LEMMA IllegalGoesOn ==
  ASSUME MachineOK, \E length \in 1 .. 3 : Illegal(length)
  PROVE  EndsAsShown
<1>1. PICK length \in 1 .. 3 : Illegal(length)
  OBVIOUS
<1>2. Opcode \in IllegalOpcodes(length) /\ pc' = Wrap(pc + length)
  BY <1>1 DEF Illegal, Fetch
<1>3. Opcode \in Valid => Opcode \notin {97, 98, 101, 107, 131, 195}
  BY OpcodeIsByte, ValidLengths
<1>4. Opcode \in Valid => OpcodeLength(Opcode) = length
  BY <1>2, <1>3, IllegalAre DEF OpcodeLength, WordArgs, ByteArgs
<1>5. Opcode \notin Transfers
  BY <1>2, IllegalAre DEF Transfers
<1> QED BY <1>2, <1>4, <1>5, GoesOn

LEMMA InherentGoesOn ==
  ASSUME MachineOK, NEW opcodes, Inherent(opcodes),
         \A o \in opcodes : OpcodeLength(o) = 1 /\ o \notin Transfers
  PROVE  EndsAsShown
BY GoesOn DEF Inherent, Fetch

LEMMA InherentRowsGoOn ==
  ASSUME MachineOK,
         \/ FlagRow \/ AccumulatorRow \/ StackPointerRow \/ ByteStackRow \/ WAI
         \/ ModifyARow \/ ModifyBRow
  PROVE  EndsAsShown
<1>1. \A o \in 1 .. 31 \union 48 .. 55 \union {62} \union 64 .. 95 :
         OpcodeLength(o) = 1 /\ o \notin Transfers
  BY DEF OpcodeLength, WordArgs, ByteArgs, Transfers
<1>2. \A first \in {64, 80}, c \in Modifying : first + c \in 64 .. 95
  BY DEF Modifying
<1>3. CASE FlagRow \/ AccumulatorRow
  <2>1. \E opcodes \in SUBSET (1 .. 31) : Inherent(opcodes)
    BY <1>3 DEF FlagRow, AccumulatorRow
  <2> QED BY <1>1, <2>1, InherentGoesOn
<1>4. CASE StackPointerRow \/ ByteStackRow
  <2>1. \E opcodes \in SUBSET (48 .. 55) : Inherent(opcodes)
    BY <1>4 DEF StackPointerRow, ByteStackRow
  <2> QED BY <1>1, <2>1, InherentGoesOn
<1>5. CASE WAI
  <2>1. Inherent({62})
    BY <1>5 DEF WAI
  <2> QED BY <1>1, <2>1, InherentGoesOn
<1>6. CASE ModifyARow \/ ModifyBRow
  <2>1. PICK first \in {64, 80} : Inherent({first + c : c \in Modifying})
    BY <1>6 DEF ModifyARow, ModifyBRow, ModifyAccumulator
  <2> QED BY <1>1, <1>2, <2>1, InherentGoesOn
<1> QED BY <1>3, <1>4, <1>5, <1>6

LEMMA WrapsTwice ==
  ASSUME NEW w \in Word
  PROVE  /\ Wrap(Wrap(w + 1) + 1) = Wrap(w + 2)
         /\ Wrap(Wrap(w - 1) - 1) = Wrap(w - 2)
         /\ Wrap(w - 1) # w
<1>1. CASE 1 <= w /\ w <= 65534
  <2>1. w + 1 \in Word /\ w - 1 \in Word /\ w - 1 # w
    BY <1>1, Words16
  <2>2. Wrap(w + 1) = w + 1 /\ Wrap(w - 1) = w - 1
    BY <2>1, Wraps, Words16
  <2>3. w + 1 + 1 = w + 2 /\ w - 1 - 1 = w - 2
    BY Words16
  <2> QED BY <2>1, <2>2, <2>3
<1>2. CASE w = 0
  BY <1>2 DEF Wrap
<1>3. CASE w = 65535
  BY <1>3 DEF Wrap
<1>4. w \in Int /\ ((1 <= w /\ w <= 65534) \/ w = 0 \/ w = 65535)
  BY Words16
<1> QED BY <1>1, <1>2, <1>3, <1>4

(* Where the line of a branch or an absolute jump points *)
LEMMA RelativeShown ==
  ASSUME MachineOK, Opcode \in 32 .. 47 \union {141}
  PROVE  RELATIVE.ea = Wrap(ShownTarget(Opcode, pc, RM(Wrap(pc + 1)), RM(Wrap(pc + 2))))
<1>1. ArgsOf(Opcode) = "rel"
  BY Args00, Args80
<1> DEFINE first == RM(Wrap(pc + 1))
           displacement == IF first >= 128 THEN first - 256 ELSE first
<1>2. ShownTarget(Opcode, pc, first, RM(Wrap(pc + 2))) = pc + displacement + 2
  BY <1>1 DEF ShownTarget
<1>3. pc \in Int /\ first \in Int
  BY Reads, Numbers DEF MachineOK
<1>4. RELATIVE.ea = Wrap(pc + 2 + displacement)
  BY DEF RELATIVE, SIGNED
<1>5. pc + 2 + displacement = pc + displacement + 2
  <2> HIDE DEF first
  <2> QED BY <1>3
<1> QED BY <1>2, <1>4, <1>5

LEMMA ExtendedShown ==
  ASSUME MachineOK, Opcode \in {126, 189}
  PROVE  EXTENDED.ea = Wrap(ShownTarget(Opcode, pc, RM(Wrap(pc + 1)), RM(Wrap(pc + 2))))
<1>1. ArgsOf(Opcode) = "ext"
  BY Args40, Args80
<1>2. ShownTarget(Opcode, pc, RM(Wrap(pc + 1)), RM(Wrap(pc + 2)))
        = 256 * RM(Wrap(pc + 1)) + RM(Wrap(pc + 2))
  BY <1>1 DEF ShownTarget
<1>3. EXTENDED.ea = 256 * RM(Wrap(pc + 1)) + RM(Wrap(pc + 2))
  BY WrapsTwice DEF EXTENDED, RM16, MachineOK
<1>4. EXTENDED.ea \in Word
  BY Modes
<1>5. \A w \in Word : Wrap(w) = w
  BY Numbers, Wraps
<1> QED BY <1>2, <1>3, <1>4, <1>5

LEMMA BranchEnds == ASSUME MachineOK, BranchRow PROVE EndsAsShown
<1>1. Opcode \in 32 .. 47 /\ pc' \in {RELATIVE.ea, RELATIVE.next}
  BY DEF BranchRow, Fetch
<1>2. OpcodeLength(Opcode) = 2
  BY <1>1 DEF OpcodeLength, WordArgs, ByteArgs
<1>3. Opcode \in Valid => RELATIVE.next = Wrap(pc + InstructionLength(Opcode))
  BY <1>2, OpcodeIsByte, ValidLengths DEF RELATIVE
<1>4. /\ Opcode \in Transfers /\ Opcode \notin {126, 141, 189}
      /\ ~IsSubroutine(Opcode) /\ ~IsReturn(Opcode)
  BY <1>1 DEF Transfers, IsSubroutine, IsReturn
<1> QED BY <1>1, <1>3, <1>4, RelativeShown DEF EndsAsShown

LEMMA ReturnEnds == ASSUME MachineOK, RTS \/ RTI \/ SWI PROVE EndsAsShown
<1>1. Opcode \in {57, 59, 63}
  BY DEF RTS, RTI, SWI, Fetch
<1>2. IsReturn(Opcode) => s' = Wrap(s + (IF Opcode = 57 THEN 2 ELSE 7))
  BY <1>1 DEF IsReturn, RTS, RTI, SWI, Fetch
<1>3. /\ Opcode \in Transfers /\ Opcode \notin 32 .. 47
      /\ Opcode \notin {126, 141, 189} /\ ~IsSubroutine(Opcode)
  BY <1>1 DEF Transfers, IsSubroutine
<1> QED BY <1>2, <1>3 DEF EndsAsShown

LEMMA ModifyMemoryEnds ==
  ASSUME MachineOK, ModifyIndexedRow \/ ModifyExtendedRow
  PROVE  EndsAsShown
<1>1. CASE ModifyIndexedRow
  <2>1. CASE Fetch({110})
    <3>1. /\ Opcode = 110 /\ Opcode \in Transfers
      BY <2>1 DEF Fetch, Transfers
    <3> QED BY <3>1 DEF EndsAsShown, IsSubroutine, IsReturn
  <2>2. CASE Fetch({96 + c : c \in Modifying}) /\ pc' = INDEXED.next
    <3>1. \A c \in Modifying : OpcodeLength(96 + c) = 2 /\ 96 + c \notin Transfers
      BY DEF Modifying, OpcodeLength, WordArgs, ByteArgs, Transfers
    <3>2. pc' = Wrap(pc + 2)
      BY <2>2 DEF INDEXED
    <3> QED BY <2>2, <3>1, <3>2, GoesOn DEF Fetch
  <2> QED BY <1>1, <2>1, <2>2 DEF ModifyIndexedRow, ModifyMemory
<1>2. CASE ModifyExtendedRow
  <2>1. CASE Fetch({126}) /\ pc' = EXTENDED.ea
    <3>1. /\ Opcode = 126 /\ Opcode \in Transfers
      BY <2>1 DEF Fetch, Transfers
    <3> QED BY <2>1, <3>1, ExtendedShown DEF EndsAsShown, IsSubroutine, IsReturn
  <2>2. CASE Fetch({112 + c : c \in Modifying}) /\ pc' = EXTENDED.next
    <3>1. \A c \in Modifying : OpcodeLength(112 + c) = 3 /\ 112 + c \notin Transfers
      BY DEF Modifying, OpcodeLength, WordArgs, ByteArgs, Transfers
    <3>2. pc' = Wrap(pc + 3)
      BY <2>2 DEF EXTENDED
    <3> QED BY <2>2, <3>1, <3>2, GoesOn DEF Fetch
  <2> QED BY <1>2, <2>1, <2>2 DEF ModifyExtendedRow, ModifyMemory
<1> QED BY <1>1, <1>2

LEMMA AccumulatorGoesOn ==
  ASSUME MachineOK,
         \/ ImmediateARow \/ DirectARow \/ IndexedARow \/ ExtendedARow
         \/ ImmediateBRow \/ DirectBRow \/ IndexedBRow \/ ExtendedBRow
  PROVE  EndsAsShown
<1>1. \A first \in {128, 144, 160, 176, 192, 208, 224, 240}, c \in AluColumns :
        /\ first + c \notin Transfers
        /\ first + c \notin {131, 195}
        /\ OpcodeLength(first + c) = IF first \in {176, 240} THEN 3 ELSE 2
  BY DEF AluColumns, OpcodeLength, WordArgs, ByteArgs, Transfers
<1>2. ASSUME NEW first \in {128, 144, 160, 176, 192, 208, 224, 240},
             NEW acc, NEW mode, Accumulator(first, acc, mode),
             mode.next = Wrap(pc + IF first \in {176, 240} THEN 3 ELSE 2)
      PROVE  EndsAsShown
  <2>1. PICK c \in AluColumns : Opcode = first + c
    BY <1>2 DEF Accumulator, Fetch, AluColumns
  <2>2. pc' = mode.next
    BY <1>2 DEF Accumulator
  <2> QED BY <1>1, <1>2, <2>1, <2>2, GoesOn
<1>3. /\ IMM8.next = Wrap(pc + 2) /\ DIRECT.next = Wrap(pc + 2)
      /\ INDEXED.next = Wrap(pc + 2) /\ EXTENDED.next = Wrap(pc + 3)
  BY DEF IMM8, DIRECT, INDEXED, EXTENDED
<1>4. CASE ImmediateARow \/ DirectARow \/ IndexedARow \/ ExtendedARow
  BY <1>2, <1>3, <1>4 DEF ImmediateARow, DirectARow, IndexedARow, ExtendedARow
<1>5. CASE ImmediateBRow \/ DirectBRow \/ IndexedBRow \/ ExtendedBRow
  BY <1>2, <1>3, <1>5 DEF ImmediateBRow, DirectBRow, IndexedBRow, ExtendedBRow
<1> QED BY <1>4, <1>5

(* What a call leaves on the stack *)
LEMMA WordPushed ==
  ASSUME MachineOK, NEW w \in Word
  PROVE  LET m == PushWord(Stack, w)
         IN  /\ m.s = Wrap(s - 2)
             /\ {s, Wrap(s - 1)} \subseteq Writable =>
                  256 * m.bus.mem[Wrap(s - 1)] + m.bus.mem[s] = w
<1> DEFINE m == PushWord(Stack, w)
           one == Written(bus, s, Low(w))
           two == Written(one, Wrap(s - 1), High(w))
<1>1. m = [bus |-> two, s |-> Wrap(Wrap(s - 1) - 1)]
  BY DEF PushWord, PushByte, Stack
<1>2. m.s = Wrap(s - 2)
  BY <1>1, WrapsTwice DEF MachineOK
<1>3. ASSUME {s, Wrap(s - 1)} \subseteq Writable
      PROVE  256 * m.bus.mem[Wrap(s - 1)] + m.bus.mem[s] = w
  <2>1. Wrap(s - 1) # s
    BY WrapsTwice DEF MachineOK
  <2>2. {s, Wrap(s - 1)} \subseteq Mapped \ DisplayAddresses
    BY <1>3, MachineAssumption
  <2>3. one.mem = [bus.mem EXCEPT ![s] = Low(w)] /\ one \in Bus
    <3>1. Low(w) \in Byte
      BY Halves
    <3> QED BY <1>3, <2>2, <3>1, Writes DEF Written, MachineOK, Bus
  <2> HIDE DEF one
  <2>4. two.mem = [one.mem EXCEPT ![Wrap(s - 1)] = High(w)]
    BY <1>3, <2>2, <2>3 DEF Written, Bus
  <2>5. two.mem[Wrap(s - 1)] = High(w) /\ two.mem[s] = Low(w)
    BY <2>1, <2>2, <2>3, <2>4 DEF MachineOK, Bus
  <2> HIDE DEF two
  <2> QED BY <1>1, <2>5, Halves
<1> QED BY <1>2, <1>3

LEMMA CallEnds ==
  ASSUME MachineOK, NEW opcode \in {141, 157, 173, 189},
         NEW target \in {RELATIVE, DIRECT, INDEXED, EXTENDED},
         opcode = 141 => target = RELATIVE,
         opcode = 189 => target = EXTENDED,
         target.next = Wrap(pc + OpcodeLength(opcode)),
         Call(opcode, target)
  PROVE  EndsAsShown
<1>1. Opcode = opcode /\ pc' = target.ea
  BY DEF Call, Fetch
<1>2. target.next \in Word
  BY Modes
<1>3. LET m == PushWord(Stack, target.next) IN bus' = m.bus /\ s' = m.s
  BY DEF Call
<1>4. /\ s' = Wrap(s - 2)
      /\ {s, Wrap(s - 1)} \subseteq Writable =>
           256 * bus'.mem[Wrap(s - 1)] + bus'.mem[s] = target.next
  BY <1>2, <1>3, WordPushed
<1>5. Opcode \in Valid => target.next = Wrap(pc + InstructionLength(Opcode))
  BY <1>1, OpcodeIsByte, ValidLengths
<1>6. Opcode \in {141, 189} =>
        pc' = Wrap(ShownTarget(Opcode, pc, RM(Wrap(pc + 1)), RM(Wrap(pc + 2))))
  BY <1>1, RelativeShown, ExtendedShown
<1>7. /\ Opcode \in Transfers /\ Opcode \notin 32 .. 47 /\ Opcode # 126
      /\ ~IsReturn(Opcode)
  BY <1>1 DEF Transfers, IsReturn
<1> QED BY <1>4, <1>5, <1>6, <1>7 DEF EndsAsShown

LEMMA WordRowsEnd ==
  ASSUME MachineOK,
         \/ ImmediateSRow \/ DirectSRow \/ IndexedSRow \/ ExtendedSRow
         \/ ImmediateXRow \/ DirectXRow \/ IndexedXRow \/ ExtendedXRow
  PROVE  EndsAsShown
<1>1. /\ IMM16.next = Wrap(pc + 3) /\ EXTENDED.next = Wrap(pc + 3)
      /\ DIRECT.next = Wrap(pc + 2) /\ INDEXED.next = Wrap(pc + 2)
      /\ RELATIVE.next = Wrap(pc + 2)
  BY DEF IMM16, EXTENDED, DIRECT, INDEXED, RELATIVE
<1>2. /\ \A o \in {140, 142, 143, 188, 190, 191, 206, 207, 254, 255} :
           OpcodeLength(o) = 3 /\ o \notin Transfers
      /\ \A o \in {156, 158, 159, 172, 174, 175, 222, 223, 238, 239} :
           OpcodeLength(o) = 2 /\ o \notin Transfers
      /\ OpcodeLength(141) = 2 /\ OpcodeLength(157) = 2
      /\ OpcodeLength(173) = 2 /\ OpcodeLength(189) = 3
  BY DEF OpcodeLength, WordArgs, ByteArgs, Transfers
<1>3. ASSUME NEW opcode, NEW mode, NEW n, mode.next = Wrap(pc + n),
             OpcodeLength(opcode) = n, opcode \notin Transfers,
             \/ CMPX(opcode, mode)
             \/ LoadWord(opcode, mode, s) \/ LoadWord(opcode, mode, x)
             \/ StoreWord(opcode, mode, s) \/ StoreWord(opcode, mode, x)
      PROVE  EndsAsShown
  <2>1. Opcode = opcode /\ pc' = mode.next
    BY <1>3 DEF CMPX, LoadWord, StoreWord, Fetch
  <2> QED BY <1>3, <2>1, GoesOn
<1>4. ASSUME NEW first \in {140, 156, 172, 188}, NEW mode, NEW target,
             StackRow(first, mode, target),
             target \in {RELATIVE, DIRECT, INDEXED, EXTENDED},
             first = 140 => target = RELATIVE,
             first = 188 => target = EXTENDED,
             mode.next = Wrap(pc + OpcodeLength(first)),
             target.next = Wrap(pc + OpcodeLength(first + 1))
      PROVE  EndsAsShown
  <2>1. /\ first + 1 \in {141, 157, 173, 189}
        /\ first + 1 = 141 => target = RELATIVE
        /\ first + 1 = 189 => target = EXTENDED
    BY <1>4
  <2>2. CASE Call(first + 1, target)
    BY <1>4, <2>1, <2>2, CallEnds
  <2>3. \A o \in {first, first + 2, first + 3} :
          OpcodeLength(o) = OpcodeLength(first) /\ o \notin Transfers
    BY <1>2
  <2>4. CASE \/ CMPX(first, mode) \/ LoadWord(first + 2, mode, s)
             \/ StoreWord(first + 3, mode, s)
    BY <1>3, <1>4, <2>3, <2>4
  <2> QED BY <1>4, <2>2, <2>4 DEF StackRow
<1>5. ASSUME NEW first \in {206, 222, 238, 254}, NEW mode, IndexRow(first, mode),
             mode.next = Wrap(pc + OpcodeLength(first))
      PROVE  EndsAsShown
  <2>1. \A o \in {first, first + 1} :
          OpcodeLength(o) = OpcodeLength(first) /\ o \notin Transfers
    BY <1>2
  <2> QED BY <1>3, <1>5, <2>1 DEF IndexRow
<1>6. CASE ImmediateSRow \/ DirectSRow \/ IndexedSRow \/ ExtendedSRow
  BY <1>1, <1>2, <1>4, <1>6
     DEF ImmediateSRow, DirectSRow, IndexedSRow, ExtendedSRow
<1>7. CASE ImmediateXRow \/ DirectXRow \/ IndexedXRow \/ ExtendedXRow
  BY <1>1, <1>2, <1>5, <1>7
     DEF ImmediateXRow, DirectXRow, IndexedXRow, ExtendedXRow
<1> QED BY <1>6, <1>7

(* The disassembler's tables and the handlers agree on where every instruction
   ends: one that does not transfer control goes on where the next line of the
   listing starts, a branch or an absolute jump goes to the address the line
   shows, and a call pushes the address of the next line, which is where Step
   Over plants its breakpoint; whatever the program and the memory are.  *)
THEOREM DisassemblerAgrees == Spec => DisassemblyAgrees
<1>1. MachineOK /\ [Next]_vars => [EndsAsShown]_vars
  <2> SUFFICES ASSUME MachineOK, Next PROVE EndsAsShown
    OBVIOUS
  <2>1. CASE \/ \E length \in 1 .. 3 : Illegal(length)
             \/ FlagRow \/ AccumulatorRow \/ BranchRow
    BY <2>1, IllegalGoesOn, InherentRowsGoOn, BranchEnds
  <2>2. CASE StackPointerRow \/ ByteStackRow \/ RTS \/ RTI \/ SWI \/ WAI
    BY <2>2, InherentRowsGoOn, ReturnEnds
  <2>3. CASE ModifyARow \/ ModifyBRow \/ ModifyIndexedRow \/ ModifyExtendedRow
    BY <2>3, InherentRowsGoOn, ModifyMemoryEnds
  <2>4. CASE \/ ImmediateARow \/ DirectARow \/ IndexedARow \/ ExtendedARow
             \/ ImmediateBRow \/ DirectBRow \/ IndexedBRow \/ ExtendedBRow
    BY <2>4, AccumulatorGoesOn
  <2>5. CASE \/ ImmediateSRow \/ DirectSRow \/ IndexedSRow \/ ExtendedSRow
             \/ ImmediateXRow \/ DirectXRow \/ IndexedXRow \/ ExtendedXRow
    BY <2>5, WordRowsEnd
  <2> QED BY <2>1, <2>2, <2>3, <2>4, <2>5 DEF Next
<1> QED BY <1>1, MachineBoots, MachineSteps, PTL DEF Spec, DisassemblyAgrees

-----------------------------------------------------------------------------
(* Programs: which handler an opcode has *)

LEMMA RowOpcodes ==
  /\ \A length \in 1 .. 3 : Illegal(length) =>
       Opcode \notin 32 .. 47 \union {25, 57, 59, 63}
                       \union {128 + c : c \in AluColumns}
  /\ FlagRow => Opcode \in 1 .. 15
  /\ AccumulatorRow => Opcode \in {16, 17, 22, 23, 25, 27}
  /\ BranchRow => Opcode \in 32 .. 47
  /\ StackPointerRow \/ ByteStackRow => Opcode \in 48 .. 55
  /\ RTS => Opcode = 57
  /\ RTI => Opcode = 59
  /\ WAI => Opcode = 62
  /\ SWI => Opcode = 63
  /\ ModifyARow \/ ModifyBRow => Opcode \in 64 .. 95
  /\ ModifyIndexedRow \/ ModifyExtendedRow => Opcode \in 96 .. 127
<1>1. ASSUME NEW length \in 1 .. 3, Illegal(length)
      PROVE  Opcode \notin 32 .. 47 \union {25, 57, 59, 63}
                             \union {128 + c : c \in AluColumns}
  <2>1. \A c \in AluColumns : 128 + c \in 128 .. 130 \union 132 .. 139
    BY DEF AluColumns
  <2> QED BY <1>1, <2>1, IllegalAre DEF Illegal, Fetch
<1>2. \A c \in Modifying \union {14} : c \in 0 .. 15
  BY DEF Modifying
<1>3. ModifyARow \/ ModifyBRow => Opcode \in 64 .. 95
  BY <1>2 DEF ModifyARow, ModifyBRow, ModifyAccumulator, Inherent, Fetch
<1>4. ModifyIndexedRow \/ ModifyExtendedRow => Opcode \in 96 .. 127
  BY <1>2 DEF ModifyIndexedRow, ModifyExtendedRow, ModifyMemory, Fetch
<1>5. /\ FlagRow => Opcode \in 1 .. 15
      /\ AccumulatorRow => Opcode \in {16, 17, 22, 23, 25, 27}
      /\ BranchRow => Opcode \in 32 .. 47
  BY DEF FlagRow, AccumulatorRow, BranchRow, Inherent, Fetch
<1>6. /\ StackPointerRow \/ ByteStackRow => Opcode \in 48 .. 55
      /\ RTS => Opcode = 57
      /\ RTI => Opcode = 59
      /\ WAI => Opcode = 62
      /\ SWI => Opcode = 63
  BY DEF StackPointerRow, ByteStackRow, RTS, RTI, WAI, SWI, Inherent, Fetch
<1> QED BY <1>1, <1>3, <1>4, <1>5, <1>6

LEMMA AluRowOpcodes ==
  /\ ImmediateARow => Opcode \in {128 + c : c \in AluColumns}
  /\ \/ DirectARow \/ IndexedARow \/ ExtendedARow
     \/ ImmediateBRow \/ DirectBRow \/ IndexedBRow \/ ExtendedBRow
     => Opcode \in 144 .. 255
<1>1. \A c \in AluColumns : c \in 0 .. 11
  BY DEF AluColumns
<1>2. ASSUME NEW first, NEW acc, NEW mode, Accumulator(first, acc, mode)
      PROVE  Opcode \in {first + c : c \in AluColumns}
  BY <1>2 DEF Accumulator, Fetch, AluColumns
<1>3. DirectARow \/ IndexedARow \/ ExtendedARow => Opcode \in 144 .. 255
  BY <1>1, <1>2 DEF DirectARow, IndexedARow, ExtendedARow
<1>4. ImmediateBRow \/ DirectBRow \/ IndexedBRow \/ ExtendedBRow => Opcode \in 144 .. 255
  BY <1>1, <1>2 DEF ImmediateBRow, DirectBRow, IndexedBRow, ExtendedBRow
<1> QED BY <1>2, <1>3, <1>4 DEF ImmediateARow

LEMMA TaskKept == ASSUME Next PROVE task' = task /\ code' = code /\ pc \in code
<1> USE DEF Fetch, Inherent
<1>1. CASE \/ \E length \in 1 .. 3 : Illegal(length)
           \/ FlagRow \/ AccumulatorRow \/ BranchRow \/ StackPointerRow
  BY <1>1 DEF Illegal, FlagRow, AccumulatorRow, BranchRow, StackPointerRow
<1>2. CASE ByteStackRow \/ RTS \/ RTI \/ SWI \/ WAI
  BY <1>2 DEF ByteStackRow, RTS, RTI, SWI, WAI
<1>3. CASE ModifyARow \/ ModifyBRow \/ ModifyIndexedRow \/ ModifyExtendedRow
  BY <1>3 DEF ModifyARow, ModifyBRow, ModifyIndexedRow, ModifyExtendedRow,
              ModifyAccumulator, ModifyMemory
<1>4. CASE \/ ImmediateARow \/ DirectARow \/ IndexedARow \/ ExtendedARow
           \/ ImmediateBRow \/ DirectBRow \/ IndexedBRow \/ ExtendedBRow
  BY <1>4 DEF ImmediateARow, DirectARow, IndexedARow, ExtendedARow,
              ImmediateBRow, DirectBRow, IndexedBRow, ExtendedBRow, Accumulator
<1>5. CASE \/ ImmediateSRow \/ DirectSRow \/ IndexedSRow \/ ExtendedSRow
  BY <1>5 DEF ImmediateSRow, DirectSRow, IndexedSRow, ExtendedSRow, StackRow,
              CMPX, Call, LoadWord, StoreWord
<1>6. CASE \/ ImmediateXRow \/ DirectXRow \/ IndexedXRow \/ ExtendedXRow
  BY <1>6 DEF ImmediateXRow, DirectXRow, IndexedXRow, ExtendedXRow, IndexRow,
              LoadWord, StoreWord
<1> QED BY <1>1, <1>2, <1>3, <1>4, <1>5, <1>6 DEF Next

LEMMA Decoded ==
  ASSUME Next
  PROVE  /\ Opcode \in {128 + c : c \in AluColumns} => ImmediateARow
         /\ Opcode \in 32 .. 47 => BranchRow
         /\ Opcode = 25 => AccumulatorRow
         /\ Opcode = 63 => SWI
         /\ Opcode = 59 => RTI
<1>1. \A c \in AluColumns : 128 + c \in 128 .. 130 \union 132 .. 139
  BY DEF AluColumns
<1>2. CASE \/ \E length \in 1 .. 3 : Illegal(length)
           \/ FlagRow \/ AccumulatorRow \/ BranchRow
           \/ StackPointerRow \/ ByteStackRow \/ RTS \/ RTI \/ SWI \/ WAI
           \/ ModifyARow \/ ModifyBRow \/ ModifyIndexedRow \/ ModifyExtendedRow
  BY <1>1, <1>2, RowOpcodes
<1>3. CASE \/ ImmediateARow \/ DirectARow \/ IndexedARow \/ ExtendedARow
           \/ ImmediateBRow \/ DirectBRow \/ IndexedBRow \/ ExtendedBRow
  BY <1>1, <1>3, AluRowOpcodes
<1>4. CASE \/ ImmediateSRow \/ DirectSRow \/ IndexedSRow \/ ExtendedSRow
           \/ ImmediateXRow \/ DirectXRow \/ IndexedXRow \/ ExtendedXRow
  BY <1>1, <1>4, WordOpcodes
<1> QED BY <1>2, <1>3, <1>4 DEF Next

-----------------------------------------------------------------------------
(* Programs: comparisons *)

(* The programs are those of M6800Programs, in memory that is there, and they
   compare bytes. *)
ProgramsAreRun ==
  /\ \A t \in Tasks : Boot(t) = Program(t)
  /\ Origin .. Origin + 3 \subseteq Mapped

BytesAreCompared ==
  \A t \in Tasks : t.name = "compare" =>
    t.p \in Byte /\ t.q \in Byte /\ t.k \in 34 .. 39 \union 44 .. 47

(* What the branch is about: even conditions, and their negations *)
Relation(p, q, column) ==
  CASE column = 2 -> p > q
    [] column = 4 -> p >= q
    [] column = 6 -> p # q
    [] column = 12 -> SIGNED(p) >= SIGNED(q)
    [] column = 14 -> SIGNED(p) > SIGNED(q)

Taken(p, q, k) ==
  Relation(p, q, (k % 16) - ((k % 16) % 2)) <=> ((k % 16) % 2 = 0)

CompareInv ==
  task.name = "compare" =>
    /\ task \in Tasks /\ code = Origin .. Origin + 3 /\ ~wai_state
    /\ bus.mem[Origin] = 129 /\ bus.mem[Origin + 1] = task.q
    /\ bus.mem[Origin + 2] = task.k
    /\ bus.mem[Origin + 3] = 1
    /\ \/ pc = Origin /\ d["a"] = task.p
       \/ /\ pc = Origin + 2
          /\ Asked(cc, task.p - task.q, SIGNED(task.p) - SIGNED(task.q))
       \/ pc = Origin + 5 /\ Taken(task.p, task.q, task.k)
       \/ pc = Origin + 4 /\ ~Taken(task.p, task.q, task.k)

(* A machine m with a program at Origin *)
Loaded(m, bytes, a, f) ==
  /\ m.pc = Origin /\ m.d["a"] = a /\ m.cc = f
  /\ m.code = Origin .. Origin + Len(bytes) - 1
  /\ \A i \in 0 .. Len(bytes) - 1 : m.mem[Origin + i] = bytes[i + 1]

LEMMA SimpleImage ==
  ASSUME NEW bytes, Len(bytes) \in Nat,
         Origin .. Origin + Len(bytes) - 1 \subseteq Mapped,
         NEW a, NEW b, NEW f
  PROVE  Loaded(Simple(bytes, <<>>, a, b, f), bytes, a, f)
<1> DEFINE placed == Placed(Origin, bytes)
           m == Simple(bytes, <<>>, a, b, f)
<1>1. /\ DOMAIN placed = Origin .. Origin + Len(bytes) - 1
      /\ Len(bytes) \in Nat
      /\ \A i \in 0 .. Len(bytes) - 1 : placed[Origin + i] = bytes[i + 1]
  BY DEF Placed, Origin
<1>2. m = Machine(Image(placed, <<>>), DOMAIN placed, a, b, f)
  BY DEF Simple
<1> HIDE DEF placed
<1>3. \A addr \in Origin .. Origin + Len(bytes) - 1 :
        Image(placed, <<>>)[addr] = placed[addr]
  BY <1>1 DEF Image
<1>4. /\ m.mem = Image(placed, <<>>) /\ m.code = DOMAIN placed
      /\ m.pc = Origin /\ m.d["a"] = a /\ m.cc = f
  BY <1>2 DEF Machine
<1>5. \A i \in 0 .. Len(bytes) - 1 : Origin + i \in Origin .. Origin + Len(bytes) - 1
  BY <1>1 DEF Origin
<1> HIDE DEF m
<1>6. \A i \in 0 .. Len(bytes) - 1 : m.mem[Origin + i] = bytes[i + 1]
  BY <1>1, <1>3, <1>4, <1>5
<1> QED BY <1>1, <1>4, <1>6 DEF m, Loaded

LEMMA CompareImage ==
  ASSUME ProgramsAreRun, BytesAreCompared, NEW t \in Tasks, t.name = "compare"
  PROVE  /\ Boot(t).pc = Origin /\ Boot(t).d["a"] = t.p
         /\ Boot(t).code = Origin .. Origin + 3
         /\ Boot(t).mem[Origin] = 129 /\ Boot(t).mem[Origin + 1] = t.q
         /\ Boot(t).mem[Origin + 2] = t.k /\ Boot(t).mem[Origin + 3] = 1
<1> DEFINE bytes == <<129, t.q, t.k, 1>>
<1>1. Boot(t) = Simple(bytes, <<>>, t.p, 0, {})
  BY DEF ProgramsAreRun, Program, Compare
<1>2. t.q \in Byte /\ t.k \in 34 .. 39 \union 44 .. 47
  BY DEF BytesAreCompared
<1>3. t.q \in Int /\ t.k \in Int
  BY <1>2 DEF Byte
<1>4. /\ bytes \in Seq(Int) /\ Len(bytes) = 4
      /\ bytes[1] = 129 /\ bytes[2] = t.q /\ bytes[3] = t.k /\ bytes[4] = 1
  BY <1>3
<1> HIDE DEF bytes
<1>5. Origin .. Origin + Len(bytes) - 1 = Origin .. Origin + 3
  BY <1>4 DEF Origin
<1>6. /\ Boot(t).pc = Origin /\ Boot(t).d["a"] = t.p
      /\ Boot(t).code = Origin .. Origin + Len(bytes) - 1
      /\ \A i \in 0 .. Len(bytes) - 1 : Boot(t).mem[Origin + i] = bytes[i + 1]
  <2>1. Origin .. Origin + Len(bytes) - 1 \subseteq Mapped
    BY <1>5 DEF ProgramsAreRun
  <2>2. Loaded(Boot(t), bytes, t.p, {})
    <3>1. Loaded(Simple(bytes, <<>>, t.p, 0, {}), bytes, t.p, {})
      <4>1. Len(bytes) \in Nat
        BY <1>4
      <4> QED BY <4>1, <2>1, SimpleImage
    <3> QED BY <1>1, <3>1
  <2> QED BY <2>2 DEF Loaded
<1>7. /\ Boot(t).mem[Origin + 0] = bytes[0 + 1]
      /\ \A i \in {1, 2, 3} : Boot(t).mem[Origin + i] = bytes[i + 1]
  BY <1>4, <1>6
<1> QED BY <1>4, <1>5, <1>6, <1>7 DEF Origin

LEMMA CompareBoots ==
  ASSUME ProgramsAreRun, BytesAreCompared PROVE Init => CompareInv
<1> SUFFICES ASSUME Init, task.name = "compare" PROVE CompareInv
  BY DEF CompareInv
<1>1. /\ task \in Tasks /\ pc = Boot(task).pc /\ d = Boot(task).d
      /\ code = Boot(task).code /\ bus.mem = Boot(task).mem /\ ~wai_state
  BY DEF Init
<1> QED BY <1>1, CompareImage DEF CompareInv

LEMMA SmallRemainder ==
  ASSUME NEW e \in Int, -256 <= e, e <= 255
  PROVE  e % 256 = IF e >= 0 THEN e ELSE e + 256
<1>1. CASE e >= 0
  BY <1>1
<1>2. CASE e < 0
  <2>1. e + 256 \in 0 .. 255 /\ (e + 256) % 256 = e + 256
    BY <1>2
  <2>2. (e + 256) % 256 = e % 256
    OBVIOUS
  <2> QED BY <1>2, <2>1, <2>2
<1> QED BY <1>1, <1>2

(* The condition of a branch behind CMP *)
LEMMA ConditionDecides ==
  ASSUME NEW p \in Byte, NEW q \in Byte, NEW f,
         NEW k \in 34 .. 39 \union 44 .. 47,
         Asked(f, p - q, SIGNED(p) - SIGNED(q))
  PROVE  Condition(k % 16, f) <=> Taken(p, q, k)
<1>1. /\ C \in f <=> p < q
      /\ Z \in f <=> p = q
      /\ NXORV(f) <=> SIGNED(p) < SIGNED(q)
  <2> DEFINE exact == p - q
             signed == SIGNED(p) - SIGNED(q)
  <2>1. /\ C \in f <=> exact \notin Byte
        /\ V \in f <=> signed \notin -128 .. 127
        /\ N \in f <=> exact % 256 >= 128
        /\ Z \in f <=> exact % 256 = 0
    BY DEF Asked
  <2>2. exact \in Byte <=> ~(p < q)
    BY DEF Byte
  <2>a. /\ p \in Int /\ 0 <= p /\ p <= 255 /\ q \in Int /\ 0 <= q /\ q <= 255
        /\ exact \in Int
    BY DEF Byte
  <2>b. exact % 256 = IF p >= q THEN p - q ELSE p - q + 256
    <3>1. -256 <= exact /\ exact <= 255 /\ (exact >= 0 <=> p >= q)
      BY <2>a
    <3> HIDE DEF exact
    <3>2. exact % 256 = IF exact >= 0 THEN exact ELSE exact + 256
      BY <2>a, <3>1, SmallRemainder
    <3> QED BY <3>1, <3>2 DEF exact
  <2>3. exact % 256 = 0 <=> p = q
    <3> HIDE DEF exact
    <3> QED BY <2>a, <2>b
  <2>4. ((exact % 256 >= 128) # (signed \notin -128 .. 127))
          <=> SIGNED(p) < SIGNED(q)
    <3>1. PICK e \in Int : e = exact % 256
      BY <2>a
    <3>2. CASE p >= 128 /\ q >= 128
      BY <2>a, <2>b, <3>1, <3>2 DEF SIGNED
    <3>3. CASE p >= 128 /\ ~(q >= 128)
      BY <2>a, <2>b, <3>1, <3>3 DEF SIGNED
    <3>4. CASE ~(p >= 128) /\ q >= 128
      BY <2>a, <2>b, <3>1, <3>4 DEF SIGNED
    <3>5. CASE ~(p >= 128) /\ ~(q >= 128)
      BY <2>a, <2>b, <3>1, <3>5 DEF SIGNED
    <3> QED BY <3>2, <3>3, <3>4, <3>5
  <2>5. NXORV(f) <=> ((exact % 256 >= 128) # (signed \notin -128 .. 127))
    <3> HIDE DEF exact, signed
    <3> QED BY <2>1 DEF NXORV
  <2> HIDE DEF exact, signed
  <2> QED BY <2>1, <2>2, <2>3, <2>4, <2>5
<1>2. SIGNED(p) = SIGNED(q) <=> p = q
  BY DEF SIGNED, Byte
<1>3. p \in Int /\ q \in Int /\ SIGNED(p) \in Int /\ SIGNED(q) \in Int
  BY DEF SIGNED, Byte
<1>4. /\ Condition(2, f) <=> p > q
      /\ Condition(3, f) <=> ~(p > q)
  BY <1>1, <1>3 DEF Condition
<1>5. /\ Condition(4, f) <=> p >= q
      /\ Condition(5, f) <=> ~(p >= q)
  BY <1>1, <1>3 DEF Condition
<1>6. /\ Condition(6, f) <=> p # q
      /\ Condition(7, f) <=> ~(p # q)
  BY <1>1, <1>3 DEF Condition
<1>7. /\ Condition(12, f) <=> SIGNED(p) >= SIGNED(q)
      /\ Condition(13, f) <=> ~(SIGNED(p) >= SIGNED(q))
  <2> HIDE DEF NXORV
  <2> QED BY <1>1, <1>3 DEF Condition
<1>8. /\ Condition(14, f) <=> SIGNED(p) > SIGNED(q)
      /\ Condition(15, f) <=> ~(SIGNED(p) > SIGNED(q))
  <2> HIDE DEF NXORV
  <2> QED BY <1>1, <1>2, <1>3 DEF Condition
<1> DEFINE column == k % 16
<1>9. column \in {2, 3, 4, 5, 6, 7, 12, 13, 14, 15}
  OBVIOUS
<1> HIDE DEF column
<1>10. Condition(column, f) <=>
         (Relation(p, q, column - (column % 2)) <=> (column % 2 = 0))
  <2>1. /\ Relation(p, q, 2) <=> p > q
        /\ Relation(p, q, 4) <=> p >= q
        /\ Relation(p, q, 6) <=> p # q
        /\ Relation(p, q, 12) <=> SIGNED(p) >= SIGNED(q)
        /\ Relation(p, q, 14) <=> SIGNED(p) > SIGNED(q)
    BY <1>3 DEF Relation
  <2>2. \/ column \in {2, 4, 6, 12, 14} /\ column % 2 = 0
           /\ column - (column % 2) = column
        \/ column \in {3, 5, 7, 13, 15} /\ column % 2 # 0
           /\ column - (column % 2) = column - 1
    BY <1>9
  <2> QED BY <1>4, <1>5, <1>6, <1>7, <1>8, <2>1, <2>2
<1> QED BY <1>10 DEF Taken, column

LEMMA Places ==
  /\ Wrap(Origin + 1) = Origin + 1 /\ Wrap(Origin + 2) = Origin + 2
  /\ Wrap(Origin + 2 + 1) = Origin + 3
  /\ Wrap(Origin + 2 + 2) = Origin + 4
BY DEF Origin, Wrap

LEMMA CompareSteps ==
  ASSUME ProgramsAreRun, BytesAreCompared
  PROVE  MachineOK /\ CompareInv /\ [Next]_vars => CompareInv'
<1> SUFFICES ASSUME MachineOK, CompareInv, [Next]_vars PROVE CompareInv'
  OBVIOUS
<1>0. task' = task
  <2>1. CASE Next
    BY <2>1, TaskKept
  <2>2. CASE UNCHANGED vars
    BY <2>2 DEF vars
  <2> QED BY <2>1, <2>2
<1> SUFFICES ASSUME task.name = "compare" PROVE CompareInv'
  BY <1>0 DEF CompareInv
<1>1. CASE UNCHANGED vars
  BY <1>1 DEF vars, CompareInv, Asked
<1>2. CASE Next
  <2> DEFINE p == task.p
             q == task.q
             k == task.k
  <2>1. /\ p \in Byte /\ q \in Byte /\ k \in 34 .. 39 \union 44 .. 47
        /\ task' = task /\ code' = code /\ pc \in code
    BY <1>2, TaskKept DEF CompareInv, BytesAreCompared
  <2>2. /\ RM(Origin) = 129 /\ RM(Origin + 1) = q
        /\ RM(Origin + 2) = k /\ RM(Origin + 3) = 1
    <3>1. {Origin, Origin + 1, Origin + 2, Origin + 3} \subseteq Mapped
      BY DEF ProgramsAreRun, Origin
    <3> QED BY <3>1 DEF CompareInv, RM
  <2>3. CASE pc = Origin
    <3>1. Opcode = 129 /\ Column = 1 /\ d["a"] = p
      BY <2>2, <2>3 DEF Opcode, Column, CompareInv, Origin
    <3>2. ImmediateARow
      <4>1. 1 \in AluColumns /\ 129 = 128 + 1
        BY DEF AluColumns
      <4> QED BY <1>2, <3>1, <4>1, Decoded
    <3>3. /\ pc' = Origin + 2 /\ bus' = bus /\ wai_state' = wai_state
          /\ cc' = Minus(p, q, 0, cc).cc
      <4>1. IMM8.ea = Origin + 1 /\ IMM8.next = Origin + 2
        BY <2>3, Places DEF IMM8
      <4>2. Alu(1, p, q, cc) = Minus(p, q, 0, cc)
        BY DEF Alu
      <4> QED BY <2>2, <3>1, <3>2, <4>1, <4>2 DEF ImmediateARow, Accumulator
    <3>4. Asked(cc', p - q - 0, SIGNED(p) - SIGNED(q) - 0)
      BY <2>1, <3>3, DifferencesExact DEF MachineOK
    <3>5. p - q - 0 = p - q /\ SIGNED(p) - SIGNED(q) - 0 = SIGNED(p) - SIGNED(q)
      <4>1. p \in Int /\ q \in Int
        BY <2>1 DEF Byte
      <4>2. SIGNED(p) \in Int /\ SIGNED(q) \in Int
        BY <4>1 DEF SIGNED
      <4> QED BY <4>1, <4>2
    <3> QED BY <2>1, <3>3, <3>4, <3>5 DEF CompareInv, Asked
  <2>4. CASE pc = Origin + 2
    <3>1. Opcode = k /\ Asked(cc, p - q, SIGNED(p) - SIGNED(q))
      BY <2>2, <2>4 DEF Opcode, CompareInv, Origin
    <3>2. BranchRow /\ Column = k % 16
      BY <1>2, <2>1, <3>1, Decoded DEF Column
    <3>3. RELATIVE.ea = Origin + 5 /\ RELATIVE.next = Origin + 4
      <4>1. RM(Wrap(pc + 1)) = 1 /\ Wrap(pc + 2) = Origin + 4
        BY <2>2, <2>4, Places
      <4>2. Wrap(pc + 2 + SIGNED(1)) = Origin + 5
        BY <2>4 DEF Wrap, SIGNED, Origin
      <4> QED BY <4>1, <4>2 DEF RELATIVE
    <3>4. Condition(Column, cc) <=> Taken(p, q, k)
      BY <2>1, <3>1, <3>2, ConditionDecides
    <3>5. /\ bus' = bus /\ wai_state' = wai_state
          /\ pc' = IF Taken(p, q, k) THEN Origin + 5 ELSE Origin + 4
      BY <3>2, <3>3, <3>4 DEF BranchRow
    <3> QED BY <2>1, <3>5 DEF CompareInv
  <2> QED BY <2>1, <2>3, <2>4 DEF CompareInv, Origin
<1> QED BY <1>1, <1>2

(* A branch behind CMP is taken exactly when the relation holds that its name
   stands for, for all pairs of bytes and the ten conditions that compare: the
   flags of SET_FLAGS8 (cpu/m6800.cpp) and the tests of the branch handlers
   (cpu/6800ops.hxx) fit together. *)
THEOREM ComparisonsAlwaysDecide ==
  ASSUME ProgramsAreRun, BytesAreCompared
  PROVE  Spec => []ComparisonsDecide
<1>1. CompareInv => ComparisonsDecide
  <2> SUFFICES ASSUME CompareInv, Finished("compare") PROVE ComparisonsDecide
    BY DEF ComparisonsDecide
  <2> DEFINE p == task.p
             q == task.q
             column == task.k % 16
             e == column - (column % 2)
             relation == [even \in {2, 4, 6, 12, 14} |->
               CASE even = 2 -> p > q
                 [] even = 4 -> p >= q
                 [] even = 6 -> p # q
                 [] even = 12 -> SIGNED(p) >= SIGNED(q)
                 [] even = 14 -> SIGNED(p) > SIGNED(q)]
  <2>1. task.k \in 34 .. 39 \union 44 .. 47
    BY DEF CompareInv, Finished, BytesAreCompared
  <2>2. e \in {2, 4, 6, 12, 14}
    BY <2>1
  <2>3. relation[e] = Relation(p, q, e)
    BY <2>2 DEF Relation
  <2>4. pc = Origin + 5 <=> Taken(p, q, task.k)
    BY DEF CompareInv, Finished, Stopped, Origin
  <2> HIDE DEF relation
  <2>5. pc = Origin + 5 <=> (relation[e] <=> (column % 2 = 0))
    BY <2>3, <2>4 DEF Taken
  <2> QED BY <2>5 DEF ComparisonsDecide, relation
<1> QED BY <1>1, CompareBoots, CompareSteps, MachineBoots, MachineSteps, PTL DEF Spec

-----------------------------------------------------------------------------
(* Programs: decimal sums *)

DigitsAreAdded ==
  \A t \in Tasks : t.name = "decimal" =>
    /\ \E h, l \in 0 .. 9 : t.p = 16 * h + l
    /\ \E h, l \in 0 .. 9 : t.q = 16 * h + l
    /\ t.k \in {0, 1}

(* h and l are the sums of the high and of the low digits, half and over what
   they carry out of their nibbles. *)
SumHasDigits(p, q, c, h, l, half, over) ==
  /\ p \in Byte /\ q \in Byte
  /\ p \div 16 + q \div 16 + (p + q + c) \div 16 = 2 * h + half
  /\ (p + q + c) % 256 = 16 * (h + half - 16 * over) + (l - 16 * half)
  /\ p + q + c \in Byte <=> over = 0

Carries4(h, l, half, over) ==
  /\ h \in 0 .. 18 /\ l \in 0 .. 19 /\ half \in {0, 1} /\ over \in {0, 1}
  /\ half = 1 <=> l > 15
  /\ over = 1 <=> h + half > 15

(* m is a decimal sum *)
DecimalResult(m, sum) ==
  /\ m.r = 16 * ((sum \div 10) % 10) + (sum % 10)
  /\ C \in m.cc <=> sum > 99

LEMMA Corrected ==
  ASSUME NEW h, NEW l, NEW half, NEW over, Carries4(h, l, half, over),
         NEW f \in Flags, H \in f <=> half = 1, C \in f <=> over = 1,
         NEW p, p = 16 * (h + half - 16 * over) + (l - 16 * half)
  PROVE  DecimalResult(Decimal(p, f), 10 * h + l)
<1> DEFINE lsn == p % 16
           msn == p - lsn
           low == IF lsn > 9 \/ H \in f THEN 6 ELSE 0
           high == IF (msn > 128 /\ lsn > 9) \/ msn > 144 \/ C \in f THEN 96 ELSE 0
           r == p + low + high
           sum == 10 * h + l
<1> USE DEF Carries4
<1>1. lsn = l - 16 * half /\ msn = 16 * (h + half - 16 * over)
  OBVIOUS
<1>2. low = IF l > 9 THEN 6 ELSE 0
  BY <1>1
<1>3. high = IF h + (IF l > 9 THEN 1 ELSE 0) > 9 THEN 96 ELSE 0
  BY <1>1
<1>4. /\ Decimal(p, f).r = r % 256
      /\ C \in Decimal(p, f).cc <=> C \in f \/ (r \div 256) % 2 = 1
  <2>1. Decimal(p, f) = Result(r, CLR_NZV(f) \union SET_NZ8(r) \union SET_C8(r))
    BY DEF Decimal
  <2> HIDE DEF r
  <2>2. C \notin SET_NZ8(r) /\ (C \in CLR_NZV(f) <=> C \in f)
    BY DEF SET_NZ8, When, CLR_NZV, C, N, Z, V
  <2>3. C \in SET_C8(r) <=> (r \div 256) % 2 = 1
    BY DEF SET_C8, When
  <2> QED BY <2>1, <2>2, <2>3 DEF Result
<1> HIDE DEF low, high, lsn, msn
<1>5. r % 256 = 16 * ((sum \div 10) % 10) + (sum % 10)
  BY <1>2, <1>3
<1>6. over = 1 \/ (r \div 256) % 2 = 1 <=> sum > 99
  BY <1>2, <1>3
<1> HIDE DEF r
<1> QED BY <1>4, <1>5, <1>6 DEF DecimalResult

(* ADC, and DAA behind it *)
LEMMA DigitsSummed ==
  ASSUME NEW h1 \in 0 .. 9, NEW l1 \in 0 .. 9, NEW h2 \in 0 .. 9, NEW l2 \in 0 .. 9,
         NEW c \in {0, 1}, NEW f \in Flags,
         NEW p, NEW q, p = 16 * h1 + l1, q = 16 * h2 + l2
  PROVE  LET added == Plus(p, q, c, f)
         IN  DecimalResult(Decimal(added.r, added.cc), 10 * (h1 + h2) + (l1 + l2 + c))
<1> DEFINE added == Plus(p, q, c, f)
           h == h1 + h2
           l == l1 + l2 + c
           half == IF l > 15 THEN 1 ELSE 0
           over == IF h + half > 15 THEN 1 ELSE 0
           r == p + q + c
<1>1. Carries4(h, l, half, over)
  BY DEF Carries4
<1>2. h = h1 + h2 /\ l = l1 + l2 + c /\ p = 16 * h1 + l1 /\ q = 16 * h2 + l2
  OBVIOUS
<1> HIDE DEF h, l, half, over, added, r
<1>3. SumHasDigits(p, q, c, h, l, half, over)
  <2> USE <1>1, <1>2 DEF Carries4
  <2>1. (p + q + c) \div 16 = h1 + h2 + half
    OBVIOUS
  <2>2. p \div 16 = h1 /\ q \div 16 = h2 /\ p \in Byte /\ q \in Byte
    BY DEF Byte
  <2>3. (p + q + c) % 256 = 16 * (h + half - 16 * over) + (l - 16 * half)
    OBVIOUS
  <2>4. p + q + c \in Byte <=> over = 0
    BY DEF Byte
  <2> QED BY <2>1, <2>2, <2>3, <2>4 DEF SumHasDigits
<1>4. added.r = 16 * (h + half - 16 * over) + (l - 16 * half)
  BY <1>3 DEF Plus, Result, SumHasDigits, added
<1>5. C \in added.cc <=> over = 1
  <2>1. C \in added.cc <=> p + q + c \notin Byte
    <3>1. p \in Byte /\ q \in Byte
      BY <1>3 DEF SumHasDigits
    <3>2. Asked(added.cc, p + q + c, SIGNED(p) + SIGNED(q) + c)
      BY <3>1, SumsExact DEF added
    <3> QED BY <3>2 DEF Asked
  <2> QED BY <1>1, <1>3, <2>1 DEF SumHasDigits, Carries4
<1>6. H \in added.cc <=> half = 1
  <2>1. added.cc = CLR_HNZVC(f) \union SET_FLAGS8(p, q, r) \union SET_H(p, q, r)
    BY DEF Plus, Result, added, r
  <2>2. H \in SET_H(p, q, r) <=> (2 * h + half) % 2 = 1
    BY <1>3 DEF SET_H, When, SumHasDigits, r
  <2>3. (2 * h + half) % 2 = half
    BY <1>1 DEF Carries4
  <2>4. H \notin CLR_HNZVC(f) /\ H \notin SET_FLAGS8(p, q, r)
    BY DEF CLR_HNZVC, SET_FLAGS8, SET_NZ8, SET_V8, SET_C8, When, C, V, N, Z, H
  <2> QED BY <2>1, <2>2, <2>3, <2>4
<1>7. added.cc \in Flags
  BY <1>3, SumsAndLogic DEF Outcome, SumHasDigits, added
<1>8. DecimalResult(Decimal(added.r, added.cc), 10 * h + l)
  BY <1>1, <1>4, <1>5, <1>6, <1>7, Corrected
<1> QED BY <1>2, <1>8 DEF added

DecimalInv ==
  task.name = "decimal" =>
    /\ task \in Tasks /\ code = Origin .. Origin + 2 /\ ~wai_state
    /\ bus.mem[Origin] = 137 /\ bus.mem[Origin + 1] = task.q
    /\ bus.mem[Origin + 2] = 25
    /\ \/ pc = Origin /\ d["a"] = task.p /\ Carry(cc) = task.k
       \/ /\ pc = Origin + 2
          /\ \E f \in Flags : LET added == Plus(task.p, task.q, task.k, f)
                              IN  d["a"] = added.r /\ cc = added.cc
       \/ pc = Origin + 3 /\ DecimalSums

LEMMA DecimalImage ==
  ASSUME ProgramsAreRun, DigitsAreAdded, NEW t \in Tasks, t.name = "decimal"
  PROVE  /\ Boot(t).pc = Origin /\ Boot(t).d["a"] = t.p
         /\ Carry(Boot(t).cc) = t.k
         /\ Boot(t).code = Origin .. Origin + 2
         /\ Boot(t).mem[Origin] = 137 /\ Boot(t).mem[Origin + 1] = t.q
         /\ Boot(t).mem[Origin + 2] = 25
<1> DEFINE bytes == <<137, t.q, 25>>
           f == IF t.k = 1 THEN {C} ELSE {}
<1>1. Boot(t) = Simple(bytes, <<>>, t.p, 0, f)
  BY DEF ProgramsAreRun, Program, DecimalAdd
<1>2. Carry(f) = t.k
  BY DEF DigitsAreAdded, Carry
<1>3. /\ Len(bytes) \in Nat /\ Len(bytes) = 3
      /\ bytes[1] = 137 /\ bytes[2] = t.q /\ bytes[3] = 25
  OBVIOUS
<1> HIDE DEF bytes, f
<1>4. Origin .. Origin + Len(bytes) - 1 = Origin .. Origin + 2
  BY <1>3 DEF Origin
<1>5. /\ Boot(t).pc = Origin /\ Boot(t).d["a"] = t.p /\ Boot(t).cc = f
      /\ Boot(t).code = Origin .. Origin + Len(bytes) - 1
      /\ \A i \in 0 .. Len(bytes) - 1 : Boot(t).mem[Origin + i] = bytes[i + 1]
  <2>1. Origin .. Origin + Len(bytes) - 1 \subseteq Mapped
    BY <1>4 DEF ProgramsAreRun, Origin
  <2>2. Loaded(Simple(bytes, <<>>, t.p, 0, f), bytes, t.p, f)
    <3>1. Len(bytes) \in Nat
      BY <1>3
    <3> QED BY <2>1, <3>1, SimpleImage
  <2> QED BY <1>1, <2>2 DEF Loaded
<1>6. /\ Boot(t).mem[Origin + 0] = bytes[0 + 1]
      /\ \A i \in {1, 2} : Boot(t).mem[Origin + i] = bytes[i + 1]
  BY <1>3, <1>5
<1> QED BY <1>2, <1>3, <1>4, <1>5, <1>6 DEF Origin

LEMMA DecimalBoots ==
  ASSUME ProgramsAreRun, DigitsAreAdded PROVE Init => DecimalInv
<1> SUFFICES ASSUME Init, task.name = "decimal" PROVE DecimalInv
  BY DEF DecimalInv
<1>1. /\ task \in Tasks /\ pc = Boot(task).pc /\ d = Boot(task).d
      /\ code = Boot(task).code /\ bus.mem = Boot(task).mem /\ ~wai_state
      /\ cc = Boot(task).cc
  BY DEF Init
<1> QED BY <1>1, DecimalImage DEF DecimalInv

(* What the two instructions leave is what DecimalSums asks. *)
LEMMA DecimalEnds ==
  ASSUME DigitsAreAdded, task \in Tasks, task.name = "decimal", NEW f \in Flags,
         LET added == Plus(task.p, task.q, task.k, f)
             m == Decimal(added.r, added.cc)
         IN  d'["a"] = m.r /\ cc' = m.cc,
         task' = task
  PROVE  DecimalSums'
<1>1. PICK h1 \in 0 .. 9, l1 \in 0 .. 9 : task.p = 16 * h1 + l1
  BY DEF DigitsAreAdded
<1>2. PICK h2 \in 0 .. 9, l2 \in 0 .. 9 : task.q = 16 * h2 + l2
  BY DEF DigitsAreAdded
<1>3. task.k \in {0, 1}
  BY DEF DigitsAreAdded
<1> DEFINE Tens(w) == 10 * (w \div 16) + (w % 16)
           sum == Tens(task.p) + Tens(task.q) + task.k
           added == Plus(task.p, task.q, task.k, f)
           m == Decimal(added.r, added.cc)
<1>4. sum = 10 * (h1 + h2) + (l1 + l2 + task.k)
  <2>1. Tens(task.p) = 10 * h1 + l1
    BY <1>1
  <2>2. Tens(task.q) = 10 * h2 + l2
    BY <1>2
  <2> HIDE DEF Tens
  <2> QED BY <1>3, <2>1, <2>2
<1>5. DecimalResult(m, 10 * (h1 + h2) + (l1 + l2 + task.k))
  BY <1>1, <1>2, <1>3, DigitsSummed
<1> HIDE DEF m
<1>6. d'["a"] = m.r /\ cc' = m.cc
  BY DEF m
<1> HIDE DEF sum
<1>7. d'["a"] = 16 * ((sum \div 10) % 10) + (sum % 10) /\ (C \in cc' <=> sum > 99)
  BY <1>4, <1>5, <1>6 DEF DecimalResult
<1> QED BY <1>7 DEF DecimalSums, sum

LEMMA DecimalSteps ==
  ASSUME ProgramsAreRun, DigitsAreAdded
  PROVE  MachineOK /\ DecimalInv /\ [Next]_vars => DecimalInv'
<1> SUFFICES ASSUME MachineOK, DecimalInv, [Next]_vars PROVE DecimalInv'
  OBVIOUS
<1>0. task' = task
  <2>1. CASE Next
    BY <2>1, TaskKept
  <2>2. CASE UNCHANGED vars
    BY <2>2 DEF vars
  <2> QED BY <2>1, <2>2
<1> SUFFICES ASSUME task.name = "decimal" PROVE DecimalInv'
  BY <1>0 DEF DecimalInv
<1>1. CASE UNCHANGED vars
  BY <1>1 DEF vars, DecimalInv, DecimalSums, Finished, Stopped
<1>2. CASE Next
  <2> DEFINE p == task.p
             q == task.q
  <2>1. task \in Tasks /\ task' = task /\ code' = code /\ pc \in code /\ cc \in Flags
    BY <1>2, TaskKept DEF DecimalInv, MachineOK
  <2>2. RM(Origin) = 137 /\ RM(Origin + 1) = q /\ RM(Origin + 2) = 25
    <3>1. {Origin, Origin + 1, Origin + 2} \subseteq Mapped
      BY DEF ProgramsAreRun, Origin
    <3> QED BY <3>1 DEF DecimalInv, RM
  <2>3. CASE pc = Origin
    <3>1. Opcode = 137 /\ Column = 9 /\ d["a"] = p /\ Carry(cc) = task.k
      BY <2>2, <2>3 DEF Opcode, Column, DecimalInv, Origin
    <3>2. ImmediateARow
      <4>1. 9 \in AluColumns /\ 137 = 128 + 9
        BY DEF AluColumns
      <4> QED BY <1>2, <3>1, <4>1, Decoded
    <3> DEFINE added == Plus(p, q, task.k, cc)
    <3>3. /\ pc' = Origin + 2 /\ bus' = bus /\ wai_state' = wai_state
          /\ cc' = added.cc /\ d'["a"] = added.r
      <4>1. IMM8.ea = Origin + 1 /\ IMM8.next = Origin + 2
        BY <2>3, Places DEF IMM8
      <4>2. Alu(9, p, q, cc) = added
        BY <3>1 DEF Alu
      <4>3. 9 \notin Keeping /\ d \in Accumulators
        BY DEF Keeping, MachineOK
      <4> HIDE DEF added
      <4> QED BY <2>2, <3>1, <3>2, <4>1, <4>2, <4>3
            DEF ImmediateARow, Accumulator, Accumulators
    <3> QED BY <2>1, <3>3 DEF DecimalInv
  <2>4. CASE pc = Origin + 2
    <3>1. PICK f \in Flags : LET added == Plus(p, q, task.k, f)
                             IN  d["a"] = added.r /\ cc = added.cc
      BY <2>4 DEF DecimalInv, Origin
    <3>2. Opcode = 25 /\ AccumulatorRow
      BY <1>2, <2>2, <2>4, Decoded DEF Opcode
    <3> DEFINE m == Decimal(d["a"], cc)
    <3>3. /\ pc' = Origin + 3 /\ bus' = bus /\ wai_state' = wai_state
          /\ cc' = m.cc /\ d'["a"] = m.r
      <4>1. TwoAccumulators(25) = m
        BY DEF TwoAccumulators
      <4>2. d \in Accumulators
        BY DEF MachineOK
      <4> HIDE DEF m
      <4> QED BY <2>4, <3>2, <4>1, <4>2, Places
            DEF AccumulatorRow, Inherent, Accumulators
    <3>4. DecimalSums'
      BY <2>1, <3>1, <3>3, DecimalEnds
    <3> HIDE DEF m
    <3> QED BY <2>1, <3>3, <3>4 DEF DecimalInv
  <2> QED BY <2>1, <2>3, <2>4 DEF DecimalInv, Origin
<1> QED BY <1>1, <1>2

(* ADC and DAA, one behind the other, add two numbers of two decimal digits and
   a carry, for all digits and whatever flags they began with: the half carry
   that SET_H (cpu/m6800.cpp) leaves is the one that daa (cpu/6800ops.hxx)
   needs, and the carries of both make up one. *)
THEOREM DecimalsAlwaysSum ==
  ASSUME ProgramsAreRun, DigitsAreAdded
  PROVE  Spec => []DecimalSums
<1>1. DecimalInv => DecimalSums
  BY DEF DecimalInv, DecimalSums, Finished, Stopped, Origin
<1> QED BY <1>1, DecimalBoots, DecimalSteps, MachineBoots, MachineSteps, PTL DEF Spec

-----------------------------------------------------------------------------
(* Which handlers an opcode that is not illegal has *)

LEMMA IllegalRow == ASSUME NEW length \in 1 .. 3, Illegal(length)
  PROVE \E l \in 1 .. 3 : Opcode \in IllegalOpcodes(l)
BY DEF Illegal, Fetch

Legal == \A length \in 1 .. 3 : Opcode \notin IllegalOpcodes(length)

LEMMA ModifyRows ==
  /\ ModifyARow => Opcode \in 64 .. 79
  /\ ModifyBRow => Opcode \in 80 .. 95
  /\ ModifyIndexedRow => Opcode \in 96 .. 111
  /\ ModifyExtendedRow => Opcode \in 112 .. 127
<1>1. \A c \in Modifying \union {14} : c \in 0 .. 15
  BY DEF Modifying
<1> QED
  BY <1>1 DEF ModifyARow, ModifyBRow, ModifyIndexedRow, ModifyExtendedRow,
              ModifyAccumulator, ModifyMemory, Inherent, Fetch

LEMMA AccumulatorRows ==
  /\ ImmediateARow => Opcode \in 128 .. 139
  /\ DirectARow => Opcode \in 144 .. 155
  /\ IndexedARow => Opcode \in 160 .. 171
  /\ ExtendedARow => Opcode \in 176 .. 187
  /\ ImmediateBRow => Opcode \in 192 .. 203
  /\ DirectBRow => Opcode \in 208 .. 219
  /\ IndexedBRow => Opcode \in 224 .. 235
  /\ ExtendedBRow => Opcode \in 240 .. 251
<1>1. ASSUME NEW first \in Int, NEW acc, NEW mode, Accumulator(first, acc, mode)
      PROVE  Opcode \in first .. first + 11
  BY <1>1 DEF Accumulator, Fetch
<1> QED
  BY <1>1 DEF ImmediateARow, DirectARow, IndexedARow, ExtendedARow,
              ImmediateBRow, DirectBRow, IndexedBRow, ExtendedBRow

LEMMA WordRows ==
  /\ ImmediateSRow => Opcode \in 140 .. 143
  /\ DirectSRow => Opcode \in 156 .. 159
  /\ IndexedSRow => Opcode \in 172 .. 175
  /\ ExtendedSRow => Opcode \in 188 .. 191
  /\ ImmediateXRow => Opcode \in 206 .. 207
  /\ DirectXRow => Opcode \in 222 .. 223
  /\ IndexedXRow => Opcode \in 238 .. 239
  /\ ExtendedXRow => Opcode \in 254 .. 255
<1>1. ASSUME NEW first \in Int, NEW mode, NEW target, StackRow(first, mode, target)
      PROVE  Opcode \in first .. first + 3
  BY <1>1 DEF StackRow, CMPX, Call, LoadWord, StoreWord, Fetch
<1>2. ASSUME NEW first \in Int, NEW mode, IndexRow(first, mode)
      PROVE  Opcode \in first .. first + 1
  BY <1>2 DEF IndexRow, LoadWord, StoreWord, Fetch
<1> QED
  BY <1>1, <1>2 DEF ImmediateSRow, DirectSRow, IndexedSRow, ExtendedSRow,
                    ImmediateXRow, DirectXRow, IndexedXRow, ExtendedXRow

LEMMA InherentRows ==
  /\ FlagRow => Opcode \in 1 .. 15
  /\ AccumulatorRow => Opcode \in 16 .. 27
  /\ BranchRow => Opcode \in 32 .. 47
  /\ StackPointerRow => Opcode \in {48, 49, 52, 53}
  /\ ByteStackRow => Opcode \in {50, 51, 54, 55}
  /\ RTS => Opcode = 57
  /\ RTI => Opcode = 59
  /\ WAI => Opcode = 62
  /\ SWI => Opcode = 63
BY DEF FlagRow, AccumulatorRow, BranchRow, StackPointerRow, ByteStackRow, RTS, RTI,
       WAI, SWI, Inherent, Fetch

LEMMA RowOf ==
  ASSUME Next, Legal
  PROVE  /\ Opcode \in 0 .. 15 => FlagRow
         /\ Opcode \in 16 .. 31 => AccumulatorRow
         /\ Opcode \in 32 .. 47 => BranchRow
         /\ Opcode \in {50, 51, 54, 55} => ByteStackRow
         /\ Opcode = 57 => RTS
         /\ Opcode = 59 => RTI
         /\ Opcode = 63 => SWI
         /\ Opcode \in 64 .. 79 => ModifyARow
         /\ Opcode \in 80 .. 95 => ModifyBRow
         /\ Opcode \in 112 .. 127 => ModifyExtendedRow
         /\ Opcode \in 128 .. 139 => ImmediateARow
         /\ Opcode \in 140 .. 143 => ImmediateSRow
         /\ Opcode \in 144 .. 155 => DirectARow
         /\ Opcode \in 156 .. 159 => DirectSRow
         /\ Opcode \in 160 .. 171 => IndexedARow
         /\ Opcode \in 172 .. 175 => IndexedSRow
         /\ Opcode \in 188 .. 191 => ExtendedSRow
         /\ Opcode \in 192 .. 203 => ImmediateBRow
         /\ Opcode \in 206 .. 207 => ImmediateXRow
         /\ Opcode \in 222 .. 223 => DirectXRow
<1>1. CASE \/ FlagRow \/ AccumulatorRow \/ BranchRow
           \/ StackPointerRow \/ ByteStackRow \/ RTS \/ RTI \/ SWI \/ WAI
  BY <1>1, InherentRows
<1>2. CASE ModifyARow \/ ModifyBRow \/ ModifyIndexedRow \/ ModifyExtendedRow
  BY <1>2, ModifyRows
<1>3. CASE \/ ImmediateARow \/ DirectARow \/ IndexedARow \/ ExtendedARow
           \/ ImmediateBRow \/ DirectBRow \/ IndexedBRow \/ ExtendedBRow
  BY <1>3, AccumulatorRows
<1>4. CASE \/ ImmediateSRow \/ DirectSRow \/ IndexedSRow \/ ExtendedSRow
           \/ ImmediateXRow \/ DirectXRow \/ IndexedXRow \/ ExtendedXRow
  BY <1>4, WordRows
<1>5. CASE \E length \in 1 .. 3 : Illegal(length)
  BY <1>5, IllegalRow DEF Legal
<1> QED BY <1>1, <1>2, <1>3, <1>4, <1>5 DEF Next

LEMMA LegalOpcodes ==
  ASSUME Opcode \in {8, 9} \union 32 .. 47 \union {50, 51, 54, 55, 57, 59, 63}
                    \union {70, 73, 79, 86, 90}
                    \union {112, 115, 116, 118, 119, 120, 121, 124}
                    \union {140, 141, 144, 146, 150, 151, 153, 155, 157, 166, 167}
                    \union {173, 189, 198, 206, 222, 223}
  PROVE  Legal
BY IllegalAre DEF Legal

-----------------------------------------------------------------------------
(* The stack of a program, whose last byte is at Top, and its memory *)

(* The stack is in RAM, and programs and the vector can be read. *)
MemoryIsThere ==
  0 .. 63 \subseteq Writable /\ 0 .. 84 \union {Vector, Vector + 1} \subseteq Mapped

(* What is on the stack, the first byte pushed first *)
StackHolds(m, stack) ==
  /\ m \in Pushed /\ stack \in Seq(Byte)
  /\ m.s = Top - Len(stack)
  /\ \A i \in 1 .. Len(stack) : m.bus.mem[Top + 1 - i] = stack[i]

(* Behind the stack nothing has changed. *)
SameBehind(m, n) == \A addr \in Mapped : addr > Top => m.mem[addr] = n.mem[addr]

LEMMA There ==
  ASSUME MemoryIsThere
  PROVE  /\ \A addr \in 0 .. 63 : addr \in Writable
         /\ \A addr \in 0 .. 84 : addr \in Mapped
         /\ Vector \in Mapped /\ Vector + 1 \in Mapped
BY DEF MemoryIsThere

LEMMA WrittenThere ==
  ASSUME MemoryIsThere, NEW m \in Bus, NEW addr \in 0 .. 63, NEW v \in Byte
  PROVE  /\ Written(m, addr, v) \in Bus
         /\ Written(m, addr, v).mem = [m.mem EXCEPT ![addr] = v]
         /\ Written(m, addr, v).segment = m.segment
         /\ addr \in Mapped
<1>1. addr \in Writable /\ addr \in Mapped /\ addr \notin DisplayAddresses
  BY MachineAssumption DEF MemoryIsThere
<1>2. Written(m, addr, v) = [m EXCEPT !.mem[addr] = v, !.last = v]
  BY <1>1 DEF Written
<1>3. /\ [m EXCEPT !.mem[addr] = v, !.last = v].mem = [m.mem EXCEPT ![addr] = v]
      /\ [m EXCEPT !.mem[addr] = v, !.last = v].segment = m.segment
  BY DEF Bus
<1> QED BY <1>1, <1>2, <1>3, Writes

LEMMA ByteIsPushed ==
  ASSUME MemoryIsThere, NEW m, NEW stack, StackHolds(m, stack), Len(stack) < Top,
         NEW v \in Byte
  PROVE  /\ StackHolds(PushByte(m, v), Append(stack, v))
         /\ SameBehind(PushByte(m, v).bus, m.bus)
<1> DEFINE n == PushByte(m, v)
           new == Append(stack, v)
           addr == m.s
<1>1. /\ m \in Pushed /\ m.bus \in Bus /\ stack \in Seq(Byte)
      /\ addr = 31 - Len(stack) /\ Len(stack) \in Nat /\ Len(stack) < 31
  BY DEF StackHolds, Pushed, Top
<1>2. addr \in 1 .. 31 /\ addr \in 0 .. 63
  <2> HIDE DEF addr
  <2>1. PICK length \in Nat : length = Len(stack)
    BY <1>1
  <2>2. addr = 31 - length /\ length < 31
    BY <1>1, <2>1
  <2> QED BY <2>2
<1>3. /\ new \in Seq(Byte) /\ Len(new) = Len(stack) + 1
      /\ new[Len(stack) + 1] = v
      /\ \A i \in 1 .. Len(stack) : new[i] = stack[i]
  BY <1>1
<1>4. n.bus.mem = [m.bus.mem EXCEPT ![addr] = v] /\ addr \in Mapped /\ n.s = addr - 1
  <2>1. n.bus = Written(m.bus, addr, v) /\ n.s = Wrap(addr - 1)
    BY DEF PushByte
  <2> HIDE DEF n, addr
  <2>2. Wrap(addr - 1) = addr - 1
    BY <1>2 DEF Wrap
  <2>3. /\ Written(m.bus, addr, v).mem = [m.bus.mem EXCEPT ![addr] = v]
        /\ addr \in Mapped
    BY <1>1, <1>2, WrittenThere
  <2> QED BY <2>1, <2>2, <2>3
<1>5. n \in Pushed
  BY <1>1, Pushes
<1>6. m.bus.mem \in [Mapped -> Byte]
  BY <1>1 DEF Bus
<1> HIDE DEF n, new, addr
<1>7. \A i \in 1 .. Len(stack) : m.bus.mem[32 - i] = stack[i]
  BY DEF StackHolds, Top
<1>8. \A i \in 1 .. Len(new) : n.bus.mem[32 - i] = new[i]
  <2> SUFFICES ASSUME NEW i \in 1 .. Len(new) PROVE n.bus.mem[32 - i] = new[i]
    OBVIOUS
  <2>1. CASE i = Len(stack) + 1
    <3>1. 32 - i = addr
      BY <1>1, <2>1
    <3> QED BY <1>3, <1>4, <1>6, <2>1, <3>1
  <2>2. CASE i \in 1 .. Len(stack)
    <3>1. 32 - i # addr
      BY <1>1, <2>2
    <3> QED BY <1>3, <1>4, <1>6, <1>7, <2>2, <3>1
  <2> QED BY <1>1, <1>3, <2>1, <2>2
<1>9. StackHolds(n, new)
  BY <1>1, <1>3, <1>4, <1>5, <1>8 DEF StackHolds, Top
<1>10. SameBehind(n.bus, m.bus)
  BY <1>2, <1>4, <1>6 DEF SameBehind, Top
<1> QED BY <1>9, <1>10 DEF n, new

LEMMA WordIsPushed ==
  ASSUME MemoryIsThere, NEW m, NEW stack, StackHolds(m, stack), Len(stack) < Top - 1,
         NEW w \in Word
  PROVE  /\ StackHolds(PushWord(m, w), stack \o <<Low(w), High(w)>>)
         /\ SameBehind(PushWord(m, w).bus, m.bus)
<1> DEFINE one == PushByte(m, Low(w))
           more == Append(stack, Low(w))
           two == PushByte(one, High(w))
<1>1. Low(w) \in Byte /\ High(w) \in Byte /\ stack \in Seq(Byte) /\ Top = 31
  BY Halves DEF StackHolds, Top
<1>2. Len(stack) < Top
  BY <1>1
<1>3. StackHolds(one, more) /\ SameBehind(one.bus, m.bus)
  BY <1>1, <1>2, ByteIsPushed
<1>4. Len(more) < Top
  BY <1>1
<1> HIDE DEF one, more
<1>5. StackHolds(two, Append(more, High(w))) /\ SameBehind(two.bus, one.bus)
  BY <1>1, <1>3, <1>4, ByteIsPushed
<1>6. Append(more, High(w)) = stack \o <<Low(w), High(w)>>
  BY <1>1 DEF more
<1>7. two = PushWord(m, w)
  BY DEF two, one, PushWord
<1>8. SameBehind(two.bus, m.bus)
  BY <1>3, <1>5 DEF SameBehind
<1> QED BY <1>5, <1>6, <1>7, <1>8

(* What is pulled is what was pushed last. *)
LEMMA BytesArePulled ==
  ASSUME MemoryIsThere, NEW stack, StackHolds(Stack, stack), Len(stack) < Top
  PROVE  /\ \A i \in 1 .. Len(stack) : Pulled(i) = stack[Len(stack) + 1 - i]
         /\ \A i \in 1 .. Len(stack) : Wrap(s + i) = s + i
<1>1. /\ Len(stack) \in Nat /\ s = 31 - Len(stack) /\ Len(stack) < 31
      /\ \A i \in 1 .. Len(stack) : bus.mem[32 - i] = stack[i]
  BY DEF StackHolds, Stack, Top
<1> SUFFICES ASSUME NEW i \in 1 .. Len(stack)
             PROVE  Pulled(i) = stack[Len(stack) + 1 - i] /\ Wrap(s + i) = s + i
  OBVIOUS
<1>2. Wrap(s + i) = s + i /\ s + i \in 0 .. 31
  <2>1. PICK length \in Nat : length = Len(stack)
    BY <1>1
  <2>2. i \in 1 .. length /\ s = 31 - length /\ length < 31
    BY <1>1, <2>1
  <2>3. s + i \in 0 .. 31 /\ s + i \in Word
    BY <2>2, Words16
  <2> QED BY <2>3, Wraps, Words16
<1>3. s + i \in Mapped
  <2>1. s + i \in 0 .. 84
    <3> DEFINE a == s + i
    <3>1. a \in 0 .. 31
      BY <1>2
    <3> HIDE DEF a
    <3>2. a \in 0 .. 84
      BY <3>1
    <3> QED BY <3>2 DEF a
  <2> QED BY <2>1, There
<1>4. Len(stack) + 1 - i \in 1 .. Len(stack) /\ 32 - (Len(stack) + 1 - i) = s + i
  BY <1>1
<1> QED BY <1>1, <1>2, <1>3, <1>4 DEF Pulled, RM

LEMMA SameList ==
  ASSUME NEW S, NEW l \in Seq(S), NEW r \in Seq(S), Len(l) = Len(r), Len(l) <= 7,
         \A i \in {1, 2, 3, 4, 5, 6, 7} : i <= Len(l) => l[i] = r[i]
  PROVE  l = r
<1>1. \A i \in 1 .. Len(l) : l[i] = r[i]
  <2>1. PICK n \in Nat : n = Len(l) /\ n <= 7
    OBVIOUS
  <2>2. \A i \in 1 .. n : i \in {1, 2, 3, 4, 5, 6, 7} /\ i <= n
    BY <2>1
  <2> QED BY <2>1, <2>2
<1> QED BY <1>1, SeqEqual

(* Stacks that grow by a byte or by an address *)
LEMMA WithByte3 ==
  ASSUME NEW S, NEW a \in S, NEW b \in S, NEW c \in S
  PROVE  Append(<<a, b>>, c) = <<a, b, c>>
<1> DEFINE one == Append(<<a, b>>, c)
           two == <<a, b, c>>
<1>1. /\ one \in Seq(S) /\ Len(one) = 3
      /\ one[1] = a /\ one[2] = b /\ one[3] = c
  OBVIOUS
<1>2. /\ two \in Seq(S) /\ Len(two) = 3
      /\ two[1] = a /\ two[2] = b /\ two[3] = c
  OBVIOUS
<1> HIDE DEF one, two
<1>3. one = two
  BY <1>1, <1>2, SameList
<1> QED BY <1>3 DEF one, two

LEMMA WithByte4 ==
  ASSUME NEW S, NEW a \in S, NEW b \in S, NEW c \in S, NEW e \in S
  PROVE  Append(<<a, b, c>>, e) = <<a, b, c, e>>
<1> DEFINE one == Append(<<a, b, c>>, e)
           two == <<a, b, c, e>>
<1>1. /\ one \in Seq(S) /\ Len(one) = 4
      /\ one[1] = a /\ one[2] = b /\ one[3] = c /\ one[4] = e
  OBVIOUS
<1>2. /\ two \in Seq(S) /\ Len(two) = 4
      /\ two[1] = a /\ two[2] = b /\ two[3] = c /\ two[4] = e
  OBVIOUS
<1> HIDE DEF one, two
<1>3. one = two
  BY <1>1, <1>2, SameList
<1> QED BY <1>3 DEF one, two

LEMMA WithByte5 ==
  ASSUME NEW S, NEW a \in S, NEW b \in S, NEW c \in S, NEW e \in S, NEW f \in S
  PROVE  Append(<<a, b, c, e>>, f) = <<a, b, c, e, f>>
<1> DEFINE one == Append(<<a, b, c, e>>, f)
           two == <<a, b, c, e, f>>
<1>1. /\ one \in Seq(S) /\ Len(one) = 5
      /\ one[1] = a /\ one[2] = b /\ one[3] = c /\ one[4] = e /\ one[5] = f
  OBVIOUS
<1>2. /\ two \in Seq(S) /\ Len(two) = 5
      /\ two[1] = a /\ two[2] = b /\ two[3] = c /\ two[4] = e /\ two[5] = f
  OBVIOUS
<1> HIDE DEF one, two
<1>3. one = two
  BY <1>1, <1>2, SameList
<1> QED BY <1>3 DEF one, two

LEMMA WithByte6 ==
  ASSUME NEW S, NEW a \in S, NEW b \in S, NEW c \in S, NEW e \in S, NEW f \in S, NEW g \in S
  PROVE  Append(<<a, b, c, e, f>>, g) = <<a, b, c, e, f, g>>
<1> DEFINE one == Append(<<a, b, c, e, f>>, g)
           two == <<a, b, c, e, f, g>>
<1>1. /\ one \in Seq(S) /\ Len(one) = 6
      /\ one[1] = a /\ one[2] = b /\ one[3] = c /\ one[4] = e /\ one[5] = f /\ one[6] = g
  OBVIOUS
<1>2. /\ two \in Seq(S) /\ Len(two) = 6
      /\ two[1] = a /\ two[2] = b /\ two[3] = c /\ two[4] = e /\ two[5] = f /\ two[6] = g
  OBVIOUS
<1> HIDE DEF one, two
<1>3. one = two
  BY <1>1, <1>2, SameList
<1> QED BY <1>3 DEF one, two

LEMMA WithByte7 ==
  ASSUME NEW S, NEW a \in S, NEW b \in S, NEW c \in S, NEW e \in S, NEW f \in S, NEW g \in S, NEW h \in S
  PROVE  Append(<<a, b, c, e, f, g>>, h) = <<a, b, c, e, f, g, h>>
<1> DEFINE one == Append(<<a, b, c, e, f, g>>, h)
           two == <<a, b, c, e, f, g, h>>
<1>1. /\ one \in Seq(S) /\ Len(one) = 7
      /\ one[1] = a /\ one[2] = b /\ one[3] = c /\ one[4] = e /\ one[5] = f /\ one[6] = g /\ one[7] = h
  OBVIOUS
<1>2. /\ two \in Seq(S) /\ Len(two) = 7
      /\ two[1] = a /\ two[2] = b /\ two[3] = c /\ two[4] = e /\ two[5] = f /\ two[6] = g /\ two[7] = h
  OBVIOUS
<1> HIDE DEF one, two
<1>3. one = two
  BY <1>1, <1>2, SameList
<1> QED BY <1>3 DEF one, two

LEMMA WithWord2 ==
  ASSUME NEW S, NEW a \in S, NEW b \in S
  PROVE  <<>> \o <<a, b>> = <<a, b>>
<1> DEFINE one == <<>> \o <<a, b>>
           two == <<a, b>>
<1>1. /\ one \in Seq(S) /\ Len(one) = 2
      /\ one[1] = a /\ one[2] = b
  OBVIOUS
<1>2. /\ two \in Seq(S) /\ Len(two) = 2
      /\ two[1] = a /\ two[2] = b
  OBVIOUS
<1> HIDE DEF one, two
<1>3. one = two
  BY <1>1, <1>2, SameList
<1> QED BY <1>3 DEF one, two

LEMMA WithWord4 ==
  ASSUME NEW S, NEW a \in S, NEW b \in S, NEW c \in S, NEW e \in S
  PROVE  <<a, b>> \o <<c, e>> = <<a, b, c, e>>
<1> DEFINE one == <<a, b>> \o <<c, e>>
           two == <<a, b, c, e>>
<1>1. /\ one \in Seq(S) /\ Len(one) = 4
      /\ one[1] = a /\ one[2] = b /\ one[3] = c /\ one[4] = e
  OBVIOUS
<1>2. /\ two \in Seq(S) /\ Len(two) = 4
      /\ two[1] = a /\ two[2] = b /\ two[3] = c /\ two[4] = e
  OBVIOUS
<1> HIDE DEF one, two
<1>3. one = two
  BY <1>1, <1>2, SameList
<1> QED BY <1>3 DEF one, two

LEMMA WithWord6 ==
  ASSUME NEW S, NEW a \in S, NEW b \in S, NEW c \in S, NEW e \in S, NEW f \in S, NEW g \in S
  PROVE  <<a, b, c, e>> \o <<f, g>> = <<a, b, c, e, f, g>>
<1> DEFINE one == <<a, b, c, e>> \o <<f, g>>
           two == <<a, b, c, e, f, g>>
<1>1. /\ one \in Seq(S) /\ Len(one) = 6
      /\ one[1] = a /\ one[2] = b /\ one[3] = c /\ one[4] = e /\ one[5] = f /\ one[6] = g
  OBVIOUS
<1>2. /\ two \in Seq(S) /\ Len(two) = 6
      /\ two[1] = a /\ two[2] = b /\ two[3] = c /\ two[4] = e /\ two[5] = f /\ two[6] = g
  OBVIOUS
<1> HIDE DEF one, two
<1>3. one = two
  BY <1>1, <1>2, SameList
<1> QED BY <1>3 DEF one, two

LEMMA StackShrinks ==
  ASSUME NEW stack, StackHolds(Stack, stack), NEW n \in 0 .. Len(stack)
  PROVE  StackHolds([bus |-> bus, s |-> s + n], SubSeq(stack, 1, Len(stack) - n))
<1> DEFINE left == SubSeq(stack, 1, Len(stack) - n)
<1>1. /\ Len(stack) \in Nat /\ s = 31 - Len(stack) /\ stack \in Seq(Byte)
      /\ \A i \in 1 .. Len(stack) : bus.mem[32 - i] = stack[i]
      /\ bus \in Bus /\ s \in Word
  BY DEF StackHolds, Stack, Top, Pushed
<1>2. /\ left \in Seq(Byte) /\ Len(left) = Len(stack) - n
      /\ \A i \in 1 .. Len(stack) - n : left[i] = stack[i]
  BY <1>1
<1> HIDE DEF left
<1>3. s + n \in Word /\ s + n = 31 - Len(left)
  <2>1. PICK length \in Nat : length = Len(stack)
    BY <1>1
  <2>2. s >= 0
    <3>1. s \in Word
      BY <1>1
    <3> QED BY <3>1, Words16
  <2>3. n \in 0 .. length /\ s = 31 - length /\ Len(left) = length - n
    BY <1>1, <1>2, <2>1
  <2>4. 0 <= s + n /\ s + n <= 31 /\ s + n \in Int /\ s + n = 31 - (length - n)
    BY <2>2, <2>3
  <2>5. s + n \in Word
    BY <2>4, Words16
  <2> QED BY <2>3, <2>4, <2>5
<1> QED BY <1>1, <1>2, <1>3 DEF StackHolds, Top, Pushed, left

StackIs(stack) == StackHolds(Stack, stack)

(* The program of the task is as it was loaded. *)
Kept ==
  /\ task \in Tasks /\ ~wai_state /\ code = Boot(task).code
  /\ \A addr \in code :
       addr \in Mapped /\ addr > Top /\ bus.mem[addr] = Boot(task).mem[addr]

LEMMA KeptOn ==
  ASSUME Kept, Next, wai_state' = wai_state, SameBehind(bus', bus)
  PROVE  Kept'
BY TaskKept DEF Kept, SameBehind

LEMMA KeptAlone == ASSUME Kept, UNCHANGED vars PROVE Kept'
BY DEF Kept, vars

LEMMA PushStep ==
  ASSUME MachineOK, MemoryIsThere, Next,
         NEW stack, StackIs(stack), Len(stack) < Top,
         NEW acc \in {"a", "b"}, Opcode = IF acc = "a" THEN 54 ELSE 55,
         NEW v, d[acc] = v
  PROVE  /\ StackIs(Append(stack, v))' /\ SameBehind(bus', bus)
         /\ pc' = Wrap(pc + 1) /\ UNCHANGED <<x, d, cc, wai_state>>
<1>1. ByteStackRow /\ v \in Byte
  BY LegalOpcodes, RowOf, AccumulatorsHold
<1>2. /\ bus' = PushByte(Stack, v).bus /\ s' = PushByte(Stack, v).s
      /\ pc' = Wrap(pc + 1) /\ UNCHANGED <<x, d, cc, wai_state>>
  BY <1>1 DEF ByteStackRow, Inherent, Fetch
<1>3. Stack' = PushByte(Stack, v)
  BY <1>2 DEF Stack, PushByte
<1>4. /\ StackHolds(PushByte(Stack, v), Append(stack, v))
      /\ SameBehind(PushByte(Stack, v).bus, Stack.bus)
  BY <1>1, ByteIsPushed DEF StackIs
<1>5. Stack.bus = bus
  BY DEF Stack
<1> QED BY <1>2, <1>3, <1>4, <1>5 DEF StackIs

LEMMA PullStep ==
  ASSUME MachineOK, MemoryIsThere, Next,
         NEW stack \in Seq(Byte), NEW v, StackIs(Append(stack, v)), Len(stack) < Top - 1,
         NEW acc \in {"a", "b"}, Opcode = IF acc = "a" THEN 50 ELSE 51
  PROVE  /\ StackIs(stack)' /\ SameBehind(bus', bus)
         /\ d' = [d EXCEPT ![acc] = v]
         /\ pc' = Wrap(pc + 1) /\ UNCHANGED <<x, cc, wai_state>>
<1> DEFINE full == Append(stack, v)
<1>0. full \in Seq(Byte)
  BY DEF StackIs, StackHolds
<1>1. /\ Len(full) = Len(stack) + 1 /\ full[Len(stack) + 1] = v
      /\ SubSeq(full, 1, Len(full) - 1) = stack
      /\ Len(stack) \in Nat
  <2>1. Len(full) = Len(stack) + 1 /\ full[Len(stack) + 1] = v /\ Len(stack) \in Nat
    BY <1>0
  <2>2. v \in Byte
    BY <1>0, <2>1
  <2>3. SubSeq(full, 1, Len(full) - 1) = stack
    BY <2>1, <2>2, AppendProperties
  <2> QED BY <2>1, <2>3
<1> HIDE DEF full
<1>2. StackHolds(Stack, full) /\ Len(full) < Top /\ 1 \in 1 .. Len(full) /\ 1 \in 0 .. Len(full)
  BY <1>1 DEF StackIs, Top, full
<1>3. Pulled(1) = v /\ Wrap(s + 1) = s + 1
  BY <1>1, <1>2, BytesArePulled
<1>4. ByteStackRow
  BY LegalOpcodes, RowOf
<1>5. /\ bus' = bus /\ s' = s + 1 /\ d' = [d EXCEPT ![acc] = v]
      /\ pc' = Wrap(pc + 1) /\ UNCHANGED <<x, cc, wai_state>>
  BY <1>3, <1>4 DEF ByteStackRow, Inherent, Fetch
<1>6. StackHolds([bus |-> bus, s |-> s + 1], stack)
  BY <1>1, <1>2, StackShrinks
<1>7. Stack' = [bus |-> bus, s |-> s + 1]
  BY <1>5 DEF Stack
<1> QED BY <1>5, <1>6, <1>7 DEF StackIs, SameBehind

(* BSR and JSR push the address behind them ... *)
LEMMA CallStep ==
  ASSUME MachineOK, MemoryIsThere,
         NEW opcode, NEW target \in {RELATIVE, DIRECT, INDEXED, EXTENDED},
         Call(opcode, target),
         NEW stack, StackIs(stack), Len(stack) < Top - 1
  PROVE  /\ StackIs(stack \o <<Low(target.next), High(target.next)>>)'
         /\ SameBehind(bus', bus)
         /\ pc' = target.ea /\ UNCHANGED <<x, d, cc, wai_state>>
<1> PICK next, ea : next = target.next /\ ea = target.ea
  OBVIOUS
<1>1. next \in Word
  BY Modes
<1>2. /\ bus' = PushWord(Stack, next).bus /\ s' = PushWord(Stack, next).s
      /\ pc' = ea /\ UNCHANGED <<x, d, cc, wai_state>>
  BY DEF Call
<1>3. Stack' = PushWord(Stack, next) /\ Stack.bus = bus
  BY <1>2 DEF Stack, PushWord, PushByte
<1>4. /\ StackHolds(PushWord(Stack, next), stack \o <<Low(next), High(next)>>)
      /\ SameBehind(PushWord(Stack, next).bus, Stack.bus)
  BY <1>1, WordIsPushed DEF StackIs
<1> QED BY <1>2, <1>3, <1>4 DEF StackIs

(* ... to which RTS returns. *)
LEMMA ReturnStep ==
  ASSUME MachineOK, MemoryIsThere, Next, Opcode = 57,
         NEW full, StackIs(full),
         NEW stack \in Seq(Byte), NEW low \in Byte, NEW high \in Byte,
         stack \o <<low, high>> = full, Len(stack) < Top - 2
  PROVE  /\ StackIs(stack)' /\ SameBehind(bus', bus)
         /\ pc' = 256 * high + low /\ UNCHANGED <<x, d, cc, wai_state>>
<1>1. /\ Len(full) = Len(stack) + 2 /\ Len(stack) \in Nat
      /\ full[Len(stack) + 1] = low /\ full[Len(stack) + 2] = high
      /\ full \in Seq(Byte) /\ \A i \in 1 .. Len(stack) : full[i] = stack[i]
  OBVIOUS
<1>2. SubSeq(full, 1, Len(full) - 2) = stack
  <2> DEFINE part == SubSeq(full, 1, Len(full) - 2)
  <2>1. /\ part \in Seq(Byte) /\ Len(part) = Len(stack)
        /\ \A i \in 1 .. Len(stack) : part[i] = full[i]
    <3> QED BY <1>1
  <2> HIDE DEF part
  <2>2. \A i \in 1 .. Len(stack) : part[i] = stack[i]
    BY <1>1, <2>1
  <2>3. part = stack
    BY <2>1, <2>2, SeqEqual
  <2> QED BY <2>3 DEF part
<1>3. StackHolds(Stack, full) /\ Len(full) < Top
  BY <1>1 DEF StackIs, Top
<1>4. Pulled(1) = high /\ Pulled(2) = low /\ Wrap(s + 2) = s + 2
  <2>1. 1 \in 1 .. Len(full) /\ 2 \in 1 .. Len(full)
    BY <1>1
  <2>2. Len(full) + 1 - 1 = Len(stack) + 2 /\ Len(full) + 1 - 2 = Len(stack) + 1
    BY <1>1
  <2> QED BY <1>1, <1>3, <2>1, <2>2, BytesArePulled
<1>5. RTS
  BY LegalOpcodes, RowOf
<1>6. /\ bus' = bus /\ s' = s + 2 /\ pc' = 256 * high + low
      /\ UNCHANGED <<x, d, cc, wai_state>>
  BY <1>4, <1>5 DEF RTS, PulledWord
<1>7. StackHolds([bus |-> bus, s |-> s + 2], stack)
  <2>1. 2 \in 0 .. Len(full)
    BY <1>1
  <2> QED BY <1>2, <1>3, <2>1, StackShrinks
<1>8. Stack' = [bus |-> bus, s |-> s + 2]
  BY <1>6 DEF Stack
<1> QED BY <1>6, <1>7, <1>8 DEF StackIs, SameBehind

-----------------------------------------------------------------------------
(* Programs: calls *)

CallsAreMade ==
  \A t \in Tasks : t.name = "call" => t.p \in Byte /\ t.q \in Byte /\ t.k \in 1 .. 4

LEMMA PlacedIs ==
  ASSUME NEW origin \in Nat, NEW bytes, Len(bytes) \in Nat
  PROVE  /\ DOMAIN Placed(origin, bytes) = origin .. origin + Len(bytes) - 1
         /\ \A i \in 0 .. Len(bytes) - 1 :
              Placed(origin, bytes)[origin + i] = bytes[i + 1]
BY DEF Placed

LEMMA ImageIs ==
  ASSUME NEW placed, NEW data, NEW addr \in Mapped \cap DOMAIN placed
  PROVE  Image(placed, data)[addr] = placed[addr]
BY DEF Image

(* Behind a call *)
Behind(k) == Origin + IF k = 4 THEN 3 ELSE 2

(* The memory at Origin and the subroutines *)
CallBytes(k, m) ==
  /\ m[32] = <<141, 157, 173, 189>>[k] /\ m[33] = <<6, 40, 0, 0>>[k]
  /\ k = 4 => m[34] = 40
  /\ m[40] = 54 /\ m[41] = 55 /\ m[42] = 189 /\ m[43] = 0 /\ m[44] = 50
  /\ m[45] = 50 /\ m[46] = 51 /\ m[47] = 57
  /\ m[50] = 54 /\ m[51] = 79 /\ m[52] = 50 /\ m[53] = 57

(* What the CPU reads there *)
Seen == [a \in 0 .. 84 |-> RM(a)]

CallCode(k) == Origin .. Behind(k) - 1 \union 40 .. 47 \union 50 .. 53

LEMMA CallImage ==
  ASSUME ProgramsAreRun, MemoryIsThere, CallsAreMade, NEW t \in Tasks, t.name = "call"
  PROVE  /\ Boot(t).pc = Origin /\ Boot(t).x = 40 /\ Boot(t).s = Top
         /\ Boot(t).d["a"] = t.p /\ Boot(t).d["b"] = t.q
         /\ Boot(t).code = CallCode(t.k) /\ CallBytes(t.k, Boot(t).mem)
<1> DEFINE calls == << <<141, 6>>, <<157, 40>>, <<173, 0>>, <<189, 0, 40>> >>
           call == Placed(Origin, calls[t.k])
           outer == Placed(40, <<54, 55, 189, 0, 50, 50, 51, 57>>)
           inner == Placed(50, <<54, 79, 50, 57>>)
           placed == [a \in DOMAIN call \union DOMAIN outer \union DOMAIN inner |->
                       IF a < 40 THEN call[a] ELSE IF a < 50 THEN outer[a] ELSE inner[a]]
           image == Image(placed, <<>>)
<1>1. Boot(t) = Machine(image, DOMAIN placed, t.p, t.q, {V, I})
  BY DEF ProgramsAreRun, Program, Calls
<1>2. t.k \in 1 .. 4
  BY DEF CallsAreMade
<1>3. /\ DOMAIN call = Origin .. Behind(t.k) - 1
      /\ call[32] = <<141, 157, 173, 189>>[t.k] /\ call[33] = <<6, 40, 0, 0>>[t.k]
      /\ t.k = 4 => call[34] = 40
  <2> DEFINE b == calls[t.k]
  <2>1. /\ Len(b) \in Nat /\ Len(b) = IF t.k = 4 THEN 3 ELSE 2
        /\ b[1] = <<141, 157, 173, 189>>[t.k] /\ b[2] = <<6, 40, 0, 0>>[t.k]
        /\ t.k = 4 => b[3] = 40
    <3>1. CASE t.k = 1
      BY <3>1
    <3>2. CASE t.k = 2
      BY <3>2
    <3>3. CASE t.k = 3
      BY <3>3
    <3>4. CASE t.k = 4
      BY <3>4
    <3> QED BY <1>2, <3>1, <3>2, <3>3, <3>4
  <2> HIDE DEF calls, b
  <2>2. DOMAIN call = 32 .. 32 + Len(b) - 1
    BY <2>1 DEF Placed, Origin, b
  <2>3. \A i \in 0 .. Len(b) - 1 : call[32 + i] = b[i + 1]
    BY <2>1 DEF Placed, Origin, b
  <2>4. call[32 + 0] = b[0 + 1] /\ call[32 + 1] = b[1 + 1] /\ (t.k = 4 => call[32 + 2] = b[2 + 1])
    BY <2>1, <2>3
  <2>5. 32 .. 32 + Len(b) - 1 = Origin .. Behind(t.k) - 1
    BY <2>1 DEF Origin, Behind
  <2> HIDE DEF call
  <2> QED BY <2>1, <2>2, <2>4, <2>5
<1>4. /\ DOMAIN outer = 40 .. 47
      /\ outer[40] = 54 /\ outer[41] = 55 /\ outer[42] = 189 /\ outer[43] = 0
      /\ outer[44] = 50 /\ outer[45] = 50 /\ outer[46] = 51 /\ outer[47] = 57
  BY DEF Placed
<1>5. /\ DOMAIN inner = 50 .. 53
      /\ inner[50] = 54 /\ inner[51] = 79 /\ inner[52] = 50 /\ inner[53] = 57
  BY DEF Placed
<1> HIDE DEF call, outer, inner
<1>6. DOMAIN placed = CallCode(t.k)
  BY <1>3, <1>4, <1>5 DEF CallCode
<1>7. CallBytes(t.k, placed)
  <2>1. /\ {32, 33} \union 40 .. 47 \union 50 .. 53 \subseteq CallCode(t.k)
        /\ t.k = 4 => 34 \in CallCode(t.k)
    BY <1>2 DEF CallCode, Origin, Behind
  <2>2. \A a \in CallCode(t.k) :
          placed[a] = IF a < 40 THEN call[a] ELSE IF a < 50 THEN outer[a] ELSE inner[a]
    BY <1>6
  <2> HIDE DEF placed
  <2>3. \A a \in {32, 33} : placed[a] = call[a]
    BY <2>1, <2>2
  <2>4. t.k = 4 => placed[34] = call[34]
    BY <2>1, <2>2
  <2>5. \A a \in 40 .. 47 : placed[a] = outer[a]
    BY <2>1, <2>2
  <2>6. \A a \in 50 .. 53 : placed[a] = inner[a]
    BY <2>1, <2>2
  <2> QED BY <1>3, <1>4, <1>5, <2>3, <2>4, <2>5, <2>6 DEF CallBytes
<1> HIDE DEF placed
<1>8. CallCode(t.k) \subseteq Mapped
  <2>1. CallCode(t.k) \subseteq 0 .. 84
    BY <1>2 DEF CallCode, Origin, Behind
  <2> QED BY <2>1, There
<1>9. \A a \in CallCode(t.k) : image[a] = placed[a]
  BY <1>6, <1>8, ImageIs
<1> HIDE DEF image
<1>10. CallBytes(t.k, image)
  <2>1. /\ {32, 33} \union 40 .. 47 \union 50 .. 53 \subseteq CallCode(t.k)
        /\ t.k = 4 => 34 \in CallCode(t.k)
    BY <1>2 DEF CallCode, Origin, Behind
  <2> QED BY <1>7, <1>9, <2>1 DEF CallBytes
<1> QED BY <1>1, <1>6, <1>10 DEF Machine

(* The program counter, the accumulators and the stack *)
At(address, a, b, stack) ==
  pc = address /\ d["a"] = a /\ d["b"] = b /\ StackIs(stack)

CallPoint(t) ==
  LET p == t.p
      q == t.q
      end == Behind(t.k)
  IN  \/ At(32, p, q, <<>>)
      \/ At(40, p, q, <<end, 0>>)
      \/ At(41, p, q, <<end, 0, p>>)
      \/ At(42, p, q, <<end, 0, p, q>>)
      \/ At(50, p, q, <<end, 0, p, q, 45, 0>>)
      \/ At(51, p, q, <<end, 0, p, q, 45, 0, p>>)
      \/ At(52, 0, q, <<end, 0, p, q, 45, 0, p>>)
      \/ At(53, p, q, <<end, 0, p, q, 45, 0>>)
      \/ At(45, p, q, <<end, 0, p, q>>)
      \/ At(46, q, q, <<end, 0, p>>)
      \/ At(47, q, p, <<end, 0>>)
      \/ At(end, q, p, <<>>)

CallInv == task.name = "call" => Kept /\ x = 40 /\ CallPoint(task)

LEMMA CallBoots ==
  ASSUME ProgramsAreRun, MemoryIsThere, CallsAreMade, MachineOK PROVE Init => CallInv
<1> SUFFICES ASSUME Init, task.name = "call" PROVE CallInv
  BY DEF CallInv
<1>1. /\ task \in Tasks /\ pc = Boot(task).pc /\ d = Boot(task).d
      /\ x = Boot(task).x /\ s = Boot(task).s
      /\ code = Boot(task).code /\ bus.mem = Boot(task).mem /\ ~wai_state
  BY DEF Init
<1>2. StackIs(<<>>)
  <2>1. s = Top /\ Stack \in Pushed /\ Stack.s = s
    BY <1>1, CallImage DEF Stack, Pushed, MachineOK
  <2>2. <<>> \in Seq(Byte) /\ Len(<<>>) = 0 /\ Top = 31
    BY DEF Top
  <2> QED BY <2>1, <2>2 DEF StackIs, StackHolds
<1>3. Kept
  <2>1. task.k \in 1 .. 4
    BY <1>1 DEF CallsAreMade
  <2>2. code = CallCode(task.k)
    BY <1>1, CallImage
  <2>3. \A a \in CallCode(task.k) : a \in 0 .. 84 /\ a > Top
    BY <2>1 DEF CallCode, Origin, Behind, Top
  <2> QED BY <1>1, <2>2, <2>3, There DEF Kept
<1>4. CallPoint(task)
  BY <1>1, <1>2, CallImage DEF CallPoint, At, Origin
<1> QED BY <1>1, <1>3, <1>4, CallImage DEF CallInv

LEMMA CallReads ==
  ASSUME ProgramsAreRun, MemoryIsThere, CallsAreMade, Kept, task.name = "call"
  PROVE  /\ CallBytes(task.k, Seen)
         /\ code = CallCode(task.k)
<1>1. /\ task \in Tasks /\ code = CallCode(task.k) /\ task.k \in 1 .. 4
      /\ CallBytes(task.k, Boot(task).mem)
  BY CallImage DEF Kept, CallsAreMade
<1>2. \A a \in CallCode(task.k) : RM(a) = Boot(task).mem[a]
  BY <1>1 DEF Kept, RM
<1>3. /\ {32, 33} \union 40 .. 47 \union 50 .. 53 \subseteq CallCode(task.k)
      /\ task.k = 4 => 34 \in CallCode(task.k)
  BY <1>1 DEF CallCode, Origin, Behind
<1> QED BY <1>1, <1>2, <1>3 DEF CallBytes, Seen

LEMMA RowOfCall ==
  ASSUME NEW first \in Int, NEW mode, NEW target, StackRow(first, mode, target),
         Opcode = first + 1
  PROVE  Call(first + 1, target)
BY DEF StackRow, CMPX, LoadWord, StoreWord, Fetch

(* A call while nothing is on the stack *)
LEMMA CallWithoutStack ==
  ASSUME MachineOK, MemoryIsThere, StackIs(<<>>),
         NEW opcode, NEW target \in {RELATIVE, DIRECT, INDEXED, EXTENDED},
         Call(opcode, target), NEW end \in {34, 35}, target.next = end
  PROVE  /\ StackIs(<<end, 0>>)' /\ SameBehind(bus', bus)
         /\ pc' = target.ea /\ UNCHANGED <<x, d, cc, wai_state>>
<1>1. /\ Low(34) = 34 /\ Low(35) = 35 /\ High(34) = 0 /\ High(35) = 0
      /\ end \in Byte /\ 0 \in Byte
  BY DEF Low, High, Byte
<1>2. /\ Low(target.next) = end /\ High(target.next) = 0
      /\ <<>> \o <<end, 0>> = <<end, 0>> /\ Len(<<>>) < Top - 1
  BY <1>1, WithWord2 DEF Top
<1>3. ASSUME NEW stack, StackIs(stack), Len(stack) < Top - 1
      PROVE  /\ StackIs(stack \o <<Low(target.next), High(target.next)>>)'
             /\ SameBehind(bus', bus)
             /\ pc' = target.ea /\ UNCHANGED <<x, d, cc, wai_state>>
  BY <1>3, CallStep
<1>4. /\ StackIs(<<>> \o <<Low(target.next), High(target.next)>>)'
      /\ SameBehind(bus', bus)
      /\ pc' = target.ea /\ UNCHANGED <<x, d, cc, wai_state>>
  BY <1>2, <1>3
<1> QED BY <1>2, <1>4

(* The call in the subroutine *)
LEMMA CallFrom42 ==
  ASSUME MachineOK, MemoryIsThere,
         NEW opcode, NEW target \in {RELATIVE, DIRECT, INDEXED, EXTENDED},
         Call(opcode, target), target.next = 45,
         NEW stack, StackIs(stack), Len(stack) < Top - 1
  PROVE  /\ StackIs(stack \o <<45, 0>>)' /\ SameBehind(bus', bus)
         /\ pc' = target.ea /\ UNCHANGED <<x, d, cc, wai_state>>
<1>1. /\ StackIs(stack \o <<Low(target.next), High(target.next)>>)'
      /\ SameBehind(bus', bus)
      /\ pc' = target.ea /\ UNCHANGED <<x, d, cc, wai_state>>
  BY CallStep
<1>2. Low(target.next) = 45 /\ High(target.next) = 0
  BY DEF Low, High
<1> QED BY <1>1, <1>2

LEMMA CallInside ==
  ASSUME MachineOK, MemoryIsThere, Next, pc = 42, Opcode = 189,
         RM(43) = 0, RM(44) = 50, NEW stack, StackIs(stack), Len(stack) < Top - 1
  PROVE  /\ StackIs(stack \o <<45, 0>>)' /\ SameBehind(bus', bus)
         /\ pc' = 50 /\ UNCHANGED <<x, d, cc, wai_state>>
<1>1. Call(189, EXTENDED)
  <2>1. ExtendedSRow
    BY LegalOpcodes, RowOf
  <2> QED BY <2>1, RowOfCall DEF ExtendedSRow
<1>2. EXTENDED.next = 45 /\ EXTENDED.ea = 50
  BY DEF Wrap, EXTENDED, RM16
<1>3. /\ StackIs(stack \o <<45, 0>>)' /\ SameBehind(bus', bus)
      /\ pc' = EXTENDED.ea /\ UNCHANGED <<x, d, cc, wai_state>>
  BY <1>1, <1>2, CallFrom42
<1> QED BY <1>2, <1>3

(* Its return *)
LEMMA ReturnInside ==
  ASSUME MachineOK, MemoryIsThere, Next, Opcode = 57, NEW full, StackIs(full),
         NEW stack \in Seq(Byte), stack \o <<45, 0>> = full, Len(stack) < Top - 2
  PROVE  /\ StackIs(stack)' /\ SameBehind(bus', bus)
         /\ pc' = 45 /\ UNCHANGED <<x, d, cc, wai_state>>
<1>1. 45 \in Byte /\ 0 \in Byte
  BY DEF Byte
<1>2. /\ StackIs(stack)' /\ SameBehind(bus', bus)
      /\ pc' = 256 * 0 + 45 /\ UNCHANGED <<x, d, cc, wai_state>>
  BY <1>1, ReturnStep
<1> QED BY <1>2

(* The return that leaves the stack empty *)
LEMMA ReturnToCaller ==
  ASSUME MachineOK, MemoryIsThere, Next, Opcode = 57,
         NEW end \in {34, 35}, StackIs(<<end, 0>>)
  PROVE  /\ StackIs(<<>>)' /\ SameBehind(bus', bus)
         /\ pc' = end /\ UNCHANGED <<x, d, cc, wai_state>>
<1>1. end \in Byte /\ 0 \in Byte
  BY DEF Byte
<1>2. /\ <<>> \o <<end, 0>> = <<end, 0>> /\ <<>> \in Seq(Byte)
      /\ Len(<<>>) < Top - 2
  BY <1>1, WithWord2 DEF Top
<1>3. ASSUME NEW full, StackIs(full), NEW stack \in Seq(Byte),
             stack \o <<end, 0>> = full, Len(stack) < Top - 2
      PROVE  /\ StackIs(stack)' /\ SameBehind(bus', bus)
             /\ pc' = 256 * 0 + end /\ UNCHANGED <<x, d, cc, wai_state>>
  BY <1>1, <1>3, ReturnStep
<1>4. /\ StackIs(<<>>)' /\ SameBehind(bus', bus)
      /\ pc' = 256 * 0 + end /\ UNCHANGED <<x, d, cc, wai_state>>
  BY <1>2, <1>3
<1> QED BY <1>4

(* The call itself, in each mode *)
LEMMA CallIsMade ==
  ASSUME MachineOK, MemoryIsThere, Next, NEW k \in 1 .. 4,
         CallBytes(k, Seen),
         pc = 32, x = 40, StackIs(<<>>)
  PROVE  /\ StackIs(<<Behind(k), 0>>)' /\ SameBehind(bus', bus)
         /\ pc' = 40 /\ UNCHANGED <<x, d, cc, wai_state>>
<1>1. /\ RM(32) = <<141, 157, 173, 189>>[k] /\ RM(33) = <<6, 40, 0, 0>>[k]
      /\ k = 4 => RM(34) = 40
  BY DEF CallBytes, Seen
<1>2. /\ Wrap(32 + 1) = 33 /\ Wrap(32 + 2) = 34 /\ Wrap(32 + 3) = 35 /\ Wrap(33 + 1) = 34
      /\ Wrap(32 + 2 + SIGNED(6)) = 40 /\ Wrap(40 + 0) = 40
  BY DEF Wrap, SIGNED
<1>3. ASSUME NEW opcode, NEW target \in {RELATIVE, DIRECT, INDEXED, EXTENDED},
             Call(opcode, target), target.ea = 40, target.next = Behind(k)
      PROVE  /\ StackIs(<<Behind(k), 0>>)' /\ SameBehind(bus', bus)
             /\ pc' = 40 /\ UNCHANGED <<x, d, cc, wai_state>>
  <2>1. Behind(k) \in {34, 35}
    BY DEF Behind, Origin
  <2> QED BY <1>3, <2>1, CallWithoutStack
<1>4. CASE k = 1
  <2>1. Opcode = 141 /\ RM(33) = 6
    BY <1>1, <1>4 DEF Opcode
  <2>2. Call(141, RELATIVE)
    <3>1. ImmediateSRow
      BY <2>1, LegalOpcodes, RowOf
    <3> QED BY <2>1, <3>1, RowOfCall DEF ImmediateSRow
  <2> QED BY <1>2, <1>3, <1>4, <2>1, <2>2 DEF RELATIVE, Behind, Origin
<1>5. CASE k = 2
  <2>1. Opcode = 157 /\ RM(33) = 40
    BY <1>1, <1>5 DEF Opcode
  <2>2. Call(157, DIRECT)
    <3>1. DirectSRow
      BY <2>1, LegalOpcodes, RowOf
    <3> QED BY <2>1, <3>1, RowOfCall DEF DirectSRow
  <2> QED BY <1>2, <1>3, <1>5, <2>1, <2>2 DEF DIRECT, Behind, Origin
<1>6. CASE k = 3
  <2>1. Opcode = 173 /\ RM(33) = 0
    BY <1>1, <1>6 DEF Opcode
  <2>2. Call(173, INDEXED)
    <3>1. IndexedSRow
      BY <2>1, LegalOpcodes, RowOf
    <3> QED BY <2>1, <3>1, RowOfCall DEF IndexedSRow
  <2> QED BY <1>2, <1>3, <1>6, <2>1, <2>2 DEF INDEXED, Behind, Origin
<1>7. CASE k = 4
  <2>1. Opcode = 189 /\ RM(33) = 0 /\ RM(34) = 40
    BY <1>1, <1>7 DEF Opcode
  <2>2. Call(189, EXTENDED)
    <3>1. ExtendedSRow
      BY <2>1, LegalOpcodes, RowOf
    <3> QED BY <2>1, <3>1, RowOfCall DEF ExtendedSRow
  <2>3. RM16(33) = 40
    <3>1. RM16(33) = 256 * 0 + 40
      BY <1>2, <2>1 DEF RM16
    <3> QED BY <3>1
  <2> QED BY <1>2, <1>3, <1>7, <2>2, <2>3 DEF EXTENDED, Behind, Origin
<1> QED BY <1>4, <1>5, <1>6, <1>7

LEMMA CallSteps ==
  ASSUME ProgramsAreRun, MemoryIsThere, CallsAreMade
  PROVE  MachineOK /\ CallInv /\ [Next]_vars => CallInv'
<1> SUFFICES ASSUME MachineOK, CallInv, [Next]_vars PROVE CallInv'
  OBVIOUS
<1>0. task' = task
  <2>1. CASE Next
    BY <2>1, TaskKept
  <2>2. CASE UNCHANGED vars
    BY <2>2 DEF vars
  <2> QED BY <2>1, <2>2
<1> SUFFICES ASSUME task.name = "call" PROVE CallInv'
  BY <1>0 DEF CallInv
<1>a. Kept /\ x = 40 /\ CallPoint(task)
  BY DEF CallInv
<1>1. CASE UNCHANGED vars
  BY <1>a, <1>1, KeptAlone DEF vars, CallInv, CallPoint, At, StackIs, Stack
<1>2. CASE Next
  <2> PICK p, q, k, end : p = task.p /\ q = task.q /\ k = task.k /\ end = Behind(k)
    OBVIOUS
  <2>1. /\ p \in Byte /\ q \in Byte /\ k \in 1 .. 4 /\ end \in {34, 35}
        /\ end \in Byte /\ 0 \in Byte /\ 45 \in Byte
    BY <1>a DEF Kept, CallsAreMade, Behind, Origin, Byte
  <2>2. /\ CallBytes(k, Seen) /\ code = CallCode(k)
        /\ RM(40) = 54 /\ RM(41) = 55 /\ RM(42) = 189 /\ RM(43) = 0 /\ RM(44) = 50
        /\ RM(45) = 50 /\ RM(46) = 51 /\ RM(47) = 57
        /\ RM(50) = 54 /\ RM(51) = 79 /\ RM(52) = 50 /\ RM(53) = 57
    BY <1>a, CallReads DEF CallBytes, Seen
  <2>3. ASSUME SameBehind(bus', bus), wai_state' = wai_state, x' = x, CallPoint(task)'
        PROVE  CallInv'
    BY <1>a, <1>2, <2>3, KeptOn DEF CallInv
  <2>4. CASE At(32, p, q, <<>>)
    <3>1. /\ StackIs(<<end, 0>>)' /\ SameBehind(bus', bus)
          /\ pc' = 40 /\ UNCHANGED <<x, d, cc, wai_state>>
      <4>1. pc = 32 /\ StackIs(<<>>)
        BY <2>4 DEF At
      <4> QED BY <1>2, <1>a, <2>1, <2>2, <4>1, CallIsMade
    <3>2. At(40, p, q, <<end, 0>>)'
      BY <2>4, <3>1 DEF At
    <3> QED BY <1>0, <2>3, <3>1, <3>2 DEF CallPoint
  <2>5. CASE At(40, p, q, <<end, 0>>)
    <3>1. Opcode = 54 /\ d["a"] = p /\ StackIs(<<end, 0>>)
      BY <2>2, <2>5 DEF At, Opcode
    <3>2. Append(<<end, 0>>, p) = <<end, 0, p>> /\ Len(<<end, 0>>) < Top
      BY <2>1, WithByte3 DEF Top
    <3>3. /\ StackIs(<<end, 0, p>>)' /\ SameBehind(bus', bus)
          /\ pc' = Wrap(40 + 1) /\ UNCHANGED <<x, d, cc, wai_state>>
      BY <1>2, <2>5, <3>1, <3>2, PushStep DEF At
    <3>4. At(41, p, q, <<end, 0, p>>)'
      BY <2>5, <3>3 DEF At, Wrap
    <3> QED BY <1>0, <2>3, <3>3, <3>4 DEF CallPoint
  <2>6. CASE At(41, p, q, <<end, 0, p>>)
    <3>1. Opcode = 55 /\ d["b"] = q /\ StackIs(<<end, 0, p>>)
      BY <2>2, <2>6 DEF At, Opcode
    <3>2. Append(<<end, 0, p>>, q) = <<end, 0, p, q>> /\ Len(<<end, 0, p>>) < Top
      BY <2>1, WithByte4 DEF Top
    <3>3. /\ StackIs(<<end, 0, p, q>>)' /\ SameBehind(bus', bus)
          /\ pc' = Wrap(41 + 1) /\ UNCHANGED <<x, d, cc, wai_state>>
      BY <1>2, <2>6, <3>1, <3>2, PushStep DEF At
    <3>4. At(42, p, q, <<end, 0, p, q>>)'
      BY <2>6, <3>3 DEF At, Wrap
    <3> QED BY <1>0, <2>3, <3>3, <3>4 DEF CallPoint
  <2>7. CASE At(42, p, q, <<end, 0, p, q>>)
    <3>1. Opcode = 189 /\ StackIs(<<end, 0, p, q>>)
      BY <2>2, <2>7 DEF At, Opcode
    <3>2. /\ Len(<<end, 0, p, q>>) < Top - 1
          /\ <<end, 0, p, q>> \o <<45, 0>> = <<end, 0, p, q, 45, 0>>
      BY <2>1, WithWord6 DEF Top
    <3>3. ASSUME NEW stack, StackIs(stack), Len(stack) < Top - 1
          PROVE  /\ StackIs(stack \o <<45, 0>>)' /\ SameBehind(bus', bus)
                 /\ pc' = 50 /\ UNCHANGED <<x, d, cc, wai_state>>
      BY <1>2, <2>2, <2>7, <3>1, <3>3, CallInside DEF At
    <3>5. /\ StackIs(<<end, 0, p, q, 45, 0>>)' /\ SameBehind(bus', bus)
          /\ pc' = 50 /\ UNCHANGED <<x, d, cc, wai_state>>
      <4>1. /\ StackIs(<<end, 0, p, q>> \o <<45, 0>>)' /\ SameBehind(bus', bus)
            /\ pc' = 50 /\ UNCHANGED <<x, d, cc, wai_state>>
        BY <3>1, <3>2, <3>3
      <4> QED BY <3>2, <4>1
    <3>6. At(50, p, q, <<end, 0, p, q, 45, 0>>)'
      BY <2>7, <3>5 DEF At
    <3> QED BY <1>0, <2>3, <3>5, <3>6 DEF CallPoint
  <2>8. CASE At(50, p, q, <<end, 0, p, q, 45, 0>>)
    <3>1. Opcode = 54 /\ d["a"] = p /\ StackIs(<<end, 0, p, q, 45, 0>>)
      BY <2>2, <2>8 DEF At, Opcode
    <3>2. Append(<<end, 0, p, q, 45, 0>>, p) = <<end, 0, p, q, 45, 0, p>> /\ Len(<<end, 0, p, q, 45, 0>>) < Top
      BY <2>1, WithByte7 DEF Top
    <3>3. /\ StackIs(<<end, 0, p, q, 45, 0, p>>)' /\ SameBehind(bus', bus)
          /\ pc' = Wrap(50 + 1) /\ UNCHANGED <<x, d, cc, wai_state>>
      BY <1>2, <2>8, <3>1, <3>2, PushStep DEF At
    <3>4. At(51, p, q, <<end, 0, p, q, 45, 0, p>>)'
      BY <2>8, <3>3 DEF At, Wrap
    <3> QED BY <1>0, <2>3, <3>3, <3>4 DEF CallPoint
  <2>9. CASE At(51, p, q, <<end, 0, p, q, 45, 0, p>>)
    <3>1. Opcode = 79 /\ Column = 15
      BY <2>2, <2>9 DEF At, Opcode, Column
    <3>2. ModifyARow
      BY <1>2, <3>1, LegalOpcodes, RowOf
    <3>3. Modify(15, d["a"], cc).r = 0
      BY DEF Modify, Result
    <3>4. /\ d' = [d EXCEPT !["a"] = 0] /\ pc' = Wrap(51 + 1)
          /\ UNCHANGED <<x, s, bus, wai_state>>
      BY <2>9, <3>1, <3>2, <3>3 DEF ModifyARow, ModifyAccumulator, Inherent, At
    <3>5. At(52, 0, q, <<end, 0, p, q, 45, 0, p>>)' /\ SameBehind(bus', bus)
      BY <2>9, <3>4 DEF At, Wrap, MachineOK, Accumulators, StackIs, Stack, SameBehind
    <3> QED BY <1>0, <2>3, <3>4, <3>5 DEF CallPoint
  <2>10. CASE At(52, 0, q, <<end, 0, p, q, 45, 0, p>>)
    <3>1. Opcode = 50 /\ StackIs(<<end, 0, p, q, 45, 0, p>>)
      BY <2>2, <2>10 DEF At, Opcode
    <3>2. Append(<<end, 0, p, q, 45, 0>>, p) = <<end, 0, p, q, 45, 0, p>> /\ <<end, 0, p, q, 45, 0>> \in Seq(Byte) /\ Len(<<end, 0, p, q, 45, 0>>) < Top - 1
      BY <2>1, WithByte7 DEF Top
    <3>3. /\ StackIs(<<end, 0, p, q, 45, 0>>)' /\ SameBehind(bus', bus)
          /\ d' = [d EXCEPT !["a"] = p]
          /\ pc' = Wrap(52 + 1) /\ UNCHANGED <<x, cc, wai_state>>
      BY <1>2, <2>10, <3>1, <3>2, PullStep DEF At
    <3>4. At(53, p, q, <<end, 0, p, q, 45, 0>>)'
      BY <2>10, <3>3 DEF At, Wrap, MachineOK, Accumulators
    <3> QED BY <1>0, <2>3, <3>3, <3>4 DEF CallPoint
  <2>11. CASE At(53, p, q, <<end, 0, p, q, 45, 0>>)
    <3>1. Opcode = 57 /\ StackIs(<<end, 0, p, q, 45, 0>>)
      BY <2>2, <2>11 DEF At, Opcode
    <3>2. <<end, 0, p, q>> \o <<45, 0>> = <<end, 0, p, q, 45, 0>> /\ <<end, 0, p, q>> \in Seq(Byte) /\ Len(<<end, 0, p, q>>) < Top - 2
      BY <2>1, WithWord6 DEF Top
    <3>3. /\ StackIs(<<end, 0, p, q>>)' /\ SameBehind(bus', bus)
          /\ pc' = 45 /\ UNCHANGED <<x, d, cc, wai_state>>
      BY <1>2, <3>1, <3>2, ReturnInside
    <3>4. At(45, p, q, <<end, 0, p, q>>)'
      BY <2>1, <2>11, <3>3 DEF At
    <3> QED BY <1>0, <2>3, <3>3, <3>4 DEF CallPoint
  <2>12. CASE At(45, p, q, <<end, 0, p, q>>)
    <3>1. Opcode = 50 /\ StackIs(<<end, 0, p, q>>)
      BY <2>2, <2>12 DEF At, Opcode
    <3>2. Append(<<end, 0, p>>, q) = <<end, 0, p, q>> /\ <<end, 0, p>> \in Seq(Byte) /\ Len(<<end, 0, p>>) < Top - 1
      BY <2>1, WithByte4 DEF Top
    <3>3. /\ StackIs(<<end, 0, p>>)' /\ SameBehind(bus', bus)
          /\ d' = [d EXCEPT !["a"] = q]
          /\ pc' = Wrap(45 + 1) /\ UNCHANGED <<x, cc, wai_state>>
      BY <1>2, <2>12, <3>1, <3>2, PullStep DEF At
    <3>4. At(46, q, q, <<end, 0, p>>)'
      BY <2>12, <3>3 DEF At, Wrap, MachineOK, Accumulators
    <3> QED BY <1>0, <2>3, <3>3, <3>4 DEF CallPoint
  <2>13. CASE At(46, q, q, <<end, 0, p>>)
    <3>1. Opcode = 51 /\ StackIs(<<end, 0, p>>)
      BY <2>2, <2>13 DEF At, Opcode
    <3>2. Append(<<end, 0>>, p) = <<end, 0, p>> /\ <<end, 0>> \in Seq(Byte) /\ Len(<<end, 0>>) < Top - 1
      BY <2>1, WithByte3 DEF Top
    <3>3. /\ StackIs(<<end, 0>>)' /\ SameBehind(bus', bus)
          /\ d' = [d EXCEPT !["b"] = p]
          /\ pc' = Wrap(46 + 1) /\ UNCHANGED <<x, cc, wai_state>>
      BY <1>2, <2>13, <3>1, <3>2, PullStep DEF At
    <3>4. At(47, q, p, <<end, 0>>)'
      BY <2>13, <3>3 DEF At, Wrap, MachineOK, Accumulators
    <3> QED BY <1>0, <2>3, <3>3, <3>4 DEF CallPoint
  <2>14. CASE At(47, q, p, <<end, 0>>)
    <3>1. Opcode = 57 /\ StackIs(<<end, 0>>)
      BY <2>2, <2>14 DEF At, Opcode
    <3>3. /\ StackIs(<<>>)' /\ SameBehind(bus', bus)
          /\ pc' = end /\ UNCHANGED <<x, d, cc, wai_state>>
      BY <1>2, <2>1, <3>1, ReturnToCaller
    <3>4. At(end, q, p, <<>>)'
      BY <2>1, <2>14, <3>3 DEF At
    <3> QED BY <1>0, <2>3, <3>3, <3>4 DEF CallPoint
  <2>15. CASE At(end, q, p, <<>>)
    <3>1. pc = end /\ end \in CallCode(k)
      BY <1>2, <2>2, <2>15, TaskKept DEF At
    <3> QED BY <2>1, <3>1 DEF CallCode, Behind, Origin
  <2> QED BY <1>a, <2>4, <2>5, <2>6, <2>7, <2>8, <2>9, <2>10, <2>11, <2>12, <2>13,
             <2>14, <2>15 DEF CallPoint
<1> QED BY <1>1, <1>2

LEMMA CallIsOver ==
  ASSUME ProgramsAreRun, MemoryIsThere, CallsAreMade, MachineOK, CallInv, Finished("call")
  PROVE  /\ pc = Origin + IF task.k = 4 THEN 3 ELSE 2
         /\ s = Boot(task).s /\ x = Boot(task).x
         /\ d = [a |-> Boot(task).d["b"], b |-> Boot(task).d["a"]]
<1>1. task \in Tasks /\ Kept /\ x = 40 /\ CallPoint(task) /\ task.name = "call" /\ pc \notin code
  BY DEF CallInv, Kept, Finished, Stopped
<1>2. code = CallCode(task.k) /\ task.k \in 1 .. 4
  BY <1>1, CallReads DEF CallsAreMade
<1>3. At(Behind(task.k), task.q, task.p, <<>>)
  <2>1. {32} \union 40 .. 47 \union 50 .. 53 \subseteq code
    BY <1>2 DEF CallCode, Origin, Behind
  <2> QED BY <1>1, <2>1 DEF CallPoint, At
<1>4. s = Top
  <2>1. Stack.s = Top - Len(<<>>) /\ Stack.s = s
    BY <1>3 DEF At, StackIs, StackHolds, Stack
  <2> QED BY <2>1 DEF Top
<1>5. d = [a |-> task.q, b |-> task.p]
  BY <1>3 DEF At, MachineOK, Accumulators
<1>6. /\ Boot(task).s = Top /\ Boot(task).x = 40
      /\ Boot(task).d["a"] = task.p /\ Boot(task).d["b"] = task.q
  BY <1>1, CallImage
<1> QED BY <1>1, <1>3, <1>4, <1>5, <1>6 DEF At, Behind
-----------------------------------------------------------------------------
(* Programs: interrupts *)

InterruptsAreMade ==
  \A t \in Tasks : t.name = "swi" => t.p \in Byte /\ t.q \in Byte

(* TPA, or an interrupt, and TAP, or its return, keep the flags. *)
LEMMA BitsBack == ASSUME NEW f \in Flags PROVE BitsOf(ByteOf(f)) = f
<1> DEFINE Weight(n, w) == IF n \in f THEN w ELSE 0
           Bit(n) == IF n \in f THEN 1 ELSE 0
<1> PICK b0 \in {0, 1}, b1 \in {0, 1}, b2 \in {0, 1}, b3 \in {0, 1},
         b4 \in {0, 1}, b5 \in {0, 1}, b6 \in {0, 1}, b7 \in {0, 1} :
      /\ b0 = Bit(0) /\ b1 = Bit(1) /\ b2 = Bit(2) /\ b3 = Bit(3)
      /\ b4 = Bit(4) /\ b5 = Bit(5) /\ b6 = Bit(6) /\ b7 = Bit(7)
  OBVIOUS
<1> DEFINE w == b0 + 2 * b1 + 4 * b2 + 8 * b3 + 16 * b4 + 32 * b5 + 64 * b6 + 128 * b7
<1>1. ByteOf(f) = w
  BY DEF ByteOf
<1>2. /\ w % 2 = b0 /\ (w \div 2) % 2 = b1 /\ (w \div 4) % 2 = b2
      /\ (w \div 8) % 2 = b3 /\ (w \div 16) % 2 = b4 /\ (w \div 32) % 2 = b5
      /\ (w \div 64) % 2 = b6 /\ (w \div 128) % 2 = b7
  OBVIOUS
<1>3. /\ 2^0 = 1 /\ 2^1 = 2 /\ 2^2 = 4 /\ 2^3 = 8
      /\ 2^4 = 16 /\ 2^5 = 32 /\ 2^6 = 64 /\ 2^7 = 128
  OBVIOUS
<1>4. w \div 1 = w
  OBVIOUS
<1> HIDE DEF w
<1>5. /\ BitOf(w, 0) = b0 /\ BitOf(w, 1) = b1 /\ BitOf(w, 2) = b2 /\ BitOf(w, 3) = b3
      /\ BitOf(w, 4) = b4 /\ BitOf(w, 5) = b5 /\ BitOf(w, 6) = b6 /\ BitOf(w, 7) = b7
  BY <1>2, <1>3, <1>4 DEF BitOf
<1>6. \A n \in 0 .. 7 : BitOf(w, n) = 1 <=> n \in f
  <2>1. \A n \in 0 .. 7 : n \in {0, 1, 2, 3, 4, 5, 6, 7}
    OBVIOUS
  <2> QED BY <1>5, <2>1
<1> QED BY <1>1, <1>6 DEF BitsOf, Flags

InterruptBytes(m) == m[32] = 63 /\ m[40] = 59 /\ m[Vector] = 0 /\ m[Vector + 1] = 40

LEMMA InterruptImage ==
  ASSUME ProgramsAreRun, MemoryIsThere, NEW t \in Tasks, t.name = "swi"
  PROVE  /\ Boot(t).pc = Origin /\ Boot(t).x = 40 /\ Boot(t).s = Top
         /\ Boot(t).d = [a |-> t.p, b |-> t.q] /\ Boot(t).cc = BitsOf(t.p)
         /\ Boot(t).code = {32, 40} /\ InterruptBytes(Boot(t).mem)
<1> DEFINE placed == [a \in {Origin, 40} |-> IF a = Origin THEN 63 ELSE 59]
           image == Image(placed, <<>>)
<1>1. Boot(t) = Machine(image, {32, 40}, t.p, t.q, BitsOf(t.p))
  <2>1. Boot(t) = SoftwareInterrupt(t)
    BY DEF ProgramsAreRun, Program
  <2>2. DOMAIN placed = {32, 40}
    BY DEF Origin
  <2> QED BY <2>1, <2>2 DEF SoftwareInterrupt
<1>2. image[32] = 63 /\ image[40] = 59
  <2>1. 32 \in Mapped \cap DOMAIN placed /\ 40 \in Mapped \cap DOMAIN placed
    BY There DEF Origin
  <2>2. placed[32] = 63 /\ placed[40] = 59
    BY DEF Origin
  <2> HIDE DEF placed
  <2> QED BY <2>1, <2>2, ImageIs
<1>3. image[Vector] = 0 /\ image[Vector + 1] = 40
  <2>1. /\ 65530 \in Mapped /\ 65531 \in Mapped
        /\ 65530 \notin DOMAIN placed /\ 65531 \notin DOMAIN placed
    BY There DEF Vector, Origin
  <2>2. DOMAIN <<>> = {}
    OBVIOUS
  <2> HIDE DEF placed
  <2> QED BY <2>1, <2>2 DEF Image, Vector
<1> HIDE DEF image
<1> QED BY <1>1, <1>2, <1>3 DEF Machine, InterruptBytes

Saved == <<33, 0, 40, 0, task.p, task.q, ByteOf(BitsOf(task.p))>>

InterruptInv ==
  task.name = "swi" =>
    /\ task \in Tasks /\ ~wai_state /\ code = {32, 40}
    /\ InterruptBytes(bus.mem)
    /\ x = 40 /\ d = [a |-> task.p, b |-> task.q]
    /\ \/ pc \in {32, 33} /\ cc = BitsOf(task.p) /\ StackIs(<<>>)
       \/ pc = 40 /\ StackIs(Saved)

LEMMA InterruptBoots ==
  ASSUME ProgramsAreRun, MemoryIsThere, MachineOK PROVE Init => InterruptInv
<1> SUFFICES ASSUME Init, task.name = "swi" PROVE InterruptInv
  BY DEF InterruptInv
<1>1. /\ task \in Tasks /\ pc = Boot(task).pc /\ d = Boot(task).d /\ cc = Boot(task).cc
      /\ x = Boot(task).x /\ s = Boot(task).s
      /\ code = Boot(task).code /\ bus.mem = Boot(task).mem /\ ~wai_state
  BY DEF Init
<1>2. StackIs(<<>>)
  <2>1. s = Top /\ Stack \in Pushed /\ Stack.s = s
    BY <1>1, InterruptImage DEF Stack, Pushed, MachineOK
  <2>2. <<>> \in Seq(Byte) /\ Len(<<>>) = 0 /\ Top = 31
    BY DEF Top
  <2> QED BY <2>1, <2>2 DEF StackIs, StackHolds
<1> QED BY <1>1, <1>2, InterruptImage DEF InterruptInv, Origin

(* What SWI pushes *)
LEMMA StateIsSaved ==
  ASSUME MachineOK, MemoryIsThere, StackIs(<<>>), pc = 32, x = 40
  PROVE  /\ StackHolds(PushState, <<33, 0, 40, 0, d["a"], d["b"], ByteOf(cc)>>)
         /\ SameBehind(PushState.bus, bus)
<1>0. PICK p, q, f, none, next, index :
      p = d["a"] /\ q = d["b"] /\ f = ByteOf(cc) /\ none = <<>> /\ next = 33 /\ index = 40
  OBVIOUS
<1>1. /\ p \in Byte /\ q \in Byte /\ f \in Byte
      /\ next \in Byte /\ index \in Byte /\ 0 \in Byte
      /\ next \in Word /\ index \in Word
      /\ Low(next) = next /\ High(next) = 0 /\ Low(index) = index /\ High(index) = 0
  <2>1. p \in Byte /\ q \in Byte /\ f \in Byte
    BY <1>0, AccumulatorsHold, ByteOfBits
  <2>2. /\ next \in Byte /\ index \in Byte /\ 0 \in Byte
        /\ Low(next) = next /\ High(next) = 0 /\ Low(index) = index /\ High(index) = 0
    BY <1>0 DEF Byte, Low, High
  <2>3. next \in Word /\ index \in Word
    BY <2>2, Numbers
  <2> QED BY <2>1, <2>2, <2>3
<1> DEFINE one == PushWord(Stack, next)
           two == PushWord(one, index)
           three == PushByte(two, p)
           four == PushByte(three, q)
           five == PushByte(four, f)
<1>2. PushState = five
  BY <1>0 DEF PushState, Wrap
<1>3. StackHolds(one, <<next, 0>>) /\ SameBehind(one.bus, Stack.bus)
  <2>1. StackHolds(Stack, none) /\ Len(none) < Top - 1
    BY <1>0 DEF StackIs, Top
  <2>2. none \o <<Low(next), High(next)>> = <<next, 0>>
    BY <1>0, <1>1, WithWord2
  <2> QED BY <1>1, <2>1, <2>2, WordIsPushed
<1> HIDE DEF one
<1>4. StackHolds(two, <<next, 0, index, 0>>) /\ SameBehind(two.bus, one.bus)
  <2> PICK stack : stack = <<next, 0>>
    OBVIOUS
  <2>1. StackHolds(one, stack) /\ Len(stack) < Top - 1
    BY <1>3 DEF Top
  <2>2. stack \o <<Low(index), High(index)>> = <<next, 0, index, 0>>
    BY <1>1, WithWord4
  <2> QED BY <1>1, <2>1, <2>2, WordIsPushed
<1> HIDE DEF two
<1>5. StackHolds(three, <<next, 0, index, 0, p>>) /\ SameBehind(three.bus, two.bus)
  <2> PICK stack : stack = <<next, 0, index, 0>>
    OBVIOUS
  <2>1. StackHolds(two, stack) /\ Len(stack) < Top
    BY <1>4 DEF Top
  <2>2. Append(stack, p) = <<next, 0, index, 0, p>>
    BY <1>1, WithByte5
  <2> QED BY <1>1, <2>1, <2>2, ByteIsPushed
<1> HIDE DEF three
<1>6. StackHolds(four, <<next, 0, index, 0, p, q>>) /\ SameBehind(four.bus, three.bus)
  <2> PICK stack : stack = <<next, 0, index, 0, p>>
    OBVIOUS
  <2>1. StackHolds(three, stack) /\ Len(stack) < Top
    BY <1>5 DEF Top
  <2>2. Append(stack, q) = <<next, 0, index, 0, p, q>>
    BY <1>1, WithByte6
  <2> QED BY <1>1, <2>1, <2>2, ByteIsPushed
<1> HIDE DEF four
<1>7. StackHolds(five, <<next, 0, index, 0, p, q, f>>) /\ SameBehind(five.bus, four.bus)
  <2>1. StackHolds(four, <<next, 0, index, 0, p, q>>) /\ Len(<<next, 0, index, 0, p, q>>) < Top
    BY <1>6 DEF Top
  <2>2. Append(<<next, 0, index, 0, p, q>>, f) = <<next, 0, index, 0, p, q, f>>
    <3>1. /\ p \in Byte /\ q \in Byte /\ f \in Byte
          /\ next \in Byte /\ index \in Byte /\ 0 \in Byte
      BY <1>1
    <3> QED BY <3>1, WithByte7
  <2> PICK stack : stack = <<next, 0, index, 0, p, q>>
    OBVIOUS
  <2> QED BY <1>1, <2>1, <2>2, ByteIsPushed
<1> HIDE DEF five
<1>8. SameBehind(five.bus, bus)
  BY <1>3, <1>4, <1>5, <1>6, <1>7 DEF SameBehind, Stack
<1> QED BY <1>0, <1>2, <1>7, <1>8

(* RTI takes it all back. *)
LEMMA StateIsRestored ==
  ASSUME MachineOK, MemoryIsThere, RTI,
         NEW low \in Byte, NEW index \in Byte, NEW p \in Byte, NEW q \in Byte,
         NEW f \in Byte, StackIs(<<low, 0, index, 0, p, q, f>>)
  PROVE  /\ StackIs(<<>>)' /\ bus' = bus /\ wai_state' = wai_state
         /\ pc' = low /\ x' = index /\ d' = [a |-> p, b |-> q] /\ cc' = BitsOf(f)
<1> PICK stack : stack = <<low, 0, index, 0, p, q, f>>
  OBVIOUS
<1>1. /\ stack \in Seq(Byte) /\ Len(stack) = 7
      /\ stack[1] = low /\ stack[2] = 0 /\ stack[3] = index /\ stack[4] = 0
      /\ stack[5] = p /\ stack[6] = q /\ stack[7] = f
  BY DEF Byte
<1>2. StackHolds(Stack, stack) /\ Len(stack) < Top
  BY <1>1 DEF StackIs, Top
<1>3. /\ \A i \in 1 .. 7 : Pulled(i) = stack[7 + 1 - i]
      /\ \A i \in 1 .. 7 : Wrap(s + i) = s + i
  <2> HIDE <1>1
  <2>1. Len(stack) = 7
    BY <1>1
  <2> QED BY <1>2, <2>1, BytesArePulled
<1>4. /\ Pulled(1) = f /\ Pulled(2) = q /\ Pulled(3) = p /\ Pulled(4) = 0
      /\ Pulled(5) = index /\ Pulled(6) = 0 /\ Pulled(7) = low /\ Wrap(s + 7) = s + 7
  BY <1>1, <1>3
<1>5. PulledWord(4) = index /\ PulledWord(6) = low
  BY <1>4 DEF PulledWord, Byte
<1>6. /\ bus' = bus /\ s' = s + 7 /\ wai_state' = wai_state
      /\ pc' = low /\ x' = index /\ d' = [a |-> p, b |-> q] /\ cc' = BitsOf(f)
  BY <1>4, <1>5 DEF RTI
<1>7. StackHolds([bus |-> bus, s |-> s + 7], SubSeq(stack, 1, Len(stack) - 7))
  <2>1. 7 \in 0 .. Len(stack)
    BY <1>1
  <2> QED BY <1>2, <2>1, StackShrinks
<1>8. SubSeq(stack, 1, Len(stack) - 7) = <<>>
  BY <1>1
<1>9. Stack' = [bus |-> bus, s |-> s + 7]
  BY <1>6 DEF Stack
<1> QED BY <1>6, <1>7, <1>8, <1>9 DEF StackIs

LEMMA InterruptSteps ==
  ASSUME ProgramsAreRun, MemoryIsThere, InterruptsAreMade
  PROVE  MachineOK /\ InterruptInv /\ [Next]_vars => InterruptInv'
<1> SUFFICES ASSUME MachineOK, InterruptInv, [Next]_vars PROVE InterruptInv'
  OBVIOUS
<1>0. task' = task
  <2>1. CASE Next
    BY <2>1, TaskKept
  <2>2. CASE UNCHANGED vars
    BY <2>2 DEF vars
  <2> QED BY <2>1, <2>2
<1> SUFFICES ASSUME task.name = "swi" PROVE InterruptInv'
  BY <1>0 DEF InterruptInv
<1>a. /\ task \in Tasks /\ ~wai_state /\ code = {32, 40} /\ InterruptBytes(bus.mem)
      /\ x = 40 /\ d = [a |-> task.p, b |-> task.q]
      /\ \/ pc \in {32, 33} /\ cc = BitsOf(task.p) /\ StackIs(<<>>)
         \/ pc = 40 /\ StackIs(Saved)
  BY DEF InterruptInv
<1>1. CASE UNCHANGED vars
  BY <1>a, <1>1 DEF vars, InterruptInv, StackIs, Stack, Saved
<1>2. CASE Next
  <2> PICK p, q, f : p = task.p /\ q = task.q /\ f = BitsOf(task.p)
    OBVIOUS
  <2>1. p \in Byte /\ q \in Byte /\ f \in Flags /\ ByteOf(f) \in Byte /\ BitsOf(ByteOf(f)) = f
    BY <1>a, BitsOfByte, ByteOfBits, BitsBack DEF InterruptsAreMade
  <2>2. code' = code /\ pc \in {32, 40}
    BY <1>a, <1>2, TaskKept
  <2>3. /\ RM(32) = 63 /\ RM(40) = 59
        /\ {32, 40, Vector, Vector + 1} \subseteq {a \in Mapped : a > Top}
    BY <1>a, There DEF RM, InterruptBytes, Vector, Top
  <2>4. CASE pc = 32
    <3>1. cc = f /\ StackIs(<<>>)
      BY <1>a, <2>4
    <3>2. SWI
      <4>1. Opcode = 63
        BY <2>3, <2>4 DEF Opcode
      <4> QED BY <1>2, <4>1, LegalOpcodes, RowOf
    <3>3. /\ StackHolds(PushState, <<33, 0, 40, 0, d["a"], d["b"], ByteOf(cc)>>)
          /\ SameBehind(PushState.bus, bus)
      BY <1>a, <2>4, <3>1, StateIsSaved
    <3>4. /\ bus' = PushState.bus /\ s' = PushState.s /\ UNCHANGED <<x, d, wai_state>>
      BY <3>2 DEF SWI
    <3>5. StackIs(Saved)'
      <4>1. Stack' = PushState
        BY <3>4 DEF Stack, PushState, PushByte
      <4>2. d["a"] = task.p /\ d["b"] = task.q
        BY <1>a
      <4>3. Saved' = <<33, 0, 40, 0, d["a"], d["b"], ByteOf(cc)>>
        BY <1>0, <3>1, <4>2 DEF Saved
      <4> QED BY <3>3, <4>1, <4>3 DEF StackIs
    <3>6. InterruptBytes(bus.mem)'
      BY <1>a, <2>3, <3>3, <3>4 DEF InterruptBytes, SameBehind
    <3>7. pc' = 40
      <4>1. PushState.bus.mem[65530] = 0 /\ PushState.bus.mem[65531] = 40
        BY <3>4, <3>6 DEF InterruptBytes, Vector
      <4>2. 65530 \in Mapped /\ 65531 \in Mapped
        BY <2>3 DEF Vector
      <4> QED BY <3>2, <4>1, <4>2 DEF SWI
    <3> QED BY <1>0, <1>a, <2>2, <3>4, <3>5, <3>6, <3>7 DEF InterruptInv
  <2>5. CASE pc = 40
    <3>1. StackIs(Saved)
      BY <1>a, <2>5
    <3>2. RTI
      <4>1. Opcode = 59
        BY <2>3, <2>5 DEF Opcode
      <4> QED BY <1>2, <4>1, LegalOpcodes, RowOf
    <3>3. /\ StackIs(<<>>)' /\ bus' = bus /\ wai_state' = wai_state
          /\ pc' = 33 /\ x' = 40 /\ d' = [a |-> p, b |-> q] /\ cc' = f
      <4> PICK low, index, g : low = 33 /\ index = 40 /\ g = ByteOf(f)
        OBVIOUS
      <4>1. low \in Byte /\ index \in Byte /\ g \in Byte /\ BitsOf(g) = f
        BY <2>1 DEF Byte
      <4>2. StackIs(<<low, 0, index, 0, p, q, g>>)
        BY <3>1 DEF Saved
      <4>3. /\ StackIs(<<>>)' /\ bus' = bus /\ wai_state' = wai_state
            /\ pc' = low /\ x' = index /\ d' = [a |-> p, b |-> q] /\ cc' = BitsOf(g)
        BY <2>1, <3>2, <4>1, <4>2, StateIsRestored
      <4> QED BY <4>1, <4>3
    <3> QED BY <1>0, <1>a, <2>2, <3>3 DEF InterruptInv
  <2> QED BY <2>2, <2>4, <2>5
<1> QED BY <1>1, <1>2

LEMMA InterruptIsOver ==
  ASSUME ProgramsAreRun, MemoryIsThere, InterruptInv, Finished("swi")
  PROVE  <<pc, s, x, d, cc>> =
           <<Origin + 1, Boot(task).s, Boot(task).x, Boot(task).d, Boot(task).cc>>
<1>1. /\ task \in Tasks /\ task.name = "swi" /\ pc \notin {32, 40}
      /\ x = 40 /\ d = [a |-> task.p, b |-> task.q]
      /\ pc \in {32, 33} /\ cc = BitsOf(task.p) /\ StackIs(<<>>)
  BY DEF InterruptInv, Finished, Stopped
<1>2. pc = Origin + 1
  BY <1>1 DEF Origin
<1>3. s = Top
  <2>1. Stack.s = Top - Len(<<>>) /\ Stack.s = s
    BY <1>1 DEF StackIs, StackHolds, Stack
  <2> QED BY <2>1 DEF Top
<1> QED BY <1>1, <1>2, <1>3, InterruptImage

(* Calls by BSR and by JSR in its three modes return behind the call, with S
   where it was and what the subroutines pushed pulled in reverse, and an RTI
   returns behind the SWI with every register, flags included, as it was: what
   bsr, jsr_di, jsr_ix, jsr_ex and swi of cpu/6800ops.hxx push, rts and rti
   pull, whatever the registers and the rest of the memory hold. *)
THEOREM CallsAlwaysReturn ==
  ASSUME ProgramsAreRun, MemoryIsThere, CallsAreMade, InterruptsAreMade
  PROVE  Spec => []CallsReturn
<1>1. Init => MachineOK /\ CallInv /\ InterruptInv
  BY MachineBoots, CallBoots, InterruptBoots
<1>2. MachineOK /\ CallInv /\ InterruptInv /\ [Next]_vars
        => MachineOK' /\ CallInv' /\ InterruptInv'
  BY MachineSteps, CallSteps, InterruptSteps
<1>3. MachineOK /\ CallInv /\ InterruptInv => CallsReturn
  BY CallIsOver, InterruptIsOver DEF CallsReturn
<1> QED BY <1>1, <1>2, <1>3, PTL DEF Spec

-----------------------------------------------------------------------------
(* Programs in one piece *)

LEMMA SimpleMachine ==
  ASSUME MemoryIsThere, NEW bytes, Len(bytes) \in Nat, Len(bytes) <= 20,
         NEW data \in Seq(Byte), Len(data) <= 16, NEW a, NEW b, NEW f
  PROVE  LET m == Simple(bytes, data, a, b, f)
         IN  /\ m.pc = 32 /\ m.x = 40 /\ m.s = Top
             /\ m.d["a"] = a /\ m.d["b"] = b /\ m.cc = f
             /\ m.code = 32 .. 31 + Len(bytes)
             /\ \A i \in 1 .. Len(bytes) : m.mem[31 + i] = bytes[i]
             /\ \A i \in 1 .. Len(data) : m.mem[i - 1] = data[i]
<1> DEFINE placed == Placed(Origin, bytes)
           image == Image(placed, data)
           m == Simple(bytes, data, a, b, f)
<1>1. m = Machine(image, DOMAIN placed, a, b, f)
  BY DEF Simple
<1>2. /\ DOMAIN placed = 32 .. 31 + Len(bytes)
      /\ \A i \in 1 .. Len(bytes) : placed[31 + i] = bytes[i]
  BY DEF Placed, Origin
<1>3. /\ DOMAIN data = 1 .. Len(data) /\ Len(data) \in Nat
  OBVIOUS
<1> HIDE DEF placed
<1>4. ASSUME NEW addr \in Mapped
      PROVE  image[addr] = IF addr \in DOMAIN placed THEN placed[addr]
                           ELSE IF addr + 1 \in DOMAIN data THEN data[addr + 1]
                           ELSE IF addr = Vector + 1 THEN 40 ELSE 0
  BY DEF Image
<1>5. /\ m.pc = 32 /\ m.x = 40 /\ m.s = Top /\ m.d["a"] = a /\ m.d["b"] = b
      /\ m.cc = f /\ m.code = DOMAIN placed /\ m.mem = image
  BY <1>1 DEF Machine, Origin
<1> HIDE DEF image, m
<1>6. ASSUME NEW i \in 1 .. Len(bytes) PROVE image[31 + i] = bytes[i]
  <2> PICK n \in Nat : n = Len(bytes)
    OBVIOUS
  <2>1. i \in 1 .. n /\ DOMAIN placed = 32 .. 31 + n
    BY <1>2
  <2>2. 31 + i \in 0 .. 84 /\ 31 + i \in DOMAIN placed
    BY <2>1
  <2>3. 31 + i \in Mapped
    BY <2>2, There
  <2> QED BY <1>2, <1>4, <2>2, <2>3
<1>7. ASSUME NEW i \in 1 .. Len(data) PROVE image[i - 1] = data[i]
  <2> PICK n : n = i - 1
    OBVIOUS
  <2>1. n \in 0 .. 84 /\ n \notin DOMAIN placed /\ n + 1 = i /\ n + 1 \in DOMAIN data
    BY <1>2, <1>3
  <2>2. n \in Mapped
    BY <2>1, There
  <2>3. image[n] = data[n + 1]
    BY <1>4, <2>1, <2>2
  <2> QED BY <2>1, <2>3
<1> QED BY <1>2, <1>5, <1>6, <1>7 DEF m

(* It is as it was loaded, wherever the program has come to ... *)
LEMMA SimpleReads ==
  ASSUME MemoryIsThere, Kept, NEW bytes, Len(bytes) \in Nat, Len(bytes) <= 20,
         NEW data \in Seq(Byte), Len(data) <= 16, NEW a, NEW b, NEW f,
         Boot(task) = Simple(bytes, data, a, b, f)
  PROVE  /\ code = 32 .. 31 + Len(bytes)
         /\ \A i \in 1 .. Len(bytes) : RM(31 + i) = bytes[i]
<1>1. /\ code = 32 .. 31 + Len(bytes)
      /\ \A i \in 1 .. Len(bytes) : Boot(task).mem[31 + i] = bytes[i]
  BY SimpleMachine DEF Kept
<1>2. \A addr \in code : RM(addr) = Boot(task).mem[addr]
  BY DEF Kept, RM
<1>3. \A i \in 1 .. Len(bytes) : 31 + i \in code
  BY <1>1
<1> QED BY <1>1, <1>2, <1>3

(* ... and it begins with the data in place. *)
LEMMA SimpleBegins ==
  ASSUME MemoryIsThere, Init, NEW bytes, Len(bytes) \in Nat, Len(bytes) <= 20,
         NEW data \in Seq(Byte), Len(data) <= 16, NEW a, NEW b, NEW f,
         Boot(task) = Simple(bytes, data, a, b, f)
  PROVE  /\ Kept /\ pc = 32 /\ x = 40 /\ s = Top
         /\ d["a"] = a /\ d["b"] = b /\ cc = f
         /\ \A i \in 1 .. Len(data) : bus.mem[i - 1] = data[i]
<1>1. /\ task \in Tasks /\ pc = Boot(task).pc /\ d = Boot(task).d
      /\ x = Boot(task).x /\ s = Boot(task).s /\ cc = Boot(task).cc
      /\ code = Boot(task).code /\ bus.mem = Boot(task).mem /\ ~wai_state
  BY DEF Init
<1> PICK m : m = Boot(task)
  OBVIOUS
<1>2. /\ m.pc = 32 /\ m.x = 40 /\ m.s = Top
      /\ m.d["a"] = a /\ m.d["b"] = b /\ m.cc = f
      /\ m.code = 32 .. 31 + Len(bytes)
      /\ \A i \in 1 .. Len(data) : m.mem[i - 1] = data[i]
  BY SimpleMachine
<1>3. \A addr \in code : addr \in Mapped /\ addr > Top
  <2> PICK n \in Nat : n = Len(bytes)
    OBVIOUS
  <2>0. code = 32 .. 31 + n
    BY <1>1, <1>2
  <2>1. \A addr \in code : addr \in 0 .. 84 /\ addr > Top
    BY <2>0 DEF Top
  <2> QED BY <2>1, There
<1> QED BY <1>1, <1>2, <1>3 DEF Kept

-----------------------------------------------------------------------------
(* What single instructions do *)

LEMMA Following ==
  ASSUME pc \in 0 .. 100
  PROVE  Wrap(pc + 1) = pc + 1 /\ Wrap(pc + 2) = pc + 2 /\ Wrap(pc + 3) = pc + 3
BY DEF Wrap

(* A write to the data, which are below the stack and the program *)
LEMMA DataWritten ==
  ASSUME MachineOK, MemoryIsThere, NEW a \in 0 .. 31, NEW v \in Byte,
         bus' = Written(bus, a, v)
  PROVE  /\ SameBehind(bus', bus) /\ RM(a)' = v
         /\ \A addr \in Mapped \ {a} : RM(addr)' = RM(addr)
<1>1. /\ bus'.mem = [bus.mem EXCEPT ![a] = v] /\ a \in Mapped
  <2>1. bus \in Bus /\ a \in 0 .. 63
    BY DEF MachineOK
  <2> QED BY <2>1, WrittenThere
<1>2. bus.mem \in [Mapped -> Byte]
  BY DEF MachineOK, Bus
<1>3. bus'.mem[a] = v /\ \A addr \in Mapped \ {a} : bus'.mem[addr] = bus.mem[addr]
  BY <1>1, <1>2
<1>4. \A addr : addr > Top => addr # a
  BY DEF Top
<1> QED BY <1>1, <1>3, <1>4 DEF SameBehind, RM

(* The accumulator A and an operand at an address of one byte *)
LEMMA DirectStep ==
  ASSUME MachineOK, Next, NEW c \in {0, 2, 6, 7, 9, 11}, Opcode = 144 + c,
         pc \in 0 .. 100, NEW a, RM(pc + 1) = a
  PROVE  LET m == Alu(c, d["a"], RM(a), cc)
         IN  /\ cc' = m.cc /\ pc' = pc + 2
             /\ d'["a"] = IF c = 7 THEN d["a"] ELSE m.r
             /\ bus' = IF c = 7 THEN Written(bus, a, d["a"]) ELSE bus
             /\ UNCHANGED <<x, s, wai_state>>
<1>1. DirectARow
  BY LegalOpcodes, RowOf
<1>2. Column = c
  BY DEF Column
<1>3. DIRECT.ea = a /\ DIRECT.next = pc + 2
  BY Following DEF DIRECT
<1>4. d \in Accumulators
  BY DEF MachineOK
<1> DEFINE m == Alu(c, d["a"], RM(a), cc)
<1> HIDE DEF m
<1>5. /\ cc' = m.cc /\ pc' = pc + 2
      /\ d' = IF c \in Keeping THEN d ELSE [d EXCEPT !["a"] = m.r]
      /\ bus' = IF c = 7 THEN Written(bus, a, d["a"]) ELSE bus
      /\ UNCHANGED <<x, s, wai_state>>
  BY <1>1, <1>2, <1>3 DEF DirectARow, Accumulator, m
<1> QED BY <1>4, <1>5 DEF Keeping, Accumulators, m

(* Shifts and the like of a byte in the data *)
LEMMA ExtendedStep ==
  ASSUME MachineOK, MemoryIsThere, Next, NEW c \in {0, 3, 4, 6, 7, 8, 9, 12},
         Opcode = 112 + c, pc \in 0 .. 100, RM(pc + 1) = 0,
         NEW a \in 0 .. 31, RM(pc + 2) = a
  PROVE  LET m == Modify(c, RM(a), cc)
         IN  /\ cc' = m.cc /\ pc' = pc + 3 /\ bus' = Written(bus, a, m.r)
             /\ UNCHANGED <<x, s, d, wai_state>>
<1>1. ModifyExtendedRow
  BY LegalOpcodes, RowOf
<1>2. Column = c /\ c # 13 /\ Opcode # 112 + 14
  BY DEF Column
<1>3. EXTENDED.ea = a /\ EXTENDED.next = pc + 3
  <2>1. Wrap(pc + 1) = pc + 1 /\ Wrap(pc + 1 + 1) = pc + 2
    BY Following DEF Wrap
  <2>2. RM16(pc + 1) = a
    BY <2>1 DEF RM16
  <2> QED BY <2>1, <2>2, Following DEF EXTENDED
<1> DEFINE m == Modify(c, RM(a), cc)
<1> HIDE DEF m
<1>4. /\ cc' = m.cc /\ pc' = pc + 3 /\ bus' = Written(bus, a, m.r)
      /\ UNCHANGED <<x, s, d, wai_state>>
  BY <1>1, <1>2, <1>3 DEF ModifyExtendedRow, ModifyMemory, Fetch, m
<1> QED BY <1>4 DEF m

-----------------------------------------------------------------------------
(* Programs: sums and differences of words *)

(* What the tasks of WideArithmetic compute with *)
NumbersAreTasks ==
  \A t \in Tasks :
    /\ t.name \in {"add", "subtract"} => t.p \in Word /\ t.q \in Word
    /\ t.name = "shift" => t.p \in Word /\ t.k \in 1 .. 3
    /\ t.name = "negate" => t.p \in Word
    /\ t.name \in {"multiply", "copy"} => t.p \in Byte /\ t.q \in Byte

(* A sum or a difference, and its carry or borrow *)
Total(name, v, w, c) == IF name = "add" THEN v + w + c ELSE v - w - c
Over(total) == IF total \in Byte THEN 0 ELSE 1

(* The operation on bytes *)
ByteTotal(name, v, w, c, f) ==
  IF name = "add" THEN Plus(v, w, c, f) ELSE Minus(v, w, c, f)

LEMMA ByteTotals ==
  ASSUME NEW name \in {"add", "subtract"}, NEW v \in Byte, NEW w \in Byte,
         NEW c \in {0, 1}, NEW f \in Flags
  PROVE  LET m == ByteTotal(name, v, w, c, f)
         IN  /\ m.r = Total(name, v, w, c) % 256
             /\ Asked(m.cc, Total(name, v, w, c), Total(name, SIGNED(v), SIGNED(w), c))
             /\ Carry(m.cc) = Over(Total(name, v, w, c))
<1> DEFINE m == ByteTotal(name, v, w, c, f)
<1>1. m.r = Total(name, v, w, c) % 256
  <2>1. Plus(v, w, c, f).r = (v + w + c) % 256
    BY DEF Plus, Result
  <2>2. Minus(v, w, c, f).r = (v - w - c) % 256
    <3>1. Minus(v, w, c, f).r = Wrap(v - w - c) % 256
      BY DEF Minus, Result
    <3> QED BY <3>1 DEF Wrap, Byte
  <2> QED BY <2>1, <2>2 DEF ByteTotal, Total
<1>2. Asked(m.cc, Total(name, v, w, c), Total(name, SIGNED(v), SIGNED(w), c))
  <2>1. CASE name = "add"
    BY <2>1, SumsExact DEF ByteTotal, Total
  <2>2. CASE name = "subtract"
    BY <2>2, DifferencesExact DEF ByteTotal, Total
  <2> QED BY <2>1, <2>2
<1> HIDE DEF m
<1>3. Carry(m.cc) = Over(Total(name, v, w, c))
  BY <1>2 DEF Asked, Carry, Over
<1> QED BY <1>1, <1>2, <1>3 DEF m

(* What the program makes of the bytes of two words, where c is what the low
   bytes carry or borrow and l what they leave *)
LEMMA SignedBytes ==
  ASSUME NEW i \in Int
  PROVE  i \notin -128 .. 127 <=> ~(-128 <= i /\ i <= 127)
OBVIOUS

ByBytes(hp, lp, hq, lq, c, l, p, q) ==
  /\ hp \in Byte /\ lp \in Byte /\ hq \in Byte /\ lq \in Byte
  /\ l \in Byte /\ c \in {0, 1}
  /\ p = 256 * hp + lp /\ q = 256 * hq + lq

LEMMA WordSums ==
  ASSUME NEW hp, NEW lp, NEW hq, NEW lq, NEW c, NEW l, NEW p, NEW q,
         ByBytes(hp, lp, hq, lq, c, l, p, q), lp + lq = 256 * c + l,
         NEW high, high = hp + hq + c,
         NEW signed, signed = SIGNED(hp) + SIGNED(hq) + c
  PROVE  /\ 256 * (high % 256) + l = Wrap(p + q)
         /\ high \notin Byte <=> p + q > 65535
         /\ signed \notin -128 .. 127 <=>
              ~(-32768 <= Signed16(p) + Signed16(q) /\ Signed16(p) + Signed16(q) <= 32767)
<1>1. /\ hp \in Int /\ lp \in Int /\ hq \in Int /\ lq \in Int /\ l \in Int
      /\ 0 <= hp /\ hp <= 255 /\ 0 <= lp /\ lp <= 255 /\ 0 <= hq /\ hq <= 255
      /\ 0 <= lq /\ lq <= 255 /\ 0 <= l /\ l <= 255
      /\ p = 256 * hp + lp /\ q = 256 * hq + lq
      /\ c \in Int /\ 0 <= c /\ c <= 1
  BY DEF ByBytes, Byte
<1>2. p + q = 256 * high + l /\ high \in Int /\ 0 <= high /\ high <= 511
  BY <1>1
<1>3. high % 256 = IF high > 255 THEN high - 256 ELSE high
  BY <1>2
<1>4. Wrap(p + q) = IF high > 255 THEN p + q - 65536 ELSE p + q
  BY <1>1, <1>2 DEF Wrap
<1>5. high \notin Byte <=> high > 255
  BY <1>2 DEF Byte
<1>6. /\ SIGNED(hp) \in Int /\ SIGNED(hq) \in Int
      /\ Signed16(p) = 256 * SIGNED(hp) + lp /\ Signed16(q) = 256 * SIGNED(hq) + lq
  BY <1>1 DEF Signed16, SIGNED
<1> HIDE DEF Wrap
<1>7. 256 * (high % 256) + l = Wrap(p + q) /\ (high \notin Byte <=> p + q > 65535)
  BY <1>1, <1>2, <1>3, <1>4, <1>5
<1>8. Signed16(p) + Signed16(q) = 256 * signed + l /\ signed \in Int
  <2> PICK sp \in Int, sq \in Int : sp = SIGNED(hp) /\ sq = SIGNED(hq)
    BY <1>6
  <2>1. Signed16(p) = 256 * sp + lp /\ Signed16(q) = 256 * sq + lq /\ signed = sp + sq + c
    BY <1>6
  <2>2. 256 * sp + lp + (256 * sq + lq) = 256 * (sp + sq + c) + l
    BY <1>1
  <2> QED BY <2>1, <2>2
<1>9. signed \notin -128 .. 127 <=> ~(-32768 <= 256 * signed + l /\ 256 * signed + l <= 32767)
  <2>1. signed \notin -128 .. 127 <=> ~(-128 <= signed /\ signed <= 127)
    BY <1>8, SignedBytes
  <2>2. -128 <= signed <=> -32768 <= 256 * signed + l
    BY <1>1, <1>8
  <2>3. signed <= 127 <=> 256 * signed + l <= 32767
    BY <1>1, <1>8
  <2> QED BY <2>1, <2>2, <2>3
<1> QED BY <1>7, <1>8, <1>9

LEMMA WordDifferences ==
  ASSUME NEW hp, NEW lp, NEW hq, NEW lq, NEW c, NEW l, NEW p, NEW q,
         ByBytes(hp, lp, hq, lq, c, l, p, q), lp - lq = l - 256 * c,
         NEW high, high = hp - hq - c,
         NEW signed, signed = SIGNED(hp) - SIGNED(hq) - c
  PROVE  /\ 256 * (high % 256) + l = Wrap(p - q)
         /\ high \notin Byte <=> p < q
         /\ (high % 256 >= 128) # (signed \notin -128 .. 127) <=> Signed16(p) < Signed16(q)
<1>1. /\ hp \in Int /\ lp \in Int /\ hq \in Int /\ lq \in Int /\ l \in Int
      /\ 0 <= hp /\ hp <= 255 /\ 0 <= lp /\ lp <= 255 /\ 0 <= hq /\ hq <= 255
      /\ 0 <= lq /\ lq <= 255 /\ 0 <= l /\ l <= 255
      /\ p = 256 * hp + lp /\ q = 256 * hq + lq
      /\ c \in Int /\ 0 <= c /\ c <= 1
  BY DEF ByBytes, Byte
<1>2. p - q = 256 * high + l /\ high \in Int /\ -256 <= high /\ high <= 255
  BY <1>1
<1>3. high % 256 = IF high < 0 THEN high + 256 ELSE high
  BY <1>2
<1>4. Wrap(p - q) = IF high < 0 THEN p - q + 65536 ELSE p - q
  BY <1>1, <1>2 DEF Wrap
<1>5. high \notin Byte <=> high < 0
  BY <1>2 DEF Byte
<1>6. /\ SIGNED(hp) = IF hp >= 128 THEN hp - 256 ELSE hp
      /\ SIGNED(hq) = IF hq >= 128 THEN hq - 256 ELSE hq
      /\ Signed16(p) = 256 * SIGNED(hp) + lp /\ Signed16(q) = 256 * SIGNED(hq) + lq
  BY <1>1 DEF Signed16, SIGNED
<1> HIDE DEF Wrap
<1>7. 256 * (high % 256) + l = Wrap(p - q) /\ (high \notin Byte <=> p < q)
  BY <1>1, <1>2, <1>3, <1>4, <1>5
<1> PICK sp \in Int, sq \in Int : sp = SIGNED(hp) /\ sq = SIGNED(hq)
  BY <1>1, <1>6
<1>8. Signed16(p) - Signed16(q) = 256 * signed + l /\ signed \in Int
  BY <1>1, <1>6
<1>9. signed < 0 <=> Signed16(p) < Signed16(q)
  <2> PICK vp \in Int, vq \in Int : vp = Signed16(p) /\ vq = Signed16(q)
    BY <1>1, <1>6
  <2> QED BY <1>1, <1>8
<1>10. (high % 256 >= 128) # (signed \notin -128 .. 127) <=> signed < 0
  <2>1. /\ sp = hp \/ sp = hp - 256
        /\ sq = hq \/ sq = hq - 256
        /\ -128 <= sp /\ sp <= 127 /\ -128 <= sq /\ sq <= 127
    BY <1>1, <1>6
  <2>2. signed = sp - sq - c /\ -256 <= signed /\ signed <= 255
    <3>1. signed = sp - sq - c
      OBVIOUS
    <3> QED BY <1>1, <2>1, <3>1
  <2>3. signed = high - 256 \/ signed = high \/ signed = high + 256
    <3>1. high = hp - hq - c /\ signed = sp - sq - c
      OBVIOUS
    <3>2. CASE sp = hp
      <4>1. signed = hp - sq - c
        BY <3>1, <3>2
      <4>2. CASE sq = hq
        BY <3>1, <4>1, <4>2
      <4>3. CASE sq = hq - 256
        BY <1>1, <3>1, <4>1, <4>3
      <4> QED BY <2>1, <4>2, <4>3
    <3>3. CASE sp = hp - 256
      BY <1>1, <2>1, <3>1, <3>3
    <3> QED BY <2>1, <3>2, <3>3
  <2>4. high % 256 = IF signed < 0 THEN signed + 256 ELSE signed
    BY <1>2, <1>3, <2>2, <2>3
  <2>5. signed \notin -128 .. 127 <=> ~(-128 <= signed /\ signed <= 127)
    BY <1>8, SignedBytes
  <2> QED BY <1>8, <2>2, <2>4, <2>5
<1> QED BY <1>7, <1>9, <1>10

(* The bytes of a word *)
LEMMA WordOfBytes ==
  ASSUME NEW w \in Word
  PROVE  High(w) \in Byte /\ Low(w) \in Byte /\ w = 256 * High(w) + Low(w)
<1>1. w \in Int /\ 0 <= w /\ w <= 65535
  BY Words16
<1> QED BY <1>1 DEF High, Low, Byte

SumNames == {"add", "subtract"}

(* The data, and how far the program has come *)
SumPoint(name, hp, lp, hq, lq) ==
  LET low == Total(name, lp, lq, 0)
      high == Total(name, hp, hq, Over(low))
      Stored == RM(5) = low % 256
      Carried == Carry(cc) = Over(low)
  IN  /\ RM(0) = hp /\ RM(1) = lp /\ RM(2) = hq /\ RM(3) = lq
      /\ \/ pc = 32
         \/ pc = 34 /\ d["a"] = lp
         \/ pc = 36 /\ d["a"] = low % 256 /\ Carried
         \/ pc = 38 /\ Stored /\ Carried
         \/ pc = 40 /\ Stored /\ Carried /\ d["a"] = hp
         \/ /\ pc = 42 /\ Stored /\ d["a"] = high % 256
            /\ Asked(cc, high, Total(name, SIGNED(hp), SIGNED(hq), Over(low)))

SumInv ==
  task.name \in SumNames =>
    Kept /\ SumPoint(task.name, High(task.p), Low(task.p), High(task.q), Low(task.q))

SumBytes(name) ==
  <<150, 1, IF name = "add" THEN 155 ELSE 144, 3, 151, 5, 150, 0,
    IF name = "add" THEN 153 ELSE 146, 2>>

LEMMA SumIs ==
  ASSUME ProgramsAreRun, NumbersAreTasks, NEW t \in Tasks, t.name \in SumNames
  PROVE  /\ Boot(t) = Simple(SumBytes(t.name), Words(t.p, t.q), 0, 0, {})
         /\ t.p \in Word /\ t.q \in Word
         /\ Len(SumBytes(t.name)) = 10 /\ Len(Words(t.p, t.q)) = 4
         /\ Words(t.p, t.q) \in Seq(Byte)
<1>1. t.p \in Word /\ t.q \in Word
  BY DEF NumbersAreTasks, SumNames
<1>2. Words(t.p, t.q) \in Seq(Byte)
  BY <1>1, WordOfBytes DEF Words
<1>3. Boot(t) = Simple(SumBytes(t.name), Words(t.p, t.q), 0, 0, {})
  BY DEF ProgramsAreRun, Program, SumNames, AddWords, SubtractWords, SumBytes
<1> QED BY <1>1, <1>2, <1>3 DEF Words, SumBytes

LEMMA SumReads ==
  ASSUME ProgramsAreRun, MemoryIsThere, NumbersAreTasks, Kept, task.name \in SumNames
  PROVE  /\ code = 32 .. 41
         /\ RM(32) = 150 /\ RM(33) = 1 /\ RM(34) = (IF task.name = "add" THEN 155 ELSE 144)
         /\ RM(35) = 3 /\ RM(36) = 151 /\ RM(37) = 5 /\ RM(38) = 150 /\ RM(39) = 0
         /\ RM(40) = (IF task.name = "add" THEN 153 ELSE 146) /\ RM(41) = 2
<1> DEFINE bytes == SumBytes(task.name)
           data == Words(task.p, task.q)
<1>1. /\ Boot(task) = Simple(bytes, data, 0, 0, {})
      /\ Len(bytes) = 10 /\ Len(data) = 4 /\ data \in Seq(Byte)
  BY SumIs DEF Kept
<1>2. /\ bytes[1] = 150 /\ bytes[2] = 1 /\ bytes[3] = (IF task.name = "add" THEN 155 ELSE 144)
      /\ bytes[4] = 3 /\ bytes[5] = 151 /\ bytes[6] = 5 /\ bytes[7] = 150 /\ bytes[8] = 0
      /\ bytes[9] = (IF task.name = "add" THEN 153 ELSE 146) /\ bytes[10] = 2
  BY DEF SumBytes
<1> HIDE DEF bytes, data
<1>3. code = 32 .. 31 + Len(bytes) /\ \A i \in 1 .. Len(bytes) : RM(31 + i) = bytes[i]
  <2>1. Len(bytes) \in Nat /\ Len(bytes) <= 20 /\ Len(data) <= 16
    BY <1>1
  <2> PICK none : none = {}
    OBVIOUS
  <2>2. Boot(task) = Simple(bytes, data, 0, 0, none) /\ data \in Seq(Byte)
    BY <1>1
  <2> QED BY <2>1, <2>2, SimpleReads
<1>4. code = 32 .. 41 /\ \A i \in 1 .. 10 : RM(31 + i) = bytes[i]
  BY <1>1, <1>3
<1> QED BY <1>2, <1>4

LEMMA SumBoots ==
  ASSUME ProgramsAreRun, MemoryIsThere, NumbersAreTasks PROVE Init => SumInv
<1> SUFFICES ASSUME Init, task.name \in SumNames PROVE SumInv
  BY DEF SumInv
<1> DEFINE bytes == SumBytes(task.name)
           data == Words(task.p, task.q)
<1>1. /\ Boot(task) = Simple(bytes, data, 0, 0, {})
      /\ Len(bytes) = 10 /\ Len(data) = 4 /\ data \in Seq(Byte)
  BY SumIs DEF Init
<1>2. /\ data[1] = High(task.p) /\ data[2] = Low(task.p)
      /\ data[3] = High(task.q) /\ data[4] = Low(task.q)
  BY DEF Words
<1> HIDE DEF bytes, data
<1>3. Kept /\ pc = 32 /\ \A i \in 1 .. Len(data) : bus.mem[i - 1] = data[i]
  <2>1. Len(bytes) \in Nat /\ Len(bytes) <= 20 /\ Len(data) <= 16
    BY <1>1
  <2> PICK none : none = {}
    OBVIOUS
  <2>2. Boot(task) = Simple(bytes, data, 0, 0, none) /\ data \in Seq(Byte)
    BY <1>1
  <2>3. Kept
    BY <2>1, <2>2, SimpleBegins, ZenonT(60)
  <2>4. pc = 32 
    BY <2>1, <2>2, SimpleBegins, SMT
  <2>5. \A i \in 1 .. Len(data) : bus.mem[i - 1] = data[i]
    BY <2>1, <2>2, SimpleBegins, SMT
  <2> QED BY <2>3, <2>4, <2>5
<1>4. \A i \in 1 .. 4 : bus.mem[i - 1] = data[i]
  BY <1>1, <1>3
<1>5. \A addr \in 0 .. 3 : RM(addr) = bus.mem[addr]
  BY There DEF RM
<1>6. RM(0) = data[1] /\ RM(1) = data[2] /\ RM(2) = data[3] /\ RM(3) = data[4]
  BY <1>4, <1>5
<1> QED BY <1>2, <1>3, <1>6 DEF SumInv, SumPoint

LEMMA SameBus == ASSUME bus' = bus PROVE SameBehind(bus', bus) /\ \A a : RM(a)' = RM(a)
BY DEF SameBehind, RM

LEMMA LoadStep ==
  ASSUME MachineOK, Next, Opcode = 150, pc \in 0 .. 100, NEW a, RM(pc + 1) = a
  PROVE  /\ Carry(cc') = Carry(cc) /\ pc' = pc + 2 /\ d'["a"] = RM(a)
         /\ UNCHANGED <<bus, x, s, wai_state>>
<1>1. RM(a) \in Byte
  BY Reads DEF MachineOK
<1>2. Alu(6, d["a"], RM(a), cc) = Logic(RM(a), cc)
  BY DEF Alu
<1>3. Logic(RM(a), cc).r = RM(a) /\ Carry(Logic(RM(a), cc).cc) = Carry(cc)
  <2>1. RM(a) % 256 = RM(a)
    BY <1>1 DEF Byte
  <2> QED BY <2>1 DEF Logic, Result, Carry, CLR_NZV, SET_NZ8, When, C, N, Z, V
<1>4. Opcode = 144 + 6 /\ 6 \in {0, 2, 6, 7, 9, 11}
  OBVIOUS
<1>5. /\ cc' = Logic(RM(a), cc).cc /\ pc' = pc + 2 /\ d'["a"] = Logic(RM(a), cc).r
      /\ UNCHANGED <<bus, x, s, wai_state>>
  BY <1>2, <1>4, DirectStep
<1> QED BY <1>3, <1>5

LEMMA StoreStep ==
  ASSUME MachineOK, MemoryIsThere, Next, Opcode = 151, pc \in 0 .. 100,
         NEW a \in 0 .. 31, RM(pc + 1) = a
  PROVE  /\ Carry(cc') = Carry(cc) /\ pc' = pc + 2 /\ d'["a"] = d["a"]
         /\ SameBehind(bus', bus) /\ RM(a)' = d["a"]
         /\ \A addr \in Mapped \ {a} : RM(addr)' = RM(addr)
         /\ UNCHANGED <<x, s, wai_state>>
<1>1. d["a"] \in Byte
  BY AccumulatorsHold
<1>2. Alu(7, d["a"], RM(a), cc) = Logic(d["a"], cc)
  BY DEF Alu
<1>3. Carry(Logic(d["a"], cc).cc) = Carry(cc)
  BY DEF Logic, Result, Carry, CLR_NZV, SET_NZ8, When, C, N, Z, V
<1>4. Opcode = 144 + 7 /\ 7 \in {0, 2, 6, 7, 9, 11}
  OBVIOUS
<1>5. /\ cc' = Logic(d["a"], cc).cc /\ pc' = pc + 2 /\ d'["a"] = d["a"]
      /\ bus' = Written(bus, a, d["a"]) /\ UNCHANGED <<x, s, wai_state>>
  BY <1>2, <1>4, DirectStep
<1> QED BY <1>1, <1>3, <1>5, DataWritten

LEMMA SumOf ==
  ASSUME NEW name, NEW v \in Byte, NEW w \in Byte, NEW c \in {0, 1}
  PROVE  /\ Total(name, v, w, c) \in Int /\ Total(name, v, w, c) % 256 \in Byte
         /\ Over(Total(name, v, w, c)) \in {0, 1}
BY DEF Total, Over, Byte

(* The two operations of the program *)
LEMMA LowSumStep ==
  ASSUME MachineOK, Next, NEW name \in SumNames, pc \in 0 .. 100,
         Opcode = (IF name = "add" THEN 155 ELSE 144), NEW a, RM(pc + 1) = a
  PROVE  LET m == ByteTotal(name, d["a"], RM(a), 0, cc)
         IN  /\ cc' = m.cc /\ pc' = pc + 2 /\ d'["a"] = m.r
             /\ bus' = bus /\ wai_state' = wai_state
<1>1. Alu(Opcode - 144, d["a"], RM(a), cc) = ByteTotal(name, d["a"], RM(a), 0, cc)
  BY DEF Alu, ByteTotal, SumNames
<1> PICK c : c = Opcode - 144
  OBVIOUS
<1>2. c \in {0, 11} /\ Opcode = 144 + c /\ c # 7 /\ c \in {0, 2, 6, 7, 9, 11}
  OBVIOUS
<1> QED BY <1>1, <1>2, DirectStep

LEMMA HighSumStep ==
  ASSUME MachineOK, Next, NEW name \in SumNames, pc \in 0 .. 100,
         Opcode = (IF name = "add" THEN 153 ELSE 146), NEW a, RM(pc + 1) = a
  PROVE  LET m == ByteTotal(name, d["a"], RM(a), Carry(cc), cc)
         IN  /\ cc' = m.cc /\ pc' = pc + 2 /\ d'["a"] = m.r
             /\ bus' = bus /\ wai_state' = wai_state
<1>1. Alu(Opcode - 144, d["a"], RM(a), cc) = ByteTotal(name, d["a"], RM(a), Carry(cc), cc)
  BY DEF Alu, ByteTotal, SumNames
<1> PICK c : c = Opcode - 144
  OBVIOUS
<1>2. c \in {2, 9} /\ Opcode = 144 + c /\ c # 7 /\ c \in {0, 2, 6, 7, 9, 11}
  OBVIOUS
<1> QED BY <1>1, <1>2, DirectStep

LEMMA SumMoves ==
  ASSUME ProgramsAreRun, MemoryIsThere, NumbersAreTasks, MachineOK, SumInv, Next,
         task.name \in SumNames
  PROVE  SumInv'
<1> PICK name, hp, lp, hq, lq :
      /\ name = task.name /\ hp = High(task.p) /\ lp = Low(task.p)
      /\ hq = High(task.q) /\ lq = Low(task.q)
  OBVIOUS
<1>1. Kept /\ SumPoint(name, hp, lp, hq, lq) /\ name \in SumNames
  BY DEF SumInv
<1>2. hp \in Byte /\ lp \in Byte /\ hq \in Byte /\ lq \in Byte
  BY <1>1, SumIs, WordOfBytes DEF Kept
<1>3. task' = task /\ code' = code /\ pc \in code /\ cc \in Flags
  BY TaskKept DEF MachineOK
<1>4. ASSUME SameBehind(bus', bus), wai_state' = wai_state,
             SumPoint(name, hp, lp, hq, lq)'
      PROVE  SumInv'
  BY <1>1, <1>3, <1>4, KeptOn DEF SumInv
<1>5. /\ code = 32 .. 41
      /\ RM(32) = 150 /\ RM(33) = 1 /\ RM(34) = (IF name = "add" THEN 155 ELSE 144)
      /\ RM(35) = 3 /\ RM(36) = 151 /\ RM(37) = 5 /\ RM(38) = 150 /\ RM(39) = 0
      /\ RM(40) = (IF name = "add" THEN 153 ELSE 146) /\ RM(41) = 2
  BY <1>1, SumReads
<1> PICK low, over, high, signed :
      /\ low = Total(name, lp, lq, 0) /\ over = Over(low)
      /\ high = Total(name, hp, hq, over)
      /\ signed = Total(name, SIGNED(hp), SIGNED(hq), over)
  OBVIOUS
<1>6. over \in {0, 1}
  BY <1>2, SumOf
<1>7. RM(0) = hp /\ RM(1) = lp /\ RM(2) = hq /\ RM(3) = lq
  BY <1>1 DEF SumPoint
<1>8. \/ pc = 32
      \/ pc = 34 /\ d["a"] = lp
      \/ pc = 36 /\ d["a"] = low % 256 /\ Carry(cc) = over
      \/ pc = 38 /\ RM(5) = low % 256 /\ Carry(cc) = over
      \/ pc = 40 /\ RM(5) = low % 256 /\ Carry(cc) = over /\ d["a"] = hp
  BY <1>1, <1>3, <1>5 DEF SumPoint
<1>9. ASSUME RM(0)' = hp, RM(1)' = lp, RM(2)' = hq, RM(3)' = lq,
             \/ pc' = 34 /\ d'["a"] = lp
             \/ pc' = 36 /\ d'["a"] = low % 256 /\ Carry(cc') = over
             \/ pc' = 38 /\ RM(5)' = low % 256 /\ Carry(cc') = over
             \/ pc' = 40 /\ RM(5)' = low % 256 /\ Carry(cc') = over /\ d'["a"] = hp
             \/ /\ pc' = 42 /\ RM(5)' = low % 256 /\ d'["a"] = high % 256
                /\ Asked(cc', high, signed)
      PROVE  SumPoint(name, hp, lp, hq, lq)'
  BY <1>9 DEF SumPoint
<1>10. ASSUME bus' = bus
       PROVE  SameBehind(bus', bus) /\ \A a : RM(a)' = RM(a)
  BY <1>10, SameBus
<1>11. CASE pc = 32
  <2>1. Opcode = 150 /\ RM(pc + 1) = 1
    BY <1>5, <1>11 DEF Opcode
  <2>2. pc' = 34 /\ d'["a"] = lp /\ bus' = bus /\ wai_state' = wai_state
    BY <1>7, <1>11, <2>1, LoadStep
  <2> QED BY <1>4, <1>7, <1>9, <1>10, <2>2
<1>12. CASE pc = 34 /\ d["a"] = lp
  <2>1. Opcode = (IF name = "add" THEN 155 ELSE 144) /\ RM(pc + 1) = 3
    BY <1>5, <1>12 DEF Opcode
  <2> DEFINE m == ByteTotal(name, lp, lq, 0, cc)
  <2>2. /\ cc' = m.cc /\ pc' = 36 /\ d'["a"] = m.r
        /\ bus' = bus /\ wai_state' = wai_state
    <3>1. RM(3) = lq /\ pc \in 0 .. 100
      BY <1>7, <1>12
    <3>2. LET n == ByteTotal(name, d["a"], RM(3), 0, cc)
          IN  /\ cc' = n.cc /\ pc' = pc + 2 /\ d'["a"] = n.r
              /\ bus' = bus /\ wai_state' = wai_state
      BY <1>1, <2>1, <3>1, LowSumStep
    <3> QED BY <1>12, <3>1, <3>2
  <2>3. m.r = low % 256 /\ Carry(m.cc) = over
    BY <1>1, <1>2, <1>3, ByteTotals DEF SumNames
  <2> HIDE DEF m
  <2> QED BY <1>4, <1>7, <1>9, <1>10, <2>2, <2>3
<1>13. CASE pc = 36 /\ d["a"] = low % 256 /\ Carry(cc) = over
  <2>1. Opcode = 151 /\ RM(pc + 1) = 5
    BY <1>5, <1>13 DEF Opcode
  <2>2. /\ Carry(cc') = over /\ pc' = 38 /\ RM(5)' = low % 256
        /\ SameBehind(bus', bus) /\ wai_state' = wai_state
        /\ \A addr \in Mapped \ {5} : RM(addr)' = RM(addr)
    BY <1>13, <2>1, StoreStep
  <2>3. RM(0)' = hp /\ RM(1)' = lp /\ RM(2)' = hq /\ RM(3)' = lq
    BY <1>7, <2>2, There
  <2> QED BY <1>4, <1>9, <2>2, <2>3
<1>14. CASE pc = 38 /\ RM(5) = low % 256 /\ Carry(cc) = over
  <2>1. Opcode = 150 /\ RM(pc + 1) = 0
    BY <1>5, <1>14 DEF Opcode
  <2>2. /\ pc' = 40 /\ d'["a"] = hp /\ Carry(cc') = over
        /\ bus' = bus /\ wai_state' = wai_state
    BY <1>7, <1>14, <2>1, LoadStep
  <2> QED BY <1>4, <1>7, <1>9, <1>10, <1>14, <2>2
<1>15. CASE pc = 40 /\ RM(5) = low % 256 /\ Carry(cc) = over /\ d["a"] = hp
  <2>1. Opcode = (IF name = "add" THEN 153 ELSE 146) /\ RM(pc + 1) = 2
    BY <1>5, <1>15 DEF Opcode
  <2> DEFINE m == ByteTotal(name, hp, hq, over, cc)
  <2>2. /\ cc' = m.cc /\ pc' = 42 /\ d'["a"] = m.r
        /\ bus' = bus /\ wai_state' = wai_state
    <3>1. RM(2) = hq /\ pc \in 0 .. 100
      BY <1>7, <1>15
    <3>2. LET n == ByteTotal(name, d["a"], RM(2), Carry(cc), cc)
          IN  /\ cc' = n.cc /\ pc' = pc + 2 /\ d'["a"] = n.r
              /\ bus' = bus /\ wai_state' = wai_state
      BY <1>1, <2>1, <3>1, HighSumStep
    <3> QED BY <1>15, <3>1, <3>2
  <2>3. m.r = high % 256 /\ Asked(m.cc, high, signed)
    BY <1>1, <1>2, <1>3, <1>6, ByteTotals DEF SumNames
  <2> HIDE DEF m
  <2> QED BY <1>4, <1>7, <1>9, <1>10, <1>15, <2>2, <2>3
<1> QED BY <1>8, <1>11, <1>12, <1>13, <1>14, <1>15

LEMMA SumSteps ==
  ASSUME ProgramsAreRun, MemoryIsThere, NumbersAreTasks
  PROVE  MachineOK /\ SumInv /\ [Next]_vars => SumInv'
<1> SUFFICES ASSUME MachineOK, SumInv, [Next]_vars PROVE SumInv'
  OBVIOUS
<1>1. CASE UNCHANGED vars
  <2>1. SumPoint(task.name, High(task.p), Low(task.p), High(task.q), Low(task.q))'
          <=> SumPoint(task.name, High(task.p), Low(task.p), High(task.q), Low(task.q))
    BY <1>1 DEF vars, SumPoint, RM
  <2> QED BY <1>1, <2>1, KeptAlone DEF SumInv, vars
<1>2. CASE Next
  <2>1. task' = task
    BY <1>2, TaskKept
  <2> QED BY <1>2, <2>1, SumMoves DEF SumInv
<1> QED BY <1>1, <1>2

(* The words that the bytes of the program make up *)
LEMMA CarryOut ==
  ASSUME NEW v \in Byte, NEW w \in Byte
  PROVE  LET total == Total("add", v, w, 0) IN v + w = 256 * Over(total) + (total % 256)
<1> DEFINE total == Total("add", v, w, 0)
<1>0. total = v + w
  BY DEF Total, Byte
<1> HIDE DEF total
<1>1. total \in Int /\ 0 <= total /\ total <= 510
  BY <1>0 DEF Byte
<1>2. Over(total) = IF total > 255 THEN 1 ELSE 0
  BY <1>1 DEF Over, Byte
<1>3. total % 256 = IF total > 255 THEN total - 256 ELSE total
  BY <1>1
<1>4. v + w = 256 * Over(total) + (total % 256)
  BY <1>0, <1>1, <1>2, <1>3
<1> QED BY <1>4 DEF total

LEMMA BorrowOut ==
  ASSUME NEW v \in Byte, NEW w \in Byte
  PROVE  LET total == Total("subtract", v, w, 0) IN v - w = (total % 256) - 256 * Over(total)
<1> DEFINE total == Total("subtract", v, w, 0)
<1>0. total = v - w
  BY DEF Total, Byte
<1> HIDE DEF total
<1>1. total \in Int /\ -255 <= total /\ total <= 255
  BY <1>0 DEF Byte
<1>2. Over(total) = IF total < 0 THEN 1 ELSE 0
  BY <1>1 DEF Over, Byte
<1>3. total % 256 = IF total < 0 THEN total + 256 ELSE total
  BY <1>1
<1>4. v - w = (total % 256) - 256 * Over(total)
  BY <1>0, <1>1, <1>2, <1>3
<1> QED BY <1>4 DEF total

LEMMA SumOfWords ==
  ASSUME NEW p \in Word, NEW q \in Word
  PROVE  LET hp == High(p)
             lp == Low(p)
             hq == High(q)
             lq == Low(q)
             low == Total("add", lp, lq, 0)
             high == Total("add", hp, hq, Over(low))
             signed == Total("add", SIGNED(hp), SIGNED(hq), Over(low))
         IN  /\ 256 * (high % 256) + (low % 256) = Wrap(p + q)
             /\ high \notin Byte <=> p + q > 65535
             /\ signed \notin -128 .. 127 <=>
                  ~(-32768 <= Signed16(p) + Signed16(q) /\ Signed16(p) + Signed16(q) <= 32767)
<1> PICK hp, lp, hq, lq : hp = High(p) /\ lp = Low(p) /\ hq = High(q) /\ lq = Low(q)
  OBVIOUS
<1> DEFINE low == Total("add", lp, lq, 0)
           high == Total("add", hp, hq, Over(low))
           signed == Total("add", SIGNED(hp), SIGNED(hq), Over(low))
<1>0. /\ hp \in Byte /\ lp \in Byte /\ hq \in Byte /\ lq \in Byte
      /\ p = 256 * hp + lp /\ q = 256 * hq + lq
  BY WordOfBytes
<1>1. low = lp + lq
  BY <1>0 DEF Total, Byte
<1> HIDE DEF low
<1> PICK c, l : c = Over(low) /\ l = low % 256
  OBVIOUS
<1>2. c \in {0, 1} /\ l \in Byte
  BY <1>0, SumOf DEF low
<1>3. lp + lq = 256 * c + l /\ ByBytes(hp, lp, hq, lq, c, l, p, q)
  <2>1. ByBytes(hp, lp, hq, lq, c, l, p, q)
    BY <1>0, <1>2 DEF ByBytes
  <2>2. lp + lq = 256 * Over(low) + (low % 256)
    BY <1>0, CarryOut DEF low
  <2> QED BY <2>1, <2>2
<1>4. high = hp + hq + c /\ signed = SIGNED(hp) + SIGNED(hq) + c
  BY <1>0 DEF Total
<1> HIDE DEF high, signed
<1>5. /\ 256 * (high % 256) + l = Wrap(p + q)
      /\ high \notin Byte <=> p + q > 65535
      /\ signed \notin -128 .. 127 <=>
           ~(-32768 <= Signed16(p) + Signed16(q) /\ Signed16(p) + Signed16(q) <= 32767)
  BY <1>3, <1>4, WordSums
<1> QED BY <1>5 DEF low, high, signed

LEMMA DifferenceOfWords ==
  ASSUME NEW p \in Word, NEW q \in Word
  PROVE  LET hp == High(p)
             lp == Low(p)
             hq == High(q)
             lq == Low(q)
             low == Total("subtract", lp, lq, 0)
             high == Total("subtract", hp, hq, Over(low))
             signed == Total("subtract", SIGNED(hp), SIGNED(hq), Over(low))
         IN  /\ 256 * (high % 256) + (low % 256) = Wrap(p - q)
             /\ high \notin Byte <=> p < q
             /\ (high % 256 >= 128) # (signed \notin -128 .. 127)
                  <=> Signed16(p) < Signed16(q)
<1> PICK hp, lp, hq, lq : hp = High(p) /\ lp = Low(p) /\ hq = High(q) /\ lq = Low(q)
  OBVIOUS
<1> DEFINE low == Total("subtract", lp, lq, 0)
           high == Total("subtract", hp, hq, Over(low))
           signed == Total("subtract", SIGNED(hp), SIGNED(hq), Over(low))
<1>0. /\ hp \in Byte /\ lp \in Byte /\ hq \in Byte /\ lq \in Byte
      /\ p = 256 * hp + lp /\ q = 256 * hq + lq
  BY WordOfBytes
<1>1. low = lp - lq
  BY <1>0 DEF Total, Byte
<1> HIDE DEF low
<1> PICK c, l : c = Over(low) /\ l = low % 256
  OBVIOUS
<1>2. c \in {0, 1} /\ l \in Byte
  BY <1>0, SumOf DEF low
<1>3. lp - lq = l - 256 * c /\ ByBytes(hp, lp, hq, lq, c, l, p, q)
  <2>1. ByBytes(hp, lp, hq, lq, c, l, p, q)
    BY <1>0, <1>2 DEF ByBytes
  <2>2. lp - lq = (low % 256) - 256 * Over(low)
    BY <1>0, BorrowOut DEF low
  <2> QED BY <2>1, <2>2
<1>4. high = hp - hq - c /\ signed = SIGNED(hp) - SIGNED(hq) - c
  BY DEF Total
<1> HIDE DEF high, signed
<1>5. /\ 256 * (high % 256) + l = Wrap(p - q)
      /\ high \notin Byte <=> p < q
      /\ (high % 256 >= 128) # (signed \notin -128 .. 127)
           <=> Signed16(p) < Signed16(q)
  BY <1>3, <1>4, WordDifferences
<1> QED BY <1>5 DEF low, high, signed

LEMMA SumIsOver ==
  ASSUME ProgramsAreRun, MemoryIsThere, NumbersAreTasks, SumInv, Stopped,
         task.name \in SumNames
  PROVE  LET word == 256 * d["a"] + bus.mem[5]
             sum == Signed16(task.p) + Signed16(task.q)
         IN  /\ task.name = "add" =>
                  /\ word = Wrap(task.p + task.q)
                  /\ C \in cc <=> task.p + task.q > 65535
                  /\ V \in cc <=> ~(-32768 <= sum /\ sum <= 32767)
             /\ task.name = "subtract" =>
                  /\ word = Wrap(task.p - task.q)
                  /\ C \in cc <=> task.p < task.q
                  /\ NXORV(cc) <=> Signed16(task.p) < Signed16(task.q)
<1> PICK p, q, hp, lp, hq, lq :
      /\ p = task.p /\ q = task.q
      /\ hp = High(p) /\ lp = Low(p) /\ hq = High(q) /\ lq = Low(q)
  OBVIOUS
<1>1. Kept /\ SumPoint(task.name, hp, lp, hq, lq)
  BY DEF SumInv
<1>2. p \in Word /\ q \in Word
  BY <1>1, SumIs DEF Kept
<1> PICK low, l, c, high, signed :
      /\ low = Total(task.name, lp, lq, 0) /\ l = low % 256 /\ c = Over(low)
      /\ high = Total(task.name, hp, hq, c)
      /\ signed = Total(task.name, SIGNED(hp), SIGNED(hq), c)
  OBVIOUS
<1>3. RM(5) = l /\ d["a"] = high % 256 /\ Asked(cc, high, signed)
  <2>1. code = 32 .. 41 /\ pc \notin code
    BY <1>1, SumReads DEF Stopped, Kept
  <2> QED BY <1>1, <2>1 DEF SumPoint
<1>4. bus.mem[5] = l
  BY <1>3, There DEF RM
<1>5. CASE task.name = "add"
  <2>1. /\ 256 * (high % 256) + l = Wrap(p + q)
        /\ high \notin Byte <=> p + q > 65535
        /\ signed \notin -128 .. 127 <=>
             ~(-32768 <= Signed16(p) + Signed16(q) /\ Signed16(p) + Signed16(q) <= 32767)
    BY <1>2, <1>5, SumOfWords
  <2> QED BY <1>3, <1>4, <1>5, <2>1 DEF Asked
<1>6. CASE task.name = "subtract"
  <2>1. /\ 256 * (high % 256) + l = Wrap(p - q)
        /\ high \notin Byte <=> p < q
        /\ (high % 256 >= 128) # (signed \notin -128 .. 127) <=> Signed16(p) < Signed16(q)
    BY <1>2, <1>6, DifferenceOfWords
  <2> QED BY <1>3, <1>4, <1>6, <2>1 DEF Asked, NXORV
<1> QED BY <1>5, <1>6 DEF SumNames

-----------------------------------------------------------------------------
(* Programs: shifts and the negation of words *)

(* A byte and its carry, shifted: nothing is lost. *)
IsRight(m, t, bit) ==
  /\ m.r \in Byte /\ Carry(m.cc) \in {0, 1}
  /\ 2 * m.r + Carry(m.cc) = 256 * bit + t
IsLeft(m, t, bit) ==
  /\ m.r \in Byte /\ Carry(m.cc) \in {0, 1}
  /\ 256 * Carry(m.cc) + m.r = 2 * t + bit

LEMMA ShiftsRight ==
  ASSUME NEW t \in Byte, NEW bit \in {0, 1}, NEW f
  PROVE  IsRight(ShiftedRight(t, bit, f), t, bit)
<1> PICK h : h = t \div 2
  OBVIOUS
<1>1. /\ h \in Int /\ 0 <= h /\ h <= 127 /\ t \in Int
      /\ (t % 2 = 1 /\ t = 2 * h + 1) \/ (t % 2 = 0 /\ t = 2 * h)
  BY DEF Byte
<1> PICK r : r = 128 * bit + h
  OBVIOUS
<1>2. r \in Byte /\ r % 256 = r
  BY <1>1 DEF Byte
<1> DEFINE m == ShiftedRight(t, bit, f)
<1>3. m.r = r /\ (C \in m.cc <=> t % 2 = 1)
  BY <1>2 DEF ShiftedRight, Result, SET_V_SHIFT, CLR_NZVC, SET_NZ8, When, C, N, Z, V
<1> HIDE DEF m
<1>4. Carry(m.cc) = (IF t % 2 = 1 THEN 1 ELSE 0)
  BY <1>3 DEF Carry
<1>5. 2 * r = 256 * bit + 2 * h
  BY <1>1
<1>6. m.r \in Byte /\ Carry(m.cc) \in {0, 1} /\ 2 * m.r + Carry(m.cc) = 256 * bit + t
  BY <1>1, <1>2, <1>3, <1>4, <1>5
<1> QED BY <1>6 DEF m, IsRight

LEMMA ShiftsLeft ==
  ASSUME NEW t \in Byte, NEW bit \in {0, 1}, NEW f
  PROVE  IsLeft(ShiftedLeft(t, bit, f), t, bit)
<1> PICK r : r = 2 * t + bit
  OBVIOUS
<1>1. r \in Int /\ 0 <= r /\ r <= 511
  BY DEF Byte
<1>2. /\ r % 256 = IF r >= 256 THEN r - 256 ELSE r
      /\ (r \div 256) % 2 = IF r >= 256 THEN 1 ELSE 0
  BY <1>1
<1> DEFINE m == ShiftedLeft(t, bit, f)
<1>3. m.r = r % 256 /\ (C \in m.cc <=> (r \div 256) % 2 = 1)
  BY DEF ShiftedLeft, Result, CLR_NZVC, SET_FLAGS8, SET_NZ8, SET_V8, SET_C8, When,
         C, N, Z, V
<1> HIDE DEF m
<1>4. Carry(m.cc) = (IF r >= 256 THEN 1 ELSE 0)
  BY <1>2, <1>3 DEF Carry
<1>5. m.r = IF r >= 256 THEN r - 256 ELSE r
  BY <1>2, <1>3
<1>6. m.r \in Byte /\ Carry(m.cc) \in {0, 1} /\ 256 * Carry(m.cc) + m.r = r
  BY <1>1, <1>4, <1>5 DEF Byte
<1> QED BY <1>6 DEF m, IsLeft

LEMMA ModifyShifts ==
  ASSUME NEW t \in Byte, NEW f
  PROVE  /\ IsLeft(Modify(8, t, f), t, 0) /\ IsLeft(Modify(9, t, f), t, Carry(f))
         /\ IsRight(Modify(4, t, f), t, 0) /\ IsRight(Modify(6, t, f), t, Carry(f))
         /\ IsRight(Modify(7, t, f), t, t \div 128)
<1>1. 0 \in {0, 1} /\ Carry(f) \in {0, 1} /\ t \div 128 \in {0, 1}
  BY DEF Carry, Byte
<1>2. /\ Modify(8, t, f) = ShiftedLeft(t, 0, f)
      /\ Modify(9, t, f) = ShiftedLeft(t, Carry(f), f)
      /\ Modify(4, t, f) = ShiftedRight(t, 0, f)
      /\ Modify(6, t, f) = ShiftedRight(t, Carry(f), f)
      /\ Modify(7, t, f) = ShiftedRight(t, t \div 128, f)
  BY DEF Modify
<1> QED BY <1>1, <1>2, ShiftsLeft, ShiftsRight

(* A write, in place, of the bytes that shifts, COM, NEG and INC leave *)
LEMMA ModifyStep ==
  ASSUME MachineOK, MemoryIsThere, Next, NEW c \in {0, 3, 4, 6, 7, 8, 9, 12},
         Opcode = 112 + c, pc \in 0 .. 100, RM(pc + 1) = 0,
         NEW a \in 0 .. 31, RM(pc + 2) = a,
         NEW m, m = Modify(c, RM(a), cc), m.r \in Byte
  PROVE  /\ SameBehind(bus', bus) /\ RM(a)' = m.r
         /\ \A addr \in Mapped \ {a} : RM(addr)' = RM(addr)
         /\ cc' = m.cc /\ pc' = pc + 3 /\ UNCHANGED <<x, s, d, wai_state>>
<1>1. /\ cc' = m.cc /\ pc' = pc + 3 /\ bus' = Written(bus, a, m.r)
      /\ UNCHANGED <<x, s, d, wai_state>>
  BY ExtendedStep
<1> QED BY <1>1, DataWritten

LEMMA BranchStep ==
  ASSUME Next, Opcode \in {36, 38}, pc \in 0 .. 100, NEW t \in Byte, RM(pc + 1) = t,
         pc + 2 + SIGNED(t) \in 0 .. 100
  PROVE  /\ pc' = IF (IF Opcode = 36 THEN C \notin cc ELSE Z \notin cc)
                  THEN pc + 2 + SIGNED(t) ELSE pc + 2
         /\ UNCHANGED <<x, s, d, cc, bus, wai_state>>
<1>1. BranchRow
  BY LegalOpcodes, RowOf
<1>2. RELATIVE.ea = pc + 2 + SIGNED(t) /\ RELATIVE.next = pc + 2
  <2>1. \A w \in 0 .. 100 : Wrap(w) = w
    BY DEF Wrap
  <2> QED BY <2>1, Following DEF RELATIVE
<1>3. Condition(Column, cc) <=> IF Opcode = 36 THEN C \notin cc ELSE Z \notin cc
  <2>1. Column = IF Opcode = 36 THEN 4 ELSE 6
    BY DEF Column
  <2>2. Condition(4, cc) <=> C \notin cc
    BY DEF Condition
  <2>3. Condition(6, cc) <=> Z \notin cc
    BY DEF Condition
  <2> QED BY <2>1, <2>2, <2>3
<1> QED BY <1>1, <1>2, <1>3 DEF BranchRow

(* What the first byte is shifted by *)
Sign(k, hp) == IF k = 3 THEN hp \div 128 ELSE 0

ShiftPoint(k, hp, lp) ==
  LET word == 256 * RM(0) + RM(1)
      Shifted(w, v) == IF k = 1 THEN 65536 * Carry(cc) + w = 2 * v
                       ELSE 2 * w + Carry(cc) = v + 65536 * Sign(k, hp)
  IN  \/ pc = 32 /\ RM(0) = hp /\ RM(1) = lp
      \/ /\ pc = 35
         /\ IF k = 1 THEN RM(0) = hp /\ 256 * Carry(cc) + RM(1) = 2 * lp
            ELSE RM(1) = lp /\ 2 * RM(0) + Carry(cc) = hp + 256 * Sign(k, hp)
      \/ pc = 38 /\ Shifted(word, 256 * hp + lp)

ShiftInv ==
  task.name = "shift" => Kept /\ ShiftPoint(task.k, High(task.p), Low(task.p))

ShiftBytes(k) ==
  LET low == IF k = 1 THEN 1 ELSE 0
  IN  <<IF k = 1 THEN 120 ELSE IF k = 2 THEN 116 ELSE 119, 0, low,
        IF k = 1 THEN 121 ELSE 118, 0, 1 - low>>

LEMMA ShiftIs ==
  ASSUME ProgramsAreRun, NumbersAreTasks, NEW t \in Tasks, t.name = "shift"
  PROVE  /\ Boot(t) = Simple(ShiftBytes(t.k), Words(t.p, 0), 0, 0, {C})
         /\ t.p \in Word /\ t.k \in 1 .. 3
         /\ Len(ShiftBytes(t.k)) = 6 /\ Len(Words(t.p, 0)) = 4
         /\ Words(t.p, 0) \in Seq(Byte)
<1>1. t.p \in Word /\ t.k \in 1 .. 3
  BY DEF NumbersAreTasks
<1>2. Words(t.p, 0) \in Seq(Byte)
  <2>1. High(0) \in Byte /\ Low(0) \in Byte
    BY DEF High, Low, Byte
  <2> QED BY <1>1, <2>1, WordOfBytes DEF Words
<1>3. ShiftWord(t) = Simple(ShiftBytes(t.k), Words(t.p, 0), 0, 0, {C})
  BY <1>1 DEF ShiftWord, ShiftBytes
<1>4. Boot(t) = ShiftWord(t)
  BY DEF ProgramsAreRun, Program
<1> QED BY <1>1, <1>2, <1>3, <1>4 DEF Words, ShiftBytes

LEMMA ShiftReads ==
  ASSUME ProgramsAreRun, MemoryIsThere, NumbersAreTasks, Kept, task.name = "shift"
  PROVE  /\ code = 32 .. 37 /\ task.p \in Word /\ task.k \in 1 .. 3
         /\ RM(32) = (IF task.k = 1 THEN 120 ELSE IF task.k = 2 THEN 116 ELSE 119)
         /\ RM(33) = 0 /\ RM(34) = (IF task.k = 1 THEN 1 ELSE 0)
         /\ RM(35) = (IF task.k = 1 THEN 121 ELSE 118)
         /\ RM(36) = 0 /\ RM(37) = (IF task.k = 1 THEN 0 ELSE 1)
<1> DEFINE bytes == ShiftBytes(task.k)
           data == Words(task.p, 0)
<1>1. /\ Boot(task) = Simple(bytes, data, 0, 0, {C})
      /\ Len(bytes) = 6 /\ Len(data) = 4 /\ data \in Seq(Byte)
      /\ task.p \in Word /\ task.k \in 1 .. 3
  BY ShiftIs DEF Kept
<1>2. /\ bytes[1] = (IF task.k = 1 THEN 120 ELSE IF task.k = 2 THEN 116 ELSE 119)
      /\ bytes[2] = 0 /\ bytes[3] = (IF task.k = 1 THEN 1 ELSE 0)
      /\ bytes[4] = (IF task.k = 1 THEN 121 ELSE 118)
      /\ bytes[5] = 0 /\ bytes[6] = (IF task.k = 1 THEN 0 ELSE 1)
  BY <1>1 DEF ShiftBytes
<1> HIDE DEF bytes, data
<1>3. code = 32 .. 31 + Len(bytes) /\ \A i \in 1 .. Len(bytes) : RM(31 + i) = bytes[i]
  <2>1. Len(bytes) \in Nat /\ Len(bytes) <= 20 /\ Len(data) <= 16
    BY <1>1
  <2>2. PICK f : f = {C}
    OBVIOUS
  <2>3. Boot(task) = Simple(bytes, data, 0, 0, f) /\ data \in Seq(Byte)
    BY <1>1, <2>2
  <2> HIDE <2>2
  <2> QED BY <2>1, <2>3, SimpleReads
<1>4. code = 32 .. 37 /\ \A i \in 1 .. 6 : RM(31 + i) = bytes[i]
  BY <1>1, <1>3
<1> QED BY <1>1, <1>2, <1>4

LEMMA ShiftBoots ==
  ASSUME ProgramsAreRun, MemoryIsThere, NumbersAreTasks PROVE Init => ShiftInv
<1> SUFFICES ASSUME Init, task.name = "shift" PROVE ShiftInv
  BY DEF ShiftInv
<1> DEFINE bytes == ShiftBytes(task.k)
           data == Words(task.p, 0)
<1>1. /\ Boot(task) = Simple(bytes, data, 0, 0, {C})
      /\ Len(bytes) = 6 /\ Len(data) = 4 /\ data \in Seq(Byte)
  BY ShiftIs DEF Init
<1>2. data[1] = High(task.p) /\ data[2] = Low(task.p)
  BY DEF Words
<1> HIDE DEF bytes, data
<1>3. Kept /\ pc = 32 /\ \A i \in 1 .. Len(data) : bus.mem[i - 1] = data[i]
  <2>1. Len(bytes) \in Nat /\ Len(bytes) <= 20 /\ Len(data) <= 16
    BY <1>1
  <2> PICK f : f = {C}
    OBVIOUS
  <2>2. Boot(task) = Simple(bytes, data, 0, 0, f) /\ data \in Seq(Byte)
    BY <1>1
  <2>3. Kept
    BY <2>1, <2>2, SimpleBegins, ZenonT(60)
  <2>4. pc = 32
    BY <2>1, <2>2, SimpleBegins, SMT
  <2>5. \A i \in 1 .. Len(data) : bus.mem[i - 1] = data[i]
    BY <2>1, <2>2, SimpleBegins, SMT
  <2> QED BY <2>3, <2>4, <2>5
<1>4. \A i \in 1 .. 4 : bus.mem[i - 1] = data[i]
  BY <1>1, <1>3
<1>5. \A addr \in 0 .. 3 : RM(addr) = bus.mem[addr]
  BY There DEF RM
<1>6. RM(0) = data[1] /\ RM(1) = data[2]
  BY <1>4, <1>5
<1> QED BY <1>2, <1>3, <1>6 DEF ShiftInv, ShiftPoint

(* The carry of one byte goes into the other. *)
LEMMA LeftOver ==
  ASSUME NEW hp \in Byte, NEW lp \in Byte, NEW c \in {0, 1}, NEW l \in Byte,
         256 * c + l = 2 * lp, NEW m, IsLeft(m, hp, c)
  PROVE  65536 * Carry(m.cc) + (256 * m.r + l) = 2 * (256 * hp + lp)
<1> PICK r \in Byte, over \in {0, 1} : r = m.r /\ over = Carry(m.cc)
  BY DEF IsLeft
<1>1. 256 * over + r = 2 * hp + c
  BY DEF IsLeft
<1>2. hp \in Int /\ lp \in Int /\ l \in Int /\ r \in Int /\ over \in Int /\ c \in Int
  BY DEF Byte
<1>3. 65536 * over + (256 * r + l) = 2 * (256 * hp + lp)
  BY <1>1, <1>2
<1> QED BY <1>3

IsHalf(h, c, hp, sign) == 2 * h + c = hp + 256 * sign

LEMMA RightOver ==
  ASSUME NEW hp \in Byte, NEW lp \in Byte, NEW c \in {0, 1}, NEW h \in Byte,
         NEW sign \in {0, 1}, IsHalf(h, c, hp, sign), NEW m, IsRight(m, lp, c)
  PROVE  2 * (256 * h + m.r) + Carry(m.cc) = 256 * hp + lp + 65536 * sign
<1> PICK r \in Byte, over \in {0, 1} : r = m.r /\ over = Carry(m.cc)
  BY DEF IsRight
<1>1. 2 * r + over = 256 * c + lp
  BY DEF IsRight
<1>2. hp \in Int /\ lp \in Int /\ h \in Int /\ r \in Int /\ over \in Int
      /\ c \in Int /\ sign \in Int
  BY DEF Byte
<1>3. 2 * h + c = hp + 256 * sign
  BY DEF IsHalf
<1>4. 2 * (256 * h + r) + over = 256 * hp + lp + 65536 * sign
  BY <1>1, <1>2, <1>3
<1> QED BY <1>4

LEMMA ShiftMoves ==
  ASSUME ProgramsAreRun, MemoryIsThere, NumbersAreTasks, MachineOK, ShiftInv, Next,
         task.name = "shift"
  PROVE  ShiftInv'
<1> PICK k, hp, lp : k = task.k /\ hp = High(task.p) /\ lp = Low(task.p)
  OBVIOUS
<1>1. Kept /\ ShiftPoint(k, hp, lp)
  BY DEF ShiftInv
<1>2. hp \in Byte /\ lp \in Byte /\ k \in 1 .. 3
  BY <1>1, ShiftIs, WordOfBytes DEF Kept
<1>3. task' = task /\ pc \in code /\ cc \in Flags
  BY TaskKept DEF MachineOK
<1>4. ASSUME SameBehind(bus', bus), wai_state' = wai_state, ShiftPoint(k, hp, lp)'
      PROVE  ShiftInv'
  BY <1>1, <1>3, <1>4, KeptOn DEF ShiftInv
<1>5. /\ code = 32 .. 37
      /\ RM(32) = (IF k = 1 THEN 120 ELSE IF k = 2 THEN 116 ELSE 119)
      /\ RM(33) = 0 /\ RM(34) = (IF k = 1 THEN 1 ELSE 0)
      /\ RM(35) = (IF k = 1 THEN 121 ELSE 118)
      /\ RM(36) = 0 /\ RM(37) = (IF k = 1 THEN 0 ELSE 1)
  BY <1>1, ShiftReads
<1>6. 0 \in Mapped /\ 1 \in Mapped
  BY There
<1>7. RM(0) \in Byte /\ RM(1) \in Byte /\ Carry(cc) \in {0, 1}
  BY Reads DEF Carry, MachineOK
<1>8. Sign(k, hp) \in {0, 1} /\ (k = 3 => Sign(k, hp) = hp \div 128)
  BY <1>2 DEF Sign, Byte
<1>9. CASE pc = 32 /\ RM(0) = hp /\ RM(1) = lp
  <2>1. CASE k = 1
    <3> PICK m : m = Modify(8, RM(1), cc)
      OBVIOUS
    <3>1. IsLeft(m, lp, 0)
      BY <1>2, <1>9, ModifyShifts
    <3>2. Opcode = 112 + 8 /\ RM(pc + 1) = 0 /\ RM(pc + 2) = 1
      BY <1>5, <1>9, <2>1 DEF Opcode
    <3>3. /\ SameBehind(bus', bus) /\ RM(1)' = m.r
          /\ \A addr \in Mapped \ {1} : RM(addr)' = RM(addr)
          /\ cc' = m.cc /\ pc' = 35 /\ wai_state' = wai_state
      BY <1>9, <3>1, <3>2, ModifyStep DEF IsLeft
    <3>4. RM(0)' = hp
      BY <1>6, <1>9, <3>3
    <3>5. 256 * Carry(cc') + RM(1)' = 2 * lp
      <4>1. 256 * Carry(m.cc) + m.r = 2 * lp + 0
        BY <3>1 DEF IsLeft
      <4>2. 2 * lp + 0 = 2 * lp
        BY <1>2 DEF Byte
      <4> QED BY <3>3, <4>1, <4>2
    <3> QED BY <1>4, <2>1, <3>3, <3>4, <3>5 DEF ShiftPoint
  <2>2. CASE k # 1
    <3> PICK c, m : c = (IF k = 2 THEN 4 ELSE 7) /\ m = Modify(c, RM(0), cc)
      OBVIOUS
    <3>1. IsRight(m, hp, Sign(k, hp))
      BY <1>2, <1>9, <2>2, ModifyShifts DEF Sign
    <3>2. Opcode = 112 + c /\ c \in {4, 7} /\ RM(pc + 1) = 0 /\ RM(pc + 2) = 0
      BY <1>2, <1>5, <1>9, <2>2 DEF Opcode
    <3>3. /\ SameBehind(bus', bus) /\ RM(0)' = m.r
          /\ \A addr \in Mapped \ {0} : RM(addr)' = RM(addr)
          /\ cc' = m.cc /\ pc' = 35 /\ wai_state' = wai_state
      BY <1>9, <3>1, <3>2, ModifyStep DEF IsRight
    <3>4. RM(1)' = lp
      BY <1>6, <1>9, <3>3
    <3>5. 2 * RM(0)' + Carry(cc') = hp + 256 * Sign(k, hp)
      <4>1. 2 * m.r + Carry(m.cc) = 256 * Sign(k, hp) + hp
        BY <3>1 DEF IsRight
      <4>2. 256 * Sign(k, hp) + hp = hp + 256 * Sign(k, hp)
        BY <1>2, <1>8 DEF Byte
      <4> QED BY <3>3, <4>1, <4>2
    <3> QED BY <1>4, <2>2, <3>3, <3>4, <3>5 DEF ShiftPoint
  <2> QED BY <2>1, <2>2
<1>10. CASE /\ pc = 35
            /\ IF k = 1 THEN RM(0) = hp /\ 256 * Carry(cc) + RM(1) = 2 * lp
               ELSE RM(1) = lp /\ 2 * RM(0) + Carry(cc) = hp + 256 * Sign(k, hp)
  <2>1. CASE k = 1
    <3> PICK m : m = Modify(9, RM(0), cc)
      OBVIOUS
    <3>1. IsLeft(m, hp, Carry(cc))
      BY <1>2, <1>10, <2>1, ModifyShifts
    <3>2. Opcode = 112 + 9 /\ RM(pc + 1) = 0 /\ RM(pc + 2) = 0
      BY <1>5, <1>10, <2>1 DEF Opcode
    <3>3. /\ SameBehind(bus', bus) /\ RM(0)' = m.r
          /\ \A addr \in Mapped \ {0} : RM(addr)' = RM(addr)
          /\ cc' = m.cc /\ pc' = 38 /\ wai_state' = wai_state
      BY <1>10, <3>1, <3>2, ModifyStep DEF IsLeft
    <3>4. RM(1)' = RM(1) /\ 256 * Carry(cc) + RM(1) = 2 * lp
      BY <1>6, <1>10, <2>1, <3>3
    <3>5. 65536 * Carry(cc') + (256 * RM(0)' + RM(1)') = 2 * (256 * hp + lp)
      <4>1. 65536 * Carry(m.cc) + (256 * m.r + RM(1)) = 2 * (256 * hp + lp)
        BY <1>2, <1>7, <3>1, <3>4, LeftOver
      <4> QED BY <3>3, <3>4, <4>1
    <3> QED BY <1>4, <2>1, <3>3, <3>5 DEF ShiftPoint
  <2>2. CASE k # 1
    <3> PICK m : m = Modify(6, RM(1), cc)
      OBVIOUS
    <3>1. IsRight(m, lp, Carry(cc))
      BY <1>2, <1>10, <2>2, ModifyShifts
    <3>2. Opcode = 112 + 6 /\ RM(pc + 1) = 0 /\ RM(pc + 2) = 1
      BY <1>5, <1>10, <2>2 DEF Opcode
    <3>3. /\ SameBehind(bus', bus) /\ RM(1)' = m.r
          /\ \A addr \in Mapped \ {1} : RM(addr)' = RM(addr)
          /\ cc' = m.cc /\ pc' = 38 /\ wai_state' = wai_state
      BY <1>10, <3>1, <3>2, ModifyStep DEF IsRight
    <3>4. RM(0)' = RM(0) /\ 2 * RM(0) + Carry(cc) = hp + 256 * Sign(k, hp)
      BY <1>6, <1>10, <2>2, <3>3
    <3>5. 2 * (256 * RM(0)' + RM(1)') + Carry(cc')
            = 256 * hp + lp + 65536 * Sign(k, hp)
      <4>1. 2 * (256 * RM(0) + m.r) + Carry(m.cc) = 256 * hp + lp + 65536 * Sign(k, hp)
        <5>1. IsHalf(RM(0), Carry(cc), hp, Sign(k, hp))
          BY <3>4 DEF IsHalf
        <5> QED BY <1>2, <1>7, <1>8, <3>1, <5>1, RightOver
      <4> QED BY <3>3, <3>4, <4>1
    <3> QED BY <1>4, <2>2, <3>3, <3>5 DEF ShiftPoint
  <2> QED BY <2>1, <2>2
<1> QED BY <1>1, <1>3, <1>5, <1>9, <1>10 DEF ShiftPoint

LEMMA ShiftSteps ==
  ASSUME ProgramsAreRun, MemoryIsThere, NumbersAreTasks
  PROVE  MachineOK /\ ShiftInv /\ [Next]_vars => ShiftInv'
<1> SUFFICES ASSUME MachineOK, ShiftInv, [Next]_vars PROVE ShiftInv'
  OBVIOUS
<1>1. CASE UNCHANGED vars
  <2>1. ShiftPoint(task.k, High(task.p), Low(task.p))'
          <=> ShiftPoint(task.k, High(task.p), Low(task.p))
    BY <1>1 DEF vars, ShiftPoint, RM
  <2> QED BY <1>1, <2>1, KeptAlone DEF ShiftInv, vars
<1>2. CASE Next
  <2>1. task' = task
    BY <1>2, TaskKept
  <2> QED BY <1>2, <2>1, ShiftMoves DEF ShiftInv
<1> QED BY <1>1, <1>2

(* What is left of a word is the word shifted. *)
LEMMA WordShifted ==
  ASSUME NEW h \in Byte, NEW l \in Byte, NEW c \in {0, 1},
         NEW hp \in Byte, NEW lp \in Byte
  PROVE  LET p == 256 * hp + lp
             w == 256 * h + l
         IN  /\ 65536 * c + w = 2 * p => w = Wrap(2 * p) /\ (c = 1 <=> p >= 32768)
             /\ 2 * w + c = p => w = Wrap(p \div 2) /\ (c = 1 <=> p % 2 = 1)
             /\ 2 * w + c = p + 65536 * (hp \div 128)
                  => w = Wrap(Signed16(p) \div 2) /\ (c = 1 <=> p % 2 = 1)
<1> PICK p, w : p = 256 * hp + lp /\ w = 256 * h + l
  OBVIOUS
<1>1. /\ p \in Int /\ 0 <= p /\ p <= 65535 /\ w \in Int /\ 0 <= w /\ w <= 65535
      /\ hp \in Int /\ 0 <= hp /\ hp <= 255 /\ lp \in Int /\ 0 <= lp /\ lp <= 255
  BY DEF Byte
<1>2. Wrap(w) = w
  BY <1>1 DEF Wrap
<1>3. ASSUME 65536 * c + w = 2 * p
      PROVE  w = Wrap(2 * p) /\ (c = 1 <=> p >= 32768)
  BY <1>1, <1>3 DEF Wrap
<1>4. ASSUME NEW v \in Int, 2 * w + c = v
      PROVE  w = v \div 2 /\ (c = 1 <=> v % 2 = 1)
  BY <1>1, <1>4
<1>5. ASSUME 2 * w + c = p PROVE w = Wrap(p \div 2) /\ (c = 1 <=> p % 2 = 1)
  BY <1>1, <1>2, <1>4, <1>5
<1>6. ASSUME 2 * w + c = p + 65536 * (hp \div 128)
      PROVE  w = Wrap(Signed16(p) \div 2) /\ (c = 1 <=> p % 2 = 1)
  <2> PICK i : i = hp \div 128
    OBVIOUS
  <2>1. /\ i \in Int /\ i = IF p >= 32768 THEN 1 ELSE 0
    BY <1>1
  <2>2. Signed16(p) = p - 65536 * i
    BY <1>1, <2>1 DEF Signed16
  <2>3. 2 * (w - 65536 * i) + c = p - 65536 * i
    BY <1>1, <1>6, <2>1
  <2>4. (p - 65536 * i) \div 2 = w - 65536 * i /\ (c = 1 <=> p % 2 = 1)
    BY <1>1, <2>1, <2>3
  <2>5. Wrap(w - 65536 * i) = w
    BY <1>1, <2>1 DEF Wrap
  <2> QED BY <2>2, <2>4, <2>5
<1> QED BY <1>3, <1>5, <1>6

LEMMA ShiftIsOver ==
  ASSUME ProgramsAreRun, MemoryIsThere, NumbersAreTasks, MachineOK, ShiftInv, Stopped,
         task.name = "shift"
  PROVE  LET p == task.p
         IN  /\ Word16(0) = Wrap(<<2 * p, p \div 2, Signed16(p) \div 2>>[task.k])
             /\ C \in cc <=> IF task.k = 1 THEN p >= 32768 ELSE p % 2 = 1
<1> PICK p, k, hp, lp : p = task.p /\ k = task.k /\ hp = High(p) /\ lp = Low(p)
  OBVIOUS
<1>1. Kept /\ ShiftPoint(k, hp, lp)
  BY DEF ShiftInv
<1>2. hp \in Byte /\ lp \in Byte /\ k \in 1 .. 3 /\ p = 256 * hp + lp
  BY <1>1, ShiftIs, WordOfBytes DEF Kept
<1> PICK h, l, c : h = RM(0) /\ l = RM(1) /\ c = Carry(cc)
  OBVIOUS
<1>3. /\ h \in Byte /\ l \in Byte /\ c \in {0, 1} /\ (c = 1 <=> C \in cc)
      /\ Word16(0) = 256 * h + l
  <2>1. 0 \in Mapped /\ 0 + 1 \in Mapped /\ 0 + 1 = 1
    BY There
  <2> QED BY <2>1, Reads DEF Carry, MachineOK, Word16, RM
<1>4. IF k = 1 THEN 65536 * c + (256 * h + l) = 2 * (256 * hp + lp)
      ELSE 2 * (256 * h + l) + c = 256 * hp + lp + 65536 * Sign(k, hp)
  <2>1. code = 32 .. 37 /\ pc \notin code
    BY <1>1, ShiftReads DEF Stopped, Kept
  <2> QED BY <1>1, <2>1 DEF ShiftPoint
<1>5. CASE k = 1
  BY <1>2, <1>3, <1>4, <1>5, WordShifted
<1>6. CASE k = 2
  <2>1. 2 * (256 * h + l) + c = 256 * hp + lp
    <3>1. 256 * hp + lp + 65536 * 0 = 256 * hp + lp
      BY <1>2 DEF Byte
    <3> QED BY <1>4, <1>6, <3>1 DEF Sign
  <2> QED BY <1>2, <1>3, <1>6, <2>1, WordShifted
<1>7. CASE k = 3
  <2>1. 2 * (256 * h + l) + c = 256 * hp + lp + 65536 * (hp \div 128)
    BY <1>4, <1>7 DEF Sign
  <2> QED BY <1>2, <1>3, <1>7, <2>1, WordShifted
<1> QED BY <1>2, <1>5, <1>6, <1>7

NegatePoint(hp, lp) ==
  \/ pc = 32 /\ RM(0) = hp /\ RM(1) = lp
  \/ pc = 35 /\ RM(0) = 255 - hp /\ RM(1) = lp
  \/ /\ pc = 38 /\ RM(0) = 255 - hp /\ RM(1) = (0 - lp) % 256
     /\ Z \in cc <=> lp = 0
  \/ pc = 40 /\ RM(0) = 255 - hp /\ RM(1) = 0 /\ lp = 0
  \/ /\ pc = 43 /\ RM(1) = (0 - lp) % 256
     /\ RM(0) = IF lp = 0 THEN (256 - hp) % 256 ELSE 255 - hp

NegateInv ==
  task.name = "negate" => Kept /\ NegatePoint(High(task.p), Low(task.p))

NegateBytes == <<115, 0, 0, 112, 0, 1, 38, 3, 124, 0, 0>>

LEMMA NegateIs ==
  ASSUME ProgramsAreRun, NumbersAreTasks, NEW t \in Tasks, t.name = "negate"
  PROVE  /\ Boot(t) = Simple(NegateBytes, Words(t.p, 0), 0, 0, {})
         /\ t.p \in Word
         /\ Len(NegateBytes) = 11 /\ Len(Words(t.p, 0)) = 4
         /\ Words(t.p, 0) \in Seq(Byte)
<1>1. t.p \in Word
  BY DEF NumbersAreTasks
<1>2. Words(t.p, 0) \in Seq(Byte)
  <2>1. High(0) \in Byte /\ Low(0) \in Byte
    BY DEF High, Low, Byte
  <2> QED BY <1>1, <2>1, WordOfBytes DEF Words
<1>3. Boot(t) = Simple(NegateBytes, Words(t.p, 0), 0, 0, {})
  BY DEF ProgramsAreRun, Program, NegateWord, NegateBytes
<1> QED BY <1>1, <1>2, <1>3 DEF Words, NegateBytes

LEMMA NegateReads ==
  ASSUME ProgramsAreRun, MemoryIsThere, NumbersAreTasks, Kept, task.name = "negate"
  PROVE  /\ code = 32 .. 42
         /\ RM(32) = 115 /\ RM(33) = 0 /\ RM(34) = 0 /\ RM(35) = 112 /\ RM(36) = 0
         /\ RM(37) = 1 /\ RM(38) = 38 /\ RM(39) = 3 /\ RM(40) = 124 /\ RM(41) = 0
         /\ RM(42) = 0
<1> DEFINE bytes == NegateBytes
           data == Words(task.p, 0)
<1>1. /\ Boot(task) = Simple(bytes, data, 0, 0, {})
      /\ Len(bytes) = 11 /\ Len(data) = 4 /\ data \in Seq(Byte)
  BY NegateIs DEF Kept
<1>2. /\ bytes[1] = 115 /\ bytes[2] = 0 /\ bytes[3] = 0 /\ bytes[4] = 112
      /\ bytes[5] = 0 /\ bytes[6] = 1 /\ bytes[7] = 38 /\ bytes[8] = 3
      /\ bytes[9] = 124 /\ bytes[10] = 0 /\ bytes[11] = 0
  BY DEF NegateBytes
<1> HIDE DEF bytes, data
<1>3. code = 32 .. 31 + Len(bytes) /\ \A i \in 1 .. Len(bytes) : RM(31 + i) = bytes[i]
  <2>1. Len(bytes) \in Nat /\ Len(bytes) <= 20 /\ Len(data) <= 16
    BY <1>1
  <2> PICK f : f = {}
    OBVIOUS
  <2>2. Boot(task) = Simple(bytes, data, 0, 0, f) /\ data \in Seq(Byte)
    BY <1>1
  <2> QED BY <2>1, <2>2, SimpleReads
<1>4. code = 32 .. 42 /\ \A i \in 1 .. 11 : RM(31 + i) = bytes[i]
  BY <1>1, <1>3
<1> QED BY <1>2, <1>4

LEMMA NegateBoots ==
  ASSUME ProgramsAreRun, MemoryIsThere, NumbersAreTasks PROVE Init => NegateInv
<1> SUFFICES ASSUME Init, task.name = "negate" PROVE NegateInv
  BY DEF NegateInv
<1> DEFINE bytes == NegateBytes
           data == Words(task.p, 0)
<1>1. /\ Boot(task) = Simple(bytes, data, 0, 0, {})
      /\ Len(bytes) = 11 /\ Len(data) = 4 /\ data \in Seq(Byte)
  BY NegateIs DEF Init
<1>2. data[1] = High(task.p) /\ data[2] = Low(task.p)
  BY DEF Words
<1> HIDE DEF bytes, data
<1>3. Kept /\ pc = 32 /\ \A i \in 1 .. Len(data) : bus.mem[i - 1] = data[i]
  <2>1. Len(bytes) \in Nat /\ Len(bytes) <= 20 /\ Len(data) <= 16
    BY <1>1
  <2> PICK f : f = {}
    OBVIOUS
  <2>2. Boot(task) = Simple(bytes, data, 0, 0, f) /\ data \in Seq(Byte)
    BY <1>1
  <2>3. Kept
    BY <2>1, <2>2, SimpleBegins, ZenonT(60)
  <2>4. pc = 32
    BY <2>1, <2>2, SimpleBegins, SMT
  <2>5. \A i \in 1 .. Len(data) : bus.mem[i - 1] = data[i]
    BY <2>1, <2>2, SimpleBegins, SMT
  <2> QED BY <2>3, <2>4, <2>5
<1>4. \A i \in 1 .. 4 : bus.mem[i - 1] = data[i]
  BY <1>1, <1>3
<1>5. \A addr \in 0 .. 3 : RM(addr) = bus.mem[addr]
  BY There DEF RM
<1>6. RM(0) = data[1] /\ RM(1) = data[2]
  BY <1>4, <1>5
<1> QED BY <1>2, <1>3, <1>6 DEF NegateInv, NegatePoint

(* COM, NEG and INC of a byte *)
LEMMA ModifySigns ==
  ASSUME NEW t \in Byte, NEW f \in Flags
  PROVE  /\ Modify(3, t, f).r = 255 - t /\ 255 - t \in Byte
         /\ Modify(0, t, f).r = (0 - t) % 256 /\ (0 - t) % 256 \in Byte
         /\ Z \in Modify(0, t, f).cc <=> t = 0
         /\ Modify(12, t, f).r = (t + 1) % 256 /\ (t + 1) % 256 \in Byte
<1>0. t \in Int /\ 0 <= t /\ t <= 255 /\ 0 \in Byte
  BY DEF Byte
<1>1. 255 - t \in Byte /\ (255 - t) % 256 = 255 - t
  BY <1>0 DEF Byte
<1>2. Modify(3, t, f).r = 255 - t
  BY <1>1 DEF Modify, Logic, Result
<1>3. (0 - t) % 256 \in Byte /\ ((0 - t) % 256 = 0 <=> t = 0) /\ 0 - t - 0 = 0 - t
  BY <1>0 DEF Byte
<1>4. Modify(0, t, f) = Minus(0, t, 0, f)
  BY DEF Modify
<1>5. Z \in Minus(0, t, 0, f).cc <=> (0 - t - 0) % 256 = 0
  BY <1>0, DifferencesExact DEF Asked
<1>6. Minus(0, t, 0, f).r = (0 - t - 0) % 256
  <2>1. Minus(0, t, 0, f).r = Wrap(0 - t - 0) % 256
    BY DEF Minus, Result
  <2>2. Wrap(0 - t - 0) % 256 = (0 - t - 0) % 256
    BY <1>0 DEF Wrap
  <2> QED BY <2>1, <2>2
<1>7. (t + 1) % 256 \in Byte /\ ((t + 1) % 256) % 256 = (t + 1) % 256
  BY <1>0 DEF Byte
<1>8. Modify(12, t, f).r = (t + 1) % 256
  BY <1>7 DEF Modify, Result
<1> QED BY <1>1, <1>2, <1>3, <1>4, <1>5, <1>6, <1>7, <1>8

LEMMA NegateMoves ==
  ASSUME ProgramsAreRun, MemoryIsThere, NumbersAreTasks, MachineOK, NegateInv, Next,
         task.name = "negate"
  PROVE  NegateInv'
<1> PICK hp, lp : hp = High(task.p) /\ lp = Low(task.p)
  OBVIOUS
<1>1. Kept /\ NegatePoint(hp, lp)
  BY DEF NegateInv
<1>2. hp \in Byte /\ lp \in Byte
  BY <1>1, NegateIs, WordOfBytes DEF Kept
<1>3. task' = task /\ pc \in code /\ cc \in Flags
  BY TaskKept DEF MachineOK
<1>4. ASSUME SameBehind(bus', bus), wai_state' = wai_state, NegatePoint(hp, lp)'
      PROVE  NegateInv'
  BY <1>1, <1>3, <1>4, KeptOn DEF NegateInv
<1>5. /\ code = 32 .. 42
      /\ RM(32) = 115 /\ RM(33) = 0 /\ RM(34) = 0 /\ RM(35) = 112 /\ RM(36) = 0
      /\ RM(37) = 1 /\ RM(38) = 38 /\ RM(39) = 3 /\ RM(40) = 124 /\ RM(41) = 0
      /\ RM(42) = 0
  BY <1>1, NegateReads
<1>6. 0 \in Mapped /\ 1 \in Mapped
  BY There
<1>7. CASE pc = 32 /\ RM(0) = hp /\ RM(1) = lp
  <2> PICK m : m = Modify(3, RM(0), cc)
    OBVIOUS
  <2>1. m.r = 255 - hp /\ m.r \in Byte
    BY <1>2, <1>3, <1>7, ModifySigns
  <2>2. Opcode = 112 + 3 /\ RM(pc + 1) = 0 /\ RM(pc + 2) = 0
    BY <1>5, <1>7 DEF Opcode
  <2>3. /\ SameBehind(bus', bus) /\ RM(0)' = m.r
        /\ \A addr \in Mapped \ {0} : RM(addr)' = RM(addr)
        /\ cc' = m.cc /\ pc' = 35 /\ wai_state' = wai_state
    BY <1>7, <2>1, <2>2, ModifyStep
  <2>4. RM(1)' = lp
    BY <1>6, <1>7, <2>3
  <2> QED BY <1>4, <2>1, <2>3, <2>4 DEF NegatePoint
<1>8. CASE pc = 35 /\ RM(0) = 255 - hp /\ RM(1) = lp
  <2> PICK m : m = Modify(0, RM(1), cc)
    OBVIOUS
  <2>1. m.r = (0 - lp) % 256 /\ m.r \in Byte /\ (Z \in m.cc <=> lp = 0)
    BY <1>2, <1>3, <1>8, ModifySigns
  <2>2. Opcode = 112 + 0 /\ RM(pc + 1) = 0 /\ RM(pc + 2) = 1
    BY <1>5, <1>8 DEF Opcode
  <2>3. /\ SameBehind(bus', bus) /\ RM(1)' = m.r
        /\ \A addr \in Mapped \ {1} : RM(addr)' = RM(addr)
        /\ cc' = m.cc /\ pc' = 38 /\ wai_state' = wai_state
    BY <1>8, <2>1, <2>2, ModifyStep
  <2>4. RM(0)' = 255 - hp
    BY <1>6, <1>8, <2>3
  <2> QED BY <1>4, <2>1, <2>3, <2>4 DEF NegatePoint
<1>9. CASE /\ pc = 38 /\ RM(0) = 255 - hp /\ RM(1) = (0 - lp) % 256
           /\ Z \in cc <=> lp = 0
  <2>1. /\ Opcode = 38 /\ RM(pc + 1) = 3 /\ 3 \in Byte
        /\ pc + 2 + SIGNED(3) = 43
    BY <1>5, <1>9 DEF Opcode, SIGNED, Byte
  <2>2. /\ pc' = IF lp = 0 THEN 40 ELSE 43
        /\ bus' = bus /\ wai_state' = wai_state
    BY <1>9, <2>1, BranchStep
  <2>3. RM(0)' = RM(0) /\ RM(1)' = RM(1) /\ SameBehind(bus', bus)
    BY <2>2, SameBus
  <2>4. lp = 0 => (0 - lp) % 256 = 0
    OBVIOUS
  <2> QED BY <1>4, <1>9, <2>2, <2>3, <2>4 DEF NegatePoint
<1>10. CASE pc = 40 /\ RM(0) = 255 - hp /\ RM(1) = 0 /\ lp = 0
  <2> PICK m, t : t = 255 - hp /\ m = Modify(12, t, cc)
    OBVIOUS
  <2>0. t \in Byte /\ t + 1 = 256 - hp
    BY <1>2 DEF Byte
  <2>1. m.r = (256 - hp) % 256 /\ m.r \in Byte
    BY <1>3, <2>0, ModifySigns
  <2>2. Opcode = 112 + 12 /\ RM(pc + 1) = 0 /\ RM(pc + 2) = 0
    BY <1>5, <1>10 DEF Opcode
  <2>3. /\ SameBehind(bus', bus) /\ RM(0)' = m.r
        /\ \A addr \in Mapped \ {0} : RM(addr)' = RM(addr)
        /\ cc' = m.cc /\ pc' = 43 /\ wai_state' = wai_state
    BY <1>10, <2>1, <2>2, ModifyStep
  <2>4. RM(1)' = (0 - lp) % 256
    <3>1. (0 - lp) % 256 = 0
      BY <1>10
    <3> QED BY <1>6, <1>10, <2>3, <3>1
  <2> QED BY <1>4, <1>10, <2>1, <2>3, <2>4 DEF NegatePoint
<1> QED BY <1>1, <1>3, <1>5, <1>7, <1>8, <1>9, <1>10 DEF NegatePoint

LEMMA NegateSteps ==
  ASSUME ProgramsAreRun, MemoryIsThere, NumbersAreTasks
  PROVE  MachineOK /\ NegateInv /\ [Next]_vars => NegateInv'
<1> SUFFICES ASSUME MachineOK, NegateInv, [Next]_vars PROVE NegateInv'
  OBVIOUS
<1>1. CASE UNCHANGED vars
  <2>1. NegatePoint(High(task.p), Low(task.p))' <=> NegatePoint(High(task.p), Low(task.p))
    BY <1>1 DEF vars, NegatePoint, RM
  <2> QED BY <1>1, <2>1, KeptAlone DEF NegateInv, vars
<1>2. CASE Next
  <2>1. task' = task
    BY <1>2, TaskKept
  <2> QED BY <1>2, <2>1, NegateMoves DEF NegateInv
<1> QED BY <1>1, <1>2

LEMMA WordNegated ==
  ASSUME NEW hp \in Byte, NEW lp \in Byte
  PROVE  LET h == IF lp = 0 THEN (256 - hp) % 256 ELSE 255 - hp
         IN  256 * h + ((0 - lp) % 256) = Wrap(-(256 * hp + lp))
<1>1. /\ hp \in Int /\ 0 <= hp /\ hp <= 255 /\ lp \in Int /\ 0 <= lp /\ lp <= 255
  BY DEF Byte
<1>2. (0 - lp) % 256 = IF lp = 0 THEN 0 ELSE 256 - lp
  BY <1>1
<1>3. (256 - hp) % 256 = IF hp = 0 THEN 0 ELSE 256 - hp
  BY <1>1
<1> PICK p : p = 256 * hp + lp
  OBVIOUS
<1>4. p \in Int /\ 0 <= p /\ p <= 65535 /\ (p = 0 <=> hp = 0 /\ lp = 0)
  BY <1>1
<1>5. Wrap(-p) = IF p = 0 THEN 0 ELSE 65536 - p
  BY <1>4 DEF Wrap
<1>6. CASE lp = 0
  BY <1>1, <1>2, <1>3, <1>4, <1>5, <1>6
<1>7. CASE lp # 0
  BY <1>1, <1>2, <1>4, <1>5, <1>7
<1> QED BY <1>6, <1>7

LEMMA NegateIsOver ==
  ASSUME ProgramsAreRun, MemoryIsThere, NumbersAreTasks, NegateInv, Stopped,
         task.name = "negate"
  PROVE  Word16(0) = Wrap(-task.p)
<1> PICK p, hp, lp : p = task.p /\ hp = High(p) /\ lp = Low(p)
  OBVIOUS
<1>1. Kept /\ NegatePoint(hp, lp)
  BY DEF NegateInv
<1>2. hp \in Byte /\ lp \in Byte /\ p = 256 * hp + lp
  BY <1>1, NegateIs, WordOfBytes DEF Kept
<1>3. /\ RM(1) = (0 - lp) % 256
      /\ RM(0) = IF lp = 0 THEN (256 - hp) % 256 ELSE 255 - hp
  <2>1. code = 32 .. 42 /\ pc \notin code
    BY <1>1, NegateReads DEF Stopped, Kept
  <2> QED BY <1>1, <2>1 DEF NegatePoint
<1>4. Word16(0) = 256 * RM(0) + RM(1)
  <2>1. 0 \in Mapped /\ 0 + 1 \in Mapped /\ 0 + 1 = 1
    BY There
  <2> QED BY <2>1 DEF Word16, RM
<1> QED BY <1>2, <1>3, <1>4, WordNegated

-----------------------------------------------------------------------------
(* Programs: loops *)

LEMMA ModifyAStep ==
  ASSUME MachineOK, Next, Opcode \in {70, 73, 79}, pc \in 0 .. 100
  PROVE  LET m == Modify(Opcode - 64, d["a"], cc)
         IN  /\ cc' = m.cc /\ d'["a"] = m.r /\ d'["b"] = d["b"] /\ pc' = pc + 1
             /\ UNCHANGED <<bus, x, s, wai_state>>
<1>1. ModifyARow
  BY LegalOpcodes, RowOf
<1>2. Column = Opcode - 64
  BY DEF Column
<1>3. d \in Accumulators
  BY DEF MachineOK
<1> DEFINE m == Modify(Column, d["a"], cc)
<1> HIDE DEF m
<1>4. /\ cc' = m.cc /\ d' = [d EXCEPT !["a"] = m.r] /\ pc' = pc + 1
      /\ UNCHANGED <<bus, x, s, wai_state>>
  BY <1>1, Following DEF ModifyARow, ModifyAccumulator, Inherent, m
<1>5. d'["a"] = m.r /\ d'["b"] = d["b"]
  BY <1>3, <1>4 DEF Accumulators
<1> QED BY <1>2, <1>4, <1>5 DEF m

LEMMA ModifyBStep ==
  ASSUME MachineOK, Next, Opcode \in {86, 90}, pc \in 0 .. 100
  PROVE  LET m == Modify(Opcode - 80, d["b"], cc)
         IN  /\ cc' = m.cc /\ d'["b"] = m.r /\ d'["a"] = d["a"] /\ pc' = pc + 1
             /\ UNCHANGED <<bus, x, s, wai_state>>
<1>1. ModifyBRow
  BY LegalOpcodes, RowOf
<1>2. Column = Opcode - 80
  BY DEF Column
<1>3. d \in Accumulators
  BY DEF MachineOK
<1> DEFINE m == Modify(Column, d["b"], cc)
<1> HIDE DEF m
<1>4. /\ cc' = m.cc /\ d' = [d EXCEPT !["b"] = m.r] /\ pc' = pc + 1
      /\ UNCHANGED <<bus, x, s, wai_state>>
  BY <1>1, Following DEF ModifyBRow, ModifyAccumulator, Inherent, m
<1>5. d'["b"] = m.r /\ d'["a"] = d["a"]
  BY <1>3, <1>4 DEF Accumulators
<1> QED BY <1>2, <1>4, <1>5 DEF m

(* INX and DEX *)
LEMMA CountStep ==
  ASSUME MachineOK, Next, Opcode \in {8, 9}, pc \in 0 .. 100
  PROVE  /\ x' = Wrap(IF Opcode = 8 THEN x + 1 ELSE x - 1)
         /\ Z \in cc' <=> x' = 0
         /\ Carry(cc') = Carry(cc) /\ pc' = pc + 1
         /\ UNCHANGED <<bus, d, s, wai_state>>
<1>1. FlagRow
  BY LegalOpcodes, RowOf
<1>2. /\ Inherent({8, 9}) /\ UNCHANGED d
      /\ x' = Wrap(IF Opcode = 8 THEN x + 1 ELSE x - 1)
      /\ cc' = (cc \ {Z}) \union When(x' = 0, Z)
      /\ UNCHANGED <<s, bus, wai_state>>
  BY <1>1 DEF FlagRow, Inherent, Fetch
<1>3. pc' = pc + 1
  BY <1>2, Following DEF Inherent
<1>4. (Z \in cc' <=> x' = 0) /\ Carry(cc') = Carry(cc)
  BY <1>2 DEF When, Carry, C, Z
<1> QED BY <1>2, <1>3, <1>4

(* LDX and CPX of a small constant *)
LEMMA SmallWord ==
  ASSUME pc \in 0 .. 100, RM(pc + 1) = 0, NEW v \in Byte, RM(pc + 2) = v
  PROVE  RM16(IMM16.ea) = v /\ IMM16.next = pc + 3
<1>1. IMM16.ea = pc + 1 /\ IMM16.next = pc + 3 /\ Wrap(pc + 1 + 1) = pc + 2
  <2>1. pc + 1 + 1 = pc + 2
    OBVIOUS
  <2> QED BY <2>1, Following DEF IMM16
<1>2. RM16(pc + 1) = 256 * 0 + v
  BY <1>1 DEF RM16
<1> QED BY <1>1, <1>2 DEF Byte

LEMMA LoadXStep ==
  ASSUME Next, Opcode = 206, pc \in 0 .. 100, RM(pc + 1) = 0,
         NEW v \in Byte, RM(pc + 2) = v
  PROVE  /\ x' = v /\ pc' = pc + 3 /\ Carry(cc') = Carry(cc)
         /\ UNCHANGED <<bus, d, s, wai_state>>
<1>1. ImmediateXRow
  BY LegalOpcodes, RowOf
<1>2. LoadWord(206, IMM16, x) /\ UNCHANGED s
  BY <1>1 DEF ImmediateXRow, IndexRow, StoreWord, Fetch
<1>3. x' = v /\ pc' = pc + 3 /\ cc' = CLR_NZV(cc) \union SET_NZ16(x')
      /\ UNCHANGED <<bus, d, s, wai_state>>
  BY <1>2, SmallWord DEF LoadWord
<1>4. Carry(cc') = Carry(cc)
  BY <1>3 DEF Carry, CLR_NZV, SET_NZ16, When, C, N, Z, V
<1> QED BY <1>3, <1>4

LEMMA CompareXStep ==
  ASSUME Next, Opcode = 140, pc \in 0 .. 100, RM(pc + 1) = 0,
         NEW v \in Byte, RM(pc + 2) = v
  PROVE  /\ Z \in cc' <=> x = v
         /\ pc' = pc + 3
         /\ UNCHANGED <<x, bus, d, s, wai_state>>
<1>1. ImmediateSRow
  BY LegalOpcodes, RowOf
<1>2. CMPX(140, IMM16)
  BY <1>1 DEF ImmediateSRow, StackRow, Call, LoadWord, StoreWord, Fetch
<1>3. /\ cc' = ComparedX(v, cc) /\ pc' = pc + 3
      /\ UNCHANGED <<x, bus, d, s, wai_state>>
  BY <1>2, SmallWord DEF CMPX
<1>4. Z \in ComparedX(v, cc) <=> x = v
  BY DEF ComparedX, CLR_NZV, SET_V8, When, N, Z, V
<1> QED BY <1>3, <1>4

(* LDAA and STAA with an index into the data *)
LEMMA IndexedStep ==
  ASSUME MachineOK, Next, Opcode \in {166, 167}, pc \in 0 .. 100,
         NEW a \in 0 .. 31, x + RM(pc + 1) = a
  PROVE  /\ d'["a"] = IF Opcode = 166 THEN RM(a) ELSE d["a"]
         /\ bus' = IF Opcode = 166 THEN bus ELSE Written(bus, a, d["a"])
         /\ pc' = pc + 2 /\ UNCHANGED <<x, s, wai_state>>
<1>1. IndexedARow
  BY LegalOpcodes, RowOf
<1>2. Column = Opcode - 160
  BY DEF Column
<1>3. INDEXED.ea = a /\ INDEXED.next = pc + 2
  <2>1. Wrap(a) = a
    BY DEF Wrap
  <2> QED BY <2>1, Following DEF INDEXED
<1>4. d \in Accumulators /\ RM(a) \in Byte /\ d["a"] \in Byte
  BY AccumulatorsHold, Reads DEF MachineOK
<1>5. Alu(6, d["a"], RM(a), cc).r = RM(a)
  <2>1. RM(a) % 256 = RM(a)
    BY <1>4 DEF Byte
  <2> QED BY <2>1 DEF Alu, Logic, Result
<1> DEFINE m == Alu(Column, d["a"], RM(a), cc)
<1> HIDE DEF m
<1>6. /\ pc' = pc + 2 /\ UNCHANGED <<x, s, wai_state>>
      /\ d' = IF Column \in Keeping THEN d ELSE [d EXCEPT !["a"] = m.r]
      /\ bus' = IF Column = 7 THEN Written(bus, a, d["a"]) ELSE bus
  BY <1>1, <1>3 DEF IndexedARow, Accumulator, m
<1>7. CASE Opcode = 166
  <2>1. Column = 6 /\ m.r = RM(a)
    BY <1>2, <1>5, <1>7 DEF m
  <2> QED BY <1>4, <1>6, <1>7, <2>1 DEF Keeping, Accumulators
<1>8. CASE Opcode = 167
  <2>1. Column = 7
    BY <1>2, <1>8
  <2> QED BY <1>6, <1>8, <2>1 DEF Keeping
<1> QED BY <1>7, <1>8

Sources(p, q) == RM(0) = p /\ RM(1) = q /\ RM(2) = p
Copied(n) == \A i \in 0 .. 2 : i < n => RM(4 + i) = RM(i)

CopyPoint(p, q) ==
  /\ Sources(p, q)
  /\ \/ pc = 32
     \/ pc = 35 /\ x \in 0 .. 2 /\ Copied(x)
     \/ pc = 37 /\ x \in 0 .. 2 /\ Copied(x) /\ d["a"] = RM(x)
     \/ pc = 39 /\ x \in 0 .. 2 /\ Copied(x + 1)
     \/ pc = 40 /\ x \in 1 .. 3 /\ Copied(x)
     \/ pc = 43 /\ x \in 1 .. 3 /\ Copied(x) /\ (Z \in cc <=> x = 3)
     \/ pc = 45 /\ Copied(3)

CopyInv == task.name = "copy" => Kept /\ CopyPoint(task.p, task.q)

CopyBytes == <<206, 0, 0, 166, 0, 167, 4, 8, 140, 0, 3, 38, 246>>

LEMMA CopyIs ==
  ASSUME ProgramsAreRun, NumbersAreTasks, NEW t \in Tasks, t.name = "copy"
  PROVE  /\ Boot(t) = Simple(CopyBytes, <<t.p, t.q, t.p>>, 0, 0, {})
         /\ t.p \in Byte /\ t.q \in Byte
         /\ Len(CopyBytes) = 13 /\ Len(<<t.p, t.q, t.p>>) = 3
         /\ <<t.p, t.q, t.p>> \in Seq(Byte)
<1>1. t.p \in Byte /\ t.q \in Byte
  BY DEF NumbersAreTasks
<1>2. Boot(t) = Simple(CopyBytes, <<t.p, t.q, t.p>>, 0, 0, {})
  BY DEF ProgramsAreRun, Program, Copy, CopyBytes
<1> QED BY <1>1, <1>2 DEF CopyBytes

LEMMA CopyReads ==
  ASSUME ProgramsAreRun, MemoryIsThere, NumbersAreTasks, Kept, task.name = "copy"
  PROVE  /\ code = 32 .. 44
         /\ RM(32) = 206 /\ RM(33) = 0 /\ RM(34) = 0 /\ RM(35) = 166 /\ RM(36) = 0
         /\ RM(37) = 167 /\ RM(38) = 4 /\ RM(39) = 8 /\ RM(40) = 140 /\ RM(41) = 0
         /\ RM(42) = 3 /\ RM(43) = 38 /\ RM(44) = 246
<1> DEFINE bytes == CopyBytes
           data == <<task.p, task.q, task.p>>
<1>1. /\ Boot(task) = Simple(bytes, data, 0, 0, {})
      /\ Len(bytes) = 13 /\ Len(data) = 3 /\ data \in Seq(Byte)
  BY CopyIs DEF Kept
<1>2. /\ bytes[1] = 206 /\ bytes[2] = 0 /\ bytes[3] = 0 /\ bytes[4] = 166
      /\ bytes[5] = 0 /\ bytes[6] = 167 /\ bytes[7] = 4 /\ bytes[8] = 8
      /\ bytes[9] = 140 /\ bytes[10] = 0 /\ bytes[11] = 3 /\ bytes[12] = 38
      /\ bytes[13] = 246
  BY DEF CopyBytes
<1> HIDE DEF bytes, data
<1>3. code = 32 .. 31 + Len(bytes) /\ \A i \in 1 .. Len(bytes) : RM(31 + i) = bytes[i]
  <2>1. Len(bytes) \in Nat /\ Len(bytes) <= 20 /\ Len(data) <= 16
    BY <1>1
  <2> PICK f : f = {}
    OBVIOUS
  <2>2. Boot(task) = Simple(bytes, data, 0, 0, f) /\ data \in Seq(Byte)
    BY <1>1
  <2> QED BY <2>1, <2>2, SimpleReads
<1>4. code = 32 .. 44 /\ \A i \in 1 .. 13 : RM(31 + i) = bytes[i]
  BY <1>1, <1>3
<1> QED BY <1>2, <1>4

LEMMA CopyBoots ==
  ASSUME ProgramsAreRun, MemoryIsThere, NumbersAreTasks PROVE Init => CopyInv
<1> SUFFICES ASSUME Init, task.name = "copy" PROVE CopyInv
  BY DEF CopyInv
<1> DEFINE bytes == CopyBytes
           data == <<task.p, task.q, task.p>>
<1>1. /\ Boot(task) = Simple(bytes, data, 0, 0, {})
      /\ Len(bytes) = 13 /\ Len(data) = 3 /\ data \in Seq(Byte)
  BY CopyIs DEF Init
<1>2. data[1] = task.p /\ data[2] = task.q /\ data[3] = task.p
  OBVIOUS
<1> HIDE DEF bytes, data
<1>3. Kept /\ pc = 32 /\ \A i \in 1 .. Len(data) : bus.mem[i - 1] = data[i]
  <2>1. Len(bytes) \in Nat /\ Len(bytes) <= 20 /\ Len(data) <= 16
    BY <1>1
  <2> PICK f : f = {}
    OBVIOUS
  <2>2. Boot(task) = Simple(bytes, data, 0, 0, f) /\ data \in Seq(Byte)
    BY <1>1
  <2>3. Kept
    BY <2>1, <2>2, SimpleBegins, ZenonT(60)
  <2>4. pc = 32
    BY <2>1, <2>2, SimpleBegins, SMT
  <2>5. \A i \in 1 .. Len(data) : bus.mem[i - 1] = data[i]
    BY <2>1, <2>2, SimpleBegins, SMT
  <2> QED BY <2>3, <2>4, <2>5
<1>4. \A i \in 1 .. 3 : bus.mem[i - 1] = data[i]
  BY <1>1, <1>3
<1>5. \A addr \in 0 .. 2 : RM(addr) = bus.mem[addr]
  BY There DEF RM
<1>6. RM(0) = data[1] /\ RM(1) = data[2] /\ RM(2) = data[3]
  BY <1>4, <1>5
<1> QED BY <1>2, <1>3, <1>6 DEF CopyInv, CopyPoint, Sources

LEMMA CopyMoves ==
  ASSUME ProgramsAreRun, MemoryIsThere, NumbersAreTasks, MachineOK, CopyInv, Next,
         task.name = "copy"
  PROVE  CopyInv'
<1> PICK p, q : p = task.p /\ q = task.q
  OBVIOUS
<1>1. Kept /\ CopyPoint(p, q)
  BY DEF CopyInv
<1>2. task' = task /\ pc \in code /\ cc \in Flags
  BY TaskKept DEF MachineOK
<1>3. ASSUME SameBehind(bus', bus), wai_state' = wai_state, CopyPoint(p, q)'
      PROVE  CopyInv'
  BY <1>1, <1>2, <1>3, KeptOn DEF CopyInv
<1>4. /\ code = 32 .. 44
      /\ RM(32) = 206 /\ RM(33) = 0 /\ RM(34) = 0 /\ RM(35) = 166 /\ RM(36) = 0
      /\ RM(37) = 167 /\ RM(38) = 4 /\ RM(39) = 8 /\ RM(40) = 140 /\ RM(41) = 0
      /\ RM(42) = 3 /\ RM(43) = 38 /\ RM(44) = 246
  BY <1>1, CopyReads
<1>5. Sources(p, q)
  BY <1>1 DEF CopyPoint
<1>6. ASSUME bus' = bus, wai_state' = wai_state,
             \/ pc' = 35 /\ x' \in 0 .. 2 /\ Copied(x')
             \/ pc' = 37 /\ x' \in 0 .. 2 /\ Copied(x') /\ d'["a"] = RM(x')
             \/ pc' = 40 /\ x' \in 1 .. 3 /\ Copied(x')
             \/ pc' = 43 /\ x' \in 1 .. 3 /\ Copied(x') /\ (Z \in cc' <=> x' = 3)
             \/ pc' = 45 /\ Copied(3)
      PROVE  CopyInv'
  <2>1. SameBehind(bus', bus) /\ \A a : RM(a)' = RM(a)
    BY <1>6, SameBus
  <2>2. Sources(p, q)'
    BY <1>5, <1>6 DEF Sources, RM
  <2>3. Copied(x)' <=> Copied(x')
    BY <1>6 DEF Copied, RM
  <2>4. Copied(3)' <=> Copied(3)
    BY <1>6 DEF Copied, RM
  <2>5. RM(x)' = RM(x')
    BY <1>6 DEF RM
  <2>6. CopyPoint(p, q)'
    BY <1>6, <2>2, <2>3, <2>4, <2>5 DEF CopyPoint
  <2> QED BY <1>3, <1>6, <2>1, <2>6
<1>7. CASE pc = 32
  <2>1. Opcode = 206 /\ RM(pc + 1) = 0 /\ RM(pc + 2) = 0 /\ 0 \in Byte
    BY <1>4, <1>7 DEF Opcode, Byte
  <2>2. x' = 0 /\ pc' = 35 /\ bus' = bus /\ wai_state' = wai_state
    BY <1>7, <2>1, LoadXStep
  <2>3. Copied(0)
    BY DEF Copied
  <2> QED BY <1>6, <2>2, <2>3
<1>8. CASE pc = 35 /\ x \in 0 .. 2 /\ Copied(x)
  <2>1. Opcode \in {166, 167} /\ Opcode = 166 /\ x + RM(pc + 1) = x /\ x \in 0 .. 31
    BY <1>4, <1>8 DEF Opcode
  <2>2. d'["a"] = RM(x) /\ bus' = bus /\ pc' = 37 /\ x' = x /\ wai_state' = wai_state
    BY <1>8, <2>1, IndexedStep
  <2> QED BY <1>6, <1>8, <2>2
<1>9. CASE pc = 37 /\ x \in 0 .. 2 /\ Copied(x) /\ d["a"] = RM(x)
  <2> PICK a : a = 4 + x
    OBVIOUS
  <2>1. /\ Opcode \in {166, 167} /\ Opcode = 167 /\ x + RM(pc + 1) = a
        /\ a \in 0 .. 31 /\ a \in 4 .. 6
    BY <1>4, <1>9 DEF Opcode
  <2>2. bus' = Written(bus, a, d["a"]) /\ pc' = 39 /\ x' = x /\ wai_state' = wai_state
    BY <1>9, <2>1, IndexedStep
  <2>3. /\ SameBehind(bus', bus) /\ RM(a)' = RM(x)
        /\ \A addr \in Mapped \ {a} : RM(addr)' = RM(addr)
    BY <1>9, <2>1, <2>2, DataWritten, AccumulatorsHold
  <2>4. /\ RM(0)' = RM(0) /\ RM(1)' = RM(1) /\ RM(2)' = RM(2)
        /\ \A i \in 0 .. 2 : 4 + i # a => RM(4 + i)' = RM(4 + i)
    BY <2>1, <2>3, There
  <2>5. Sources(p, q)'
    BY <1>5, <2>4 DEF Sources
  <2>6. \A i \in 0 .. 2 : i < x + 1 => RM(4 + i)' = RM(i)'
    <3> SUFFICES ASSUME NEW i \in 0 .. 2, i < x + 1 PROVE RM(4 + i)' = RM(i)'
      OBVIOUS
    <3>0. RM(i)' = RM(i)
      BY <2>4
    <3>1. CASE i = x
      BY <2>3, <3>0, <3>1
    <3>2. CASE i < x
      <4>1. 4 + i # a
        BY <1>9, <3>2
      <4> QED BY <1>9, <2>4, <3>0, <3>2, <4>1 DEF Copied
    <3> QED BY <1>9, <3>1, <3>2
  <2>7. Copied(x + 1)'
    BY <2>2, <2>6 DEF Copied
  <2>8. CopyPoint(p, q)'
    BY <1>9, <2>2, <2>5, <2>7 DEF CopyPoint
  <2> QED BY <1>3, <2>2, <2>3, <2>8
<1>10. CASE pc = 39 /\ x \in 0 .. 2 /\ Copied(x + 1)
  <2>1. Opcode = 8 /\ Wrap(x + 1) = x + 1
    BY <1>4, <1>10 DEF Opcode, Wrap
  <2>2. x' = x + 1 /\ pc' = 40 /\ bus' = bus /\ wai_state' = wai_state
    BY <1>10, <2>1, CountStep
  <2>3. x' \in 1 .. 3
    BY <1>10, <2>2
  <2> QED BY <1>6, <1>10, <2>2, <2>3
<1>11. CASE pc = 40 /\ x \in 1 .. 3 /\ Copied(x)
  <2>1. Opcode = 140 /\ RM(pc + 1) = 0 /\ RM(pc + 2) = 3 /\ 3 \in Byte
    BY <1>4, <1>11 DEF Opcode, Byte
  <2>2. /\ (Z \in cc' <=> x = 3) /\ pc' = 43 /\ x' = x
        /\ bus' = bus /\ wai_state' = wai_state
    BY <1>11, <2>1, CompareXStep
  <2> QED BY <1>6, <1>11, <2>2
<1>12. CASE pc = 43 /\ x \in 1 .. 3 /\ Copied(x) /\ (Z \in cc <=> x = 3)
  <2>1. /\ Opcode = 38 /\ RM(pc + 1) = 246 /\ 246 \in Byte
        /\ pc + 2 + SIGNED(246) = 35
    BY <1>4, <1>12 DEF Opcode, SIGNED, Byte
  <2>2. /\ pc' = IF x # 3 THEN 35 ELSE 45
        /\ x' = x /\ bus' = bus /\ wai_state' = wai_state
    BY <1>12, <2>1, BranchStep
  <2> QED BY <1>6, <1>12, <2>2
<1> QED BY <1>1, <1>2, <1>4, <1>7, <1>8, <1>9, <1>10, <1>11, <1>12 DEF CopyPoint

LEMMA CopySteps ==
  ASSUME ProgramsAreRun, MemoryIsThere, NumbersAreTasks
  PROVE  MachineOK /\ CopyInv /\ [Next]_vars => CopyInv'
<1> SUFFICES ASSUME MachineOK, CopyInv, [Next]_vars PROVE CopyInv'
  OBVIOUS
<1>1. CASE UNCHANGED vars
  <2>1. CopyPoint(task.p, task.q)' <=> CopyPoint(task.p, task.q)
    BY <1>1 DEF vars, CopyPoint, Sources, Copied, RM
  <2> QED BY <1>1, <2>1, KeptAlone DEF CopyInv, vars
<1>2. CASE Next
  <2>1. task' = task
    BY <1>2, TaskKept
  <2> QED BY <1>2, <2>1, CopyMoves DEF CopyInv
<1> QED BY <1>1, <1>2

LEMMA CopyIsOver ==
  ASSUME ProgramsAreRun, MemoryIsThere, NumbersAreTasks, CopyInv, Stopped,
         task.name = "copy"
  PROVE  <<bus.mem[4], bus.mem[5], bus.mem[6]>> = <<task.p, task.q, task.p>>
<1>1. Kept /\ CopyPoint(task.p, task.q)
  BY DEF CopyInv
<1>2. Sources(task.p, task.q) /\ Copied(3)
  <2>1. code = 32 .. 44 /\ pc \notin code
    BY <1>1, CopyReads DEF Stopped, Kept
  <2> QED BY <1>1, <2>1 DEF CopyPoint
<1>3. RM(4 + 0) = task.p /\ RM(4 + 1) = task.q /\ RM(4 + 2) = task.p
  BY <1>2 DEF Sources, Copied
<1>4. RM(4) = bus.mem[4] /\ RM(5) = bus.mem[5] /\ RM(6) = bus.mem[6]
  BY There DEF RM
<1> QED BY <1>3, <1>4

(* 2 to the number of bits of q that are used, with x bits to go *)
Weight(n) == CASE n = 8 -> 1 [] n = 7 -> 2 [] n = 6 -> 4 [] n = 5 -> 8 [] n = 4 -> 16
               [] n = 3 -> 32 [] n = 2 -> 64 [] n = 1 -> 128 [] n = 0 -> 256

(* A, B and the carry hold, from the left, the product so far and the bits of
   q that are not used. *)
Partly(total, p, q, w) ==
  \E high \in Byte, low \in Byte :
    /\ q = w * high + low /\ low < w
    /\ w * total = w * high + 512 * (p * low)

LEMMA FirstPart ==
  ASSUME NEW p \in Byte, NEW q \in Byte
  PROVE  Partly(q, p, q, Weight(8))
<1>1. Weight(8) = 1
  BY DEF Weight
<1>2. 0 \in Byte /\ q = 1 * q + 0 /\ 0 < 1 /\ 1 * q = 1 * q + 512 * (p * 0)
  BY DEF Byte
<1> QED BY <1>1, <1>2 DEF Partly

LEMMA LastPart ==
  ASSUME NEW p \in Byte, NEW q \in Byte, NEW a \in Byte, NEW b \in Byte, NEW c \in {0, 1},
         Partly(2 * (256 * a + b) + c, p, q, 256)
  PROVE  256 * a + b = p * q
<1> PICK high \in Byte, low \in Byte :
      /\ q = 256 * high + low /\ low < 256
      /\ 256 * (2 * (256 * a + b) + c) = 256 * high + 512 * (p * low)
  BY DEF Partly
<1>1. high = 0 /\ low = q
  BY DEF Byte
<1> PICK m \in Int : m = p * low
  BY DEF Byte
<1> PICK v \in Int : v = 256 * a + b
  BY DEF Byte
<1>2. 256 * (2 * v + c) = 512 * m
  BY <1>1
<1>3. v = m
  BY <1>2
<1> QED BY <1>1, <1>3

(* One bit of q: p is added when it is 1, and all move one place. *)
LEMMA NextPart ==
  ASSUME NEW p \in Byte, NEW q \in Byte, NEW w \in {1, 2, 4, 8, 16, 32, 64, 128},
         NEW v \in Int, NEW c \in {0, 1}, Partly(2 * v + c, p, q, w),
         NEW total \in Int, total = v + 256 * (c * p)
  PROVE  Partly(total, p, q, 2 * w)
<1> PICK high \in Byte, low \in Byte :
      /\ q = w * high + low /\ low < w
      /\ w * (2 * v + c) = w * high + 512 * (p * low)
  BY DEF Partly
<1>0. /\ p \in Int /\ q \in Int /\ q <= 255 /\ 0 <= q
      /\ high \in Int /\ 0 <= high /\ high <= 255
      /\ low \in Int /\ 0 <= low /\ low <= 255
  BY DEF Byte
<1> PICK m \in Int : m = p * low
  BY <1>0
<1>1. \E h \in Int, g \in {0, 1} : high = 2 * h + g /\ 0 <= h /\ h <= 127
  <2> PICK h, g : h = high \div 2 /\ g = high % 2
    OBVIOUS
  <2>1. high = 2 * h + g /\ h \in Int /\ 0 <= h /\ h <= 127
    BY <1>0
  <2>2. g \in {0, 1}
    BY <1>0
  <2> QED BY <2>1, <2>2
<1> PICK h \in Int, g \in {0, 1} : high = 2 * h + g /\ 0 <= h /\ h <= 127
  BY <1>1
<1>2. \E r \in Int : w * r = 256 * m /\ 2 * v + c = high + 2 * r
  <2>1. CASE w = 1
    <3> PICK r \in Int : r = 256 * m
      OBVIOUS
    <3>1. 1 * (2 * v + c) = 1 * high + 512 * m
      BY <2>1
    <3>2. 1 * r = 256 * m /\ 2 * v + c = high + 2 * r
      BY <1>0, <3>1
    <3> QED BY <2>1, <3>2
  <2>2. CASE w = 2
    <3> PICK r \in Int : r = 128 * m
      OBVIOUS
    <3>1. 2 * (2 * v + c) = 2 * high + 512 * m
      BY <2>2
    <3>2. 2 * r = 256 * m /\ 2 * v + c = high + 2 * r
      BY <1>0, <3>1
    <3> QED BY <2>2, <3>2
  <2>3. CASE w = 4
    <3> PICK r \in Int : r = 64 * m
      OBVIOUS
    <3>1. 4 * (2 * v + c) = 4 * high + 512 * m
      BY <2>3
    <3>2. 4 * r = 256 * m /\ 2 * v + c = high + 2 * r
      BY <1>0, <3>1
    <3> QED BY <2>3, <3>2
  <2>4. CASE w = 8
    <3> PICK r \in Int : r = 32 * m
      OBVIOUS
    <3>1. 8 * (2 * v + c) = 8 * high + 512 * m
      BY <2>4
    <3>2. 8 * r = 256 * m /\ 2 * v + c = high + 2 * r
      BY <1>0, <3>1
    <3> QED BY <2>4, <3>2
  <2>5. CASE w = 16
    <3> PICK r \in Int : r = 16 * m
      OBVIOUS
    <3>1. 16 * (2 * v + c) = 16 * high + 512 * m
      BY <2>5
    <3>2. 16 * r = 256 * m /\ 2 * v + c = high + 2 * r
      BY <1>0, <3>1
    <3> QED BY <2>5, <3>2
  <2>6. CASE w = 32
    <3> PICK r \in Int : r = 8 * m
      OBVIOUS
    <3>1. 32 * (2 * v + c) = 32 * high + 512 * m
      BY <2>6
    <3>2. 32 * r = 256 * m /\ 2 * v + c = high + 2 * r
      BY <1>0, <3>1
    <3> QED BY <2>6, <3>2
  <2>7. CASE w = 64
    <3> PICK r \in Int : r = 4 * m
      OBVIOUS
    <3>1. 64 * (2 * v + c) = 64 * high + 512 * m
      BY <2>7
    <3>2. 64 * r = 256 * m /\ 2 * v + c = high + 2 * r
      BY <1>0, <3>1
    <3> QED BY <2>7, <3>2
  <2>8. CASE w = 128
    <3> PICK r \in Int : r = 2 * m
      OBVIOUS
    <3>1. 128 * (2 * v + c) = 128 * high + 512 * m
      BY <2>8
    <3>2. 128 * r = 256 * m /\ 2 * v + c = high + 2 * r
      BY <1>0, <3>1
    <3> QED BY <2>8, <3>2
  <2> QED BY <2>1, <2>2, <2>3, <2>4, <2>5, <2>6, <2>7, <2>8
<1> PICK r \in Int : w * r = 256 * m /\ 2 * v + c = high + 2 * r
  BY <1>2
<1>3. g = c /\ v = h + r
  <2>1. 2 * v + c = 2 * h + g + 2 * r
    OBVIOUS
  <2> QED BY <2>1
<1> PICK u \in Int : u = w * c
  OBVIOUS
<1>4. q = 2 * w * h + (low + u)
  <2>1. w * high = 2 * w * h + u
    <3>1. w * (2 * h + c) = 2 * w * h + w * c
      OBVIOUS
    <3> QED BY <1>3, <3>1
  <2> QED BY <2>1
<1>5. low + u < 2 * w /\ low + u \in Byte /\ h \in Byte
  <2>1. 0 <= u /\ u <= w /\ w <= 128 /\ w \in Int
    BY <1>0
  <2> QED BY <1>0, <2>1 DEF Byte
<1>6. p * (low + u) = m + u * p
  BY <1>0
<1>7. 2 * w * total = 2 * w * h + 512 * (p * (low + u))
  <2> PICK e \in Int : e = c * p
    BY <1>0
  <2>1. w * e = u * p
    BY <1>0
  <2>2. total = h + r + 256 * e
    BY <1>3
  <2>3. 2 * w * total = 2 * w * h + 2 * (w * r) + 512 * (w * e)
    BY <2>2
  <2>4. 2 * (w * r) + 512 * (w * e) = 512 * (m + u * p)
    <3> PICK i \in Int, j \in Int : i = w * r /\ j = w * e
      OBVIOUS
    <3>1. i = 256 * m /\ j = u * p
      BY <2>1
    <3> QED BY <3>1
  <2> QED BY <1>6, <2>3, <2>4
<1> QED BY <1>4, <1>5, <1>7 DEF Partly

(* A, B and the carry as one number *)
Held(a, b, c) == 2 * (256 * a + b) + c

MultiplyPoint(p, q) ==
  LET a == d["a"]
      b == d["b"]
      c == Carry(cc)
  IN  /\ RM(1) = p
      /\ \/ pc = 32 /\ b = q
         \/ pc = 33 /\ a = 0 /\ b = q /\ c = 0
         \/ pc = 36 /\ a = 0 /\ b = q /\ c = 0 /\ x = 8
         \/ pc = 37 /\ x \in 1 .. 8 /\ Partly(Held(a, b, c), p, q, Weight(x))
         \/ pc = 39 /\ x \in 1 .. 8 /\ c = 1 /\ Partly(Held(a, b, c), p, q, Weight(x))
         \/ /\ pc = 41 /\ x \in 1 .. 8
            /\ Partly(256 * (256 * c + a) + b, p, q, Weight(x - 1))
         \/ /\ pc = 42 /\ x \in 1 .. 8
            /\ Partly(256 * (2 * a + c) + b, p, q, Weight(x - 1))
         \/ pc = 43 /\ x \in 1 .. 8 /\ Partly(Held(a, b, c), p, q, Weight(x - 1))
         \/ /\ pc = 44 /\ x \in 0 .. 7 /\ Partly(Held(a, b, c), p, q, Weight(x))
            /\ Z \in cc <=> x = 0
         \/ pc = 46 /\ Partly(Held(a, b, c), p, q, Weight(0))

MultiplyInv == task.name = "multiply" => Kept /\ MultiplyPoint(task.p, task.q)

MultiplyBytes == <<79, 206, 0, 8, 86, 36, 2, 155, 1, 70, 86, 9, 38, 247>>

LEMMA MultiplyIs ==
  ASSUME ProgramsAreRun, NumbersAreTasks, NEW t \in Tasks, t.name = "multiply"
  PROVE  /\ Boot(t) = Simple(MultiplyBytes, <<0, t.p>>, 0, t.q, {})
         /\ t.p \in Byte /\ t.q \in Byte
         /\ Len(MultiplyBytes) = 14 /\ Len(<<0, t.p>>) = 2
         /\ <<0, t.p>> \in Seq(Byte)
<1>1. t.p \in Byte /\ t.q \in Byte /\ 0 \in Byte
  BY DEF NumbersAreTasks, Byte
<1>2. Boot(t) = Simple(MultiplyBytes, <<0, t.p>>, 0, t.q, {})
  BY DEF ProgramsAreRun, Program, Multiply, MultiplyBytes
<1> QED BY <1>1, <1>2 DEF MultiplyBytes

LEMMA MultiplyReads ==
  ASSUME ProgramsAreRun, MemoryIsThere, NumbersAreTasks, Kept, task.name = "multiply"
  PROVE  /\ code = 32 .. 45
         /\ RM(32) = 79 /\ RM(33) = 206 /\ RM(34) = 0 /\ RM(35) = 8 /\ RM(36) = 86
         /\ RM(37) = 36 /\ RM(38) = 2 /\ RM(39) = 155 /\ RM(40) = 1 /\ RM(41) = 70
         /\ RM(42) = 86 /\ RM(43) = 9 /\ RM(44) = 38 /\ RM(45) = 247
<1> DEFINE bytes == MultiplyBytes
           data == <<0, task.p>>
<1>1. /\ Boot(task) = Simple(bytes, data, 0, task.q, {})
      /\ Len(bytes) = 14 /\ Len(data) = 2 /\ data \in Seq(Byte)
  BY MultiplyIs DEF Kept
<1>2. /\ bytes[1] = 79 /\ bytes[2] = 206 /\ bytes[3] = 0 /\ bytes[4] = 8
      /\ bytes[5] = 86 /\ bytes[6] = 36 /\ bytes[7] = 2 /\ bytes[8] = 155
      /\ bytes[9] = 1 /\ bytes[10] = 70 /\ bytes[11] = 86 /\ bytes[12] = 9
      /\ bytes[13] = 38 /\ bytes[14] = 247
  BY DEF MultiplyBytes
<1> HIDE DEF bytes, data
<1>3. code = 32 .. 31 + Len(bytes) /\ \A i \in 1 .. Len(bytes) : RM(31 + i) = bytes[i]
  <2>1. Len(bytes) \in Nat /\ Len(bytes) <= 20 /\ Len(data) <= 16
    BY <1>1
  <2> PICK f : f = {}
    OBVIOUS
  <2>2. Boot(task) = Simple(bytes, data, 0, task.q, f) /\ data \in Seq(Byte)
    BY <1>1
  <2> QED BY <2>1, <2>2, SimpleReads
<1>4. code = 32 .. 45 /\ \A i \in 1 .. 14 : RM(31 + i) = bytes[i]
  BY <1>1, <1>3
<1> QED BY <1>2, <1>4

LEMMA MultiplyBoots ==
  ASSUME ProgramsAreRun, MemoryIsThere, NumbersAreTasks PROVE Init => MultiplyInv
<1> SUFFICES ASSUME Init, task.name = "multiply" PROVE MultiplyInv
  BY DEF MultiplyInv
<1> DEFINE bytes == MultiplyBytes
           data == <<0, task.p>>
<1>1. /\ Boot(task) = Simple(bytes, data, 0, task.q, {})
      /\ Len(bytes) = 14 /\ Len(data) = 2 /\ data \in Seq(Byte)
  BY MultiplyIs DEF Init
<1>2. data[2] = task.p
  OBVIOUS
<1> HIDE DEF bytes, data
<1>3. Kept /\ pc = 32 /\ d["b"] = task.q /\ \A i \in 1 .. Len(data) : bus.mem[i - 1] = data[i]
  <2>1. Len(bytes) \in Nat /\ Len(bytes) <= 20 /\ Len(data) <= 16
    BY <1>1
  <2> PICK f, q : f = {} /\ q = task.q
    OBVIOUS
  <2>2. Boot(task) = Simple(bytes, data, 0, q, f) /\ data \in Seq(Byte)
    BY <1>1
  <2>3. Kept
    BY <2>1, <2>2, SimpleBegins, ZenonT(60)
  <2>4. pc = 32
    BY <2>1, <2>2, SimpleBegins, SMT
  <2>5. \A i \in 1 .. Len(data) : bus.mem[i - 1] = data[i]
    BY <2>1, <2>2, SimpleBegins, SMT
  <2>6. d["b"] = q
    BY <2>1, <2>2, SimpleBegins, SMT
  <2> QED BY <2>3, <2>4, <2>5, <2>6
<1>4. \A i \in 1 .. 2 : bus.mem[i - 1] = data[i]
  BY <1>1, <1>3
<1>5. RM(1) = bus.mem[1]
  BY There DEF RM
<1>6. RM(1) = data[2]
  BY <1>4, <1>5
<1> QED BY <1>2, <1>3, <1>6 DEF MultiplyInv, MultiplyPoint

(* What the rotations and CLR do to the accumulators *)
LEMMA RotatedRight ==
  ASSUME NEW t \in Byte, NEW f \in Flags
  PROVE  LET m == Modify(6, t, f)
         IN  m.r \in Byte /\ Carry(m.cc) \in {0, 1} /\ 2 * m.r + Carry(m.cc) = 256 * Carry(f) + t
BY ModifyShifts DEF IsRight

LEMMA Rotated ==
  ASSUME NEW a \in Byte, NEW b \in Byte, NEW c \in {0, 1}, NEW m, IsRight(m, b, c)
  PROVE  Held(a, m.r, Carry(m.cc)) = 256 * (2 * a + c) + b
<1> PICK r \in Byte, e \in {0, 1} : r = m.r /\ e = Carry(m.cc)
  BY DEF IsRight
<1>1. 2 * r + e = 256 * c + b
  BY DEF IsRight
<1>2. Held(a, r, e) = 256 * (2 * a + c) + b
  BY <1>1 DEF Held, Byte
<1> QED BY <1>2

LEMMA Cleared ==
  ASSUME NEW t, NEW f
  PROVE  Modify(15, t, f).r = 0 /\ Carry(Modify(15, t, f).cc) = 0
BY DEF Modify, Result, Carry, CLR_NZVC, C, N, Z, V

LEMMA Weights ==
  ASSUME NEW n \in 1 .. 8
  PROVE  Weight(n) \in {1, 2, 4, 8, 16, 32, 64, 128} /\ 2 * Weight(n) = Weight(n - 1)
<1>1. n = 1 \/ n = 2 \/ n = 3 \/ n = 4 \/ n = 5 \/ n = 6 \/ n = 7 \/ n = 8
  OBVIOUS
<1>2. /\ 1 - 1 = 0 /\ 2 - 1 = 1 /\ 3 - 1 = 2 /\ 4 - 1 = 3 /\ 5 - 1 = 4 /\ 6 - 1 = 5
      /\ 7 - 1 = 6 /\ 8 - 1 = 7
  OBVIOUS
<1>3. /\ Weight(0) = 256 /\ Weight(1) = 128 /\ Weight(2) = 64 /\ Weight(3) = 32
      /\ Weight(4) = 16 /\ Weight(5) = 8 /\ Weight(6) = 4 /\ Weight(7) = 2 /\ Weight(8) = 1
  BY DEF Weight
<1> QED BY <1>1, <1>2, <1>3

(* ADDA of a byte of the data *)
LEMMA AddStep ==
  ASSUME MachineOK, Next, Opcode = 155, pc \in 0 .. 100, NEW a, RM(pc + 1) = a
  PROVE  LET m == ByteTotal("add", d["a"], RM(a), 0, cc)
         IN  /\ cc' = m.cc /\ pc' = pc + 2 /\ d'["a"] = m.r /\ d'["b"] = d["b"]
             /\ UNCHANGED <<bus, x, wai_state>>
<1>1. DirectARow
  BY LegalOpcodes, RowOf
<1>2. Column = 11
  BY DEF Column
<1>3. DIRECT.ea = a /\ DIRECT.next = pc + 2
  BY Following DEF DIRECT
<1>4. d \in Accumulators
  BY DEF MachineOK
<1> DEFINE m == ByteTotal("add", d["a"], RM(a), 0, cc)
<1>5. Alu(11, d["a"], RM(a), cc) = m
  BY DEF Alu, ByteTotal
<1> HIDE DEF m
<1>6. /\ cc' = m.cc /\ pc' = pc + 2 /\ d' = [d EXCEPT !["a"] = m.r]
      /\ UNCHANGED <<bus, x, wai_state>>
  <2>1. /\ cc' = m.cc /\ pc' = pc + 2
        /\ d' = IF Column \in Keeping THEN d ELSE [d EXCEPT !["a"] = m.r]
        /\ bus' = IF Column = 7 THEN Written(bus, a, d["a"]) ELSE bus
        /\ UNCHANGED <<x, wai_state>>
    BY <1>1, <1>2, <1>3, <1>5 DEF DirectARow, Accumulator
  <2>2. Column \notin Keeping /\ Column # 7
    BY <1>2 DEF Keeping
  <2> QED BY <2>1, <2>2
<1> QED BY <1>4, <1>6 DEF Accumulators, m

LEMMA ByteAdded ==
  ASSUME NEW v \in Byte, NEW w \in Byte, NEW f \in Flags
  PROVE  LET m == ByteTotal("add", v, w, 0, f)
         IN  m.r \in Byte /\ Carry(m.cc) \in {0, 1} /\ 256 * Carry(m.cc) + m.r = v + w
<1> DEFINE m == ByteTotal("add", v, w, 0, f)
           total == Total("add", v, w, 0)
<1>1. m.r = total % 256 /\ Carry(m.cc) = Over(total)
  BY ByteTotals
<1>2. total % 256 \in Byte /\ Over(total) \in {0, 1} /\ v + w = 256 * Over(total) + (total % 256)
  BY SumOf, CarryOut
<1> HIDE DEF m, total
<1>3. m.r \in Byte /\ Carry(m.cc) \in {0, 1} /\ 256 * Carry(m.cc) + m.r = v + w
  BY <1>1, <1>2
<1> QED BY <1>3 DEF m

LEMMA BytesAre == ASSUME NEW v \in Byte PROVE v \in Int /\ 0 <= v /\ v <= 255
BY DEF Byte

LEMMA MultiplyMoves ==
  ASSUME ProgramsAreRun, MemoryIsThere, NumbersAreTasks, MachineOK, MultiplyInv, Next,
         task.name = "multiply"
  PROVE  MultiplyInv'
<1> PICK p, q : p = task.p /\ q = task.q
  OBVIOUS
<1>1. Kept /\ MultiplyPoint(p, q)
  BY DEF MultiplyInv
<1>2. task' = task /\ pc \in code /\ cc \in Flags
  BY TaskKept DEF MachineOK
<1>3. p \in Byte /\ q \in Byte
  BY <1>1, MultiplyIs DEF Kept
<1>4. /\ code = 32 .. 45
      /\ RM(32) = 79 /\ RM(33) = 206 /\ RM(34) = 0 /\ RM(35) = 8 /\ RM(36) = 86
      /\ RM(37) = 36 /\ RM(38) = 2 /\ RM(39) = 155 /\ RM(40) = 1 /\ RM(41) = 70
      /\ RM(42) = 86 /\ RM(43) = 9 /\ RM(44) = 38 /\ RM(45) = 247
  BY <1>1, MultiplyReads
<1>5. ASSUME bus' = bus, wai_state' = wai_state, MultiplyPoint(p, q)'
      PROVE  MultiplyInv'
  BY <1>1, <1>2, <1>5, KeptOn, SameBus DEF MultiplyInv
<1>6. RM(1) = p /\ (bus' = bus => RM(1)' = p)
  BY <1>1, SameBus DEF MultiplyPoint
<1> PICK a, b, c : a = d["a"] /\ b = d["b"] /\ c = Carry(cc)
  OBVIOUS
<1>7. a \in Byte /\ b \in Byte /\ c \in {0, 1}
  BY AccumulatorsHold DEF MachineOK, Carry
<1>8. CASE pc = 32 /\ b = q
  <2>1. Opcode = 79 /\ Opcode - 64 = 15
    BY <1>4, <1>8 DEF Opcode
  <2>2. /\ d'["a"] = 0 /\ Carry(cc') = 0 /\ d'["b"] = q /\ pc' = 33
        /\ bus' = bus /\ wai_state' = wai_state
    BY <1>8, <2>1, ModifyAStep, Cleared
  <2> QED BY <1>5, <1>6, <2>2 DEF MultiplyPoint
<1>9. CASE pc = 33 /\ a = 0 /\ b = q /\ c = 0
  <2>1. Opcode = 206 /\ RM(pc + 1) = 0 /\ RM(pc + 2) = 8 /\ 8 \in Byte
    BY <1>4, <1>9 DEF Opcode, Byte
  <2>2. /\ x' = 8 /\ pc' = 36 /\ Carry(cc') = 0 /\ d' = d
        /\ bus' = bus /\ wai_state' = wai_state
    BY <1>9, <2>1, LoadXStep
  <2> QED BY <1>5, <1>6, <1>9, <2>2 DEF MultiplyPoint
<1>10. CASE pc = 36 /\ a = 0 /\ b = q /\ c = 0 /\ x = 8
  <2> PICK m : m = Modify(6, b, cc)
    OBVIOUS
  <2>1. Opcode \in {86, 90} /\ Opcode - 80 = 6
    BY <1>4, <1>10 DEF Opcode
  <2>2. /\ cc' = m.cc /\ d'["b"] = m.r /\ d'["a"] = a /\ pc' = 37 /\ x' = x
        /\ bus' = bus /\ wai_state' = wai_state
    BY <1>10, <2>1, ModifyBStep
  <2>3. m.r \in Byte /\ Carry(m.cc) \in {0, 1} /\ 2 * m.r + Carry(m.cc) = 256 * c + b
    BY <1>2, <1>7, RotatedRight
  <2>4. Held(0, m.r, Carry(m.cc)) = q
    BY <1>3, <1>10, <2>3 DEF Held, Byte
  <2>5. Partly(q, p, q, Weight(8))
    BY <1>3, FirstPart
  <2>6. Partly(Held(d'["a"], d'["b"], Carry(cc')), p, q, Weight(x')) /\ x' \in 1 .. 8
    <3>1. Held(d'["a"], d'["b"], Carry(cc')) = q
      BY <1>10, <2>2, <2>4
    <3> QED BY <1>10, <2>2, <2>5, <3>1
  <2> QED BY <1>5, <1>6, <2>2, <2>6 DEF MultiplyPoint
<1>11. CASE pc = 37 /\ x \in 1 .. 8 /\ Partly(Held(a, b, c), p, q, Weight(x))
  <2>1. /\ Opcode = 36 /\ RM(pc + 1) = 2 /\ 2 \in Byte /\ pc + 2 + SIGNED(2) = 41
    BY <1>4, <1>11 DEF Opcode, SIGNED, Byte
  <2>2. /\ pc' = IF c = 0 THEN 41 ELSE 39
        /\ UNCHANGED <<x, d, cc, bus, wai_state>>
    <3>1. C \notin cc <=> c = 0
      BY DEF Carry
    <3> QED BY <1>11, <2>1, <3>1, BranchStep
  <2>3. CASE c = 0
    <3> PICK v \in Int : v = 256 * a + b
      BY <1>7 DEF Byte
    <3>1. Partly(2 * v + c, p, q, Weight(x))
      BY <1>11 DEF Held
    <3>2. v = v + 256 * (c * p)
      BY <1>3, <2>3 DEF Byte
    <3>3. Partly(v, p, q, 2 * Weight(x))
      BY <1>3, <1>7, <1>11, <3>1, <3>2, Weights, NextPart
    <3>4. v = 256 * (256 * c + a) + b
      BY <1>7, <2>3 DEF Byte
    <3>5. Partly(256 * (256 * c + a) + b, p, q, Weight(x - 1))
      BY <1>11, <3>3, <3>4, Weights
    <3> QED BY <1>5, <1>6, <1>11, <2>2, <2>3, <3>5 DEF MultiplyPoint
  <2>4. CASE c = 1
    BY <1>5, <1>6, <1>11, <2>2, <2>4 DEF MultiplyPoint
  <2> QED BY <1>7, <2>3, <2>4
<1>12. CASE pc = 39 /\ x \in 1 .. 8 /\ c = 1 /\ Partly(Held(a, b, c), p, q, Weight(x))
  <2>1. Opcode = 155 /\ RM(pc + 1) = 1 /\ pc \in 0 .. 100
    BY <1>4, <1>12 DEF Opcode
  <2>2. LET m == ByteTotal("add", a, p, 0, cc)
        IN  /\ cc' = m.cc /\ pc' = 41 /\ d'["a"] = m.r
            /\ d'["b"] = b /\ x' = x /\ bus' = bus /\ wai_state' = wai_state
    BY <1>6, <1>12, <2>1, AddStep
  <2>3. d'["a"] \in Byte /\ 256 * Carry(cc') + d'["a"] = a + p /\ Carry(cc') \in {0, 1}
    BY <1>2, <1>3, <1>7, <2>2, ByteAdded
  <2> PICK v \in Int : v = 256 * a + b
    BY <1>7 DEF Byte
  <2>a. v + 256 * (c * p) = v + 256 * p /\ v + 256 * p \in Int
    BY <1>3, <1>12 DEF Byte
  <2> PICK total \in Int : total = v + 256 * (c * p)
    BY <2>a
  <2>4. Partly(2 * v + c, p, q, Weight(x))
    BY <1>12 DEF Held
  <2>5. Partly(total, p, q, Weight(x - 1))
    BY <1>3, <1>7, <1>12, <2>4, Weights, NextPart
  <2>6. total = 256 * (256 * Carry(cc') + d'["a"]) + b
    <3>1. total = 256 * (a + p) + b
      <4>1. a \in Int /\ b \in Int /\ p \in Int
        BY <1>3, <1>7, BytesAre
      <4>2. v + 256 * p = 256 * (a + p) + b
        BY <4>1
      <4> QED BY <2>a, <4>2
    <3> QED BY <2>3, <3>1
  <2>7. Partly(256 * (256 * Carry(cc') + d'["a"]) + b, p, q, Weight(x - 1))
    BY <2>5, <2>6
  <2> QED BY <1>5, <1>6, <1>12, <2>2, <2>7 DEF MultiplyPoint
<1>13. CASE pc = 41 /\ x \in 1 .. 8 /\ Partly(256 * (256 * c + a) + b, p, q, Weight(x - 1))
  <2> PICK m : m = Modify(6, a, cc)
    OBVIOUS
  <2>1. Opcode \in {70, 73, 79} /\ Opcode - 64 = 6
    BY <1>4, <1>13 DEF Opcode
  <2>2. /\ cc' = m.cc /\ d'["a"] = m.r /\ d'["b"] = b /\ pc' = 42 /\ x' = x
        /\ bus' = bus /\ wai_state' = wai_state
    BY <1>13, <2>1, ModifyAStep
  <2>3. 2 * m.r + Carry(m.cc) = 256 * c + a
    BY <1>2, <1>7, RotatedRight
  <2>4. Partly(256 * (2 * m.r + Carry(m.cc)) + b, p, q, Weight(x - 1))
    BY <1>13, <2>3
  <2> QED BY <1>5, <1>6, <1>13, <2>2, <2>4 DEF MultiplyPoint
<1>14. CASE pc = 42 /\ x \in 1 .. 8 /\ Partly(256 * (2 * a + c) + b, p, q, Weight(x - 1))
  <2> PICK m : m = Modify(6, b, cc)
    OBVIOUS
  <2>1. Opcode \in {86, 90} /\ Opcode - 80 = 6
    BY <1>4, <1>14 DEF Opcode
  <2>2. /\ cc' = m.cc /\ d'["b"] = m.r /\ d'["a"] = a /\ pc' = 43 /\ x' = x
        /\ bus' = bus /\ wai_state' = wai_state
    BY <1>14, <2>1, ModifyBStep
  <2>3. IsRight(m, b, c)
    BY <1>7, ModifyShifts
  <2>4. Held(a, m.r, Carry(m.cc)) = 256 * (2 * a + c) + b
    BY <1>7, <2>3, Rotated
  <2>5. Partly(Held(a, m.r, Carry(m.cc)), p, q, Weight(x - 1))
    BY <1>14, <2>4
  <2> QED BY <1>5, <1>6, <1>14, <2>2, <2>5 DEF MultiplyPoint
<1>15. CASE pc = 43 /\ x \in 1 .. 8 /\ Partly(Held(a, b, c), p, q, Weight(x - 1))
  <2>1. Opcode \in {8, 9} /\ Opcode = 9 /\ Wrap(x - 1) = x - 1
    BY <1>4, <1>15 DEF Opcode, Wrap
  <2>2. /\ x' = x - 1 /\ (Z \in cc' <=> x' = 0) /\ Carry(cc') = c /\ d' = d /\ pc' = 44
        /\ bus' = bus /\ wai_state' = wai_state
    BY <1>15, <2>1, CountStep
  <2>3. x' \in 0 .. 7
    BY <1>15, <2>2
  <2> QED BY <1>5, <1>6, <1>15, <2>2, <2>3 DEF MultiplyPoint
<1>16. CASE /\ pc = 44 /\ x \in 0 .. 7 /\ Partly(Held(a, b, c), p, q, Weight(x))
            /\ Z \in cc <=> x = 0
  <2>1. /\ Opcode = 38 /\ RM(pc + 1) = 247 /\ 247 \in Byte /\ pc + 2 + SIGNED(247) = 37
    BY <1>4, <1>16 DEF Opcode, SIGNED, Byte
  <2>2. /\ pc' = IF x # 0 THEN 37 ELSE 46
        /\ UNCHANGED <<x, d, cc, bus, wai_state>>
    BY <1>16, <2>1, BranchStep
  <2>3. x # 0 => x \in 1 .. 8
    BY <1>16
  <2> QED BY <1>5, <1>6, <1>16, <2>2, <2>3 DEF MultiplyPoint
<1> QED BY <1>1, <1>2, <1>4, <1>8, <1>9, <1>10, <1>11, <1>12, <1>13, <1>14, <1>15, <1>16
     DEF MultiplyPoint

LEMMA MultiplySteps ==
  ASSUME ProgramsAreRun, MemoryIsThere, NumbersAreTasks
  PROVE  MachineOK /\ MultiplyInv /\ [Next]_vars => MultiplyInv'
<1> SUFFICES ASSUME MachineOK, MultiplyInv, [Next]_vars PROVE MultiplyInv'
  OBVIOUS
<1>1. CASE UNCHANGED vars
  <2>1. MultiplyPoint(task.p, task.q)' <=> MultiplyPoint(task.p, task.q)
    BY <1>1 DEF vars, MultiplyPoint, RM
  <2> QED BY <1>1, <2>1, KeptAlone DEF MultiplyInv, vars
<1>2. CASE Next
  <2>1. task' = task
    BY <1>2, TaskKept
  <2> QED BY <1>2, <2>1, MultiplyMoves DEF MultiplyInv
<1> QED BY <1>1, <1>2

LEMMA MultiplyIsOver ==
  ASSUME ProgramsAreRun, MemoryIsThere, NumbersAreTasks, MachineOK, MultiplyInv, Stopped,
         task.name = "multiply"
  PROVE  256 * d["a"] + d["b"] = task.p * task.q
<1>1. Kept /\ MultiplyPoint(task.p, task.q)
  BY DEF MultiplyInv
<1>2. task.p \in Byte /\ task.q \in Byte
  BY <1>1, MultiplyIs DEF Kept
<1>3. d["a"] \in Byte /\ d["b"] \in Byte /\ Carry(cc) \in {0, 1}
  BY AccumulatorsHold DEF MachineOK, Carry
<1>4. Partly(Held(d["a"], d["b"], Carry(cc)), task.p, task.q, Weight(0))
  <2>1. code = 32 .. 45 /\ pc \notin code
    BY <1>1, MultiplyReads DEF Stopped, Kept
  <2> QED BY <1>1, <2>1 DEF MultiplyPoint
<1>5. Partly(2 * (256 * d["a"] + d["b"]) + Carry(cc), task.p, task.q, 256)
  BY <1>4 DEF Held, Weight
<1> QED BY <1>2, <1>3, <1>5, LastPart

(* Instructions on bytes, one behind the other, are operations on words: the
   carry of ADD, SUB and the shifts is what ADC, SBC and the rotations take up,
   LDA and STA between them keep it (the handlers of cpu/6800ops.hxx), sums and
   differences leave the flags of the words, a product counts with DEX without
   losing the carry, and CPX ends a loop.  For all words, and bytes for the
   product and the copy, whatever the rest of the memory holds. *)
THEOREM WordsAlwaysComputed ==
  ASSUME ProgramsAreRun, MemoryIsThere, NumbersAreTasks
  PROVE  Spec => []WideArithmetic
<1> DEFINE Inv == SumInv /\ ShiftInv /\ NegateInv /\ MultiplyInv /\ CopyInv
<1>1. Init => MachineOK /\ Inv
  BY MachineBoots, SumBoots, ShiftBoots, NegateBoots, MultiplyBoots, CopyBoots
<1>2. MachineOK /\ Inv /\ [Next]_vars => MachineOK' /\ Inv'
  BY MachineSteps, SumSteps, ShiftSteps, NegateSteps, MultiplySteps, CopySteps
<1>3. MachineOK /\ Inv => WideArithmetic
  <2> SUFFICES ASSUME MachineOK, Inv PROVE WideArithmetic
    OBVIOUS
  <2>1. ASSUME Stopped, task.name \in SumNames
        PROVE  LET word == 256 * d["a"] + bus.mem[5]
                   sum == Signed16(task.p) + Signed16(task.q)
               IN  /\ task.name = "add" =>
                        /\ word = Wrap(task.p + task.q)
                        /\ C \in cc <=> task.p + task.q > 65535
                        /\ V \in cc <=> ~(-32768 <= sum /\ sum <= 32767)
                   /\ task.name = "subtract" =>
                        /\ word = Wrap(task.p - task.q)
                        /\ C \in cc <=> task.p < task.q
                        /\ NXORV(cc) <=> Signed16(task.p) < Signed16(task.q)
    BY <2>1, SumIsOver
  <2>2. ASSUME Stopped, task.name = "shift"
        PROVE  /\ Word16(0) = Wrap(<<2 * task.p, task.p \div 2,
                                     Signed16(task.p) \div 2>>[task.k])
               /\ C \in cc <=> IF task.k = 1 THEN task.p >= 32768 ELSE task.p % 2 = 1
    BY <2>2, ShiftIsOver
  <2>3. Stopped /\ task.name = "negate" => Word16(0) = Wrap(-task.p)
    BY NegateIsOver
  <2>4. Stopped /\ task.name = "multiply" => 256 * d["a"] + d["b"] = task.p * task.q
    BY MultiplyIsOver
  <2>5. Stopped /\ task.name = "copy"
          => <<bus.mem[4], bus.mem[5], bus.mem[6]>> = <<task.p, task.q, task.p>>
    BY CopyIsOver
  <2>6. /\ task.name = "add" => task.name \in SumNames
        /\ task.name = "subtract" => task.name \in SumNames
    BY DEF SumNames
  <2>7. Finished("add") =>
          /\ 256 * d["a"] + bus.mem[5] = Wrap(task.p + task.q)
          /\ C \in cc <=> task.p + task.q > 65535
          /\ V \in cc <=> ~(/\ -32768 <= Signed16(task.p) + Signed16(task.q)
                           /\ Signed16(task.p) + Signed16(task.q) <= 32767)
    BY <2>1, <2>6 DEF Finished
  <2>8. Finished("subtract") =>
          /\ 256 * d["a"] + bus.mem[5] = Wrap(task.p - task.q)
          /\ C \in cc <=> task.p < task.q
          /\ NXORV(cc) <=> Signed16(task.p) < Signed16(task.q)
    BY <2>1, <2>6 DEF Finished
  <2>9. Finished("shift") =>
          /\ Word16(0) = Wrap(<<2 * task.p, task.p \div 2, Signed16(task.p) \div 2>>[task.k])
          /\ C \in cc <=> IF task.k = 1 THEN task.p >= 32768 ELSE task.p % 2 = 1
    BY <2>2 DEF Finished
  <2>10. /\ Finished("negate") => Word16(0) = Wrap(-task.p)
         /\ Finished("multiply") => 256 * d["a"] + d["b"] = task.p * task.q
         /\ Finished("copy") =>
              <<bus.mem[4], bus.mem[5], bus.mem[6]>> = <<task.p, task.q, task.p>>
    BY <2>3, <2>4, <2>5 DEF Finished
  <2> QED BY <2>7, <2>8, <2>9, <2>10 DEF WideArithmetic
<1> HIDE DEF Inv
<1> QED BY <1>1, <1>2, <1>3, PTL DEF Spec

-----------------------------------------------------------------------------
(* Programs: OUTCH *)

(* A byte is the sum of its bits. *)
LEMMA Halved ==
  ASSUME NEW n \in Int
  PROVE  n % 2 \in {0, 1} /\ n \div 2 \in Int /\ n = 2 * (n \div 2) + (n % 2)
OBVIOUS

LEMMA ByteBits ==
  ASSUME NEW t \in Byte
  PROVE  /\ \A i \in 0 .. 7 : BitOf(t, i) \in {0, 1}
         /\ t = BitOf(t, 0) + 2 * BitOf(t, 1) + 4 * BitOf(t, 2) + 8 * BitOf(t, 3)
                  + 16 * BitOf(t, 4) + 32 * BitOf(t, 5) + 64 * BitOf(t, 6)
                  + 128 * BitOf(t, 7)
<1>1. /\ 2^0 = 1 /\ 2^1 = 2 /\ 2^2 = 4 /\ 2^3 = 8
      /\ 2^4 = 16 /\ 2^5 = 32 /\ 2^6 = 64 /\ 2^7 = 128
  OBVIOUS
<1>2. t \in Int /\ 0 <= t /\ t <= 255 /\ t \div 1 = t
  BY DEF Byte
<1>3. /\ t \div 4 = (t \div 2) \div 2 /\ t \div 8 = (t \div 4) \div 2
      /\ t \div 16 = (t \div 8) \div 2 /\ t \div 32 = (t \div 16) \div 2
      /\ t \div 64 = (t \div 32) \div 2 /\ t \div 128 = (t \div 64) \div 2
  BY <1>2
<1>4. t \div 128 \in {0, 1}
  BY <1>2
<1> PICK t1, t2, t3, t4, t5, t6, t7 :
      /\ t1 = t \div 2 /\ t2 = t \div 4 /\ t3 = t \div 8 /\ t4 = t \div 16
      /\ t5 = t \div 32 /\ t6 = t \div 64 /\ t7 = t \div 128
  OBVIOUS
<1>5. /\ BitOf(t, 0) = t % 2 /\ BitOf(t, 1) = t1 % 2 /\ BitOf(t, 2) = t2 % 2
      /\ BitOf(t, 3) = t3 % 2 /\ BitOf(t, 4) = t4 % 2 /\ BitOf(t, 5) = t5 % 2
      /\ BitOf(t, 6) = t6 % 2 /\ BitOf(t, 7) = t7 % 2
  BY <1>1, <1>2 DEF BitOf
<1>6. /\ t1 = t \div 2 /\ t2 = t1 \div 2 /\ t3 = t2 \div 2 /\ t4 = t3 \div 2
      /\ t5 = t4 \div 2 /\ t6 = t5 \div 2 /\ t7 = t6 \div 2 /\ t7 \in {0, 1}
  BY <1>3, <1>4
<1>7. /\ t % 2 \in {0, 1} /\ t1 \in Int /\ t = 2 * t1 + (t % 2)
      /\ t1 % 2 \in {0, 1} /\ t2 \in Int /\ t1 = 2 * t2 + (t1 % 2)
      /\ t2 % 2 \in {0, 1} /\ t3 \in Int /\ t2 = 2 * t3 + (t2 % 2)
      /\ t3 % 2 \in {0, 1} /\ t4 \in Int /\ t3 = 2 * t4 + (t3 % 2)
      /\ t4 % 2 \in {0, 1} /\ t5 \in Int /\ t4 = 2 * t5 + (t4 % 2)
      /\ t5 % 2 \in {0, 1} /\ t6 \in Int /\ t5 = 2 * t6 + (t5 % 2)
      /\ t6 % 2 \in {0, 1} /\ t6 = 2 * t7 + (t6 % 2)
  BY <1>2, <1>6, Halved
<1>8. t7 % 2 = t7
  BY <1>4
<1>9. t = (t % 2) + 2 * (t1 % 2) + 4 * (t2 % 2) + 8 * (t3 % 2) + 16 * (t4 % 2)
            + 32 * (t5 % 2) + 64 * (t6 % 2) + 128 * t7
  BY <1>2, <1>7, <1>6
<1>10. \A i \in 0 .. 7 : BitOf(t, i) \in {0, 1}
  <2>1. \A i \in 0 .. 7 : i \in {0, 1, 2, 3, 4, 5, 6, 7}
    OBVIOUS
  <2> QED BY <1>5, <1>6, <1>7, <1>8, <2>1
<1> QED BY <1>5, <1>8, <1>9, <1>10

LEMMA ByteBack == ASSUME NEW t \in Byte PROVE ByteOf(BitsOf(t)) = t
<1> DEFINE f == BitsOf(t)
           Value(n, w) == IF n \in f THEN w ELSE 0
<1>1. ASSUME NEW i \in 0 .. 7, NEW w \in Int PROVE Value(i, w) = w * BitOf(t, i)
  <2>1. BitOf(t, i) \in {0, 1} /\ (i \in f <=> BitOf(t, i) = 1)
    BY ByteBits DEF BitsOf
  <2> QED BY <2>1
<1>2. /\ Value(0, 1) = 1 * BitOf(t, 0) /\ Value(1, 2) = 2 * BitOf(t, 1)
      /\ Value(2, 4) = 4 * BitOf(t, 2) /\ Value(3, 8) = 8 * BitOf(t, 3)
      /\ Value(4, 16) = 16 * BitOf(t, 4) /\ Value(5, 32) = 32 * BitOf(t, 5)
      /\ Value(6, 64) = 64 * BitOf(t, 6) /\ Value(7, 128) = 128 * BitOf(t, 7)
  BY <1>1
<1> HIDE DEF Value, f
<1>3. ByteOf(f) = Value(0, 1) + Value(1, 2) + Value(2, 4) + Value(3, 8)
                    + Value(4, 16) + Value(5, 32) + Value(6, 64) + Value(7, 128)
  BY DEF ByteOf, Value
<1> PICK b0, b1, b2, b3, b4, b5, b6, b7 :
      /\ b0 = BitOf(t, 0) /\ b1 = BitOf(t, 1) /\ b2 = BitOf(t, 2) /\ b3 = BitOf(t, 3)
      /\ b4 = BitOf(t, 4) /\ b5 = BitOf(t, 5) /\ b6 = BitOf(t, 6) /\ b7 = BitOf(t, 7)
  OBVIOUS
<1>4. /\ b0 \in {0, 1} /\ t = b0 + 2 * b1 + 4 * b2 + 8 * b3 + 16 * b4 + 32 * b5
                                + 64 * b6 + 128 * b7
  BY ByteBits
<1> QED BY <1>2, <1>3, <1>4 DEF f

(* A shift to the left moves the bits, the last into the carry. *)
LEMMA BitsMove ==
  ASSUME NEW t \in Byte, NEW bit \in {0, 1}, NEW m, IsLeft(m, t, bit)
  PROVE  /\ 0 \in BitsOf(m.r) <=> bit = 1
         /\ \A i \in 1 .. 7 : i \in BitsOf(m.r) <=> i - 1 \in BitsOf(t)
         /\ Carry(m.cc) = 1 <=> 7 \in BitsOf(t)
<1> DEFINE f == BitsOf(t)
           g == {i \in 0 .. 7 : IF i = 0 THEN bit = 1 ELSE i - 1 \in f}
<1>1. ByteOf(f) = t /\ f \in Flags
  BY ByteBack, BitsOfByte
<1>2. /\ 0 \in g <=> bit = 1
      /\ 1 \in g <=> 0 \in f
      /\ 2 \in g <=> 1 \in f
      /\ 3 \in g <=> 2 \in f
      /\ 4 \in g <=> 3 \in f
      /\ 5 \in g <=> 4 \in f
      /\ 6 \in g <=> 5 \in f
      /\ 7 \in g <=> 6 \in f
  OBVIOUS
<1>3. g \in Flags /\ \A i \in 1 .. 7 : i \in g <=> i - 1 \in f
  BY DEF Flags
<1> HIDE DEF f, g
<1>4. 256 * (IF 7 \in f THEN 1 ELSE 0) + ByteOf(g) = 2 * ByteOf(f) + bit
  BY <1>2 DEF ByteOf
<1>5. ByteOf(g) \in Byte
  BY ByteOfBits
<1> PICK r, c : r = m.r /\ c = Carry(m.cc)
  OBVIOUS
<1>6. r \in Byte /\ c \in {0, 1} /\ 256 * c + r = 2 * t + bit
  BY DEF IsLeft
<1> PICK w : w = ByteOf(g)
  OBVIOUS
<1>7. w = r /\ (c = 1 <=> 7 \in f)
  <2>1. w \in Int /\ 0 <= w /\ w <= 255 /\ r \in Int /\ 0 <= r /\ r <= 255
    <3>1. w \in Byte
      BY <1>5
    <3> QED BY <1>6, <3>1, BytesAre
  <2>2. 256 * (IF 7 \in f THEN 1 ELSE 0) + w = 256 * c + r
    BY <1>1, <1>4, <1>6
  <2> QED BY <1>6, <2>1, <2>2
<1>8. BitsOf(r) = g
  BY <1>3, <1>7, BitsBack
<1> QED BY <1>2, <1>3, <1>7, <1>8 DEF f

LEMMA LastBit == ASSUME NEW t \in Byte PROVE t % 2 = 1 <=> 0 \in BitsOf(t)
<1>1. 2^0 = 1 /\ t \div 1 = t
  BY DEF Byte
<1> QED BY <1>1 DEF BitsOf, BitOf

(* A and the carry hold the nine bits of the task, rotated: n more rotations
   bring them back. *)
Turned(n) ==
  /\ \A i \in 0 .. 7 : i \in BitsOf(d["a"]) <=> (i + n) % 9 \in BitsOf(task.p)
  /\ C \in cc <=> (8 + n) % 9 \in BitsOf(task.p)

LEMMA TurnStep ==
  ASSUME MachineOK, Next, Opcode = 73, pc \in 0 .. 100, NEW n \in 1 .. 18, Turned(n)
  PROVE  /\ Turned(n - 1)' /\ d'["b"] = d["b"] /\ pc' = pc + 1
         /\ UNCHANGED <<bus, x, s, wai_state>>
<1> DEFINE m == Modify(9, d["a"], cc)
<1>1. /\ cc' = m.cc /\ d'["a"] = m.r /\ d'["b"] = d["b"] /\ pc' = pc + 1
      /\ UNCHANGED <<bus, x, s, wai_state>> /\ task' = task
  BY ModifyAStep, TaskKept
<1> PICK t \in Byte : t = d["a"]
  BY AccumulatorsHold
<1> PICK bit \in {0, 1} : bit = Carry(cc)
  BY Carries
<1>2. IsLeft(m, t, bit)
  BY ModifyShifts
<1> HIDE DEF m
<1>3. /\ 0 \in BitsOf(m.r) <=> bit = 1
      /\ \A i \in 1 .. 7 : i \in BitsOf(m.r) <=> i - 1 \in BitsOf(t)
      /\ Carry(m.cc) = 1 <=> 7 \in BitsOf(t)
  BY <1>2, BitsMove
<1>4. (bit = 1 <=> C \in cc) /\ (Carry(m.cc) = 1 <=> C \in cc')
  BY <1>1 DEF Carry
<1> PICK p : p = BitsOf(task.p)
  OBVIOUS
<1>5. /\ \A i \in 0 .. 7 : i \in BitsOf(t) <=> (i + n) % 9 \in p
      /\ C \in cc <=> (8 + n) % 9 \in p
  BY DEF Turned
<1>6. (8 + n) % 9 = (0 + (n - 1)) % 9 /\ (7 + n) % 9 = (8 + (n - 1)) % 9
  OBVIOUS
<1>7. ASSUME NEW i \in 1 .. 7
      PROVE  i \in BitsOf(m.r) <=> (i + (n - 1)) % 9 \in p
  <2>1. i - 1 \in 0 .. 7 /\ i - 1 + n = i + (n - 1)
    OBVIOUS
  <2> QED BY <1>3, <1>5, <2>1
<1>8. /\ 0 \in BitsOf(m.r) <=> (0 + (n - 1)) % 9 \in p
      /\ C \in cc' <=> (8 + (n - 1)) % 9 \in p
  <2>1. 7 \in 0 .. 7
    OBVIOUS
  <2> QED BY <1>3, <1>4, <1>5, <1>6, <2>1
<1>9. \A i \in 0 .. 7 : i \in BitsOf(m.r) <=> (i + (n - 1)) % 9 \in p
  <2>1. \A i \in 0 .. 7 : i = 0 \/ i \in 1 .. 7
    OBVIOUS
  <2> QED BY <1>7, <1>8, <2>1
<1> QED BY <1>1, <1>8, <1>9 DEF Turned

(* At the end all bits are where they were. *)
LEMMA TurnedBack ==
  ASSUME BitsOf(d["a"]) = BitsOf(task.p), C \notin cc
  PROVE  Turned(18)
<1>1. \A i \in 0 .. 7 : (i + 18) % 9 = i
  OBVIOUS
<1>2. (8 + 18) % 9 = 8 /\ 8 \notin BitsOf(task.p)
  BY DEF BitsOf
<1> QED BY <1>1, <1>2 DEF Turned

(* What a write to the data or the stack does *)
Puts(m, n, a, v) ==
  /\ n.mem[a] = v /\ n.segment = m.segment
  /\ \A addr \in Mapped \ {a} : n.mem[addr] = m.mem[addr]

LEMMA PutThere ==
  ASSUME MemoryIsThere, NEW m \in Bus, NEW a \in 0 .. 63, NEW v \in Byte
  PROVE  Written(m, a, v) \in Bus /\ Puts(m, Written(m, a, v), a, v)
<1> DEFINE n == Written(m, a, v)
<1>1. n \in Bus /\ n.mem = [m.mem EXCEPT ![a] = v] /\ n.segment = m.segment /\ a \in Mapped
  BY WrittenThere, Zenon
<1> HIDE DEF n
<1>2. m.mem \in [Mapped -> Byte]
  BY DEF Bus
<1>3. Puts(m, n, a, v)
  BY <1>1, <1>2 DEF Puts
<1> QED BY <1>1, <1>3 DEF n

LEMMA BothPut ==
  ASSUME NEW m, NEW l, NEW n, NEW a \in Mapped, NEW b \in Mapped, a # b,
         NEW v, NEW w, Puts(m, l, a, v), Puts(l, n, b, w)
  PROVE  /\ n.mem[a] = v /\ n.mem[b] = w /\ n.segment = m.segment
         /\ \A addr \in Mapped \ {a, b} : n.mem[addr] = m.mem[addr]
BY DEF Puts

(* STX and LDX of an address behind the stack *)
LEMMA StoreXStep ==
  ASSUME MachineOK, MemoryIsThere, Next, Opcode = 223, pc \in 0 .. 100,
         NEW a \in {60, 62}, RM(pc + 1) = a
  PROVE  /\ bus'.mem[a] = High(x) /\ bus'.mem[a + 1] = Low(x)
         /\ \A addr \in Mapped \ {a, a + 1} : bus'.mem[addr] = bus.mem[addr]
         /\ bus'.segment = bus.segment /\ (C \in cc' <=> C \in cc)
         /\ pc' = pc + 2 /\ UNCHANGED <<x, s, d, wai_state>>
<1>1. DirectXRow
  BY LegalOpcodes, RowOf
<1>2. DIRECT.ea = a /\ DIRECT.next = pc + 2
  BY Following DEF DIRECT
<1>3. /\ bus' = WM16(bus, a, x) /\ cc' = CLR_NZV(cc) \union SET_NZ16(x)
      /\ pc' = pc + 2 /\ UNCHANGED <<x, s, d, wai_state>>
  BY <1>1, <1>2 DEF DirectXRow, IndexRow, LoadWord, StoreWord, Fetch
<1>4. C \in cc' <=> C \in cc
  BY <1>3 DEF CLR_NZV, SET_NZ16, When, C, N, Z, V
<1>5. High(x) \in Byte /\ Low(x) \in Byte
  BY Halves DEF MachineOK
<1> PICK high \in Byte, low \in Byte : high = High(x) /\ low = Low(x)
  BY <1>5
<1>6. Wrap(a + 1) = a + 1 /\ a \in 0 .. 63 /\ a + 1 \in 0 .. 63 /\ a # a + 1
  BY DEF Wrap
<1> PICK b : b = a + 1
  OBVIOUS
<1> DEFINE m == Written(bus, a, high)
<1>7. bus' = Written(m, b, low) /\ b \in 0 .. 63 /\ a # b
  BY <1>3, <1>6 DEF WM16
<1> HIDE DEF m
<1>8. m \in Bus /\ Puts(bus, m, a, high)
  <2>1. bus \in Bus
    BY DEF MachineOK
  <2> QED BY <1>6, <2>1, PutThere DEF m
<1>9. Puts(m, bus', b, low)
  BY <1>7, <1>8, PutThere
<1>10. a \in Mapped /\ b \in Mapped
  BY <1>6, <1>7, There
<1>11. /\ bus'.mem[a] = high /\ bus'.mem[b] = low /\ bus'.segment = bus.segment
       /\ \A addr \in Mapped \ {a, b} : bus'.mem[addr] = bus.mem[addr]
  BY <1>7, <1>8, <1>9, <1>10, BothPut
<1> QED BY <1>3, <1>4, <1>11

LEMMA LoadXBack ==
  ASSUME Next, Opcode = 222, pc \in 0 .. 100, NEW a \in {60, 62}, RM(pc + 1) = a
  PROVE  /\ x' = 256 * RM(a) + RM(a + 1) /\ (C \in cc' <=> C \in cc)
         /\ pc' = pc + 2 /\ UNCHANGED <<bus, s, d, wai_state>>
<1>1. DirectXRow
  BY LegalOpcodes, RowOf
<1>2. DIRECT.ea = a /\ DIRECT.next = pc + 2 /\ Wrap(a + 1) = a + 1
  BY Following DEF DIRECT, Wrap
<1>3. /\ x' = RM16(a) /\ cc' = CLR_NZV(cc) \union SET_NZ16(x')
      /\ pc' = pc + 2 /\ UNCHANGED <<bus, s, d, wai_state>>
  BY <1>1, <1>2 DEF DirectXRow, IndexRow, LoadWord, StoreWord, Fetch
<1>4. C \in cc' <=> C \in cc
  BY <1>3 DEF CLR_NZV, SET_NZ16, When, C, N, Z, V
<1> QED BY <1>2, <1>3, <1>4 DEF RM16

LEMMA LoadBStep ==
  ASSUME MachineOK, Next, Opcode = 198, pc \in 0 .. 100, NEW v \in Byte, RM(pc + 1) = v
  PROVE  /\ d'["b"] = v /\ d'["a"] = d["a"] /\ (C \in cc' <=> C \in cc)
         /\ pc' = pc + 2 /\ UNCHANGED <<bus, x, s, wai_state>>
<1>1. ImmediateBRow
  BY LegalOpcodes, RowOf
<1>2. Column = 6 /\ IMM8.ea = pc + 1 /\ IMM8.next = pc + 2
  BY Following DEF Column, IMM8
<1>3. d \in Accumulators /\ v % 256 = v
  BY DEF MachineOK, Byte
<1>4. Alu(6, d["b"], v, cc) = [r |-> v, cc |-> CLR_NZV(cc) \union SET_NZ8(v)]
  <2>1. Alu(6, d["b"], v, cc) = Logic(v, cc)
    BY DEF Alu
  <2> QED BY <1>3, <2>1 DEF Logic, Result
<1>5. /\ cc' = CLR_NZV(cc) \union SET_NZ8(v) /\ d' = [d EXCEPT !["b"] = v]
      /\ pc' = pc + 2 /\ UNCHANGED <<bus, x, s, wai_state>>
  <2> PICK m : m = Alu(6, d["b"], v, cc)
    OBVIOUS
  <2>1. /\ cc' = m.cc /\ d' = IF 6 \in Keeping THEN d ELSE [d EXCEPT !["b"] = m.r]
        /\ bus' = IF 6 = 7 THEN Written(bus, pc + 1, d["b"]) ELSE bus
        /\ pc' = pc + 2 /\ UNCHANGED <<x, s, wai_state>>
    BY <1>1, <1>2 DEF ImmediateBRow, Accumulator
  <2>2. 6 \notin Keeping /\ 6 # 7
    BY DEF Keeping
  <2>3. m.r = v /\ m.cc = CLR_NZV(cc) \union SET_NZ8(v)
    BY <1>4
  <2>4. d' = [d EXCEPT !["b"] = v] /\ bus' = bus
    BY <2>1, <2>2, <2>3
  <2> QED BY <2>1, <2>3, <2>4
<1>6. C \in cc' <=> C \in cc
  BY <1>5 DEF CLR_NZV, SET_NZ8, When, C, N, Z, V
<1> QED BY <1>3, <1>5, <1>6 DEF Accumulators

(* STAA 0,X to an LED of the digit k *)
Cursor(k, n) == 49408 + 16 * k + n

LEMMA CursorIs ==
  ASSUME NEW k \in 1 .. 6, NEW n \in 0 .. 15
  PROVE  /\ Cursor(k, n) \in DisplayAddresses /\ Wrap(Cursor(k, n)) = Cursor(k, n)
         /\ Position(Cursor(k, n)) = 6 - k /\ Segment(Cursor(k, n)) = n % 8
<1>1. /\ Cursor(k, n) \in Int /\ Cursor(k, n) \div 16 = 3088 + k
      /\ Cursor(k, n) % 8 = n % 8 /\ (3088 + k) % 8 = k /\ (6 - k) % 8 = 6 - k
  BY DEF Cursor
<1>2. 49408 <= Cursor(k, n) /\ Cursor(k, n) <= 49663
  BY DEF Cursor
<1> QED BY <1>1, <1>2 DEF DisplayAddresses, Wrap, Position, Segment

LEMMA DisplayStep ==
  ASSUME MachineOK, Next, Opcode = 167, pc \in 0 .. 100, RM(pc + 1) = 0,
         NEW k \in 1 .. 6, NEW n \in 0 .. 15, x = Cursor(k, n)
  PROVE  /\ bus'.mem = bus.mem
         /\ bus'.segment[6 - k] = IF d["a"] % 2 = 1 THEN bus.segment[6 - k] \union {n % 8}
                                  ELSE bus.segment[6 - k] \ {n % 8}
         /\ (C \in cc' <=> C \in cc)
         /\ pc' = pc + 2 /\ UNCHANGED <<x, s, d, wai_state>>
<1>1. IndexedARow
  BY LegalOpcodes, RowOf
<1>2. Column = 7
  BY DEF Column
<1> PICK addr : addr = Cursor(k, n)
  OBVIOUS
<1>3. /\ addr \in DisplayAddresses /\ Wrap(addr) = addr /\ addr \in Int
      /\ Position(addr) = 6 - k /\ Segment(addr) = n % 8
  <2>1. addr \in DisplayAddresses /\ Wrap(addr) = addr
    BY CursorIs
  <2>2. Position(addr) = 6 - k /\ Segment(addr) = n % 8
    BY CursorIs
  <2> QED BY <2>1, <2>2 DEF DisplayAddresses
<1>4. INDEXED.ea = addr /\ INDEXED.next = pc + 2
  <2>1. x + 0 = addr
    BY <1>3
  <2> QED BY <1>3, <2>1, Following DEF INDEXED
<1> PICK v \in Byte : v = d["a"]
  BY AccumulatorsHold
<1>5. /\ bus' = Written(bus, addr, v) /\ cc' = Alu(7, v, RM(addr), cc).cc
      /\ d' = d /\ pc' = pc + 2 /\ UNCHANGED <<x, s, wai_state>>
  BY <1>1, <1>2, <1>4 DEF IndexedARow, Accumulator, Keeping
<1>6. C \in cc' <=> C \in cc
  <2>1. Alu(7, v, RM(addr), cc).cc = CLR_NZV(cc) \union SET_NZ8(v)
    BY DEF Alu, Logic, Result
  <2> QED BY <1>5, <2>1 DEF CLR_NZV, SET_NZ8, When, C, N, Z, V
<1>7. /\ bus'.mem = bus.mem /\ bus'.segment = Latched(bus.segment, addr, v)
  <2>1. addr \notin Writable
    BY <1>3, MachineAssumption
  <2>2. bus' = [bus EXCEPT !.segment = Latched(@, addr, v), !.last = v]
    BY <1>3, <1>5, <2>1 DEF Written
  <2>3. bus \in Bus
    BY DEF MachineOK
  <2> QED BY <2>2, <2>3 DEF Bus
<1>8. bus.segment \in [Positions -> SUBSET Segments] /\ 6 - k \in Positions
  BY DEF MachineOK, Bus, Positions
<1>9. bus'.segment[6 - k] = IF v % 2 = 1 THEN bus.segment[6 - k] \union {n % 8}
                            ELSE bus.segment[6 - k] \ {n % 8}
  BY <1>3, <1>7, <1>8 DEF Latched
<1> QED BY <1>5, <1>6, <1>7, <1>9

(* OUTCH is asked to show bytes on the six digits. *)
DigitsAreShown ==
  \A t \in Tasks : t.name = "outch" => t.p \in Byte /\ t.q \in Byte /\ t.k \in 1 .. 6

OutchBytes == <<223, 62, 222, 60, 55, 73, 73, 198, 16, 73, 167, 0, 9, 90, 38, 249,
                223, 60, 222, 62, 51>>

LEMMA OutchImage ==
  ASSUME ProgramsAreRun, MemoryIsThere, DigitsAreShown, NEW t \in Tasks, t.name = "outch"
  PROVE  /\ Boot(t).pc = 64 /\ Boot(t).x = 40 /\ Boot(t).s = Top /\ Boot(t).cc = {}
         /\ Boot(t).d["a"] = t.p /\ Boot(t).d["b"] = t.q /\ Boot(t).code = 64 .. 84
         /\ \A i \in 1 .. 21 : Boot(t).mem[63 + i] = OutchBytes[i]
         /\ Boot(t).mem[60] = 193 /\ Boot(t).mem[61] = 16 * t.k + 15
<1> DEFINE placed == Placed(64, OutchBytes)
           address == [a \in {60, 61} |-> IF a = 60 THEN 193 ELSE 16 * t.k + 15]
           both == [a \in DOMAIN placed \union DOMAIN address |->
                      IF a \in DOMAIN placed THEN placed[a] ELSE address[a]]
           image == Image(both, <<>>)
<1>1. Boot(t) = [Machine(image, DOMAIN placed, t.p, t.q, {}) EXCEPT !.pc = 64]
  BY DEF ProgramsAreRun, Program, Outch, OutchBytes
<1>2. Len(OutchBytes) = 21
  BY DEF OutchBytes
<1>3. DOMAIN placed = 64 .. 84 /\ \A i \in 1 .. 21 : placed[63 + i] = OutchBytes[i]
  BY <1>2 DEF Placed
<1>4. DOMAIN address = {60, 61} /\ address[60] = 193 /\ address[61] = 16 * t.k + 15
  OBVIOUS
<1> HIDE DEF placed, address
<1>5. /\ DOMAIN both = 64 .. 84 \union {60, 61}
      /\ \A a \in 64 .. 84 : both[a] = placed[a]
      /\ both[60] = 193 /\ both[61] = 16 * t.k + 15
  BY <1>3, <1>4
<1> HIDE DEF both
<1>6. \A a \in 64 .. 84 \union {60, 61} : image[a] = both[a]
  <2>1. 64 .. 84 \union {60, 61} \subseteq 0 .. 84
    OBVIOUS
  <2>2. \A a \in 64 .. 84 \union {60, 61} : a \in Mapped \cap DOMAIN both
    BY <1>5, <2>1, There
  <2> QED BY <2>2, ImageIs
<1>7. /\ Boot(t).pc = 64 /\ Boot(t).x = 40 /\ Boot(t).s = Top /\ Boot(t).cc = {}
      /\ Boot(t).d["a"] = t.p /\ Boot(t).d["b"] = t.q /\ Boot(t).code = DOMAIN placed
      /\ Boot(t).mem = image
  BY <1>1 DEF Machine
<1> HIDE DEF image
<1>8. \A i \in 1 .. 21 : image[63 + i] = OutchBytes[i]
  <2> TAKE i \in 1 .. 21
  <2>1. 63 + i \in 64 .. 84
    OBVIOUS
  <2> QED BY <1>3, <1>5, <1>6, <2>1
<1> QED BY <1>3, <1>5, <1>6, <1>7, <1>8

(* The program, as the CPU reads it *)
OutchCode(m) ==
  /\ m[64] = 223 /\ m[65] = 62 /\ m[66] = 222 /\ m[67] = 60 /\ m[68] = 55
  /\ m[69] = 73 /\ m[70] = 73 /\ m[71] = 198 /\ m[72] = 16 /\ m[73] = 73
  /\ m[74] = 167 /\ m[75] = 0 /\ m[76] = 9 /\ m[77] = 90 /\ m[78] = 38 /\ m[79] = 249
  /\ m[80] = 223 /\ m[81] = 60 /\ m[82] = 222 /\ m[83] = 62 /\ m[84] = 51

LEMMA OutchReads ==
  ASSUME ProgramsAreRun, MemoryIsThere, DigitsAreShown, Kept, task.name = "outch"
  PROVE  OutchCode(Seen) /\ code = 64 .. 84
<1>1. /\ task \in Tasks /\ code = 64 .. 84
      /\ \A i \in 1 .. 21 : Boot(task).mem[63 + i] = OutchBytes[i]
  BY OutchImage DEF Kept
<1>2. ASSUME NEW i \in 1 .. 21 PROVE Seen[63 + i] = OutchBytes[i]
  <2>1. 63 + i \in code /\ 63 + i \in 0 .. 84
    BY <1>1
  <2>2. RM(63 + i) = Boot(task).mem[63 + i]
    BY <2>1 DEF Kept, RM
  <2> QED BY <1>1, <2>1, <2>2 DEF Seen
<1>3. /\ Seen[63 + 1] = OutchBytes[1] /\ Seen[63 + 2] = OutchBytes[2]
      /\ Seen[63 + 3] = OutchBytes[3] /\ Seen[63 + 4] = OutchBytes[4]
      /\ Seen[63 + 5] = OutchBytes[5] /\ Seen[63 + 6] = OutchBytes[6]
      /\ Seen[63 + 7] = OutchBytes[7] /\ Seen[63 + 8] = OutchBytes[8]
      /\ Seen[63 + 9] = OutchBytes[9] /\ Seen[63 + 10] = OutchBytes[10]
      /\ Seen[63 + 11] = OutchBytes[11] /\ Seen[63 + 12] = OutchBytes[12]
      /\ Seen[63 + 13] = OutchBytes[13] /\ Seen[63 + 14] = OutchBytes[14]
      /\ Seen[63 + 15] = OutchBytes[15] /\ Seen[63 + 16] = OutchBytes[16]
      /\ Seen[63 + 17] = OutchBytes[17] /\ Seen[63 + 18] = OutchBytes[18]
      /\ Seen[63 + 19] = OutchBytes[19] /\ Seen[63 + 20] = OutchBytes[20]
      /\ Seen[63 + 21] = OutchBytes[21]
  BY <1>2
<1>4. OutchCode(Seen)
  BY <1>3 DEF OutchBytes, OutchCode
<1> QED BY <1>1, <1>4

LEMMA SeenIs == ASSUME NEW a \in 0 .. 84 PROVE Seen[a] = RM(a)
BY DEF Seen

(* What is in memory: the address of LED n of the digit, and X as it was *)
Pointer(n) == bus.mem[60] = 193 /\ bus.mem[61] = 16 * task.k + n
XKept == bus.mem[62] = 0 /\ bus.mem[63] = 40

(* From LED left on, the LEDs of the digit are as the bits of the task say. *)
Lit(left) ==
  \A i \in 0 .. 7 :
    i >= left => (i \in bus.segment[6 - task.k] <=> i \in BitsOf(task.p))

(* Before the first push, and in the loop: the rotations to go, the LED X is at,
   and those that are lit *)
OutchEnters(address) ==
  pc = address /\ Turned(18) /\ d["b"] = task.q /\ StackIs(<<>>)
OutchAt(address, turns, n, left) ==
  /\ pc = address /\ Turned(turns) /\ x = Cursor(task.k, n) /\ Lit(left)
  /\ XKept /\ StackIs(<<task.q>>)
OutchEnds(address) == pc = address /\ Lit(0) /\ Pointer(-1)

OutchPoint ==
  \/ OutchEnters(64) /\ x = 40 /\ Pointer(15)
  \/ OutchEnters(66) /\ XKept /\ Pointer(15)
  \/ OutchEnters(68) /\ XKept /\ x = Cursor(task.k, 15)
  \/ OutchAt(69, 18, 15, 16)
  \/ OutchAt(70, 17, 15, 16)
  \/ OutchAt(71, 16, 15, 16)
  \/ \E n \in 0 .. 15 :
       /\ d["b"] = n + 1
       /\ \/ OutchAt(73, n + 1, n, n + 1)
          \/ OutchAt(74, n, n, n + 1)
          \/ OutchAt(76, n, n, n)
          \/ OutchAt(77, n, n - 1, n)
  \/ \E n \in 0 .. 15 :
       d["b"] = n /\ OutchAt(78, n, n - 1, n) /\ (Z \in cc <=> n = 0)
  \/ OutchAt(80, 0, -1, 0)
  \/ OutchEnds(82) /\ XKept /\ StackIs(<<task.q>>)
  \/ OutchEnds(84) /\ x = 40 /\ StackIs(<<task.q>>)
  \/ OutchEnds(85) /\ x = 40 /\ StackIs(<<>>) /\ d["b"] = task.q

OutchInv == task.name = "outch" => Kept /\ OutchPoint

LEMMA OutchBoots ==
  ASSUME ProgramsAreRun, MemoryIsThere, DigitsAreShown, MachineOK PROVE Init => OutchInv
<1> SUFFICES ASSUME Init, task.name = "outch" PROVE OutchInv
  BY DEF OutchInv
<1>1. /\ task \in Tasks /\ pc = Boot(task).pc /\ d = Boot(task).d /\ cc = Boot(task).cc
      /\ x = Boot(task).x /\ s = Boot(task).s
      /\ code = Boot(task).code /\ bus.mem = Boot(task).mem /\ ~wai_state
  BY DEF Init
<1>2. StackIs(<<>>)
  <2>1. s = Top /\ Stack \in Pushed /\ Stack.s = s
    BY <1>1, OutchImage DEF Stack, Pushed, MachineOK
  <2>2. <<>> \in Seq(Byte) /\ Len(<<>>) = 0 /\ Top = 31
    BY DEF Top
  <2> QED BY <2>1, <2>2 DEF StackIs, StackHolds
<1>3. Kept
  <2>1. code = 64 .. 84
    BY <1>1, OutchImage
  <2>2. \A a \in 64 .. 84 : a \in 0 .. 84 /\ a > Top
    BY DEF Top
  <2> QED BY <1>1, <2>1, <2>2, There DEF Kept
<1>4. /\ pc = 64 /\ x = 40 /\ cc = {} /\ d["a"] = task.p /\ d["b"] = task.q
      /\ bus.mem[60] = 193 /\ bus.mem[61] = 16 * task.k + 15
  BY <1>1, OutchImage
<1>5. OutchEnters(64) /\ Pointer(15)
  BY <1>2, <1>4, TurnedBack DEF OutchEnters, Pointer
<1> QED BY <1>3, <1>4, <1>5 DEF OutchInv, OutchPoint

LEMMA StackStays ==
  ASSUME MachineOK', NEW stack, StackIs(stack), s' = s,
         \A addr \in 0 .. Top : bus'.mem[addr] = bus.mem[addr]
  PROVE  StackIs(stack)'
<1>1. /\ stack \in Seq(Byte) /\ s = Top - Len(stack)
      /\ \A i \in 1 .. Len(stack) : bus.mem[Top + 1 - i] = stack[i]
  BY DEF StackIs, StackHolds, Stack
<1>2. Stack' \in Pushed /\ Stack'.s = s /\ Stack'.bus = bus'
  BY DEF Stack, Pushed, MachineOK
<1>3. s \in Word
  BY <1>2 DEF Pushed
<1>4. ASSUME NEW i \in 1 .. Len(stack) PROVE bus'.mem[Top + 1 - i] = stack[i]
  <2> PICK length \in Nat : length = Len(stack)
    BY <1>1
  <2>1. s \in Int /\ 0 <= s
    BY <1>3, Words16
  <2>2. i \in Int /\ 1 <= i /\ i <= length /\ s = Top - length /\ Top = 31
    BY <1>1 DEF Top
  <2>3. Top + 1 - i \in 0 .. Top
    BY <2>1, <2>2
  <2> QED BY <1>1, <2>3
<1> QED BY <1>1, <1>2, <1>4 DEF StackIs, StackHolds

LEMMA TurnedStays ==
  ASSUME NEW n, Turned(n), Next, d'["a"] = d["a"], C \in cc' <=> C \in cc
  PROVE  Turned(n)'
BY TaskKept DEF Turned

(* In the loop, but for the write, only registers change. *)
LEMMA OutchGoes ==
  ASSUME MachineOK', Next, NEW from, NEW turned, NEW at, NEW left,
         OutchAt(from, turned, at, left), task.q \in Byte, bus' = bus, s' = s,
         NEW address, pc' = address, NEW turns, Turned(turns)',
         NEW n, x' = Cursor(task.k, n)
  PROVE  OutchAt(address, turns, n, left)'
<1> PICK q : q = task.q
  OBVIOUS
<1>1. StackIs(<<q>>) /\ task' = task /\ Lit(left) /\ XKept
  BY TaskKept DEF OutchAt
<1>2. StackIs(<<q>>)'
  BY <1>1, StackStays
<1>3. Lit(left)' /\ XKept'
  BY <1>1 DEF Lit, XKept
<1> QED BY <1>1, <1>2, <1>3 DEF OutchAt

LEMMA CursorMoves ==
  ASSUME NEW k \in 1 .. 6, NEW n \in 0 .. 15
  PROVE  Wrap(Cursor(k, n) - 1) = Cursor(k, n - 1)
<1>1. Cursor(k, n) - 1 = Cursor(k, n - 1) /\ Cursor(k, n - 1) \in Int
      /\ 0 <= Cursor(k, n - 1) /\ Cursor(k, n - 1) <= 65535
  BY DEF Cursor
<1> QED BY <1>1 DEF Wrap

LEMMA CursorBytes ==
  ASSUME NEW k \in 1 .. 6
  PROVE  High(Cursor(k, -1)) = 193 /\ Low(Cursor(k, -1)) = 16 * k + -1
         /\ 256 * 193 + (16 * k + 15) = Cursor(k, 15)
<1>1. /\ Cursor(k, -1) \in Int /\ Cursor(k, -1) = 256 * 193 + (16 * k - 1)
      /\ 0 <= 16 * k - 1 /\ 16 * k - 1 <= 255
  BY DEF Cursor
<1>2. Cursor(k, -1) \div 256 = 193 /\ Cursor(k, -1) % 256 = 16 * k - 1 /\ 193 % 256 = 193
  BY <1>1
<1>3. 256 * 193 + (16 * k + 15) = Cursor(k, 15)
  BY DEF Cursor
<1> QED BY <1>2, <1>3 DEF High, Low

(* DECB *)
LEMMA CountBStep ==
  ASSUME MachineOK, Next, Opcode = 90, pc \in 0 .. 100, NEW n \in 0 .. 15, d["b"] = n + 1
  PROVE  /\ d'["b"] = n /\ d'["a"] = d["a"] /\ (Z \in cc' <=> n = 0)
         /\ (C \in cc' <=> C \in cc) /\ pc' = pc + 1 /\ UNCHANGED <<bus, x, s, wai_state>>
<1> DEFINE m == Modify(10, d["b"], cc)
<1>1. /\ cc' = m.cc /\ d'["b"] = m.r /\ d'["a"] = d["a"] /\ pc' = pc + 1
      /\ UNCHANGED <<bus, x, s, wai_state>>
  BY ModifyBStep
<1>2. (n + 1 - 1) % 256 = n /\ n % 256 = n
  OBVIOUS
<1>3. m.r = n /\ m.cc = CLR_NZV(cc) \union SET_FLAGS8D(n)
  BY <1>2 DEF Modify, Result
<1> HIDE DEF m
<1>4. (C \in m.cc <=> C \in cc) /\ (Z \in m.cc <=> n = 0)
  BY <1>2, <1>3 DEF CLR_NZV, SET_FLAGS8D, SET_NZ8, When, C, N, Z, V
<1> QED BY <1>1, <1>3, <1>4

(* The write sets LED n, from LED 7 on. *)
LEMMA LedIsSet ==
  ASSUME NEW n \in 0 .. 15, NEW p, NEW a, NEW old, NEW new,
         a <=> n % 9 \in p,
         new = IF a THEN old \union {n % 8} ELSE old \ {n % 8},
         \A i \in 0 .. 7 : i >= n + 1 => (i \in old <=> i \in p)
  PROVE  \A i \in 0 .. 7 : i >= n => (i \in new <=> i \in p)
<1> TAKE i \in 0 .. 7
<1>1. CASE i = n
  <2>1. n % 8 = n /\ n % 9 = n
    BY <1>1
  <2> QED BY <1>1, <2>1
<1>2. CASE i >= n + 1
  <2>1. n % 8 = n /\ n # i
    BY <1>2
  <2> QED BY <1>2, <2>1
<1> QED BY <1>1, <1>2

(* What every step of OUTCH leaves alone *)
OutchGoesOn ==
  wai_state' = wai_state /\ \A addr \in 64 .. 84 : bus'.mem[addr] = bus.mem[addr]

LEMMA OutchEntered ==
  ASSUME ProgramsAreRun, MemoryIsThere, DigitsAreShown, MachineOK, MachineOK', Next,
         Kept, task.name = "outch",
         \/ OutchEnters(64) /\ x = 40 /\ Pointer(15)
         \/ OutchEnters(66) /\ XKept /\ Pointer(15)
         \/ OutchEnters(68) /\ XKept /\ x = Cursor(task.k, 15)
  PROVE  OutchPoint' /\ OutchGoesOn
<1>1. OutchCode(Seen) /\ task' = task /\ task \in Tasks
  BY OutchReads, TaskKept DEF Kept
<1>2. /\ RM(64) = 223 /\ RM(65) = 62 /\ RM(66) = 222 /\ RM(67) = 60 /\ RM(68) = 55
  BY <1>1, SeenIs DEF OutchCode
<1> PICK k \in 1 .. 6, q \in Byte : k = task.k /\ q = task.q
  BY <1>1 DEF DigitsAreShown
<1>3. \A addr \in 0 .. 84 : addr \in Mapped
  BY There
<1>4. \A addr \in 0 .. Top : addr \in 0 .. 84 /\ addr \notin {62, 63}
  BY DEF Top
<1>5. CASE OutchEnters(64) /\ x = 40 /\ Pointer(15)
  <2>1. Opcode = 223 /\ pc \in 0 .. 100 /\ RM(pc + 1) = 62
    BY <1>2, <1>5 DEF OutchEnters, Opcode
  <2>2. /\ bus'.mem[62] = High(40) /\ bus'.mem[62 + 1] = Low(40)
        /\ \A addr \in Mapped \ {62, 62 + 1} : bus'.mem[addr] = bus.mem[addr]
        /\ (C \in cc' <=> C \in cc)
        /\ pc' = pc + 2 /\ UNCHANGED <<x, s, d, wai_state>>
    BY <1>5, <2>1, StoreXStep
  <2>3. XKept'
    BY <2>2 DEF XKept, High, Low
  <2>4. \A addr \in 0 .. 84 : addr \notin {62, 63} => bus'.mem[addr] = bus.mem[addr]
    BY <1>3, <2>2
  <2>5. StackIs(<<>>)'
    <3>1. \A addr \in 0 .. Top : bus'.mem[addr] = bus.mem[addr]
      BY <1>4, <2>4
    <3>2. StackIs(<<>>) /\ s' = s
      BY <1>5, <2>2 DEF OutchEnters
    <3> QED BY <3>1, <3>2, StackStays
  <2>6. Turned(18)'
    BY <1>5, <2>2, TurnedStays DEF OutchEnters
  <2>7. OutchEnters(66)' /\ Pointer(15)'
    <3>1. bus'.mem[60] = bus.mem[60] /\ bus'.mem[61] = bus.mem[61]
      BY <2>4
    <3>2. Pointer(15)'
      BY <1>1, <1>5, <3>1 DEF Pointer
    <3>3. pc' = 66 /\ d' = d
      BY <1>5, <2>2 DEF OutchEnters
    <3> QED BY <1>1, <1>5, <2>5, <2>6, <3>2, <3>3 DEF OutchEnters
  <2> QED BY <2>2, <2>3, <2>4, <2>7 DEF OutchPoint, OutchGoesOn
<1>6. CASE OutchEnters(66) /\ XKept /\ Pointer(15)
  <2>1. Opcode = 222 /\ pc \in 0 .. 100 /\ RM(pc + 1) = 60
    BY <1>2, <1>6 DEF OutchEnters, Opcode
  <2>2. /\ x' = 256 * RM(60) + RM(60 + 1) /\ (C \in cc' <=> C \in cc)
        /\ pc' = pc + 2 /\ UNCHANGED <<bus, s, d, wai_state>>
    BY <2>1, LoadXBack
  <2>3. x' = Cursor(k, 15)
    <3>1. RM(60) = 193 /\ RM(61) = 16 * k + 15
      BY <1>3, <1>6 DEF RM, Pointer
    <3> QED BY <2>2, <3>1, CursorBytes
  <2>4. StackIs(<<>>)'
    BY <1>6, <2>2, StackStays DEF OutchEnters
  <2>5. Turned(18)'
    BY <1>6, <2>2, TurnedStays DEF OutchEnters
  <2>6. OutchEnters(68)' /\ XKept'
    BY <1>1, <1>6, <2>2, <2>4, <2>5 DEF OutchEnters, XKept
  <2> QED BY <1>1, <2>2, <2>3, <2>6 DEF OutchPoint, OutchGoesOn
<1>7. CASE OutchEnters(68) /\ XKept /\ x = Cursor(task.k, 15)
  <2>1. Opcode = 55 /\ pc = 68 /\ StackIs(<<>>) /\ d["b"] = q
    BY <1>2, <1>7 DEF OutchEnters, Opcode
  <2>2. /\ StackIs(Append(<<>>, q))' /\ SameBehind(bus', bus)
        /\ pc' = Wrap(pc + 1) /\ UNCHANGED <<x, d, cc, wai_state>>
    <3>1. Len(<<>>) < Top
      BY DEF Top
    <3> QED BY <2>1, <3>1, PushStep
  <2>3. pc' = 69 /\ Append(<<>>, q) = <<q>>
    BY <2>1, <2>2 DEF Wrap
  <2>4. \A addr \in 32 .. 84 : bus'.mem[addr] = bus.mem[addr]
    <3>1. \A addr \in 32 .. 84 : addr \in 0 .. 84 /\ addr > Top
      BY DEF Top
    <3> QED BY <1>3, <2>2, <3>1 DEF SameBehind
  <2>5. XKept' /\ Lit(16)'
    BY <1>7, <2>4 DEF XKept, Lit
  <2>6. Turned(18)'
    BY <1>7, <2>2, TurnedStays DEF OutchEnters
  <2>7. OutchAt(69, 18, 15, 16)'
    BY <1>1, <1>7, <2>2, <2>3, <2>5, <2>6 DEF OutchAt
  <2> QED BY <2>2, <2>4, <2>7 DEF OutchPoint, OutchGoesOn
<1> QED BY <1>5, <1>6, <1>7

LEMMA OutchBegins ==
  ASSUME ProgramsAreRun, MemoryIsThere, DigitsAreShown, MachineOK, MachineOK', Next,
         Kept, task.name = "outch",
         \/ OutchAt(69, 18, 15, 16) \/ OutchAt(70, 17, 15, 16) \/ OutchAt(71, 16, 15, 16)
  PROVE  OutchPoint' /\ OutchGoesOn
<1>1. OutchCode(Seen) /\ task' = task /\ task \in Tasks
  BY OutchReads, TaskKept DEF Kept
<1>2. /\ RM(69) = 73 /\ RM(70) = 73 /\ RM(71) = 198 /\ RM(72) = 16
  BY <1>1, SeenIs DEF OutchCode
<1>3. task.q \in Byte
  BY <1>1 DEF DigitsAreShown
<1>4. CASE OutchAt(69, 18, 15, 16)
  <2>1. Opcode = 73 /\ pc = 69 /\ Turned(18) /\ x = Cursor(task.k, 15)
    BY <1>2, <1>4 DEF OutchAt, Opcode
  <2>2. Turned(18 - 1)' /\ pc' = pc + 1 /\ UNCHANGED <<bus, x, s, wai_state>>
    BY <2>1, TurnStep
  <2>3. Turned(17)' /\ pc' = 70
    BY <2>1, <2>2
  <2>4. OutchAt(70, 17, 15, 16)'
    BY <1>3, <1>4, <2>1, <2>2, <2>3, OutchGoes
  <2> QED BY <2>2, <2>4 DEF OutchPoint, OutchGoesOn
<1>5. CASE OutchAt(70, 17, 15, 16)
  <2>1. Opcode = 73 /\ pc = 70 /\ Turned(17) /\ x = Cursor(task.k, 15)
    BY <1>2, <1>5 DEF OutchAt, Opcode
  <2>2. Turned(17 - 1)' /\ pc' = pc + 1 /\ UNCHANGED <<bus, x, s, wai_state>>
    BY <2>1, TurnStep
  <2>3. Turned(16)' /\ pc' = 71
    BY <2>1, <2>2
  <2>4. OutchAt(71, 16, 15, 16)'
    BY <1>3, <1>5, <2>1, <2>2, <2>3, OutchGoes
  <2> QED BY <2>2, <2>4 DEF OutchPoint, OutchGoesOn
<1>6. CASE OutchAt(71, 16, 15, 16)
  <2>1. Opcode = 198 /\ pc = 71 /\ RM(pc + 1) = 16 /\ Turned(16) /\ x = Cursor(task.k, 15)
    BY <1>2, <1>6 DEF OutchAt, Opcode
  <2>2. /\ d'["b"] = 16 /\ d'["a"] = d["a"] /\ (C \in cc' <=> C \in cc)
        /\ pc' = pc + 2 /\ UNCHANGED <<bus, x, s, wai_state>>
    <3>1. 16 \in Byte
      BY DEF Byte
    <3> QED BY <2>1, <3>1, LoadBStep
  <2>3. Turned(16)' /\ pc' = 73
    BY <2>1, <2>2, TurnedStays
  <2>4. OutchAt(73, 16, 15, 16)'
    BY <1>3, <1>6, <2>1, <2>2, <2>3, OutchGoes
  <2>5. \E n \in 0 .. 15 : d'["b"] = n + 1 /\ OutchAt(73, n + 1, n, n + 1)'
    <3>1. 15 \in 0 .. 15 /\ 15 + 1 = 16
      OBVIOUS
    <3> QED BY <2>2, <2>4, <3>1
  <2> QED BY <2>2, <2>5 DEF OutchPoint, OutchGoesOn
<1> QED BY <1>4, <1>5, <1>6

LEMMA OutchLoops ==
  ASSUME ProgramsAreRun, MemoryIsThere, DigitsAreShown, MachineOK, MachineOK', Next,
         Kept, task.name = "outch", NEW n \in 0 .. 15, d["b"] = n + 1,
         \/ OutchAt(73, n + 1, n, n + 1) \/ OutchAt(74, n, n, n + 1)
         \/ OutchAt(76, n, n, n) \/ OutchAt(77, n, n - 1, n)
  PROVE  OutchPoint' /\ OutchGoesOn
<1>1. OutchCode(Seen) /\ task' = task /\ task \in Tasks
  BY OutchReads, TaskKept DEF Kept
<1>2. RM(73) = 73 /\ RM(74) = 167 /\ RM(75) = 0 /\ RM(76) = 9 /\ RM(77) = 90
  BY <1>1, SeenIs DEF OutchCode
<1>3. task.q \in Byte
  BY <1>1 DEF DigitsAreShown
<1> PICK k \in 1 .. 6 : k = task.k
  BY <1>1 DEF DigitsAreShown
<1>4. CASE OutchAt(73, n + 1, n, n + 1)
  <2>1. Opcode = 73 /\ pc = 73 /\ Turned(n + 1) /\ x = Cursor(task.k, n)
    BY <1>2, <1>4 DEF OutchAt, Opcode
  <2>2. /\ Turned(n + 1 - 1)' /\ d'["b"] = d["b"] /\ pc' = pc + 1
        /\ UNCHANGED <<bus, x, s, wai_state>>
    <3>1. n + 1 \in 1 .. 18
      OBVIOUS
    <3> QED BY <2>1, <3>1, TurnStep
  <2>3. Turned(n)' /\ pc' = 74
    <3>1. n + 1 - 1 = n
      OBVIOUS
    <3> QED BY <2>1, <2>2, <3>1
  <2>4. OutchAt(74, n, n, n + 1)'
    BY <1>1, <1>3, <1>4, <2>1, <2>2, <2>3, OutchGoes
  <2>5. d'["b"] = n + 1
    BY <2>2
  <2> QED BY <2>2, <2>4, <2>5 DEF OutchPoint, OutchGoesOn
<1>5. CASE OutchAt(74, n, n, n + 1)
  <2>1. Opcode = 167 /\ pc = 74 /\ RM(pc + 1) = 0 /\ Turned(n) /\ x = Cursor(k, n)
        /\ StackIs(<<task.q>>)
    BY <1>2, <1>5 DEF OutchAt, Opcode
  <2>2. /\ bus'.mem = bus.mem
        /\ bus'.segment[6 - k] = IF d["a"] % 2 = 1 THEN bus.segment[6 - k] \union {n % 8}
                                 ELSE bus.segment[6 - k] \ {n % 8}
        /\ (C \in cc' <=> C \in cc)
        /\ pc' = pc + 2 /\ UNCHANGED <<x, s, d, wai_state>>
    <3>1. pc \in 0 .. 100
      BY <2>1
    <3> QED BY <2>1, <3>1, DisplayStep
  <2>3. d["a"] % 2 = 1 <=> n % 9 \in BitsOf(task.p)
    <3>1. d["a"] \in Byte /\ 0 \in 0 .. 7 /\ 0 + n = n
      BY AccumulatorsHold
    <3>2. 0 \in BitsOf(d["a"]) <=> n % 9 \in BitsOf(task.p)
      BY <2>1, <3>1 DEF Turned
    <3> QED BY <3>1, <3>2, LastBit
  <2>4. Lit(n)'
    <3> PICK p, old, new : p = BitsOf(task.p) /\ old = bus.segment[6 - k]
                           /\ new = bus'.segment[6 - k]
      OBVIOUS
    <3>1. \A i \in 0 .. 7 : i >= n + 1 => (i \in old <=> i \in p)
      BY <1>5 DEF OutchAt, Lit
    <3>2. new = IF n % 9 \in p THEN old \union {n % 8} ELSE old \ {n % 8}
      BY <2>2, <2>3
    <3>3. \A i \in 0 .. 7 : i >= n => (i \in new <=> i \in p)
      BY <3>1, <3>2, LedIsSet
    <3> QED BY <1>1, <3>3 DEF Lit
  <2>5. Turned(n)'
    BY <2>1, <2>2, TurnedStays
  <2>6. StackIs(<<task.q>>)'
    <3> PICK q : q = task.q
      OBVIOUS
    <3>1. StackIs(<<q>>)'
      BY <2>1, <2>2, StackStays
    <3> QED BY <1>1, <3>1
  <2>7. XKept'
    BY <1>5, <2>2 DEF OutchAt, XKept
  <2>8. OutchAt(76, n, n, n)'
    BY <1>1, <2>1, <2>2, <2>4, <2>5, <2>6, <2>7 DEF OutchAt
  <2>9. d'["b"] = n + 1
    BY <2>2
  <2> QED BY <2>2, <2>8, <2>9 DEF OutchPoint, OutchGoesOn
<1>6. CASE OutchAt(76, n, n, n)
  <2>1. Opcode = 9 /\ pc = 76 /\ Turned(n) /\ x = Cursor(k, n)
    BY <1>2, <1>6 DEF OutchAt, Opcode
  <2>2. /\ x' = Wrap(x - 1) /\ Carry(cc') = Carry(cc) /\ pc' = pc + 1
        /\ UNCHANGED <<bus, d, s, wai_state>>
    BY <2>1, CountStep
  <2>3. x' = Cursor(task.k, n - 1) /\ pc' = 77
    BY <2>1, <2>2, CursorMoves
  <2>4. Turned(n)'
    <3>1. C \in cc' <=> C \in cc
      BY <2>2 DEF Carry
    <3> QED BY <2>1, <2>2, <3>1, TurnedStays
  <2>5. OutchAt(77, n, n - 1, n)'
    BY <1>1, <1>3, <1>6, <2>1, <2>2, <2>3, <2>4, OutchGoes
  <2>6. d'["b"] = n + 1
    BY <2>2
  <2> QED BY <2>2, <2>5, <2>6 DEF OutchPoint, OutchGoesOn
<1>7. CASE OutchAt(77, n, n - 1, n)
  <2>1. Opcode = 90 /\ pc = 77 /\ Turned(n) /\ x = Cursor(task.k, n - 1)
    BY <1>2, <1>7 DEF OutchAt, Opcode
  <2>2. /\ d'["b"] = n /\ d'["a"] = d["a"] /\ (Z \in cc' <=> n = 0)
        /\ (C \in cc' <=> C \in cc) /\ pc' = pc + 1 /\ UNCHANGED <<bus, x, s, wai_state>>
    BY <2>1, CountBStep
  <2>3. Turned(n)' /\ pc' = 78
    BY <2>1, <2>2, TurnedStays
  <2>4. OutchAt(78, n, n - 1, n)'
    BY <1>1, <1>3, <1>7, <2>1, <2>2, <2>3, OutchGoes
  <2> QED BY <2>2, <2>4 DEF OutchPoint, OutchGoesOn
<1> QED BY <1>4, <1>5, <1>6, <1>7

LEMMA OutchBranches ==
  ASSUME ProgramsAreRun, MemoryIsThere, DigitsAreShown, MachineOK, MachineOK', Next,
         Kept, task.name = "outch", NEW n \in 0 .. 15, d["b"] = n,
         OutchAt(78, n, n - 1, n), Z \in cc <=> n = 0
  PROVE  OutchPoint' /\ OutchGoesOn
<1>1. OutchCode(Seen) /\ task' = task /\ task \in Tasks
  BY OutchReads, TaskKept DEF Kept
<1>2. RM(78) = 38 /\ RM(79) = 249
  BY <1>1, SeenIs DEF OutchCode
<1>3. task.q \in Byte
  BY <1>1 DEF DigitsAreShown
<1>4. Opcode = 38 /\ pc = 78 /\ RM(pc + 1) = 249 /\ Turned(n) /\ x = Cursor(task.k, n - 1)
  BY <1>2 DEF OutchAt, Opcode
<1>5. SIGNED(249) = -7 /\ 249 \in Byte
  BY DEF SIGNED, Byte
<1>6. /\ pc' = IF Z \notin cc THEN 73 ELSE 80
      /\ UNCHANGED <<x, s, d, cc, bus, wai_state>>
  <2>1. pc + 2 + SIGNED(249) = 73 /\ 73 \in 0 .. 100 /\ pc + 2 = 80 /\ 78 \in 0 .. 100
    BY <1>4, <1>5
  <2> QED BY <1>4, <1>5, <2>1, BranchStep
<1>7. Turned(n)' /\ x' = Cursor(task.k, n - 1)
  BY <1>4, <1>6, TurnedStays
<1>8. CASE n = 0
  <2>1. pc' = 80 /\ 0 - 1 = -1
    BY <1>6, <1>8
  <2>2. OutchAt(80, 0, 0 - 1, 0)'
    BY <1>1, <1>3, <1>6, <1>7, <1>8, <2>1, OutchGoes
  <2>3. OutchAt(80, 0, -1, 0)'
    BY <2>1, <2>2
  <2> QED BY <1>6, <2>3 DEF OutchPoint, OutchGoesOn
<1>9. CASE n # 0
  <2> PICK m \in 0 .. 15 : n = m + 1 /\ m = n - 1
    BY <1>9
  <2>1. pc' = 73
    BY <1>6, <1>9
  <2>2. OutchAt(73, n, m, n)'
    BY <1>1, <1>3, <1>6, <1>7, <2>1, OutchGoes
  <2>3. d'["b"] = m + 1 /\ OutchAt(73, m + 1, m, m + 1)'
    BY <1>6, <2>2
  <2> QED BY <1>6, <2>3 DEF OutchPoint, OutchGoesOn
<1> QED BY <1>8, <1>9

LEMMA OutchLeaves ==
  ASSUME ProgramsAreRun, MemoryIsThere, DigitsAreShown, MachineOK, MachineOK', Next,
         Kept, task.name = "outch",
         \/ OutchAt(80, 0, -1, 0)
         \/ OutchEnds(82) /\ XKept /\ StackIs(<<task.q>>)
         \/ OutchEnds(84) /\ x = 40 /\ StackIs(<<task.q>>)
  PROVE  OutchPoint' /\ OutchGoesOn
<1>1. OutchCode(Seen) /\ task' = task /\ task \in Tasks
  BY OutchReads, TaskKept DEF Kept
<1>2. RM(80) = 223 /\ RM(81) = 60 /\ RM(82) = 222 /\ RM(83) = 62 /\ RM(84) = 51
  BY <1>1, SeenIs DEF OutchCode
<1> PICK k \in 1 .. 6, q \in Byte : k = task.k /\ q = task.q
  BY <1>1 DEF DigitsAreShown
<1>3. \A addr \in 0 .. 84 : addr \in Mapped
  BY There
<1>4. CASE OutchAt(80, 0, -1, 0)
  <2>1. /\ Opcode = 223 /\ pc = 80 /\ pc \in 0 .. 100 /\ RM(pc + 1) = 60
        /\ x = Cursor(k, -1) /\ Lit(0) /\ XKept /\ StackIs(<<q>>)
    BY <1>2, <1>4 DEF OutchAt, Opcode
  <2>2. /\ bus'.mem[60] = High(x) /\ bus'.mem[60 + 1] = Low(x)
        /\ \A addr \in Mapped \ {60, 60 + 1} : bus'.mem[addr] = bus.mem[addr]
        /\ bus'.segment = bus.segment
        /\ pc' = pc + 2 /\ UNCHANGED <<x, s, d, wai_state>>
    BY <2>1, StoreXStep
  <2>3. Pointer(-1)'
    <3>1. High(x) = 193 /\ Low(x) = 16 * k + -1
      BY <2>1, CursorBytes
    <3>2. bus'.mem[60] = 193 /\ bus'.mem[61] = 16 * k + -1
      BY <2>2, <3>1
    <3> QED BY <1>1, <3>2 DEF Pointer
  <2>4. \A addr \in 0 .. 84 : addr \notin {60, 61} => bus'.mem[addr] = bus.mem[addr]
    BY <1>3, <2>2
  <2>5. StackIs(<<q>>)'
    <3>1. \A addr \in 0 .. Top : addr \in 0 .. 84 /\ addr \notin {60, 61}
      BY DEF Top
    <3>2. \A addr \in 0 .. Top : bus'.mem[addr] = bus.mem[addr]
      BY <2>4, <3>1
    <3> QED BY <2>1, <2>2, <3>2, StackStays
  <2>6. Lit(0)'
    BY <1>1, <2>1, <2>2 DEF Lit
  <2>7. XKept'
    <3>1. bus'.mem[62] = bus.mem[62] /\ bus'.mem[63] = bus.mem[63]
      BY <2>4
    <3> QED BY <2>1, <3>1 DEF XKept
  <2>8. OutchEnds(82)' /\ StackIs(<<task.q>>)'
    BY <1>1, <2>1, <2>2, <2>3, <2>5, <2>6 DEF OutchEnds
  <2>9. OutchGoesOn
    BY <2>2, <2>4 DEF OutchGoesOn
  <2> QED BY <2>7, <2>8, <2>9 DEF OutchPoint
<1>5. CASE OutchEnds(82) /\ XKept /\ StackIs(<<task.q>>)
  <2>1. /\ Opcode = 222 /\ pc = 82 /\ pc \in 0 .. 100 /\ RM(pc + 1) = 62
        /\ Lit(0) /\ Pointer(-1) /\ XKept /\ StackIs(<<q>>)
    BY <1>2, <1>5 DEF OutchEnds, Opcode
  <2>2. /\ x' = 256 * RM(62) + RM(62 + 1)
        /\ pc' = pc + 2 /\ UNCHANGED <<bus, s, d, wai_state>>
    BY <2>1, LoadXBack
  <2>3. x' = 40
    <3>1. RM(62) = 0 /\ RM(63) = 40
      BY <1>3, <2>1 DEF RM, XKept
    <3> QED BY <2>2, <3>1
  <2>4. StackIs(<<q>>)'
    BY <2>1, <2>2, StackStays
  <2>5. Lit(0)' /\ Pointer(-1)'
    BY <1>1, <2>1, <2>2 DEF Lit, Pointer
  <2>6. OutchEnds(84)' /\ StackIs(<<task.q>>)'
    BY <1>1, <2>1, <2>2, <2>4, <2>5 DEF OutchEnds
  <2> QED BY <2>2, <2>3, <2>6 DEF OutchPoint, OutchGoesOn
<1>6. CASE OutchEnds(84) /\ x = 40 /\ StackIs(<<task.q>>)
  <2>1. Opcode = 51 /\ pc = 84 /\ Lit(0) /\ Pointer(-1) /\ StackIs(Append(<<>>, q))
    <3>1. Append(<<>>, q) = <<q>>
      OBVIOUS
    <3> QED BY <1>2, <1>6, <3>1 DEF OutchEnds, Opcode
  <2>2. /\ StackIs(<<>>)' /\ SameBehind(bus', bus) /\ d' = [d EXCEPT !["b"] = q]
        /\ pc' = Wrap(pc + 1) /\ UNCHANGED <<x, cc, wai_state>>
    <3>1. Len(<<>>) < Top - 1 /\ <<>> \in Seq(Byte)
      BY DEF Top
    <3> QED BY <2>1, <3>1, PullStep
  <2>3. bus' = bus
    <3>1. ByteStackRow
      BY <2>1, LegalOpcodes, RowOf
    <3> QED BY <2>1, <3>1 DEF ByteStackRow, Inherent, Fetch
  <2>4. pc' = 85 /\ d'["b"] = q
    <3>1. d \in Accumulators
      BY DEF MachineOK
    <3> QED BY <2>1, <2>2, <3>1 DEF Wrap, Accumulators
  <2>5. OutchEnds(85)'
    BY <1>1, <2>1, <2>3, <2>4 DEF OutchEnds, Lit, Pointer
  <2> QED BY <1>1, <1>6, <2>2, <2>3, <2>4, <2>5 DEF OutchPoint, OutchGoesOn
<1> QED BY <1>4, <1>5, <1>6

LEMMA OutchSteps ==
  ASSUME ProgramsAreRun, MemoryIsThere, DigitsAreShown, MachineOK, MachineOK',
         OutchInv, [Next]_vars
  PROVE  OutchInv'
<1> SUFFICES ASSUME (task.name = "outch")' PROVE Kept' /\ OutchPoint'
  BY DEF OutchInv
<1>1. task' = task /\ task.name = "outch"
  BY TaskKept DEF vars
<1>2. Kept /\ OutchPoint
  BY <1>1 DEF OutchInv
<1>3. CASE Next
  <2>1. pc \in 64 .. 84 /\ code = 64 .. 84
    BY <1>1, <1>2, <1>3, TaskKept, OutchReads
  <2>2. OutchPoint' /\ OutchGoesOn
    <3>1. ASSUME NEW n \in 0 .. 15, d["b"] = n + 1,
                 \/ OutchAt(73, n + 1, n, n + 1) \/ OutchAt(74, n, n, n + 1)
                 \/ OutchAt(76, n, n, n) \/ OutchAt(77, n, n - 1, n)
          PROVE  OutchPoint' /\ OutchGoesOn
      BY <1>1, <1>2, <1>3, <3>1, OutchLoops
    <3>2. ASSUME NEW n \in 0 .. 15, d["b"] = n, OutchAt(78, n, n - 1, n), Z \in cc <=> n = 0
          PROVE  OutchPoint' /\ OutchGoesOn
      BY <1>1, <1>2, <1>3, <3>2, OutchBranches
    <3>3. ~OutchEnds(85)
      BY <2>1 DEF OutchEnds
    <3> QED BY <1>1, <1>2, <1>3, <3>1, <3>2, <3>3, OutchEntered, OutchBegins, OutchLeaves
            DEF OutchPoint
  <2>3. Kept'
    BY <1>2, <1>3, <2>1, <2>2, TaskKept DEF Kept, OutchGoesOn
  <2> QED BY <2>2, <2>3
<1>4. CASE UNCHANGED vars
  <2>1. Kept'
    BY <1>2, <1>4, KeptAlone
  <2>2. OutchPoint'
    <3> USE <1>4 DEF vars
    <3>1. ASSUME NEW n, Turned(n) PROVE Turned(n)'
      BY <3>1 DEF Turned
    <3>2. ASSUME NEW n, Lit(n) PROVE Lit(n)'
      BY <3>2 DEF Lit
    <3>3. ASSUME NEW n, Pointer(n) PROVE Pointer(n)'
      BY <3>3 DEF Pointer
    <3>4. XKept => XKept'
      BY DEF XKept
    <3>5. /\ StackIs(<<>>) => StackIs(<<>>)'
          /\ StackIs(<<task.q>>) => StackIs(<<task.q>>)'
      BY DEF StackIs, StackHolds, Stack
    <3>6. ASSUME NEW a, OutchEnters(a) PROVE OutchEnters(a)'
      BY <3>1, <3>5, <3>6 DEF OutchEnters
    <3>7. ASSUME NEW a, NEW t, NEW n, NEW l, OutchAt(a, t, n, l)
          PROVE  OutchAt(a, t, n, l)'
      BY <3>1, <3>2, <3>4, <3>5, <3>7 DEF OutchAt
    <3>8. ASSUME NEW a, OutchEnds(a) PROVE OutchEnds(a)'
      BY <3>2, <3>3, <3>8 DEF OutchEnds
    <3>9. /\ pc' = pc /\ x' = x /\ d' = d /\ cc' = cc /\ task' = task
      OBVIOUS
    <3>10. ASSUME NEW n \in 0 .. 15, d["b"] = n + 1,
                  \/ OutchAt(73, n + 1, n, n + 1) \/ OutchAt(74, n, n, n + 1)
                  \/ OutchAt(76, n, n, n) \/ OutchAt(77, n, n - 1, n)
           PROVE  OutchPoint'
      <4>1. \/ OutchAt(73, n + 1, n, n + 1)' \/ OutchAt(74, n, n, n + 1)'
            \/ OutchAt(76, n, n, n)' \/ OutchAt(77, n, n - 1, n)'
        BY <3>7, <3>10
      <4>2. d'["b"] = n + 1
        BY <3>9, <3>10
      <4> QED BY <4>1, <4>2 DEF OutchPoint
    <3>11. ASSUME NEW n \in 0 .. 15, d["b"] = n, OutchAt(78, n, n - 1, n), Z \in cc <=> n = 0
           PROVE  OutchPoint'
      <4>1. OutchAt(78, n, n - 1, n)' /\ d'["b"] = n /\ (Z \in cc' <=> n = 0)
        BY <3>7, <3>9, <3>11
      <4> QED BY <4>1 DEF OutchPoint
    <3>12. ASSUME \/ OutchEnters(64) /\ x = 40 /\ Pointer(15)
                  \/ OutchEnters(66) /\ XKept /\ Pointer(15)
                  \/ OutchEnters(68) /\ XKept /\ x = Cursor(task.k, 15)
           PROVE  OutchPoint'
      BY <3>3, <3>4, <3>6, <3>9, <3>12, Zenon DEF OutchPoint
    <3>13. ASSUME \/ OutchAt(69, 18, 15, 16)
                  \/ OutchAt(70, 17, 15, 16)
                  \/ OutchAt(71, 16, 15, 16)
                  \/ OutchAt(80, 0, -1, 0)
           PROVE  OutchPoint'
      <4>1. \/ OutchAt(69, 18, 15, 16)' \/ OutchAt(70, 17, 15, 16)'
            \/ OutchAt(71, 16, 15, 16)' \/ OutchAt(80, 0, -1, 0)'
        BY <3>7, <3>13
      <4> QED BY <4>1 DEF OutchPoint
    <3>14. ASSUME \/ OutchEnds(82) /\ XKept /\ StackIs(<<task.q>>)
                  \/ OutchEnds(84) /\ x = 40 /\ StackIs(<<task.q>>)
                  \/ OutchEnds(85) /\ x = 40 /\ StackIs(<<>>) /\ d["b"] = task.q
           PROVE  OutchPoint'
      BY <3>4, <3>5, <3>8, <3>9, <3>14, Zenon DEF OutchPoint
    <3> QED BY <1>2, <3>10, <3>11, <3>12, <3>13, <3>14, Zenon DEF OutchPoint
  <2> QED BY <2>1, <2>2
<1> QED BY <1>3, <1>4

LEMMA OutchIsOver ==
  ASSUME ProgramsAreRun, MemoryIsThere, DigitsAreShown, MachineOK, OutchInv
  PROVE  OutchShows
<1> SUFFICES ASSUME Finished("outch")
             PROVE  /\ Painted(bus.segment)[6 - task.k] = BitsOf(task.p)
                    /\ bus.mem[60] = 193 /\ bus.mem[61] = 16 * task.k - 1
                    /\ d["b"] = task.q /\ s = Top /\ x = Boot(task).x
  BY DEF OutchShows
<1>1. task.name = "outch" /\ Stopped /\ Kept /\ OutchPoint /\ task \in Tasks
  BY DEF Finished, OutchInv, Kept
<1>2. pc \notin 64 .. 84
  BY <1>1, OutchReads DEF Stopped, Kept
<1> PICK k \in 1 .. 6 : k = task.k
  BY <1>1 DEF DigitsAreShown
<1>3. OutchEnds(85) /\ x = 40 /\ StackIs(<<>>) /\ d["b"] = task.q
  BY <1>1, <1>2 DEF OutchPoint, OutchEnters, OutchAt, OutchEnds
<1>4. Boot(task).x = 40
  BY <1>1, OutchImage
<1>5. s = Top
  <2>1. s = Top - Len(<<>>)
    BY <1>3 DEF StackIs, StackHolds, Stack
  <2> QED BY <2>1 DEF Top
<1>6. bus.mem[60] = 193 /\ bus.mem[61] = 16 * k - 1
  <2>1. 16 * k + -1 = 16 * k - 1
    OBVIOUS
  <2> QED BY <1>3, <2>1 DEF OutchEnds, Pointer
<1>7. Painted(bus.segment)[6 - k] = BitsOf(task.p)
  <2> PICK leds : leds = bus.segment[6 - k]
    OBVIOUS
  <2>1. leds \subseteq 0 .. 7
    BY DEF MachineOK, Bus, Positions, Segments
  <2>2. \A i \in 0 .. 7 : i \in leds <=> i \in BitsOf(task.p)
    BY <1>3 DEF OutchEnds, Lit
  <2>3. leds = BitsOf(task.p)
    BY <2>1, <2>2 DEF BitsOf
  <2>4. 6 - k \in Digits
    BY DEF Digits
  <2> QED BY <2>3, <2>4 DEF Painted
<1> QED BY <1>3, <1>4, <1>5, <1>6, <1>7

(* OUTCH writes every bit of A to the LED of its digit that it belongs to, on
   its second pass over the addresses that display_io decodes twice (the hook in
   widgets/display.cpp), and leaves B, X and S as they were, with the address
   of the next digit in memory.  For every byte, every digit, and whatever the
   LEDs were before. *)
THEOREM OutchAlwaysShows ==
  ASSUME ProgramsAreRun, MemoryIsThere, DigitsAreShown PROVE Spec => []OutchShows
<1>1. Init => MachineOK /\ OutchInv
  BY MachineBoots, OutchBoots
<1>2. MachineOK /\ OutchInv /\ [Next]_vars => MachineOK' /\ OutchInv'
  BY MachineSteps, OutchSteps
<1>3. MachineOK /\ OutchInv => OutchShows
  BY OutchIsOver
<1> QED BY <1>1, <1>2, <1>3, PTL DEF Spec

=============================================================================
