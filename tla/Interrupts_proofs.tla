------------------------- MODULE Interrupts_proofs -------------------------
(***************************************************************************)
(* Proofs about Interrupts, for every program, every frame length and any  *)
(* number of presses of the NMI button.                                    *)
(***************************************************************************)
EXTENDS Interrupts, SequenceTheorems, TLAPS

-----------------------------------------------------------------------------
(* Frames: seven bytes are pulled as they were pushed. *)

LEMMA WordOfBytes ==
  ASSUME NEW w \in Word
  PROVE Low(w) \in Byte /\ High(w) \in Byte /\ 256 * High(w) + Low(w) = w
BY DEF Word, Byte, Low, High

LEMMA ProgramWords == \A r \in Registers : r.pc \in Word /\ r.x \in Word
BY ProgramAssumption DEF Registers

LEMMA PullAfterPush ==
  ASSUME NEW r \in Registers
  PROVE PushFrame(r) \in StackFrame /\ PullFrame(PushFrame(r)) = r
<1>1. /\ Low(r.pc) \in Byte /\ High(r.pc) \in Byte
      /\ 256 * High(r.pc) + Low(r.pc) = r.pc
      /\ Low(r.x) \in Byte /\ High(r.x) \in Byte
      /\ 256 * High(r.x) + Low(r.x) = r.x
  BY WordOfBytes, ProgramWords
<1>2. r.a \in Byte /\ r.b \in Byte /\ r.cc \in Byte
  BY DEF Registers, Byte
<1>3. PushFrame(r) \in [1 .. 7 -> Byte]
  BY <1>1, <1>2 DEF PushFrame
<1>4. PullFrame(PushFrame(r)) =
        [cc |-> r.cc, b |-> r.b, a |-> r.a, x |-> r.x, pc |-> r.pc]
  BY <1>1 DEF PushFrame, PullFrame
<1>5. PullFrame(PushFrame(r)) = r
  BY <1>4 DEF Registers
<1> QED
  BY <1>3, <1>5 DEF StackFrame

(* The stack as the registers saved on it. *)
LEMMA SavedType ==
  ASSUME NEW s \in Seq(StackFrame)
  PROVE /\ Saved(s) \in Seq(Registers)
        /\ Len(Saved(s)) = Len(s)
        /\ \A i \in 1 .. Len(s) : Saved(s)[i] = PullFrame(s[i])
<1>1. /\ Len(s) \in Nat
      /\ DOMAIN s = 1 .. Len(s)
      /\ \A i \in 1 .. Len(s) : PullFrame(s[i]) \in Registers
  BY ElementOfSeq, LenProperties DEF StackFrame
<1>2. Saved(s) \in [1 .. Len(s) -> Registers]
  BY <1>1, Zenon DEF Saved
<1>3. Saved(s) \in Seq(Registers)
  BY <1>1, <1>2, SeqDef
<1>4. \A i \in 1 .. Len(s) : Saved(s)[i] = PullFrame(s[i])
  BY <1>1, Zenon DEF Saved
<1>5. Len(Saved(s)) = Len(s)
  BY <1>1, <1>2, <1>3, LenProperties
<1> QED
  BY <1>3, <1>4, <1>5

LEMMA SavedPush ==
  ASSUME NEW s \in Seq(StackFrame), NEW r \in Registers
  PROVE /\ Append(s, PushFrame(r)) \in Seq(StackFrame)
        /\ Saved(Append(s, PushFrame(r))) = Append(Saved(s), r)
<1> DEFINE t == Append(s, PushFrame(r))
<1>1. PushFrame(r) \in StackFrame /\ PullFrame(PushFrame(r)) = r
  BY PullAfterPush
<1>2. /\ t \in Seq(StackFrame)
      /\ Len(t) = Len(s) + 1
      /\ \A i \in 1 .. Len(s) : t[i] = s[i]
      /\ t[Len(s) + 1] = PushFrame(r)
  BY <1>1, AppendProperties
<1> HIDE DEF t
<1>3. /\ Saved(t) \in Seq(Registers)
      /\ Len(Saved(t)) = Len(s) + 1
      /\ \A i \in 1 .. Len(t) : Saved(t)[i] = PullFrame(t[i])
  BY <1>2, SavedType
<1>4. /\ Saved(s) \in Seq(Registers)
      /\ Len(Saved(s)) = Len(s)
      /\ Len(s) \in Nat
      /\ \A i \in 1 .. Len(s) : Saved(s)[i] = PullFrame(s[i])
  BY SavedType, LenProperties
<1>5. /\ Append(Saved(s), r) \in Seq(Registers)
      /\ Len(Append(Saved(s), r)) = Len(s) + 1
      /\ \A i \in 1 .. Len(s) : Append(Saved(s), r)[i] = Saved(s)[i]
      /\ Append(Saved(s), r)[Len(s) + 1] = r
  BY <1>4, AppendProperties
<1>6. ASSUME NEW i \in 1 .. Len(s) + 1
      PROVE Saved(t)[i] = Append(Saved(s), r)[i]
  <2>1. CASE i = Len(s) + 1
    BY <2>1, <1>1, <1>2, <1>3, <1>5
  <2>2. CASE i \in 1 .. Len(s)
    BY <2>2, <1>2, <1>3, <1>4, <1>5
  <2> QED
    BY <2>1, <2>2, <1>4
<1>7. Saved(t) = Append(Saved(s), r)
  BY <1>3, <1>5, <1>6, SeqEqual
<1> QED
  BY <1>2, <1>7 DEF t

LEMMA SavedPull ==
  ASSUME NEW s \in Seq(StackFrame), s # <<>>
  PROVE /\ SubSeq(s, 1, Len(s) - 1) \in Seq(StackFrame)
        /\ PullFrame(s[Len(s)]) \in Registers
        /\ Saved(s) = Append(Saved(SubSeq(s, 1, Len(s) - 1)),
                             PullFrame(s[Len(s)]))
<1> DEFINE t == SubSeq(s, 1, Len(s) - 1)
           r == PullFrame(s[Len(s)])
<1>1. Len(s) \in Nat \ {0} /\ \A i \in 1 .. Len(s) : s[i] \in StackFrame
  BY EmptySeq, ElementOfSeq
<1>2. r \in Registers
  BY <1>1 DEF StackFrame
<1>0. Len(s) \in Nat /\ Len(s) >= 1
  BY <1>1
<1>3. /\ t \in Seq(StackFrame)
      /\ Len(t) = Len(s) - 1
      /\ \A i \in 1 .. Len(s) - 1 : t[i] = s[i]
  <2> DEFINE n == Len(s) - 1
  <2>1. n \in Nat /\ \A i \in 1 .. n : s[i] \in StackFrame
    BY <1>0, <1>1
  <2> HIDE DEF n
  <2>2. /\ SubSeq(s, 1, n) \in Seq(StackFrame)
        /\ Len(SubSeq(s, 1, n)) = IF 1 <= n THEN n - 1 + 1 ELSE 0
        /\ \A i \in 1 .. n - 1 + 1 : SubSeq(s, 1, n)[i] = s[1 + i - 1]
    BY <2>1, SubSeqProperties
  <2>3. /\ Len(SubSeq(s, 1, n)) = n
        /\ \A i \in 1 .. n : SubSeq(s, 1, n)[i] = s[i]
    BY <2>1, <2>2
  <2> QED
    BY <2>2, <2>3 DEF n
<1> HIDE DEF t, r
<1>4. /\ Saved(s) \in Seq(Registers)
      /\ Len(Saved(s)) = Len(s)
      /\ \A i \in 1 .. Len(s) : Saved(s)[i] = PullFrame(s[i])
  BY SavedType
<1>5. /\ Saved(t) \in Seq(Registers)
      /\ Len(Saved(t)) = Len(s) - 1
      /\ \A i \in 1 .. Len(s) - 1 : Saved(t)[i] = PullFrame(s[i])
  BY <1>3, SavedType
<1>6. /\ Append(Saved(t), r) \in Seq(Registers)
      /\ Len(Append(Saved(t), r)) = Len(s)
      /\ \A i \in 1 .. Len(s) - 1 : Append(Saved(t), r)[i] = Saved(t)[i]
      /\ Append(Saved(t), r)[Len(s)] = r
  BY <1>1, <1>2, <1>5, AppendProperties
<1>7. ASSUME NEW i \in 1 .. Len(s)
      PROVE Saved(s)[i] = Append(Saved(t), r)[i]
  <2>1. CASE i = Len(s)
    BY <2>1, <1>1, <1>4, <1>6 DEF r
  <2>2. CASE i \in 1 .. Len(s) - 1
    BY <2>2, <1>4, <1>5, <1>6
  <2>3. i = Len(s) \/ i \in 1 .. Len(s) - 1
    BY <1>0
  <2> QED
    BY <2>1, <2>2, <2>3
<1>8. Saved(s) = Append(Saved(t), r)
  BY <1>4, <1>6, <1>7, SeqEqual
<1> QED
  BY <1>2, <1>3, <1>8 DEF t, r

-----------------------------------------------------------------------------
(* Type correctness. *)

(* TypeOK: control never leaves the program, and a frame never holds anything
   but registers that it can go back to, whatever is interrupted and when. *)
LEMMA InitType == Init => TypeOK
<1> SUFFICES ASSUME Init PROVE TypeOK
  OBVIOUS
<1>0. ResetVector \in DOMAIN Code
  BY ProgramAssumption
<1>1. regs \in Registers
  BY <1>0 DEF Init, Registers, Word, Byte
<1>2. stack \in Seq(StackFrame)
  BY EmptySeq DEF Init
<1>3. /\ wai \in BOOLEAN /\ irq_line \in BOOLEAN /\ nmi_line \in BOOLEAN
      /\ nmi_pending \in BOOLEAN /\ stepping \in BOOLEAN
  BY DEF Init
<1> QED
  BY <1>1, <1>2, <1>3, BoundAssumption DEF Init, TypeOK, Phase, Op

LEMMA EnterType ==
  ASSUME TypeOK, NEW vector \in DOMAIN Code, EnterInterrupt(vector)
  PROVE /\ regs' \in Registers
        /\ stack' \in Seq(StackFrame)
        /\ wai' = FALSE
        /\ icount' \in Int
<1>1. regs' \in Registers
  BY DEF TypeOK, EnterInterrupt, Registers
<1>2. stack' \in Seq(StackFrame)
  <2>1. CASE wai
    BY <2>1 DEF TypeOK, EnterInterrupt
  <2>2. CASE ~wai
    BY <2>2, SavedPush DEF TypeOK, EnterInterrupt, Push
  <2> QED
    BY <2>1, <2>2
<1>3. wai' = FALSE /\ icount' \in Int
  BY BoundAssumption DEF TypeOK, EnterInterrupt
<1> QED
  BY <1>1, <1>2, <1>3

LEMMA CheckType ==
  ASSUME TypeOK, CheckIrqLines
  PROVE /\ regs' \in Registers
        /\ stack' \in Seq(StackFrame)
        /\ wai' \in BOOLEAN
        /\ icount' \in Int
        /\ nmi_pending' \in BOOLEAN
        /\ taken' \in Nat
<1>1. NmiVector \in DOMAIN Code /\ IrqVector \in DOMAIN Code
  BY ProgramAssumption
<1>2. CASE TakeNmi
  <2>1. EnterInterrupt(NmiVector)
    BY <1>2 DEF TakeNmi
  <2>2. nmi_pending' \in BOOLEAN
    BY <1>2 DEF TakeNmi
  <2>3. taken' \in Nat
    BY <1>2 DEF TypeOK, TakeNmi
  <2> QED
    BY <1>1, <2>1, <2>2, <2>3, EnterType
<1>3. CASE TakeIrq
  BY <1>1, <1>3, EnterType DEF TypeOK, TakeIrq
<1>4. CASE TakeNone
  BY <1>4 DEF TypeOK, TakeNone
<1> QED
  BY <1>2, <1>3, <1>4 DEF CheckIrqLines

LEMMA FetchedType ==
  ASSUME TypeOK
  PROVE Fetched \in Registers /\ Code[regs.pc].op \in Op
BY ProgramAssumption DEF TypeOK, Fetched, Registers

(* One case for each kind of instruction. *)
LEMMA InstructionType ==
  ASSUME TypeOK, NEW o \in Op, Instruction(o)
  PROVE /\ regs' \in Registers
        /\ stack' \in Seq(StackFrame)
        /\ wai' \in BOOLEAN
        /\ irq_timeout' \in -1 .. 2
<1>0. Fetched \in Registers
  BY FetchedType
<1>1. CASE Plain
  BY <1>0, <1>1 DEF TypeOK, Plain, NoTimeout
<1>2. CASE Load
  <2>1. regs' \in Registers
    BY <1>0, <1>2, ProgramAssumption DEF Load, Registers
  <2> QED
    BY <1>2, <2>1 DEF TypeOK, Load, NoTimeout
<1>3. CASE \E i \in {0, 1} : SetMask(i)
  BY <1>0, <1>3 DEF TypeOK, SetMask, Registers
<1>4. CASE Wai
  BY <1>0, <1>4, SavedPush DEF TypeOK, Wai, Push, NoTimeout
<1>5. CASE Swi
  <2>1. regs' \in Registers
    BY <1>0, <1>5, ProgramAssumption DEF Swi, Registers
  <2> QED
    BY <1>0, <1>5, <2>1, SavedPush DEF TypeOK, Swi, Push, NoTimeout
<1>6. CASE Rti
  BY <1>6, SavedPull DEF TypeOK, Rti, NoTimeout
<1>7. CASE Lds
  BY <1>0, <1>7, EmptySeq DEF TypeOK, Lds, NoTimeout
<1>8. regs.a % 2 \in {0, 1}
  <2>1. regs \in Registers
    BY DEF TypeOK
  <2>2. regs.a \in Byte
    BY <2>1 DEF Registers
  <2>3. \A n \in Byte : n % 2 \in {0, 1}
    BY DEF Byte
  <2> QED
    BY <2>2, <2>3
<1> QED
  BY <1>1, <1>2, <1>3, <1>4, <1>5, <1>6, <1>7, <1>8 DEF Instruction

LEMMA ResetType ==
  ASSUME TypeOK, DeviceReset
  PROVE /\ regs' \in Registers
        /\ wai' \in BOOLEAN
        /\ irq_line' \in BOOLEAN /\ nmi_line' \in BOOLEAN
        /\ nmi_pending' \in BOOLEAN
        /\ reset_line' \in {0, 1}
<1>1. ResetVector \in DOMAIN Code
  BY ProgramAssumption
<1>2. regs' \in Registers
  BY <1>1 DEF TypeOK, DeviceReset, Registers
<1> QED
  BY <1>2 DEF DeviceReset

(* The steps of the executing thread. *)
LEMMA CpuType ==
  ASSUME TypeOK, Cpu \/ Break
  PROVE TypeOK'
<1> USE DEF lineVars, buttonVars, cpuVars
<1>1. CASE Frame
  <2>1. /\ regs' \in Registers
        /\ wai' \in BOOLEAN
        /\ irq_line' \in BOOLEAN /\ nmi_line' \in BOOLEAN
        /\ nmi_pending' \in BOOLEAN
        /\ reset_line' \in {0, 1}
    <3>1. CASE reset_line = 0
      BY <1>1, <3>1, ResetType DEF Frame
    <3>2. CASE reset_line # 0
      BY <1>1, <3>2 DEF TypeOK, Frame, NoReset
    <3> QED
      BY <3>1, <3>2
  <2>2. icount' \in Int
    BY <1>1, BoundAssumption DEF TypeOK, Frame
  <2> QED
    BY <1>1, <2>1, <2>2 DEF TypeOK, Frame, Phase
<1>2. ASSUME NEW from \in Phase, NEW to \in Phase, Check(from, to)
      PROVE TypeOK'
  <2>1. CheckIrqLines
    BY <1>2 DEF Check
  <2> QED
    BY <1>2, <2>1, CheckType DEF TypeOK, Check
<1>3. CASE EatCycles
  BY <1>3 DEF TypeOK, EatCycles, Frozen, Phase
<1>4. CASE Execute
  <2>1. op' \in Op /\ Instruction(op')
    BY <1>4, FetchedType DEF Execute
  <2>2. /\ regs' \in Registers
        /\ stack' \in Seq(StackFrame)
        /\ wai' \in BOOLEAN
        /\ irq_timeout' \in -1 .. 2
    BY <2>1, InstructionType
  <2> QED
    BY <1>4, <2>1, <2>2 DEF TypeOK, Execute, Frozen, Phase
<1>5. CASE Cycles
  <2>1. icount' \in Int /\ irq_timeout' \in -1 .. 2 /\ phase' \in Phase
    BY <1>5 DEF TypeOK, Cycles, Phase
  <2> QED
    BY <1>5, <2>1 DEF TypeOK, Cycles, Frozen
<1>6. CASE FrameOver
  BY <1>6 DEF TypeOK, FrameOver, Frozen, Phase
<1>7. CASE Break
  BY <1>7 DEF TypeOK, Break, Frozen, Phase
<1>8. {"enter", "loop", "inner", "cycles", "timeout", "tail"} \subseteq Phase
  BY DEF Phase
<1> QED
  BY <1>1, <1>2, <1>3, <1>4, <1>5, <1>6, <1>7, <1>8 DEF Cpu

(* The events of the GUI thread. *)
LEMMA GuiType ==
  ASSUME TypeOK, Gui
  PROVE TypeOK'
<1> USE DEF lineVars, buttonVars, cpuVars, threadVars, Elsewhere, Frozen
<1>1. CASE PullNmiLow
  <2>1. CASE TestNmi
    BY <2>1 DEF TypeOK, TestNmi
  <2>2. CASE LatchNmi
    BY <2>2 DEF TypeOK, LatchNmi
  <2>3. CASE SetNmiLine
    BY <2>3 DEF TypeOK, SetNmiLine
  <2> QED
    BY <1>1, <2>1, <2>2, <2>3 DEF PullNmiLow
<1>2. CASE Pause
  BY <1>2 DEF TypeOK, Pause, Phase
<1>3. CASE Resume
  <2>1. stepping' \in BOOLEAN
    BY <1>3 DEF Resume
  <2> QED
    BY <1>3, <2>1 DEF TypeOK, Resume, Phase
<1>4. CASE StepReset
  BY <1>4, ResetType DEF TypeOK, StepReset
<1>5. CASE StepInto
  BY <1>5 DEF TypeOK, StepInto, Phase
<1>6. CASE PressReset
  BY <1>6 DEF TypeOK, PressReset
<1>7. CASE PullIrqLow
  BY <1>7 DEF TypeOK, PullIrqLow
<1>8. CASE ReleaseIrq
  BY <1>8 DEF TypeOK, ReleaseIrq
<1>9. CASE PressNmi
  BY <1>9, BoundAssumption DEF TypeOK, PressNmi
<1>10. CASE ReleaseNmi
  BY <1>10 DEF TypeOK, ReleaseNmi
<1> QED
  BY <1>1, <1>2, <1>3, <1>4, <1>5, <1>6, <1>7, <1>8, <1>9, <1>10 DEF Gui

LEMMA StutterType ==
  ASSUME TypeOK, UNCHANGED vars
  PROVE TypeOK'
BY DEF TypeOK, vars, cpuVars, lineVars, threadVars, buttonVars

(* TypeOK holds of every program: in particular, wherever control returns to
   is a point of the program. *)
THEOREM TypeCorrect == Spec => []TypeOK
<1>1. TypeOK /\ [Next]_vars => TypeOK'
  BY CpuType, GuiType, StutterType DEF Next
<1> QED
  BY InitType, <1>1, PTL DEF Spec

-----------------------------------------------------------------------------
(* An edge of the NMI line is taken at most once. *)

One(b) == IF b THEN 1 ELSE 0

(* The edge of a press is on its way, latched, or taken. *)
EdgeInv ==
  taken + One(nmi_pending) + One(button \in {"test", "latch"}) <= presses

LEMMA CheckEdges ==
  ASSUME TypeOK, CheckIrqLines
  PROVE taken' + One(nmi_pending') = taken + One(nmi_pending)
<1>1. CASE TakeNmi
  BY <1>1 DEF TypeOK, TakeNmi, One
<1>2. CASE TakeIrq
  BY <1>2 DEF TypeOK, TakeIrq
<1>3. CASE TakeNone
  BY <1>3 DEF TypeOK, TakeNone
<1> QED
  BY <1>1, <1>2, <1>3 DEF CheckIrqLines

(* Only the lines' checks count an edge as taken, and a reset drops it. *)
LEMMA CpuEdges ==
  ASSUME TypeOK, EdgeInv, Cpu \/ Break
  PROVE EdgeInv'
<1>1. CASE UNCHANGED <<nmi_pending, taken, buttonVars>>
  BY <1>1 DEF EdgeInv, buttonVars
<1>2. CASE Frame
  <2>1. CASE reset_line = 0
    BY <1>2, <2>1 DEF TypeOK, EdgeInv, Frame, DeviceReset, buttonVars, One
  <2>2. CASE reset_line # 0
    BY <1>1, <1>2, <2>2 DEF Frame, NoReset, lineVars
  <2> QED
    BY <2>1, <2>2
<1>3. ASSUME NEW from, NEW to, Check(from, to)
      PROVE EdgeInv'
  <2>1. taken' + One(nmi_pending') = taken + One(nmi_pending)
    BY <1>3, CheckEdges DEF Check
  <2>2. UNCHANGED <<button, presses>>
    BY <1>3 DEF Check, buttonVars
  <2> QED
    BY <2>1, <2>2 DEF EdgeInv
<1>4. CASE EatCycles \/ Execute \/ Cycles \/ FrameOver \/ Break
  BY <1>1, <1>4 DEF EatCycles, Execute, Cycles, FrameOver, Break, Frozen,
                    lineVars
<1> QED
  BY <1>2, <1>3, <1>4 DEF Cpu

LEMMA GuiEdges ==
  ASSUME TypeOK, EdgeInv, Gui
  PROVE EdgeInv'
<1> USE DEF lineVars, buttonVars, Elsewhere, Frozen
<1>1. CASE UNCHANGED <<nmi_pending, taken, buttonVars>>
  BY <1>1 DEF EdgeInv
<1>2. CASE TestNmi
  BY <1>2 DEF TypeOK, EdgeInv, TestNmi, One
<1>3. CASE LatchNmi
  BY <1>3 DEF TypeOK, EdgeInv, LatchNmi, One
<1>4. CASE SetNmiLine
  BY <1>4 DEF TypeOK, EdgeInv, SetNmiLine, One
<1>5. CASE StepReset
  BY <1>5 DEF TypeOK, EdgeInv, StepReset, DeviceReset, One
<1>6. CASE PressNmi
  BY <1>6 DEF TypeOK, EdgeInv, PressNmi, One
<1>7. CASE ReleaseNmi
  BY <1>7 DEF TypeOK, EdgeInv, ReleaseNmi, One
<1>8. CASE Pause \/ Resume \/ StepInto \/ PressReset \/ PullIrqLow \/ ReleaseIrq
  BY <1>1, <1>8 DEF Pause, Resume, StepInto, PressReset, PullIrqLow, ReleaseIrq
<1> QED
  BY <1>2, <1>3, <1>4, <1>5, <1>6, <1>7, <1>8 DEF Gui, PullNmiLow

(* EdgeTakenOnce, whatever the program, the length of a frame and the number of
   presses: no interleaving of pull_nmi_low, CHECK_IRQ_LINES and a reset takes
   an edge twice. *)
THEOREM EdgesTakenOnce == Spec => []EdgeTakenOnce
<1>1. Init => EdgeInv
  BY DEF Init, EdgeInv, One
<1>2. TypeOK /\ EdgeInv /\ [Next]_vars => EdgeInv'
  <2>1. ASSUME EdgeInv, UNCHANGED vars PROVE EdgeInv'
    BY <2>1 DEF EdgeInv, vars, lineVars, buttonVars
  <2> QED
    BY <2>1, CpuEdges, GuiEdges DEF Next
<1>3. TypeOK /\ EdgeInv => EdgeTakenOnce
  BY DEF TypeOK, EdgeInv, EdgeTakenOnce, One
<1> QED
  BY <1>1, <1>2, <1>3, TypeCorrect, PTL DEF Spec

-----------------------------------------------------------------------------
(* Interrupts implements InterruptLevels.  While the CPU waits, the registers
   of the level that waits are those in the last frame. *)

WaitFrame == wai => stack # <<>> /\ PullFrame(stack[Len(stack)]) = regs

(* All that a step may do to the registers, the stack and the wait state. *)
LEMMA Moves ==
  ASSUME TypeOK, [Next]_vars
  PROVE \/ UNCHANGED <<regs, stack, wai>>
        \/ \E v \in {NmiVector, IrqVector} : EnterInterrupt(v)
        \/ ~wai /\ \E o \in Op : Instruction(o)
        \/ DeviceReset /\ UNCHANGED stack
<1> USE DEF cpuVars, Elsewhere, Frozen
<1>1. CASE Frame
  BY <1>1 DEF Frame, NoReset
<1>2. ASSUME CheckIrqLines
      PROVE \/ UNCHANGED <<regs, stack, wai>>
            \/ \E v \in {NmiVector, IrqVector} : EnterInterrupt(v)
  BY <1>2 DEF CheckIrqLines, TakeNmi, TakeIrq, TakeNone
<1>3. CASE Execute
  <2>1. ~wai /\ op' = Code[regs.pc].op /\ Instruction(op')
    BY <1>3 DEF Execute
  <2> QED
    BY <2>1, FetchedType
<1>4. CASE EatCycles \/ Cycles \/ FrameOver \/ Break
  BY <1>4 DEF EatCycles, Cycles, FrameOver, Break
<1>5. CASE Cpu
  BY <1>1, <1>2, <1>3, <1>4, <1>5 DEF Cpu, Check
<1>6. CASE StepReset
  BY <1>6 DEF StepReset
<1>7. CASE Gui
  BY <1>6, <1>7
     DEF Gui, PullNmiLow, TestNmi, LatchNmi, SetNmiLine, Pause, Resume, StepInto,
         PressReset, PullIrqLow, ReleaseIrq, PressNmi, ReleaseNmi
<1>8. CASE UNCHANGED vars
  BY <1>8 DEF vars
<1> QED
  BY <1>4, <1>5, <1>7, <1>8 DEF Next

LEMMA WaitFrameStep ==
  ASSUME TypeOK, WaitFrame, [Next]_vars
  PROVE WaitFrame'
<1>1. CASE UNCHANGED <<regs, stack, wai>>
  BY <1>1 DEF WaitFrame
<1>2. ASSUME NEW v, EnterInterrupt(v) PROVE WaitFrame'
  BY <1>2 DEF WaitFrame, EnterInterrupt
<1>3. ASSUME ~wai, NEW o \in Op, Instruction(o) PROVE WaitFrame'
  <2>1. CASE Wai
    <3>1. /\ Fetched \in Registers
          /\ PushFrame(Fetched) \in StackFrame
          /\ PullFrame(PushFrame(Fetched)) = Fetched
      BY FetchedType, PullAfterPush
    <3>2. stack \in Seq(StackFrame)
      BY DEF TypeOK
    <3>3. stack' = Append(stack, PushFrame(Fetched)) /\ regs' = Fetched
      BY <2>1 DEF Wai, Push
    <3>4. stack' # <<>> /\ Len(stack') = Len(stack) + 1
                       /\ stack'[Len(stack) + 1] = PushFrame(Fetched)
      BY <3>1, <3>2, <3>3, AppendProperties
    <3> QED
      BY <3>1, <3>3, <3>4 DEF WaitFrame
  <2>2. CASE UNCHANGED wai
    BY <1>3, <2>2 DEF WaitFrame
  <2>3. Wai \/ UNCHANGED wai
    BY <1>3 DEF Instruction, Plain, Load, SetMask, Swi, Rti, Lds
  <2> QED
    BY <2>1, <2>2, <2>3
<1>4. CASE DeviceReset
  BY <1>4 DEF WaitFrame, DeviceReset
<1> QED
  BY <1>1, <1>2, <1>3, <1>4, Moves

LEMMA LastOfAppend ==
  ASSUME NEW s \in Seq(Registers), NEW r \in Registers
  PROVE /\ Append(s, r) \in Seq(Registers)
        /\ Len(Append(s, r)) = Len(s) + 1
        /\ Len(s) \in Nat
        /\ Append(s, r)[Len(Append(s, r))] = r
        /\ SubSeq(Append(s, r), 1, Len(Append(s, r)) - 1) = s
<1> DEFINE t == Append(s, r)
<1>1. /\ t \in Seq(Registers)
      /\ Len(t) = Len(s) + 1
      /\ \A i \in 1 .. Len(s) : t[i] = s[i]
      /\ t[Len(s) + 1] = r
  BY AppendProperties
<1>2. Len(s) \in Nat /\ \A i \in 1 .. Len(s) : s[i] \in Registers
  BY LenProperties, ElementOfSeq
<1> HIDE DEF t
<1> DEFINE f == SubSeq(t, 1, Len(s))
<1>3. \A i \in 1 .. Len(s) : t[i] \in Registers
  BY <1>1, <1>2
<1>4. /\ f \in Seq(Registers)
      /\ Len(f) = IF 1 <= Len(s) THEN Len(s) - 1 + 1 ELSE 0
      /\ \A i \in 1 .. Len(s) - 1 + 1 : f[i] = t[1 + i - 1]
  BY <1>2, <1>3, SubSeqProperties
<1> HIDE DEF f
<1>5. Len(f) = Len(s) /\ \A i \in 1 .. Len(s) : f[i] = t[i]
  BY <1>2, <1>4
<1>6. f = s
  BY <1>1, <1>4, <1>5, SeqEqual
<1>7. Len(t) - 1 = Len(s)
  BY <1>1, <1>2
<1> QED
  BY <1>1, <1>2, <1>6, <1>7 DEF t, f

LEMMA RunningLevels ==
  ASSUME TypeOK, ~wai
  PROVE /\ Levels = Append(Saved(stack), regs)
        /\ Len(Levels) = Len(Saved(stack)) + 1
        /\ Abstract!Top = regs
        /\ Abstract!Below = Saved(stack)
<1>1. Saved(stack) \in Seq(Registers) /\ regs \in Registers
  BY SavedType DEF TypeOK
<1>2. Levels = Append(Saved(stack), regs)
  BY DEF Levels
<1> QED
  BY <1>1, <1>2, LastOfAppend DEF Abstract!Top, Abstract!Below

LEMMA WaitingLevels ==
  ASSUME TypeOK, WaitFrame, wai
  PROVE Levels = Saved(stack) /\ Abstract!Top = regs
<1>1. Levels = Saved(stack)
  BY DEF Levels
<1>2. stack \in Seq(StackFrame) /\ stack # <<>>
  BY DEF TypeOK, WaitFrame
<1>3. Len(stack) \in 1 .. Len(stack)
  BY <1>2, EmptySeq
<1>4. Saved(stack)[Len(Saved(stack))] = PullFrame(stack[Len(stack)])
  BY <1>2, <1>3, SavedType
<1> QED
  BY <1>1, <1>4 DEF WaitFrame, Abstract!Top

(* The interrupted level, running or waiting, is the last one. *)
LEMMA EnterStep ==
  ASSUME TypeOK, WaitFrame,
         NEW v \in {NmiVector, IrqVector, SwiVector}, EnterInterrupt(v)
  PROVE Abstract!Enter
<1>1. regs' = Abstract!Entered(regs, v) /\ wai' = FALSE
  BY DEF EnterInterrupt, Abstract!Entered
<1>2. Levels' = Append(Saved(stack'), regs')
  BY <1>1 DEF Levels
<1>3. Abstract!Top = regs
  BY RunningLevels, WaitingLevels
<1>4. Levels = Saved(stack')
  <2>1. CASE wai
    BY <2>1, WaitingLevels DEF EnterInterrupt
  <2>2. CASE ~wai
    BY <2>2, RunningLevels, SavedPush DEF EnterInterrupt, Push, TypeOK
  <2> QED
    BY <2>1, <2>2
<1>5. Levels' = Append(Levels, Abstract!Entered(Abstract!Top, v))
  BY <1>1, <1>2, <1>3, <1>4
<1> QED
  BY <1>5 DEF Abstract!Enter

(* A reset of a level that waits leaves that level's frame behind. *)
LEMMA ResetStep ==
  ASSUME TypeOK, WaitFrame, DeviceReset, UNCHANGED stack
  PROVE Abstract!Reset
<1>1. regs' = Abstract!Entered(regs, ResetVector) /\ wai' = FALSE
  BY DEF DeviceReset, Abstract!Entered
<1>2. Levels' = Append(Saved(stack), Abstract!Entered(regs, ResetVector))
  BY <1>1 DEF Levels
<1>3. CASE wai
  BY <1>2, <1>3, WaitingLevels DEF Abstract!Reset
<1>4. CASE ~wai
  BY <1>2, <1>4, RunningLevels DEF Abstract!Reset
<1> QED
  BY <1>3, <1>4

(* Every instruction is an abstract step of the level that executes it. *)
LEMMA InstructionStep ==
  ASSUME TypeOK, ~wai, NEW o \in Op, Instruction(o)
  PROVE Abstract!Next
<1> DEFINE S == Saved(stack)
<1>1. /\ S \in Seq(Registers) /\ stack \in Seq(StackFrame)
      /\ Fetched \in Registers /\ regs' \in Registers
      /\ stack' \in Seq(StackFrame) /\ Saved(stack') \in Seq(Registers)
  BY FetchedType, InstructionType, SavedType DEF TypeOK
<1>2. /\ Levels = Append(S, regs)
      /\ Len(Levels) = Len(S) + 1
      /\ Abstract!Below = S
  BY RunningLevels
<1>3. CASE Wai
  <2>1. Levels' = Append(S, Fetched)
    BY <1>1, <1>3, SavedPush DEF Wai, Push, Levels
  <2>2. Abstract!Top' = Fetched
    BY <1>1, <2>1, LastOfAppend DEF Abstract!Top
  <2>3. Abstract!Execute
    BY <1>1, <1>2, <2>1, <2>2 DEF Abstract!Execute
  <2> QED
    BY <2>3 DEF Abstract!Next
<1>4. CASE UNCHANGED <<stack, wai>>
  <2>1. Levels' = Append(S, regs')
    BY <1>4 DEF Levels
  <2>2. Abstract!Top' = regs'
    BY <1>1, <2>1, LastOfAppend DEF Abstract!Top
  <2>3. Abstract!Execute
    BY <1>1, <1>2, <2>1, <2>2 DEF Abstract!Execute
  <2> QED
    BY <2>3 DEF Abstract!Next
<1>5. CASE Swi
  <2>1. /\ wai' = FALSE
        /\ regs' = Abstract!Entered(Fetched, SwiVector)
        /\ Saved(stack') = Append(S, Fetched)
    BY <1>1, <1>5, SavedPush DEF Swi, Push, Abstract!Entered, TypeOK
  <2>2. Levels' = Append(Append(S, Fetched), regs')
    BY <2>1 DEF Levels
  <2>3. /\ Len(Levels') = Len(Levels) + 1
        /\ Levels'[Len(Levels)] = Fetched
    <3>1. /\ Append(S, Fetched) \in Seq(Registers)
          /\ Len(Append(S, Fetched)) = Len(S) + 1
          /\ Len(S) \in Nat
          /\ Append(S, Fetched)[Len(S) + 1] = Fetched
      BY <1>1, LastOfAppend
    <3>2. /\ Len(Levels') = Len(S) + 1 + 1
          /\ Levels'[Len(S) + 1] = Append(S, Fetched)[Len(S) + 1]
      BY <1>1, <2>2, <3>1, AppendProperties
    <3> QED
      BY <1>2, <3>1, <3>2
  <2>4. Abstract!Call
    BY <1>1, <1>2, <2>1, <2>2, <2>3 DEF Abstract!Call
  <2> QED
    BY <2>4 DEF Abstract!Next
<1>6. CASE Rti
  <2>1. /\ stack # <<>> /\ wai' = FALSE
        /\ Levels' = S
    BY <1>1, <1>6, SavedPull DEF Rti, Levels, TypeOK
  <2>2. Len(Levels) > 1
    BY <1>1, <1>2, <2>1, EmptySeq, SavedType
  <2>3. Abstract!Return
    BY <1>2, <2>1, <2>2 DEF Abstract!Return
  <2> QED
    BY <2>3 DEF Abstract!Next
<1>7. CASE Lds
  <2>1. wai' = FALSE /\ stack' = <<>>
    BY <1>7 DEF Lds, TypeOK
  <2>2. Len(Saved(stack')) = 0
    BY <1>1, <2>1, SavedType, EmptySeq
  <2>3. Saved(stack') = <<>>
    BY <1>1, <2>2, EmptySeq
  <2>4. Levels' = <<regs'>>
    <3>1. Levels' = Append(<<>>, regs')
      BY <2>1, <2>3, Zenon DEF Levels
    <3> QED
      BY <3>1
  <2>5. Abstract!Top' = regs'
    BY <2>4 DEF Abstract!Top
  <2>6. Abstract!Forget
    BY <1>1, <2>4, <2>5 DEF Abstract!Forget
  <2> QED
    BY <2>6 DEF Abstract!Next
<1> QED
  BY <1>3, <1>4, <1>5, <1>6, <1>7 DEF Instruction, Plain, Load, SetMask

(* Interrupts implements InterruptLevels for every program: what a handler
   interrupts is as it was when the handler returns. *)
THEOREM LevelsImplemented == Spec => ImplementsLevels
<1>1. Init => WaitFrame
  BY DEF Init, WaitFrame
<1>2. TypeOK /\ WaitFrame /\ [Next]_vars => WaitFrame'
  BY WaitFrameStep
<1>3. Init => Abstract!Init
  <2> SUFFICES ASSUME Init PROVE Abstract!Init
    OBVIOUS
  <2>1. TypeOK /\ ~wai
    BY InitType DEF Init
  <2>2. Len(Saved(stack)) = 0
    BY SavedType, EmptySeq DEF Init
  <2>3. Len(Levels) = 1 /\ Abstract!Top \in Registers
    BY <2>1, <2>2, RunningLevels DEF TypeOK
  <2> QED
    BY <2>3 DEF Abstract!Init
<1>4. TypeOK /\ WaitFrame /\ [Next]_vars => [Abstract!Next]_Levels
  <2> SUFFICES ASSUME TypeOK, WaitFrame, [Next]_vars
               PROVE Abstract!Next \/ UNCHANGED Levels
    OBVIOUS
  <2>1. CASE UNCHANGED <<regs, stack, wai>>
    BY <2>1 DEF Levels
  <2>2. ASSUME NEW v \in {NmiVector, IrqVector}, EnterInterrupt(v)
        PROVE Abstract!Next
    BY <2>2, EnterStep DEF Abstract!Next
  <2>3. ASSUME ~wai, NEW o \in Op, Instruction(o)
        PROVE Abstract!Next
    BY <2>3, InstructionStep
  <2>4. CASE DeviceReset /\ UNCHANGED stack
    BY <2>4, ResetStep DEF Abstract!Next
  <2> QED
    BY <2>1, <2>2, <2>3, <2>4, Moves
<1> QED
  BY <1>1, <1>2, <1>3, <1>4, TypeCorrect, PTL
     DEF Spec, ImplementsLevels, Abstract!Spec

-----------------------------------------------------------------------------
(* The wait state. *)

LEMMA WaitLeft ==
  ASSUME TypeOK, [Next]_vars, wai, ~wai'
  PROVE \/ regs'.pc = ResetVector /\ reset_line = 0
        \/ regs'.pc = NmiVector /\ nmi_pending
        \/ regs'.pc = IrqVector /\ irq_line /\ regs.cc = 0
<1> USE DEF cpuVars, Elsewhere, Frozen
<1>1. ASSUME NEW v, EnterInterrupt(v) PROVE regs'.pc = v
  BY <1>1 DEF TypeOK, EnterInterrupt, Registers
<1>2. CASE CheckIrqLines
  BY <1>1, <1>2 DEF CheckIrqLines, TakeNmi, TakeIrq, TakeNone
<1>3. CASE DeviceReset /\ reset_line = 0
  BY <1>3 DEF TypeOK, DeviceReset, Registers
<1>4. CASE Cpu \/ Break
  BY <1>2, <1>3, <1>4
     DEF Cpu, Break, Check, Frame, NoReset, EatCycles, Execute, Cycles, FrameOver
<1>5. CASE Gui
  BY <1>3, <1>5
     DEF Gui, PullNmiLow, TestNmi, LatchNmi, SetNmiLine, Pause, Resume, StepReset,
         StepInto, PressReset, PullIrqLow, ReleaseIrq, PressNmi, ReleaseNmi
<1>6. CASE UNCHANGED vars
  BY <1>6 DEF vars
<1> QED
  BY <1>4, <1>5, <1>6 DEF Next

(* WaitLeftByInterrupt, for every program: neither the end of a frame nor a
   pause nor a step ends the wait state, only an interrupt or a reset does. *)
THEOREM WaitEndsByInterrupt == Spec => WaitLeftByInterrupt
<1>1. TypeOK /\ [Next]_vars =>
        [wai /\ ~wai' =>
           \/ regs'.pc = ResetVector /\ reset_line = 0
           \/ regs'.pc = NmiVector /\ nmi_pending
           \/ regs'.pc = IrqVector /\ irq_line /\ regs.cc = 0]_vars
  BY WaitLeft
<1> QED
  BY <1>1, TypeCorrect, PTL DEF Spec, WaitLeftByInterrupt

=============================================================================
