----------------------------- MODULE Interrupts -----------------------------
(***************************************************************************)
(* The interrupts of m6800_cpu_device (cpu/m6800.cpp, cpu/6800ops.hxx) and *)
(* the frames of et3400emu::worker (emu/et3400.cpp) that they depend on.   *)
(* The CPU tests its lines in CHECK_IRQ_LINES: when a frame begins, inside *)
(* RTI and WAI, when the countdown that CLI, SEI and TAP start runs out,   *)
(* and before each single step.  The GUI thread pulls and releases the     *)
(* lines at any moment; the NMI line latches its falling edge.             *)
(*                                                                         *)
(* A program is a function from addresses to instructions.  Only those     *)
(* that concern interrupts have names; "load" stands for any instruction   *)
(* that changes registers, "plain" for one that does not.  cc is its mask  *)
(* bit; a mask taken from A is bit 0 of A here.  The hardware stack is the *)
(* sequence of the 7-byte frames on it.                                    *)
(***************************************************************************)
EXTENDS Integers, Sequences

CONSTANTS
  Code,          \* the program: address -> instruction
  Loads,         \* registers a "load" may leave (pc and cc are not taken)
  ResetVector, NmiVector, IrqVector, SwiVector,  \* the words at 0xFFF8 on
  FrameCycles,   \* cycles_per_frame
  EnterCycles,   \* 12: of an interrupt
  WaitCycles,    \* 4: of one that ends the wait state
  MaxPresses     \* bound: presses of the NMI button

Byte == 0 .. 255
Word == 0 .. 65535
Registers == [pc : DOMAIN Code, x : Word, a : Byte, b : Byte, cc : {0, 1}]

Op ==
  {"plain", "load", "cli", "sei", "tap", "wai", "swi", "rti", "lds"}

ASSUME ProgramAssumption ==
  /\ DOMAIN Code \subseteq Word
  /\ Code \in [DOMAIN Code -> [op : Op, next : DOMAIN Code]]
  /\ Loads \subseteq [x : Word, a : Byte, b : Byte]
  /\ {ResetVector, NmiVector, IrqVector, SwiVector} \subseteq DOMAIN Code

ASSUME BoundAssumption ==
  /\ FrameCycles \in Nat \ {0} /\ EnterCycles \in Nat /\ WaitCycles \in Nat
  /\ MaxPresses \in Nat

VARIABLES
  regs,          \* m_pc, m_x, m_d, m_cc
  stack,         \* the frames between S and where the program put it
  wai,           \* m_wai_state
  irq_line,      \* m_irq_state[M6800_IRQ_LINE] is asserted
  nmi_line,      \* m_nmi_state
  nmi_pending,   \* m_nmi_pending
  irq_timeout,   \* irq_timeout
  icount,        \* m_icount
  reset_line,    \* reset_line: 0 is asserted
  phase,         \* where the thread that executes the CPU is
  stepping,      \* it is the GUI thread, in execute_step
  op,            \* the instruction in execution
  button,        \* the NMI button: "up", "test", "latch", "line" or "down"
  presses,       \* history: presses of the NMI button
  taken          \* history: NMIs entered

cpuVars == <<regs, stack, wai, irq_timeout, icount>>
lineVars == <<irq_line, nmi_line, nmi_pending>>
threadVars == <<phase, stepping, op>>
buttonVars == <<button, presses>>
vars == <<cpuVars, lineVars, reset_line, threadVars, buttonVars, taken>>

Phase ==
  {"paused", "frame", "enter", "loop", "inner", "cycles", "timeout", "tail"}

-----------------------------------------------------------------------------
(* The stack: PUSHWORD pushes the low byte first, PULLWORD pulls the high. *)

Low(w) == w % 256
High(w) == w \div 256

(* PC, X, A, B and CC, in the order in which they are pushed *)
PushFrame(r) ==
  <<Low(r.pc), High(r.pc), Low(r.x), High(r.x), r.a, r.b, r.cc>>

(* Mutant: A and B are pulled in the order they were pushed. *)
PullFrameSwapped(f) ==
  [cc |-> f[7], a |-> f[6], b |-> f[5],
   x |-> 256 * f[4] + f[3], pc |-> 256 * f[2] + f[1]]

(* RTI pulls CC, B, A, X and PC, from the last byte on. *)
PullFrame(f) ==
  [cc |-> f[7], b |-> f[6], a |-> f[5],
   x |-> 256 * f[4] + f[3], pc |-> 256 * f[2] + f[1]]

Push(r) == stack' = Append(stack, PushFrame(r))

(* Seven bytes that are the registers of a point of the program *)
StackFrame == {f \in [1 .. 7 -> Byte] : PullFrame(f) \in Registers}

-----------------------------------------------------------------------------
(* enter_interrupt and CHECK_IRQ_LINES. *)

(* From the wait state the frame is already on the stack. *)
EnterInterrupt(vector) ==
  /\ regs' = [regs EXCEPT !.pc = vector, !.cc = 1]
  /\ wai' = FALSE
  /\ IF wai
     THEN icount' = icount - WaitCycles /\ UNCHANGED stack
     ELSE icount' = icount - EnterCycles /\ Push(regs)

TakeNmi ==
  /\ nmi_pending
  /\ nmi_pending' = FALSE
  /\ taken' = taken + 1
  /\ EnterInterrupt(NmiVector)

TakeIrq ==
  /\ ~nmi_pending /\ irq_line /\ regs.cc = 0
  /\ EnterInterrupt(IrqVector)
  /\ UNCHANGED <<nmi_pending, taken>>

TakeNone ==
  /\ ~nmi_pending /\ ~(irq_line /\ regs.cc = 0)
  /\ UNCHANGED <<regs, stack, wai, icount, nmi_pending, taken>>

(* Mutants: the NMI line is tested, not its edge; only a set mask lets an NMI
   be seen. *)
CheckIrqLinesLevel ==
  \/ /\ nmi_line
     /\ taken' = taken + 1 /\ EnterInterrupt(NmiVector)
     /\ UNCHANGED nmi_pending
  \/ ~nmi_line /\ (TakeIrq \/ TakeNone)

CheckIrqLinesMaskable ==
  \/ regs.cc = 0 /\ TakeNmi
  \/ TakeIrq
  \/ /\ ~(nmi_pending /\ regs.cc = 0) /\ ~(irq_line /\ regs.cc = 0)
     /\ UNCHANGED <<regs, stack, wai, icount, nmi_pending, taken>>

(* A pending NMI goes first; an IRQ is taken while the line is down. *)
CheckIrqLines == TakeNmi \/ TakeIrq \/ TakeNone

Check(from, to) ==
  /\ phase = from
  /\ CheckIrqLines
  /\ phase' = to
  /\ UNCHANGED <<irq_line, nmi_line, reset_line, irq_timeout, stepping, op,
                 buttonVars>>

-----------------------------------------------------------------------------
(* Instructions.  PC has moved on when the handler runs. *)

Fetched == [regs EXCEPT !.pc = Code[regs.pc].next]

NoTimeout == UNCHANGED irq_timeout

(* cli, sei, tap: the lines are tested two instructions later. *)
SetMask(i) ==
  /\ regs' = [Fetched EXCEPT !.cc = i]
  /\ irq_timeout' = 2
  /\ UNCHANGED <<stack, wai>>

Load ==
  /\ \E l \in Loads :
       regs' = [Fetched EXCEPT !.x = l.x, !.a = l.a, !.b = l.b]
  /\ NoTimeout /\ UNCHANGED <<stack, wai>>

Plain == regs' = Fetched /\ NoTimeout /\ UNCHANGED <<stack, wai>>

Wai ==
  /\ regs' = Fetched
  /\ Push(Fetched)
  /\ wai' = TRUE
  /\ NoTimeout

Swi ==
  /\ regs' = [Fetched EXCEPT !.pc = SwiVector, !.cc = 1]
  /\ Push(Fetched)
  /\ NoTimeout /\ UNCHANGED wai

(* Programs that return from what was never entered are left out. *)
Rti ==
  /\ stack # <<>>
  /\ regs' = PullFrame(stack[Len(stack)])
  /\ stack' = SubSeq(stack, 1, Len(stack) - 1)
  /\ NoTimeout /\ UNCHANGED wai

(* lds: the stack begins anew elsewhere. *)
Lds ==
  /\ regs' = Fetched
  /\ stack' = <<>>
  /\ NoTimeout /\ UNCHANGED wai

Instruction(o) ==
  \/ o = "plain" /\ Plain
  \/ o = "load" /\ Load
  \/ o = "cli" /\ SetMask(0)
  \/ o = "sei" /\ SetMask(1)
  \/ o = "tap" /\ SetMask(regs.a % 2)
  \/ o = "wai" /\ Wai
  \/ o = "swi" /\ Swi
  \/ o = "rti" /\ Rti
  \/ o = "lds" /\ Lds

-----------------------------------------------------------------------------
(* The thread that executes the CPU: worker, execute_run, execute_step. *)

Frozen == UNCHANGED <<lineVars, reset_line, buttonVars, taken>>

(* device_reset.  The registers other than PC and CC, the stack pointer and
   the countdown are left as they are. *)
DeviceReset ==
  /\ regs' = [regs EXCEPT !.pc = ResetVector, !.cc = 1]
  /\ reset_line' = 1
  /\ wai' = FALSE
  /\ irq_line' = FALSE /\ nmi_line' = FALSE /\ nmi_pending' = FALSE

NoReset == UNCHANGED <<regs, reset_line, wai, lineVars>>

(* worker, pre_execute_run: the cycles of the frame, less the excess of the
   frame before; a pending reset is performed. *)
Frame ==
  /\ phase = "frame"
  /\ icount' = FrameCycles + icount
  /\ IF reset_line = 0 THEN DeviceReset ELSE NoReset
  /\ phase' = "enter"
  /\ UNCHANGED <<stack, irq_timeout, stepping, op, buttonVars, taken>>

(* Mutant: the wait state ends with the frame. *)
EatCyclesWakes ==
  /\ phase = "loop" /\ wai
  /\ icount' = 0 /\ wai' = FALSE
  /\ phase' = IF stepping THEN "paused" ELSE "tail"
  /\ UNCHANGED <<regs, stack, irq_timeout, stepping, op>> /\ Frozen

(* Waiting: the rest of the frame is eaten. *)
EatCycles ==
  /\ phase = "loop" /\ wai
  /\ icount' = 0
  /\ phase' = IF stepping THEN "paused" ELSE "tail"
  /\ UNCHANGED <<regs, stack, wai, irq_timeout, stepping, op>> /\ Frozen

Execute ==
  /\ phase = "loop" /\ ~wai
  /\ op' = Code[regs.pc].op
  /\ Instruction(op')
  /\ phase' = IF op' \in {"rti", "wai"} THEN "inner" ELSE "cycles"
  /\ UNCHANGED <<icount, stepping>> /\ Frozen

(* Mutant: the countdown is not stopped. *)
CyclesUnguarded ==
  /\ phase = "cycles"
  /\ IF stepping
     THEN icount' = 0 /\ phase' = "paused" /\ UNCHANGED irq_timeout
     ELSE /\ icount' = (IF op = "wai" /\ wai THEN 0 ELSE icount) - 1
          /\ irq_timeout' = irq_timeout - 1
          /\ phase' = IF irq_timeout = 1 THEN "timeout" ELSE "tail"
  /\ UNCHANGED <<regs, stack, wai, stepping, op>> /\ Frozen

(* An instruction costs one cycle here.  execute_run counts irq_timeout down;
   execute_step does not, and nobody reads the cycles it leaves. *)
Cycles ==
  /\ phase = "cycles"
  /\ IF stepping
     THEN icount' = 0 /\ phase' = "paused" /\ UNCHANGED irq_timeout
     ELSE /\ icount' = (IF op = "wai" /\ wai THEN 0 ELSE icount) - 1
          /\ irq_timeout' = IF irq_timeout > -1 THEN irq_timeout - 1 ELSE -1
          /\ phase' = IF irq_timeout = 1 THEN "timeout" ELSE "tail"
  /\ UNCHANGED <<regs, stack, wai, stepping, op>> /\ Frozen

FrameOver ==
  /\ phase = "tail"
  /\ phase' = IF icount > 0 THEN "loop" ELSE "frame"
  /\ UNCHANGED <<cpuVars, stepping, op>> /\ Frozen

Cpu ==
  \/ Frame
  \/ Check("enter", "loop")
  \/ EatCycles
  \/ Execute
  \/ Check("inner", "cycles")
  \/ Cycles
  \/ Check("timeout", "tail")
  \/ FrameOver

(* A breakpoint leaves execute_run before the instruction. *)
Break ==
  /\ phase = "loop" /\ ~wai /\ ~stepping
  /\ phase' = "paused"
  /\ UNCHANGED <<cpuVars, stepping, op>> /\ Frozen

-----------------------------------------------------------------------------
(* The GUI thread. *)

Elsewhere == UNCHANGED <<cpuVars, op, taken>>

(* halt: the worker ends with its frame. *)
Pause ==
  /\ phase = "frame" /\ ~stepping
  /\ phase' = "paused"
  /\ UNCHANGED <<stepping, lineVars, reset_line, buttonVars>> /\ Elsewhere

(* start: a new worker has no excess of an earlier frame. *)
Resume ==
  /\ phase = "paused"
  /\ phase' = "frame" /\ stepping' = FALSE /\ icount' = 0
  /\ UNCHANGED <<regs, stack, wai, irq_timeout, op>> /\ Frozen

(* step: a pending reset is performed, or else one instruction. *)
StepReset ==
  /\ phase = "paused" /\ reset_line = 0
  /\ DeviceReset
  /\ UNCHANGED <<stack, irq_timeout, icount, threadVars, buttonVars, taken>>

StepInto ==
  /\ phase = "paused" /\ reset_line = 1
  /\ phase' = "enter" /\ stepping' = TRUE
  /\ UNCHANGED <<cpuVars, op>> /\ Frozen

PressReset ==
  /\ reset_line' = 0
  /\ UNCHANGED <<cpuVars, lineVars, threadVars, buttonVars, taken>>

PullIrqLow ==
  /\ irq_line' = TRUE
  /\ UNCHANGED <<nmi_line, nmi_pending, reset_line, threadVars, buttonVars>>
  /\ Elsewhere

ReleaseIrq ==
  /\ irq_line' = FALSE
  /\ UNCHANGED <<nmi_line, nmi_pending, reset_line, threadVars, buttonVars>>
  /\ Elsewhere

(* The CPU is the GUI thread's own while it steps. *)
GuiFree == ~stepping \/ phase = "paused"

PressNmi ==
  /\ button = "up" /\ presses < MaxPresses
  /\ button' = "test" /\ presses' = presses + 1
  /\ UNCHANGED <<lineVars, reset_line, threadVars>> /\ Elsewhere

(* pull_nmi_low: the line is tested, the edge latched, the line set. *)
TestNmi ==
  /\ button = "test"
  /\ button' = IF nmi_line THEN "line" ELSE "latch"
  /\ UNCHANGED <<lineVars, reset_line, presses, threadVars>> /\ Elsewhere

LatchNmi ==
  /\ button = "latch"
  /\ button' = "line" /\ nmi_pending' = TRUE
  /\ UNCHANGED <<irq_line, nmi_line, reset_line, presses, threadVars>>
  /\ Elsewhere

SetNmiLine ==
  /\ button = "line"
  /\ button' = "down" /\ nmi_line' = TRUE
  /\ UNCHANGED <<irq_line, nmi_pending, reset_line, presses, threadVars>>
  /\ Elsewhere

ReleaseNmi ==
  /\ button = "down"
  /\ button' = "up" /\ nmi_line' = FALSE
  /\ UNCHANGED <<irq_line, nmi_pending, reset_line, presses, threadVars>>
  /\ Elsewhere

(* Between two events the GUI thread does one thing at a time. *)
GuiIdle == GuiFree /\ button \in {"up", "down"}

PullNmiLow == TestNmi \/ LatchNmi \/ SetNmiLine

Gui ==
  \/ PullNmiLow
  \/ /\ GuiIdle
     /\ \/ Pause \/ Resume \/ StepReset \/ StepInto \/ PressReset
        \/ PullIrqLow \/ ReleaseIrq \/ PressNmi \/ ReleaseNmi

-----------------------------------------------------------------------------
(* init: device_start clears the registers, device_reset loads PC. *)
Init ==
  /\ regs = [pc |-> ResetVector, x |-> 0, a |-> 0, b |-> 0, cc |-> 1]
  /\ stack = <<>>
  /\ wai = FALSE
  /\ irq_line = FALSE /\ nmi_line = FALSE /\ nmi_pending = FALSE
  /\ irq_timeout = -1
  /\ icount = 0
  /\ reset_line = 1
  /\ phase = "frame" /\ stepping = FALSE /\ op = "plain"
  /\ button = "up" /\ presses = 0 /\ taken = 0

Next == Cpu \/ Break \/ Gui

Spec == Init /\ [][Next]_vars

(* The executing thread runs on, and a call of the GUI thread returns. *)
FairSpec == Spec /\ WF_vars(Cpu) /\ WF_vars(PullNmiLow)

-----------------------------------------------------------------------------
(* PROPERTIES *)

(* Registers, frames and counters are in range: control stays in the program,
   also through frames, which are seven bytes (PUSHWORD, PUSHBYTE), and the
   countdown is at most two instructions. *)
TypeOK ==
  /\ regs \in Registers
  /\ stack \in Seq(StackFrame)
  /\ wai \in BOOLEAN
  /\ irq_line \in BOOLEAN /\ nmi_line \in BOOLEAN /\ nmi_pending \in BOOLEAN
  /\ irq_timeout \in -1 .. 2
  /\ icount \in Int
  /\ reset_line \in {0, 1}
  /\ phase \in Phase /\ stepping \in BOOLEAN /\ op \in Op
  /\ button \in {"up", "test", "latch", "line", "down"}
  /\ presses \in 0 .. MaxPresses
  /\ taken \in Nat

Saved(s) == [i \in DOMAIN s |-> PullFrame(s[i])]

(* The levels that the registers and the stack stand for: while the CPU waits,
   the registers of the interrupted level are already in its frame. *)
Levels ==
  IF wai THEN Saved(stack) ELSE Append(Saved(stack), regs)

Abstract ==
  INSTANCE InterruptLevels
  WITH levels <- Levels,
       Entries <- {NmiVector, IrqVector, SwiVector},
       ResetEntry <- ResetVector

(* Whatever is interrupted, where and from which state, has its registers back
   when its handler returns: enter_interrupt, WAI, SWI and RTI implement the
   levels of InterruptLevels, WAI followed by an interrupt with one frame. *)
ImplementsLevels == Abstract!Spec

(* A press of the NMI button is one falling edge and is taken at most once,
   however long the button is held, across resets, frames and single steps. *)
EdgeTakenOnce == taken + (IF nmi_pending THEN 1 ELSE 0) <= presses

(* README.md:253: the wait state is left with one of the interrupts or by a
   reset only, also when its frame is over, the emulator paused or stepped. *)
WaitLeftByInterrupt ==
  [][wai /\ ~wai' =>
       \/ regs'.pc = ResetVector /\ reset_line = 0
       \/ regs'.pc = NmiVector /\ nmi_pending
       \/ regs'.pc = IrqVector /\ irq_line /\ regs.cc = 0]_vars

(* If the emulator keeps running frames, a latched NMI is taken, or dropped by
   a reset: no mask, no wait state and no held IRQ keeps it waiting. *)
NmiServed ==
  []<>(phase = "enter") => (nmi_pending ~> ~nmi_pending)

=============================================================================
