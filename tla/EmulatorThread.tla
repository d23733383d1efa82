--------------------------- MODULE EmulatorThread ---------------------------
(***************************************************************************)
(* et3400emu (emu/et3400.cpp): the emulator and its worker thread.  The    *)
(* worker runs the CPU one frame at a time while is_running is set; every  *)
(* instruction first goes through debugger_instruction_hook, which may     *)
(* stop the emulator at a breakpoint by clearing is_running itself and     *)
(* posting an event to the GUI thread.                                     *)
(*                                                                         *)
(* is_running is a plain bool shared by the two threads.  The loop that    *)
(* tests it calls functions the compiler cannot see through, so it is      *)
(* re-read on every turn, and the model takes each access as one step.     *)
(*                                                                         *)
(* The CPU is abstracted to its program counter: Flow gives the addresses  *)
(* an instruction may lead to, Vectors the handlers an interrupt taken at  *)
(* one of the CHECK_IRQ_LINES points may enter.                            *)
(***************************************************************************)
EXTENDS Breakpoints, Naturals, Sequences

CONSTANTS
  NoAddr,       \* 0xFFFF in last_pc: no breakpoint is being resumed from
  Flow,         \* the successors of each instruction
  Vectors,      \* entry points of the interrupt handlers
  ResetVector,  \* the word at 0xFFFE
  FrameLength   \* bound: instructions in one frame (cycles_per_frame)

ASSUME ProgramAssumption ==
  /\ NoAddr \notin Addr
  /\ Flow \in [Addr -> SUBSET Addr]
  /\ Vectors \subseteq Addr
  /\ ResetVector \in Addr

ASSUME FrameAssumption == FrameLength \in Nat \ {0}

VARIABLES
  is_running,   \* et3400emu::is_running
  worker,       \* where the worker thread is; "none" when thread is not joinable
  address,      \* parameter of the hook that is handling a breakpoint
  last_pc,      \* et3400emu::last_pc
  pc,           \* the CPU's program counter
  icount,       \* instructions left in the frame (m_icount)
  reset_line,   \* the CPU's reset_line: 0 is asserted
  bps,          \* the breakpoint table
  queue,        \* events posted to the GUI thread
  dialog,       \* the debugger dialog: "none", "open" or "closing"
  outcome       \* "alive", "aborted" (std::terminate), "exited"

threadVars == <<is_running, worker, outcome>>
hookVars == <<address, last_pc>>
cpuVars == <<pc, icount, reset_line>>
eventVars == <<queue, dialog>>
emuVars == <<threadVars, hookVars, cpuVars, bps, eventVars>>

WorkerPhase ==
  {"none", "frame", "hook", "remove", "clear", "post", "mark", "exec",
   "render", "done"}

(* The worker is inside execute_run and has not left it for a breakpoint:
   it may still fetch the instruction at pc. *)
Executing == {"hook", "remove", "clear", "exec"}

EventType == {"breakpoint", "delete", "quit"}

Posted(event) == \E i \in 1..Len(queue) : queue[i] = event

EmuTypeOK ==
  /\ is_running \in BOOLEAN
  /\ worker \in WorkerPhase
  /\ address \in Addr \cup {NoAddr}
  /\ last_pc \in Addr \cup {NoAddr}
  /\ pc \in Addr
  /\ icount \in 0..FrameLength
  /\ reset_line \in {0, 1}
  /\ bps \in Table
  /\ queue \in Seq(EventType)
  /\ dialog \in {"none", "open", "closing"}
  /\ outcome \in {"alive", "aborted", "exited"}

(* MainWindow::execute_emu: init resets the CPU, start launches the worker;
   the debugger has not been opened yet *)
EmuInit ==
  /\ is_running = TRUE
  /\ worker = "frame"
  /\ address = NoAddr
  /\ last_pc = NoAddr
  /\ pc = ResetVector
  /\ icount = 0
  /\ reset_line = 1
  /\ bps = EmptyTable
  /\ queue = <<>>
  /\ dialog = "none"
  /\ outcome = "alive"

-----------------------------------------------------------------------------
(* The CPU, as far as the control of the thread depends on it *)

(* CHECK_IRQ_LINES: nothing pending, or enter_interrupt *)
AfterIrqCheck(a) == {a} \cup Vectors

(* One instruction; RTI and an expired irq_timeout check the lines after it *)
AfterInstruction(a) == UNION {AfterIrqCheck(b) : b \in Flow[a]}

(* execute_step checks the lines first, and executes nothing in the wait state *)
AfterStep(a) == {a} \cup UNION {AfterInstruction(b) : b \in AfterIrqCheck(a)}

-----------------------------------------------------------------------------
(* Operations of et3400emu called on the GUI thread *)

(* is_running = true; thread = std::thread(worker): assigning to a thread
   object that is still joinable calls std::terminate *)
StartThread ==
  /\ is_running' = TRUE
  /\ IF worker = "none"
     THEN worker' = "frame" /\ UNCHANGED outcome
     ELSE outcome' = "aborted" /\ UNCHANGED worker

(* thread.join(): waits for the worker to return; on a thread object that is
   not joinable it throws std::system_error, which no handler catches *)
JoinThread ==
  /\ worker \in {"done", "none"}
  /\ worker' = "none"
  /\ outcome' = IF worker = "done" THEN outcome ELSE "aborted"

(* et3400emu::step on the GUI thread: a pending reset is performed instead of
   an instruction *)
StepCpu ==
  IF reset_line = 0
  THEN /\ pc' = ResetVector
       /\ reset_line' = 1
  ELSE /\ pc' \in AfterStep(pc)
       /\ UNCHANGED reset_line

-----------------------------------------------------------------------------
(* The worker thread *)

At(phase) == outcome = "alive" /\ worker = phase

(* while (is_running): load the cycle budget, perform a pending reset, check
   the interrupt lines.  A CPU in the wait state eats the frame at once. *)
WorkerFrame ==
  /\ At("frame")
  /\ IF is_running
     THEN /\ worker' \in {"hook", "render"}
          /\ icount' = IF worker' = "hook" THEN FrameLength ELSE 0
          /\ pc' \in AfterIrqCheck(IF reset_line = 0 THEN ResetVector ELSE pc)
          /\ reset_line' = 1
     ELSE /\ worker' = "done"
          /\ UNCHANGED cpuVars
  /\ UNCHANGED <<is_running, bps, outcome, hookVars, eventVars>>

(* check_breakpoint, first half: the locked copy of the entry decides *)
BreaksAt(a) == bps[a] \in Enabled /\ last_pc # a

(* Mutant: check_breakpoint never forgets the breakpoint it resumed from *)
WorkerHookKeepsLastPc ==
  /\ At("hook")
  /\ worker' = IF BreaksAt(pc) THEN "clear" ELSE "exec"
  /\ address' = IF BreaksAt(pc) THEN pc ELSE address
  /\ UNCHANGED <<is_running, last_pc, bps, outcome, cpuVars, eventVars>>

WorkerHook ==
  /\ At("hook")
  /\ IF BreaksAt(pc)
     THEN /\ worker' = IF bps[pc] \in Hidden THEN "remove" ELSE "clear"
          /\ address' = pc
          /\ UNCHANGED last_pc
     ELSE /\ worker' = "exec"
          /\ last_pc' = NoAddr
          /\ UNCHANGED address
  /\ UNCHANGED <<is_running, bps, outcome, cpuVars, eventVars>>

(* removeBreakpoint of a hidden breakpoint, under the lock taken again *)
WorkerRemove ==
  /\ At("remove")
  /\ bps' = RemoveBreakpoint(bps, address)
  /\ worker' = "clear"
  /\ UNCHANGED <<is_running, outcome, hookVars, cpuVars, eventVars>>

(* Mutant: the hook posts its event but lets the emulator run on *)
WorkerClearSkipped ==
  /\ At("clear")
  /\ worker' = "post"
  /\ UNCHANGED <<is_running, bps, outcome, hookVars, cpuVars, eventVars>>

(* this->is_running = false *)
WorkerClear ==
  /\ At("clear")
  /\ is_running' = FALSE
  /\ worker' = "post"
  /\ UNCHANGED <<bps, outcome, hookVars, cpuVars, eventVars>>

(* on_breakpoint(): a queued call to the dialog.  Once the dialog has been
   deleted the callback still holds its address, and the call is undefined: it
   may crash or be lost. *)
WorkerPost ==
  /\ At("post")
  /\ worker' = "mark"
  /\ IF dialog = "none"
     THEN /\ outcome' \in {"alive", "aborted"}
          /\ UNCHANGED queue
     ELSE /\ queue' = Append(queue, "breakpoint")
          /\ UNCHANGED outcome
  /\ UNCHANGED <<is_running, bps, dialog, hookVars, cpuVars>>

(* Mutant: the hook does not remember the breakpoint it has hit *)
WorkerMarkAmnesiac ==
  /\ At("mark")
  /\ address' = NoAddr
  /\ worker' = "render"
  /\ UNCHANGED <<is_running, last_pc, bps, outcome, cpuVars, eventVars>>

(* last_pc = address; the hook returns true and execute_run breaks off *)
WorkerMark ==
  /\ At("mark")
  /\ last_pc' = address
  /\ address' = NoAddr
  /\ worker' = "render"
  /\ UNCHANGED <<is_running, bps, outcome, cpuVars, eventVars>>

(* Mutant: the frame runs one instruction past its last cycle *)
WorkerExecOverrun ==
  /\ At("exec")
  /\ pc' \in AfterInstruction(pc)
  /\ icount' = icount - 1
  /\ worker' = IF icount' < 0 THEN "render" ELSE "hook"
  /\ UNCHANGED <<is_running, reset_line, bps, outcome, hookVars, eventVars>>

(* The instruction: the frame goes on, or its cycles are used up (WAI uses up
   all that are left) *)
WorkerExec ==
  /\ At("exec")
  /\ pc' \in AfterInstruction(pc)
  /\ icount' \in {icount - 1, 0}
  /\ worker' = IF icount' = 0 THEN "render" ELSE "hook"
  /\ UNCHANGED <<is_running, reset_line, bps, outcome, hookVars, eventVars>>

(* render_frame, then sleep until the next frame is due *)
WorkerRender ==
  /\ At("render")
  /\ worker' = "frame"
  /\ UNCHANGED <<is_running, bps, outcome, hookVars, cpuVars, eventVars>>

Worker ==
  \/ WorkerFrame
  \/ WorkerHook
  \/ WorkerRemove
  \/ WorkerClear
  \/ WorkerPost
  \/ WorkerMark
  \/ WorkerExec
  \/ WorkerRender

=============================================================================
