----------------------- MODULE DebuggerControl_proofs -----------------------
(***************************************************************************)
(* Proofs about DebuggerControl and BreakpointHistory, for every program,  *)
(* every set of breakpoints, every choice of handlers and every bound.     *)
(***************************************************************************)
EXTENDS BreakpointHistory, TLAPS

USE DEF threadVars, hookVars, cpuVars, eventVars, emuVars, guiVars,
        KeepLocals, KeepTask

-----------------------------------------------------------------------------
(* The operators of the model stay within their types. *)

LEMMA TableOperations ==
  ASSUME NEW b \in Table, NEW a, NEW on \in BOOLEAN
  PROVE /\ AddBreakpoint(b, a, on) \in Table
        /\ RemoveBreakpoint(b, a) \in Table
        /\ AddOrRemoveBreakpoint(b, a) \in Table
        /\ SetEnabled(b, a, on) \in Table
        /\ ClearBreakpoints(b) \in Table
        /\ ClearRamBreakpoints(b) \in Table
BY DEF Table, BpState, Hidden, Absent, AddBreakpoint, RemoveBreakpoint,
       AddOrRemoveBreakpoint, HasBreakpoint, SetEnabled, ClearBreakpoints,
       ClearRamBreakpoints

LEMMA FileOperations ==
  ASSUME NEW b \in Table, NEW f \in File
  PROVE LoadBreakpoints(ClearBreakpoints(b), f) \in Table
BY DEF Table, BpState, Absent, Hidden, LoadBreakpoints, AddBreakpoints,
       ReadBreakpoints, ClearBreakpoints

LEMMA ProgramOperations ==
  ASSUME NEW a \in Addr
  PROVE /\ AfterIrqCheck(a) \subseteq Addr
        /\ AfterInstruction(a) \subseteq Addr
        /\ AfterStep(a) \subseteq Addr
BY ProgramAssumption DEF AfterIrqCheck, AfterInstruction, AfterStep

-----------------------------------------------------------------------------
(* Type correctness.  The worker counts the frame down by one instruction at a
   time, so that the count stays in its range only because no instruction is
   begun with a count of zero. *)
FrameBegun == worker \in {"hook", "exec"} => icount > 0

TypeInv == TypeOK /\ FrameBegun

LEMMA InitTypeInv == Init => TypeInv
<1> SUFFICES ASSUME Init PROVE TypeInv
  OBVIOUS
<1>1. is_running \in BOOLEAN /\ was_running \in BOOLEAN /\ ui_running \in BOOLEAN
  BY DEF Init, EmuInit
<1>2. bps \in Table
  BY DEF Init, EmuInit, Table, BpState, EmptyTable, Absent
<1> QED
  BY <1>1, <1>2, ProgramAssumption, FrameAssumption
     DEF Init, EmuInit, TypeInv, TypeOK, EmuTypeOK, FrameBegun, WorkerPhase,
         GuiPhase

LEMMA WorkerTypeInv ==
  ASSUME TypeInv, WorkerAction
  PROVE TypeInv'
<1> USE DEF TypeInv, TypeOK, EmuTypeOK, FrameBegun, WorkerPhase, At
<1>1. CASE WorkerFrame
  <2>1. pc' \in Addr
    BY <1>1, ProgramAssumption, ProgramOperations DEF WorkerFrame
  <2> QED BY <1>1, <2>1, FrameAssumption DEF WorkerFrame, WorkerAction
<1>2. CASE WorkerHook
  BY <1>2 DEF WorkerHook, WorkerAction
<1>3. CASE WorkerRemove
  BY <1>3, TableOperations DEF WorkerRemove, WorkerAction
<1>4. CASE WorkerClear
  BY <1>4 DEF WorkerClear, WorkerAction
<1>5. CASE WorkerPost
  BY <1>5 DEF WorkerPost, WorkerAction, EventType
<1>6. CASE WorkerMark
  BY <1>6 DEF WorkerMark, WorkerAction
<1>7. CASE WorkerExec
  <2>1. pc' \in Addr
    BY <1>7, ProgramOperations DEF WorkerExec
  <2> QED BY <1>7, <2>1, FrameAssumption DEF WorkerExec, WorkerAction
<1>8. CASE WorkerRender
  BY <1>8 DEF WorkerRender, WorkerAction
<1> QED
  BY <1>1, <1>2, <1>3, <1>4, <1>5, <1>6, <1>7, <1>8 DEF WorkerAction, Worker

LEMMA UserTypeInv ==
  ASSUME TypeInv, UserAction
  PROVE TypeInv'
<1> USE DEF TypeInv, TypeOK, EmuTypeOK, FrameBegun, WorkerPhase, GuiPhase
<1>1. CASE Run
  BY <1>1 DEF Run, StartThread
<1>2. CASE Stop
  <2>1. is_running' \in BOOLEAN
    BY <1>2 DEF Stop, BeginHalt
  <2> QED BY <1>2, <2>1 DEF Stop, BeginHalt
<1>3. CASE BeginStep
  BY <1>3 DEF BeginStep
<1>4. CASE BeginStepOver
  BY <1>4, CallAssumption DEF BeginStepOver
<1>5. CASE Reset
  BY <1>5 DEF Reset
<1>6. CASE \E a \in Addr : SetPc(a)
  BY <1>6 DEF SetPc
<1>7. CASE EditBreakpoints
  <2>1. bps' \in Table
    BY <1>7, TableOperations
       DEF EditBreakpoints, AddUserBreakpoint, DeleteBreakpoint,
           ToggleBreakpoint, EnableBreakpoint, ClearAllBreakpoints, EditTable
  <2>2. UNCHANGED <<threadVars, hookVars, cpuVars, eventVars, guiVars>>
    BY <1>7
       DEF EditBreakpoints, AddUserBreakpoint, DeleteBreakpoint,
           ToggleBreakpoint, EnableBreakpoint, ClearAllBreakpoints, EditTable
  <2> QED BY <2>1, <2>2
<1>8. CASE CancelLoad
  BY <1>8 DEF CancelLoad
<1>9. CASE \E t \in Tasks \ {"CloseMain"} : BeginTask(t)
  BY <1>9 DEF BeginTask
<1>10. CASE ShowDebugger
  BY <1>10 DEF ShowDebugger
<1>11. CASE CloseDebugger
  <2>1. is_running' \in BOOLEAN
    BY <1>11 DEF CloseDebugger, CloseDialog, StartThread
  <2> QED BY <1>11, <2>1 DEF CloseDebugger, CloseDialog, StartThread, EventType
<1>12. CASE CloseMain
  <2>1. is_running' \in BOOLEAN
    BY <1>12 DEF CloseMain, CloseDialog, StartThread
  <2> QED BY <1>12, <2>1 DEF CloseMain, CloseDialog, StartThread, EventType, Tasks
<1> QED
  BY <1>1, <1>2, <1>3, <1>4, <1>5, <1>6, <1>7, <1>8, <1>9, <1>10, <1>11, <1>12
     DEF UserAction

LEMMA GuiStepTypeInv ==
  ASSUME TypeInv, GuiStepAction
  PROVE TypeInv'
<1> USE DEF TypeInv, TypeOK, EmuTypeOK, FrameBegun, WorkerPhase, GuiPhase, Body
<1>1. CASE HaltJoin
  BY <1>1 DEF HaltJoin, JoinThread
<1>2. CASE UpdateButtonState
  BY <1>2 DEF UpdateButtonState
<1>3. CASE GuiStep
  BY <1>3, ProgramAssumption, ProgramOperations DEF GuiStep, StepCpu
<1>4. CASE StepOverStep
  BY <1>4, ProgramAssumption, ProgramOperations DEF StepOverStep, StepCpu
<1>5. CASE StepOverAdd
  <2>1. bps' \in Table
    BY <1>5, TableOperations, Zenon DEF StepOverAdd
  <2>2. /\ gui' = "over_start"
        /\ next_instruction' = NoAddr
        /\ UNCHANGED <<task, was_running, ui_running, threadVars, hookVars,
                       cpuVars, eventVars>>
    BY <1>5, Zenon DEF StepOverAdd
  <2> QED BY <2>1, <2>2
<1>6. CASE StepOverStart
  BY <1>6 DEF StepOverStart, StartThread
<1>7. CASE StopCheck
  <2>1. is_running' \in BOOLEAN
    BY <1>7 DEF StopCheck
  <2> QED BY <1>7, <2>1 DEF StopCheck
<1>8. CASE StopJoin
  BY <1>8 DEF StopJoin, JoinThread
<1>9. CASE LoadRomBody
  BY <1>9 DEF LoadRomBody
<1>10. CASE LoadRamBody
  <2>1. bps' \in Table
    BY <1>10, TableOperations DEF LoadRamBody
  <2> QED BY <1>10, <2>1 DEF LoadRamBody
<1>11. CASE SaveRamBody
  BY <1>11 DEF SaveRamBody
<1>12. CASE LoadBreakpointsBody
  <2>1. bps' \in Table
    BY <1>12, TableOperations, FileOperations DEF LoadBreakpointsBody
  <2> QED BY <1>12, <2>1 DEF LoadBreakpointsBody
<1>13. CASE ClearRamBody
  <2>1. was_running' \in BOOLEAN
    BY <1>13 DEF ClearRamBody
  <2> QED BY <1>13, <2>1 DEF ClearRamBody
<1>14. CASE Restart
  BY <1>14 DEF Restart, StartThread
<1>15. CASE CloseMainBody
  BY <1>15 DEF CloseMainBody, EventType
<1>16. CASE DestroyEmulator
  BY <1>16 DEF DestroyEmulator
<1> QED
  BY <1>1, <1>2, <1>3, <1>4, <1>5, <1>6, <1>7, <1>8, <1>9, <1>10, <1>11, <1>12,
     <1>13, <1>14, <1>15, <1>16
     DEF GuiStepAction

LEMMA EventTypeInv ==
  ASSUME TypeInv, ErrorBoxDismissed \/ DispatchEvent
  PROVE TypeInv'
<1> USE DEF TypeInv, TypeOK, EmuTypeOK, FrameBegun, WorkerPhase, GuiPhase
<1>1. CASE ErrorBoxDismissed
  BY <1>1 DEF ErrorBoxDismissed
<1>2. CASE HandleBreakpoint
  <2>1. is_running' \in BOOLEAN
    BY <1>2 DEF HandleBreakpoint, BeginHalt
  <2> QED BY <1>2, <2>1 DEF HandleBreakpoint, BeginHalt
<1>3. CASE HandleDelete
  <2>1. <<>> \in Seq(EventType) /\ <<"quit">> \in Seq(EventType)
    BY DEF EventType
  <2> QED BY <1>3, <2>1 DEF HandleDelete
<1>4. CASE HandleQuit
  BY <1>4 DEF HandleQuit, Tasks
<1> QED BY <1>1, <1>2, <1>3, <1>4 DEF DispatchEvent

LEMMA StepTypeInv == TypeInv /\ [Next]_vars => TypeInv'
<1>1. CASE UNCHANGED vars
  BY <1>1 DEF vars, TypeInv, TypeOK, EmuTypeOK, FrameBegun
<1> QED
  BY <1>1, WorkerTypeInv, UserTypeInv, GuiStepTypeInv, EventTypeInv DEF Next

(* Every variable has its type in every reachable state. *)
THEOREM TypeCorrect == Spec => []TypeOK
<1>1. TypeInv => TypeOK
  BY DEF TypeInv
<1> QED BY <1>1, InitTypeInv, StepTypeInv, PTL DEF Spec

-----------------------------------------------------------------------------
(* Mutual exclusion of the two threads on the CPU.  CpuExclusive is not
   inductive: it does not say why the GUI thread, when it reaches a phase of
   CpuAccess, finds the worker outside the instruction loop.  The two parts
   below do: whoever asks the worker to stop stays in Joining until it has, and
   a worker that has stopped itself is already out of the loop. *)
StopRequested == gui \in Joining \cup CpuAccess => ~is_running

ExecutesOnlyIfAwaited == ~is_running /\ worker \in Executing => gui \in Joining

CpuInv == outcome = "alive" => StopRequested /\ ExecutesOnlyIfAwaited

LEMMA CpuInvImplies == CpuInv => CpuExclusive
BY DEF CpuInv, CpuExclusive, StopRequested, ExecutesOnlyIfAwaited, Joining,
       CpuAccess

LEMMA WorkerCpuInv ==
  ASSUME CpuInv, WorkerAction
  PROVE CpuInv'
<1> USE DEF CpuInv, StopRequested, ExecutesOnlyIfAwaited, Executing, At,
            WorkerAction
<1>1. CASE WorkerFrame
  BY <1>1 DEF WorkerFrame
<1>2. CASE WorkerHook
  BY <1>2 DEF WorkerHook
<1>3. CASE WorkerRemove
  BY <1>3 DEF WorkerRemove
<1>4. CASE WorkerClear
  BY <1>4 DEF WorkerClear
<1>5. CASE WorkerPost
  BY <1>5 DEF WorkerPost
<1>6. CASE WorkerMark
  BY <1>6 DEF WorkerMark
<1>7. CASE WorkerExec
  BY <1>7 DEF WorkerExec
<1>8. CASE WorkerRender
  BY <1>8 DEF WorkerRender
<1> QED
  BY <1>1, <1>2, <1>3, <1>4, <1>5, <1>6, <1>7, <1>8 DEF Worker

LEMMA UserCpuInv ==
  ASSUME CpuInv, UserAction
  PROVE CpuInv'
<1> USE DEF CpuInv, StopRequested, ExecutesOnlyIfAwaited, Executing, Joining,
            CpuAccess, User, InDebugger, GuiAt
<1>1. CASE Run
  BY <1>1 DEF Run, StartThread
<1>2. CASE Stop
  BY <1>2 DEF Stop, BeginHalt
<1>3. CASE BeginStep
  BY <1>3 DEF BeginStep
<1>4. CASE BeginStepOver
  BY <1>4 DEF BeginStepOver
<1>5. CASE Reset
  BY <1>5 DEF Reset
<1>6. CASE \E a \in Addr : SetPc(a)
  BY <1>6 DEF SetPc
<1>7. CASE EditBreakpoints
  <2>1. UNCHANGED <<threadVars, gui>> /\ gui = "idle"
    BY <1>7
       DEF EditBreakpoints, AddUserBreakpoint, DeleteBreakpoint,
           ToggleBreakpoint, EnableBreakpoint, ClearAllBreakpoints, EditTable
  <2> QED BY <2>1
<1>8. CASE CancelLoad
  BY <1>8 DEF CancelLoad
<1>9. CASE \E t \in Tasks \ {"CloseMain"} : BeginTask(t)
  BY <1>9 DEF BeginTask
<1>10. CASE ShowDebugger
  BY <1>10 DEF ShowDebugger
<1>11. CASE CloseDebugger
  BY <1>11 DEF CloseDebugger, CloseDialog, StartThread
<1>12. CASE CloseMain
  BY <1>12 DEF CloseMain, CloseDialog, StartThread
<1> QED
  BY <1>1, <1>2, <1>3, <1>4, <1>5, <1>6, <1>7, <1>8, <1>9, <1>10, <1>11, <1>12
     DEF UserAction

LEMMA GuiStepCpuInv ==
  ASSUME CpuInv, GuiStepAction
  PROVE CpuInv'
<1> USE DEF CpuInv, StopRequested, ExecutesOnlyIfAwaited, Executing, Joining,
            CpuAccess, GuiAt, Body
<1>1. CASE HaltJoin
  BY <1>1 DEF HaltJoin, JoinThread
<1>2. CASE UpdateButtonState
  BY <1>2 DEF UpdateButtonState
<1>3. CASE GuiStep
  BY <1>3 DEF GuiStep
<1>4. CASE StepOverStep
  BY <1>4 DEF StepOverStep
<1>5. CASE StepOverAdd
  BY <1>5 DEF StepOverAdd
<1>6. CASE StepOverStart
  BY <1>6 DEF StepOverStart, StartThread
<1>7. CASE StopCheck
  BY <1>7 DEF StopCheck
<1>8. CASE StopJoin
  BY <1>8 DEF StopJoin, JoinThread
<1>9. CASE LoadRomBody
  BY <1>9 DEF LoadRomBody
<1>10. CASE LoadRamBody
  BY <1>10 DEF LoadRamBody
<1>11. CASE SaveRamBody
  BY <1>11 DEF SaveRamBody
<1>12. CASE LoadBreakpointsBody
  BY <1>12 DEF LoadBreakpointsBody
<1>13. CASE ClearRamBody
  BY <1>13 DEF ClearRamBody
<1>14. CASE Restart
  BY <1>14 DEF Restart, StartThread
<1>15. CASE CloseMainBody
  BY <1>15 DEF CloseMainBody
<1>16. CASE DestroyEmulator
  BY <1>16 DEF DestroyEmulator
<1> QED
  BY <1>1, <1>2, <1>3, <1>4, <1>5, <1>6, <1>7, <1>8, <1>9, <1>10, <1>11, <1>12,
     <1>13, <1>14, <1>15, <1>16
     DEF GuiStepAction

LEMMA EventCpuInv ==
  ASSUME CpuInv, ErrorBoxDismissed \/ DispatchEvent
  PROVE CpuInv'
<1> USE DEF CpuInv, StopRequested, ExecutesOnlyIfAwaited, Joining, CpuAccess,
            GuiAt
<1>1. CASE ErrorBoxDismissed
  BY <1>1 DEF ErrorBoxDismissed
<1>2. CASE HandleBreakpoint
  BY <1>2 DEF HandleBreakpoint, BeginHalt
<1>3. CASE HandleDelete
  BY <1>3 DEF HandleDelete
<1>4. CASE HandleQuit
  BY <1>4 DEF HandleQuit
<1> QED BY <1>1, <1>2, <1>3, <1>4 DEF DispatchEvent

(* The GUI thread uses the CPU or the memory only while the worker cannot. *)
THEOREM CpuAlwaysExclusive == Spec => []CpuExclusive
<1>1. Init => CpuInv
  BY DEF Init, EmuInit, CpuInv, StopRequested, ExecutesOnlyIfAwaited, Joining,
         CpuAccess
<1>2. CpuInv /\ [Next]_vars => CpuInv'
  <2>1. CASE UNCHANGED vars
    BY <2>1 DEF vars, CpuInv, StopRequested, ExecutesOnlyIfAwaited
  <2> QED
    BY <2>1, WorkerCpuInv, UserCpuInv, GuiStepCpuInv, EventCpuInv DEF Next
<1> QED BY <1>1, <1>2, CpuInvImplies, PTL DEF Spec

-----------------------------------------------------------------------------
(* Without breakpoints no control operation ever ends the process.  Every
   other hazard of start, stop, halt and resume comes from a worker that has
   stopped itself: without one, the thread is joinable exactly while is_running
   is set or the GUI thread waits in a join. *)
NothingBreaks == EditAddr = {} /\ "StepOver" \notin Handlers

Looping == {"frame", "hook", "exec", "render"}

NoBreakpoint == bps = EmptyTable /\ ~Posted("breakpoint")

ThreadMatches ==
  CASE is_running -> worker \in Looping /\ gui \in {"idle", "refresh", "stop"}
    [] ~is_running /\ gui \in Joining -> worker \in Looping \cup {"done"}
    [] OTHER -> worker = "none"

NoTaskInHalt == gui \in {"join_halt", "refresh", "step"} => task = "none"

UnbrokenInv ==
  /\ TypeInv
  /\ NoBreakpoint
  /\ outcome # "aborted"
  /\ gui \notin {"over_step", "over_add", "over_start"}
  /\ outcome = "alive" => ThreadMatches /\ NoTaskInHalt

LEMMA UnbrokenWorker ==
  ASSUME UnbrokenInv, WorkerAction
  PROVE UnbrokenInv'
<1>1. TypeInv'
  BY WorkerTypeInv DEF UnbrokenInv
<1> USE DEF UnbrokenInv, ThreadMatches, NoTaskInHalt, NoBreakpoint, Posted,
            Looping, Joining, At, WorkerAction
<1>2. worker \in Looping /\ outcome = "alive"
  BY DEF Worker, WorkerFrame, WorkerHook, WorkerRemove, WorkerClear,
         WorkerPost, WorkerMark, WorkerExec, WorkerRender, TypeInv, TypeOK,
         EmuTypeOK
<1>3. CASE WorkerFrame
  BY <1>1, <1>2, <1>3 DEF WorkerFrame
<1>4. CASE WorkerHook
  <2>1. ~BreaksAt(pc)
    BY DEF BreaksAt, EmptyTable, Absent, Enabled, TypeInv, TypeOK, EmuTypeOK
  <2> QED BY <1>1, <1>2, <1>4, <2>1 DEF WorkerHook
<1>5. CASE WorkerExec
  BY <1>1, <1>2, <1>5 DEF WorkerExec
<1>6. CASE WorkerRender
  BY <1>1, <1>2, <1>6 DEF WorkerRender
<1>7. ~(WorkerRemove \/ WorkerClear \/ WorkerPost \/ WorkerMark)
  BY <1>2 DEF WorkerRemove, WorkerClear, WorkerPost, WorkerMark
<1> QED BY <1>3, <1>4, <1>5, <1>6, <1>7 DEF Worker

(* Edits and files find no address to put a breakpoint at. *)
LEMMA NothingToEdit ==
  ASSUME NothingBreaks, bps = EmptyTable
  PROVE /\ ClearBreakpoints(bps) = EmptyTable
        /\ ClearRamBreakpoints(bps) = EmptyTable
        /\ \A f \in File : LoadBreakpoints(EmptyTable, f) = EmptyTable
        /\ EditBreakpoints => UNCHANGED bps
<1>1. ClearBreakpoints(bps) = EmptyTable /\ ClearRamBreakpoints(bps) = EmptyTable
  BY DEF ClearBreakpoints, ClearRamBreakpoints, EmptyTable
<1>2. ASSUME NEW f \in File PROVE LoadBreakpoints(EmptyTable, f) = EmptyTable
  BY DEF NothingBreaks, LoadBreakpoints, AddBreakpoints, ReadBreakpoints,
         EmptyTable, File
<1>3. EditBreakpoints => UNCHANGED bps
  BY <1>1 DEF NothingBreaks, EditBreakpoints, ClearAllBreakpoints, EditTable
<1> QED BY <1>1, <1>2, <1>3

LEMMA UnbrokenUser ==
  ASSUME NothingBreaks, UnbrokenInv, UserAction
  PROVE UnbrokenInv'
<1>1. TypeInv'
  BY UserTypeInv DEF UnbrokenInv
<1> USE DEF UnbrokenInv, ThreadMatches, NoTaskInHalt, NoBreakpoint, Posted,
            Looping, Joining, User, InDebugger, GuiAt
<1>2. CASE Run
  BY <1>1, <1>2 DEF Run, StartThread
<1>3. CASE Stop
  BY <1>1, <1>3 DEF Stop, BeginHalt
<1>4. CASE BeginStep
  BY <1>1, <1>4 DEF BeginStep
<1>5. ~BeginStepOver
  BY DEF BeginStepOver, NothingBreaks
<1>6. CASE Reset
  BY <1>1, <1>6 DEF Reset
<1>7. CASE \E a \in Addr : SetPc(a)
  BY <1>1, <1>7 DEF SetPc
<1>8. CASE EditBreakpoints
  <2>1. UNCHANGED <<threadVars, eventVars, guiVars, bps>>
    BY <1>8, NothingToEdit
       DEF EditBreakpoints, AddUserBreakpoint, DeleteBreakpoint,
           ToggleBreakpoint, EnableBreakpoint, ClearAllBreakpoints, EditTable
  <2> QED BY <1>1, <2>1
<1>9. CASE CancelLoad
  BY <1>1, <1>9 DEF CancelLoad
<1>10. CASE \E t \in Tasks \ {"CloseMain"} : BeginTask(t)
  BY <1>1, <1>10 DEF BeginTask
<1>11. CASE ShowDebugger
  BY <1>1, <1>11 DEF ShowDebugger
<1>12. ASSUME CloseDialog PROVE ~Posted("breakpoint")'
  BY <1>12 DEF CloseDialog, TypeInv, TypeOK, EmuTypeOK
<1>13. CASE CloseDebugger
  BY <1>1, <1>12, <1>13 DEF CloseDebugger, CloseDialog, StartThread
<1>14. CASE CloseMain
  BY <1>1, <1>12, <1>14 DEF CloseMain, CloseDialog, StartThread
<1> QED
  BY <1>2, <1>3, <1>4, <1>5, <1>6, <1>7, <1>8, <1>9, <1>10, <1>11, <1>13, <1>14
     DEF UserAction

LEMMA UnbrokenGuiStep ==
  ASSUME NothingBreaks, UnbrokenInv, GuiStepAction
  PROVE UnbrokenInv'
<1>1. TypeInv'
  BY GuiStepTypeInv DEF UnbrokenInv
<1> USE DEF UnbrokenInv, ThreadMatches, NoTaskInHalt, NoBreakpoint, Posted,
            Looping, Joining, GuiAt, Body
<1>2. CASE HaltJoin
  BY <1>1, <1>2 DEF HaltJoin, JoinThread
<1>3. CASE UpdateButtonState
  BY <1>1, <1>3 DEF UpdateButtonState, BoxTasks
<1>4. CASE GuiStep
  BY <1>1, <1>4 DEF GuiStep
<1>5. ~(StepOverStep \/ StepOverAdd \/ StepOverStart)
  BY DEF StepOverStep, StepOverAdd, StepOverStart
<1>6. CASE StopCheck
  BY <1>1, <1>6 DEF StopCheck
<1>7. CASE StopJoin
  BY <1>1, <1>7 DEF StopJoin, JoinThread
<1>8. CASE LoadRomBody
  BY <1>1, <1>8 DEF LoadRomBody
<1>9. CASE LoadRamBody
  BY <1>1, <1>9, NothingToEdit DEF LoadRamBody
<1>10. CASE SaveRamBody
  BY <1>1, <1>10 DEF SaveRamBody
<1>11. CASE LoadBreakpointsBody
  <2>1. bps' = EmptyTable
    BY <1>11, NothingToEdit DEF LoadBreakpointsBody
  <2> QED BY <1>1, <1>11, <2>1 DEF LoadBreakpointsBody
<1>12. CASE ClearRamBody
  BY <1>1, <1>12 DEF ClearRamBody
<1>13. CASE Restart
  BY <1>1, <1>13 DEF Restart, StartThread
<1>14. CASE CloseMainBody
  BY <1>1, <1>14 DEF CloseMainBody, TypeInv, TypeOK, EmuTypeOK
<1>15. CASE DestroyEmulator
  BY <1>1, <1>15 DEF DestroyEmulator
<1> QED
  BY <1>2, <1>3, <1>4, <1>5, <1>6, <1>7, <1>8, <1>9, <1>10, <1>11, <1>12,
     <1>13, <1>14, <1>15
     DEF GuiStepAction

LEMMA UnbrokenEvent ==
  ASSUME UnbrokenInv, ErrorBoxDismissed \/ DispatchEvent
  PROVE UnbrokenInv'
<1>1. TypeInv'
  BY EventTypeInv DEF UnbrokenInv
<1> USE DEF UnbrokenInv, ThreadMatches, NoTaskInHalt, NoBreakpoint, Posted,
            Looping, Joining, GuiAt
<1>2. CASE ErrorBoxDismissed
  BY <1>1, <1>2 DEF ErrorBoxDismissed
<1>3. ~HandleBreakpoint
  BY DEF HandleBreakpoint, TypeInv, TypeOK, EmuTypeOK
<1>4. CASE HandleDelete
  BY <1>1, <1>4 DEF HandleDelete, TypeInv, TypeOK, EmuTypeOK
<1>5. CASE HandleQuit
  BY <1>1, <1>5 DEF HandleQuit, TypeInv, TypeOK, EmuTypeOK
<1> QED BY <1>2, <1>3, <1>4, <1>5 DEF DispatchEvent

(* An emulator in which nothing is ever stopped by a breakpoint never ends by
   std::terminate, in whatever order its operations and threads run. *)
THEOREM UnbrokenNeverAborts ==
  ASSUME NothingBreaks
  PROVE Spec => []NoAbort
<1>1. Init => UnbrokenInv
  <2> SUFFICES ASSUME Init PROVE UnbrokenInv
    OBVIOUS
  <2>1. TypeInv
    BY InitTypeInv
  <2> QED
    BY <2>1
       DEF Init, EmuInit, UnbrokenInv, NoBreakpoint, Posted, ThreadMatches,
           NoTaskInHalt, Looping, Joining
<1>2. UnbrokenInv /\ [Next]_vars => UnbrokenInv'
  <2>1. CASE UNCHANGED vars
    BY <2>1 DEF vars, UnbrokenInv, TypeInv, TypeOK, EmuTypeOK, FrameBegun,
                NoBreakpoint, Posted, ThreadMatches, NoTaskInHalt
  <2> QED
    BY <2>1, UnbrokenWorker, UnbrokenUser, UnbrokenGuiStep, UnbrokenEvent
       DEF Next
<1>3. UnbrokenInv => NoAbort
  BY DEF UnbrokenInv, NoAbort
<1> QED BY <1>1, <1>2, <1>3, PTL DEF Spec

-----------------------------------------------------------------------------
(* A user who waits for the emulator to settle, and who neither stops it while
   it runs, nor restarts it around a file, nor closes a window, may set as many
   breakpoints as they like.  The handshake after a hit then has four stages:
   the worker loops; it has stopped itself and is about to announce it; the
   announcement or the join is under way; it has been joined.  The user acts in
   the first and the last of them only. *)
UserWaits ==
  /\ Patient
  /\ Handlers \cap (Tasks \cup {"Stop", "CloseDebugger"}) = {}

Quiet == queue = <<>> /\ gui \in {"idle", "refresh"}

InTheLoop == is_running /\ worker \in Looping \cup {"remove", "clear"} /\ Quiet

Announcing == ~is_running /\ worker = "post" /\ Quiet

Leaving ==
  /\ ~is_running
  /\ worker \in {"mark", "render", "frame", "done"}
  /\ \/ queue = <<"breakpoint">> /\ gui \in {"idle", "refresh"}
     \/ queue = <<>> /\ gui = "join_halt"

Parked == ~is_running /\ worker = "none" /\ queue = <<>> /\ gui # "join_halt"

(* Before the debugger is opened there is no breakpoint to hit *)
NotOpenedYet ==
  dialog = "none" /\ bps = EmptyTable /\ InTheLoop /\ gui = "idle"
    /\ worker \in Looping

(* The buttons are right when the user may act, and say "stopped" throughout a
   single step. *)
ButtonsRight ==
  /\ dialog = "open" /\ gui = "idle" /\ InTheLoop => ui_running
  /\ gui \in {"idle", "step", "over_step", "over_add"} /\ Parked => ~ui_running

WaitingInv ==
  /\ TypeInv
  /\ outcome = "alive"
  /\ task = "none"
  /\ gui \in {"idle", "refresh", "join_halt", "step", "over_step", "over_add",
              "over_start"}
  /\ InTheLoop \/ Announcing \/ Leaving \/ Parked
  /\ NotOpenedYet \/ dialog = "open"
  /\ ButtonsRight

LEMMA WaitingWorker ==
  ASSUME WaitingInv, WorkerAction
  PROVE WaitingInv'
<1>1. TypeInv'
  BY WorkerTypeInv DEF WaitingInv
<1> USE DEF WaitingInv, InTheLoop, Announcing, Leaving, Parked, Quiet,
            NotOpenedYet, ButtonsRight, Looping, At, WorkerAction
<1>2. CASE WorkerFrame
  BY <1>1, <1>2 DEF WorkerFrame
<1>3. CASE WorkerHook
  <2>1. bps = EmptyTable => ~BreaksAt(pc)
    BY DEF BreaksAt, EmptyTable, Absent, Enabled, TypeInv, TypeOK, EmuTypeOK
  <2> QED BY <1>1, <1>3, <2>1 DEF WorkerHook
<1>4. CASE WorkerRemove \/ WorkerClear
  BY <1>1, <1>4 DEF WorkerRemove, WorkerClear
<1>5. CASE WorkerPost
  <2>1. dialog = "open" /\ queue = <<>>
    BY <1>5 DEF WorkerPost
  <2>2. queue' = <<"breakpoint">>
    BY <1>5, <2>1 DEF WorkerPost
  <2> QED BY <1>1, <1>5, <2>1, <2>2 DEF WorkerPost
<1>6. CASE WorkerMark
  BY <1>1, <1>6 DEF WorkerMark
<1>7. CASE WorkerExec
  BY <1>1, <1>7 DEF WorkerExec
<1>8. CASE WorkerRender
  BY <1>1, <1>8 DEF WorkerRender
<1> QED
  BY <1>2, <1>3, <1>4, <1>5, <1>6, <1>7, <1>8 DEF Worker

LEMMA WaitingUser ==
  ASSUME UserWaits, WaitingInv, UserAction
  PROVE WaitingInv'
<1>1. TypeInv'
  BY UserTypeInv DEF WaitingInv
<1> USE DEF UserWaits, WaitingInv, InTheLoop, Announcing, Leaving, Parked,
            Quiet, NotOpenedYet, ButtonsRight, Looping, User, InDebugger,
            GuiAt, Settled
<1>2. CASE Run
  BY <1>1, <1>2 DEF Run, StartThread
<1>3. CASE BeginStep \/ BeginStepOver
  BY <1>1, <1>3 DEF BeginStep, BeginStepOver
<1>4. CASE Reset
  BY <1>1, <1>4 DEF Reset
<1>5. CASE \E a \in Addr : SetPc(a)
  BY <1>1, <1>5 DEF SetPc
<1>6. CASE EditBreakpoints
  <2>1. dialog = "open" /\ UNCHANGED <<threadVars, eventVars, guiVars>>
    BY <1>6
       DEF EditBreakpoints, AddUserBreakpoint, DeleteBreakpoint,
           ToggleBreakpoint, EnableBreakpoint, ClearAllBreakpoints, EditTable
  <2> QED BY <1>1, <2>1
<1>7. CASE CancelLoad
  BY <1>1, <1>7 DEF CancelLoad
<1>8. CASE ShowDebugger
  BY <1>1, <1>8 DEF ShowDebugger
<1>9. ~(Stop \/ CloseDebugger \/ CloseMain)
  BY DEF Stop, CloseDebugger, CloseMain, Tasks
<1>10. ASSUME NEW t \in Tasks PROVE ~BeginTask(t)
  BY DEF BeginTask
<1> QED
  BY <1>2, <1>3, <1>4, <1>5, <1>6, <1>7, <1>8, <1>9, <1>10 DEF UserAction

LEMMA WaitingGuiStep ==
  ASSUME WaitingInv, GuiStepAction
  PROVE WaitingInv'
<1>1. TypeInv'
  BY GuiStepTypeInv DEF WaitingInv
<1> USE DEF WaitingInv, InTheLoop, Announcing, Leaving, Parked, Quiet,
            NotOpenedYet, ButtonsRight, Looping, GuiAt, Body
<1>2. CASE HaltJoin
  BY <1>1, <1>2 DEF HaltJoin, JoinThread
<1>3. CASE UpdateButtonState
  BY <1>1, <1>3 DEF UpdateButtonState, BoxTasks
<1>4. CASE GuiStep
  BY <1>1, <1>4 DEF GuiStep
<1>5. CASE StepOverStep
  BY <1>1, <1>5 DEF StepOverStep
<1>6. CASE StepOverAdd
  BY <1>1, <1>6 DEF StepOverAdd
<1>7. CASE StepOverStart
  BY <1>1, <1>7 DEF StepOverStart, StartThread
<1>8. ~(StopCheck \/ StopJoin \/ Restart)
  BY DEF StopCheck, StopJoin, Restart
<1>9. gui # "body"
  OBVIOUS
<1> QED
  BY <1>2, <1>3, <1>4, <1>5, <1>6, <1>7, <1>8, <1>9
     DEF GuiStepAction, LoadRomBody, LoadRamBody, SaveRamBody,
         LoadBreakpointsBody, ClearRamBody, CloseMainBody, DestroyEmulator

LEMMA WaitingEvent ==
  ASSUME WaitingInv, ErrorBoxDismissed \/ DispatchEvent
  PROVE WaitingInv'
<1>1. TypeInv'
  BY EventTypeInv DEF WaitingInv
<1> USE DEF WaitingInv, InTheLoop, Announcing, Leaving, Parked, Quiet,
            NotOpenedYet, ButtonsRight, Looping, GuiAt
<1>2. queue = <<>> \/ queue = <<"breakpoint">>
  OBVIOUS
<1>3. HandleBreakpoint
  BY <1>2 DEF DispatchEvent, ErrorBoxDismissed, HandleDelete, HandleQuit
<1>4. queue = <<"breakpoint">> /\ queue' = <<>>
  <2>1. Len(<<"breakpoint">>) = 1 /\ <<"breakpoint">> \in Seq(EventType)
    BY DEF EventType
  <2>2. Tail(<<"breakpoint">>) = <<>>
    BY <2>1, Len(Tail(<<"breakpoint">>)) = 0
  <2> QED BY <1>2, <1>3, <2>2 DEF HandleBreakpoint
<1> QED BY <1>1, <1>3, <1>4 DEF HandleBreakpoint, BeginHalt

LEMMA WaitingAlways ==
  /\ Init => WaitingInv
  /\ UserWaits /\ WaitingInv /\ [Next]_vars => WaitingInv'
<1>1. Init => WaitingInv
  <2> SUFFICES ASSUME Init PROVE WaitingInv
    OBVIOUS
  <2>1. TypeInv
    BY InitTypeInv
  <2> QED
    BY <2>1
       DEF Init, EmuInit, WaitingInv, InTheLoop, Parked, Quiet, NotOpenedYet,
           ButtonsRight, Looping
<1>2. WaitingInv /\ UNCHANGED vars => WaitingInv'
  BY DEF vars, WaitingInv, TypeInv, TypeOK, EmuTypeOK, FrameBegun, InTheLoop,
         Announcing, Leaving, Parked, Quiet, NotOpenedYet, ButtonsRight
<1>3. UserWaits /\ WaitingInv /\ Next => WaitingInv'
  BY WaitingWorker, WaitingUser, WaitingGuiStep, WaitingEvent DEF Next
<1> QED BY <1>1, <1>2, <1>3

(* The hit of a breakpoint never crashes the emulator of a user who waits: the
   worker that has stopped itself is joined before it can be started again. *)
THEOREM WaitingNeverAborts ==
  ASSUME UserWaits
  PROVE Spec => []NoAbort
<1>1. WaitingInv => NoAbort
  BY DEF WaitingInv, NoAbort
<1> QED BY <1>1, WaitingAlways, PTL DEF Spec

(* The same user always finds the buttons of the debugger right: every way to
   run or to halt the emulator ends in update_button_state. *)
THEOREM WaitingSeesTruth ==
  ASSUME UserWaits
  PROVE Spec => []UiTruthful
<1>1. WaitingInv => UiTruthful
  <2> SUFFICES ASSUME WaitingInv, gui = "idle", dialog = "open", Settled
               PROVE  ui_running = is_running
    BY DEF UiTruthful
  <2>1. InTheLoop \/ Parked
    BY DEF WaitingInv, Settled, Announcing, Leaving
  <2>2. ui_running \in BOOLEAN /\ is_running \in BOOLEAN
    BY DEF WaitingInv, TypeInv, TypeOK, EmuTypeOK
  <2>3. ui_running <=> is_running
    BY <2>1 DEF WaitingInv, ButtonsRight, InTheLoop, Parked
  <2> QED BY <2>2, <2>3, Zenon
<1> QED BY <1>1, WaitingAlways, PTL DEF Spec

-----------------------------------------------------------------------------
(* BreakpointHistory: last_pc does what it is for. *)

(* What the GUI thread can do to the worker *)

(* It never writes what the hook remembers.  It sets is_running only when it
   launches the worker, or ends the process. *)
GuiEffect ==
  /\ outcome = "alive"
  /\ UNCHANGED <<address, last_pc>>
  /\ \/ worker' = worker /\ (is_running' => is_running \/ outcome' # "alive")
     \/ worker = "none" /\ worker' = "frame"
     \/ worker \in {"none", "done"} /\ worker' = "none"

LEMMA UserEffect == UserAction => GuiEffect
<1> USE DEF GuiEffect, User, InDebugger, GuiAt, StartThread, JoinThread
<1>1. CASE Run \/ Stop
  BY <1>1 DEF Run, Stop, BeginHalt
<1>2. CASE BeginStep \/ BeginStepOver
  BY <1>2 DEF BeginStep, BeginStepOver
<1>3. CASE Reset \/ \E a \in Addr : SetPc(a)
  BY <1>3 DEF Reset, SetPc
<1>4. CASE EditBreakpoints
  BY <1>4 DEF EditBreakpoints, AddUserBreakpoint, DeleteBreakpoint,
              ToggleBreakpoint, EnableBreakpoint, ClearAllBreakpoints, EditTable
<1>5. CASE CancelLoad \/ ShowDebugger
  BY <1>5 DEF CancelLoad, ShowDebugger
<1>6. CASE \E t \in Tasks \ {"CloseMain"} : BeginTask(t)
  BY <1>6 DEF BeginTask
<1>7. CASE CloseDebugger \/ CloseMain
  BY <1>7 DEF CloseDebugger, CloseMain, CloseDialog
<1> QED
  BY <1>1, <1>2, <1>3, <1>4, <1>5, <1>6, <1>7 DEF UserAction

LEMMA StepEffect == GuiStepAction => GuiEffect
<1> USE DEF GuiEffect, GuiAt, Body, StartThread, JoinThread
<1>1. CASE HaltJoin \/ UpdateButtonState \/ GuiStep
  BY <1>1 DEF HaltJoin, UpdateButtonState, GuiStep
<1>2. CASE StepOverStep \/ StepOverAdd \/ StepOverStart
  BY <1>2 DEF StepOverStep, StepOverAdd, StepOverStart
<1>3. CASE StopCheck \/ StopJoin
  BY <1>3 DEF StopCheck, StopJoin
<1>4. CASE LoadRomBody \/ LoadRamBody \/ SaveRamBody
  BY <1>4 DEF LoadRomBody, LoadRamBody, SaveRamBody
<1>5. CASE LoadBreakpointsBody \/ ClearRamBody
  BY <1>5 DEF LoadBreakpointsBody, ClearRamBody
<1>6. CASE Restart
  BY <1>6 DEF Restart
<1>7. CASE CloseMainBody \/ DestroyEmulator
  BY <1>7 DEF CloseMainBody, DestroyEmulator
<1> QED
  BY <1>1, <1>2, <1>3, <1>4, <1>5, <1>6, <1>7 DEF GuiStepAction

LEMMA EventEffect == ErrorBoxDismissed \/ DispatchEvent => GuiEffect
BY DEF GuiEffect, GuiAt, ErrorBoxDismissed, DispatchEvent, HandleBreakpoint,
       BeginHalt, HandleDelete, HandleQuit

(* Every step is the worker's, or has the effect above. *)
LEMMA StepsOfTwo == Next => Worker \/ GuiEffect
BY UserEffect, StepEffect, EventEffect DEF Next, WorkerAction

-----------------------------------------------------------------------------
(* A breakpoint is passed over only at the start *)

(* While the process lives, a worker that remembers a breakpoint has executed
   nothing yet, or is on its way out. *)
ResumeInv ==
  outcome = "alive" =>
    /\ worker \in {"post", "mark"} => ~is_running
    /\ worker = "exec" => last_pc = NoAddr
    /\ worker = "hook" /\ last_pc # NoAddr => fresh
    /\ worker \in {"frame", "render"} /\ last_pc # NoAddr => fresh \/ ~is_running

LEMMA WorkerResumes ==
  ASSUME ResumeInv, Worker, fresh' = (Launched \/ (fresh /\ worker # "exec"))
  PROVE  ResumeInv'
<1> USE DEF ResumeInv, At, Launched
<1>1. CASE WorkerFrame
  BY <1>1 DEF WorkerFrame
<1>2. CASE WorkerHook
  BY <1>2 DEF WorkerHook
<1>3. CASE WorkerRemove \/ WorkerClear
  BY <1>3 DEF WorkerRemove, WorkerClear
<1>4. CASE WorkerPost \/ WorkerMark
  BY <1>4 DEF WorkerPost, WorkerMark
<1>5. CASE WorkerExec
  BY <1>5 DEF WorkerExec
<1>6. CASE WorkerRender
  BY <1>6 DEF WorkerRender
<1> QED BY <1>1, <1>2, <1>3, <1>4, <1>5, <1>6 DEF Worker

LEMMA GuiResumes ==
  ASSUME ResumeInv, GuiEffect, fresh' = (Launched \/ (fresh /\ worker # "exec"))
  PROVE  ResumeInv'
BY DEF ResumeInv, GuiEffect, Launched

(* Only the first instruction after a launch passes over an enabled breakpoint,
   the one that the emulator has stopped at (check_breakpoint and
   debugger_instruction_hook, emu/et3400.cpp). *)
THEOREM NeverMissed == HistorySpec => BreakpointNeverMissed
<1>1. HistoryInit => ResumeInv
  BY DEF HistoryInit, Init, EmuInit, ResumeInv
<1>2. ResumeInv /\ [HistoryNext]_historyVars => ResumeInv'
  <2>1. CASE HistoryNext
    BY <2>1, StepsOfTwo, WorkerResumes, GuiResumes DEF HistoryNext
  <2>2. CASE UNCHANGED historyVars
    BY <2>2 DEF historyVars, vars, ResumeInv
  <2> QED BY <2>1, <2>2
<1>3. TypeInv /\ ResumeInv /\ [HistoryNext]_historyVars =>
        [worker = "hook" /\ worker' = "exec" /\ bps[pc] \in Enabled
           => fresh /\ pc = last_pc]_historyVars
  <2> SUFFICES ASSUME TypeInv, ResumeInv, HistoryNext, worker = "hook", worker' = "exec",
                      bps[pc] \in Enabled
               PROVE  fresh /\ pc = last_pc
    OBVIOUS
  <2>1. WorkerHook
    <3>1. ~GuiEffect
      BY DEF GuiEffect
    <3> QED BY <3>1, StepsOfTwo
            DEF HistoryNext, Worker, At, WorkerFrame, WorkerRemove, WorkerClear,
                WorkerPost, WorkerMark, WorkerExec, WorkerRender
  <2>2. outcome = "alive" /\ last_pc = pc
    BY <2>1 DEF WorkerHook, At, BreaksAt
  <2>3. pc # NoAddr
    BY ProgramAssumption DEF TypeInv, TypeOK, EmuTypeOK
  <2> QED BY <2>2, <2>3 DEF ResumeInv
<1>4. HistoryInit => TypeInv
  BY InitTypeInv DEF HistoryInit
<1>5. TypeInv /\ [HistoryNext]_historyVars => TypeInv'
  BY StepTypeInv DEF HistoryNext, historyVars
<1> QED
  BY <1>1, <1>2, <1>3, <1>4, <1>5, PTL DEF HistorySpec, BreakpointNeverMissed

-----------------------------------------------------------------------------
(* No breakpoint is hit twice on the spot *)

(* As long as the program counter has not been set since a hit was decided,
   the hook is handling that hit, remembers it, or has let it pass. *)
Hitting == {"remove", "clear", "post", "mark"}

HitInv ==
  ~moved => \/ worker \in Hitting /\ address = pc
            \/ worker \notin Hitting /\ last_pc = pc
            \/ worker = "exec"

LEMMA WorkerHits ==
  ASSUME HitInv, Worker, moved' = (Moved \/ (moved /\ ~Hit))
  PROVE  HitInv' /\ (Hit => moved)
<1> USE DEF HitInv, At, Hit, Hitting
<1>0. Moved \/ pc' = pc
  BY DEF Moved
<1>1. CASE WorkerFrame
  BY <1>0, <1>1 DEF WorkerFrame
<1>2. CASE WorkerHook
  BY <1>0, <1>2 DEF WorkerHook, BreaksAt
<1>3. CASE WorkerRemove \/ WorkerClear
  BY <1>0, <1>3 DEF WorkerRemove, WorkerClear
<1>4. CASE WorkerPost \/ WorkerMark
  BY <1>0, <1>4 DEF WorkerPost, WorkerMark
<1>5. CASE WorkerExec
  BY <1>5 DEF WorkerExec, Moved
<1>6. CASE WorkerRender
  BY <1>0, <1>6 DEF WorkerRender
<1> QED BY <1>1, <1>2, <1>3, <1>4, <1>5, <1>6 DEF Worker

LEMMA GuiHits ==
  ASSUME HitInv, GuiEffect, moved' = (Moved \/ (moved /\ ~Hit))
  PROVE  HitInv' /\ ~Hit
<1>1. Moved \/ pc' = pc
  BY DEF Moved
<1> QED BY <1>1 DEF HitInv, GuiEffect, Hit, Hitting

(* The emulator does not stop twice at a breakpoint without having moved: it
   always gets past the breakpoint that it resumes from. *)
THEOREM NeverRehit == HistorySpec => ProgressBeforeRehit
<1>1. HistoryInit => HitInv
  BY DEF HistoryInit, HitInv
<1>2. HitInv /\ [HistoryNext]_historyVars => HitInv' /\ [Hit => moved]_historyVars
  <2>1. CASE HistoryNext
    BY <2>1, StepsOfTwo, WorkerHits, GuiHits DEF HistoryNext
  <2>2. CASE UNCHANGED historyVars
    BY <2>2 DEF historyVars, vars, HitInv, Hitting
  <2> QED BY <2>1, <2>2
<1> QED BY <1>1, <1>2, PTL DEF HistorySpec, ProgressBeforeRehit

=============================================================================
