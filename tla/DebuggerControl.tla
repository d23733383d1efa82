--------------------------- MODULE DebuggerControl ---------------------------
(***************************************************************************)
(* The GUI thread (windows/debugger.cpp, windows/file.cpp, the life cycle  *)
(* parts of windows/mainwindow.cpp) driving the emulator of                *)
(* EmulatorThread.  The GUI thread runs one handler at a time; a handler   *)
(* that waits for the worker, or whose steps the worker can observe, is a  *)
(* small program whose counter is gui.                                     *)
(*                                                                         *)
(* Two sources feed the event loop: the user, and the queue of posted      *)
(* events.  Qt fixes no order between them, so a click may be handled      *)
(* while an event is waiting.  The deletion of a closed dialog is the      *)
(* exception: it happens before the loop takes the next click.             *)
(***************************************************************************)
EXTENDS EmulatorThread

CONSTANTS
  CallSites,     \* addresses of BSR and JSR instructions
  ReturnAddr,    \* the instruction after each of them
  EditAddr,      \* addresses at which the user edits breakpoints
  Handlers,      \* what the user does in this instance
  Patient,       \* TRUE: the user waits until the emulator has settled
  QueueBound     \* bound: posted events pending when the user stops again

Tasks == {"LoadRom", "LoadRam", "SaveRam", "LoadBreakpoints", "ClearRam",
          "CloseMain", "Quit"}

AllHandlers == Tasks \cup
  {"Run", "Stop", "StepInto", "StepOver", "Reset", "SetPc", "CancelLoad",
   "ShowDebugger", "CloseDebugger", "EditBreakpoints"}

ASSUME CallAssumption ==
  /\ CallSites \subseteq Addr
  /\ ReturnAddr \in [CallSites -> Addr]

ASSUME UserAssumption ==
  /\ EditAddr \subseteq Addr
  /\ Handlers \subseteq AllHandlers
  /\ Patient \in BOOLEAN
  /\ QueueBound \in Nat

VARIABLES
  gui,              \* the step the GUI thread is at
  task,             \* the file or shutdown operation in progress, or "none"
  was_running,      \* the local of DebuggerDialog::clear_ram
  next_instruction, \* the local of DebuggerDialog::step_over
  ui_running        \* is_running as update_button_state last saw it

guiVars == <<gui, task, was_running, next_instruction, ui_running>>

vars == <<emuVars, guiVars>>

GuiPhase ==
  {"idle", "join_halt", "refresh", "step", "over_step", "over_add", "over_start",
   "stop", "join_stop", "body", "errorbox", "restart"}

(* Phases in which the GUI thread itself uses the CPU or the memory *)
CpuAccess == {"step", "over_step", "body"}

Joining == {"join_halt", "join_stop"}

(* Operations that run a message box, and with it a nested event loop,
   between stop() and start() *)
BoxTasks == {"LoadRom", "LoadRam", "LoadBreakpoints"}

TypeOK ==
  /\ EmuTypeOK
  /\ gui \in GuiPhase
  /\ task \in Tasks \cup {"none"}
  /\ was_running \in BOOLEAN
  /\ next_instruction \in Addr \cup {NoAddr}
  /\ ui_running \in BOOLEAN

Init ==
  /\ EmuInit
  /\ gui = "idle"
  /\ task = "none"
  /\ was_running = FALSE
  /\ next_instruction = NoAddr
  /\ ui_running = TRUE

-----------------------------------------------------------------------------
(* Who may act *)

GuiAt(phase) == outcome = "alive" /\ gui = phase

(* Nothing is under way: no event waits, and the worker either runs or has
   been joined. *)
Settled == queue = <<>> /\ (is_running \/ worker = "none")

(* The event loop hands a click to the handler of h *)
User(h) ==
  /\ h \in Handlers
  /\ GuiAt("idle")
  /\ task = "none"
  /\ dialog # "closing"
  /\ Patient => Settled

InDebugger(h) == User(h) /\ dialog = "open"

(* Locals that a handler does not use stay reset *)
KeepLocals == UNCHANGED <<was_running, next_instruction>>

(* A step of a handler that moves its counter only *)
KeepTask == UNCHANGED <<task, was_running, next_instruction, ui_running>>

-----------------------------------------------------------------------------
(* Run, Stop and the single steps *)

(* DebuggerDialog::start: resume, then update_button_state *)
Run ==
  /\ InDebugger("Run")
  /\ ~ui_running /\ ~is_running
  /\ StartThread
  /\ gui' = "refresh"
  /\ KeepLocals
  /\ UNCHANGED <<bps, task, ui_running, hookVars, cpuVars, eventVars>>

(* et3400emu::halt, up to the join *)
BeginHalt ==
  /\ is_running' = FALSE
  /\ gui' = "join_halt"
  /\ KeepLocals
  /\ UNCHANGED <<worker, bps, dialog, outcome, task, ui_running, hookVars,
                 cpuVars>>

(* DebuggerDialog::stop *)
Stop ==
  /\ InDebugger("Stop")
  /\ ui_running /\ is_running
  /\ Len(queue) <= QueueBound
  /\ BeginHalt
  /\ UNCHANGED queue

(* Mutant: breakpoint_handler updates the window but does not halt *)
HandleBreakpointShallow ==
  /\ GuiAt("idle") \/ GuiAt("errorbox")
  /\ queue # <<>> /\ Head(queue) = "breakpoint"
  /\ queue' = Tail(queue)
  /\ gui' = "refresh"
  /\ KeepTask
  /\ UNCHANGED <<threadVars, hookVars, cpuVars, bps, dialog>>

(* breakpoint_handler: the event the worker posted has arrived.  The loop that
   delivers it may be the one nested in a message box. *)
HandleBreakpoint ==
  /\ GuiAt("idle") \/ GuiAt("errorbox")
  /\ queue # <<>> /\ Head(queue) = "breakpoint"
  /\ queue' = Tail(queue)
  /\ BeginHalt

(* Mutant: halt returns without waiting for the worker *)
HaltJoinDetached ==
  /\ GuiAt("join_halt")
  /\ gui' = "refresh"
  /\ KeepTask
  /\ UNCHANGED emuVars

(* The join inside halt *)
HaltJoin ==
  /\ GuiAt("join_halt")
  /\ JoinThread
  /\ gui' = "refresh"
  /\ KeepLocals
  /\ UNCHANGED <<is_running, bps, task, ui_running, hookVars, cpuVars,
                 eventVars>>

(* update_button_state *)
UpdateButtonState ==
  /\ GuiAt("refresh")
  /\ ui_running' = is_running
  /\ gui' = IF task \in BoxTasks THEN "errorbox" ELSE "idle"
  /\ KeepLocals
  /\ UNCHANGED <<emuVars, task>>

(* DebuggerDialog::step_into, and step_over on any other instruction *)
BeginStep ==
  /\ \/ InDebugger("StepInto")
     \/ InDebugger("StepOver") /\ pc \notin CallSites
  /\ ~ui_running /\ ~is_running
  /\ gui' = "step"
  /\ KeepLocals
  /\ UNCHANGED <<emuVars, task, ui_running>>

(* The buttons are not updated after a step *)
GuiStep ==
  /\ GuiAt("step")
  /\ StepCpu
  /\ gui' = "idle"
  /\ KeepLocals
  /\ UNCHANGED <<icount, bps, task, ui_running, threadVars, hookVars,
                 eventVars>>

(* DebuggerDialog::step_over on a call: step into the subroutine, plant a
   hidden breakpoint behind the call, run *)
BeginStepOver ==
  /\ InDebugger("StepOver") /\ pc \in CallSites
  /\ ~ui_running /\ ~is_running
  /\ gui' = "over_step"
  /\ next_instruction' = ReturnAddr[pc]
  /\ UNCHANGED <<emuVars, task, was_running, ui_running>>

StepOverStep ==
  /\ GuiAt("over_step")
  /\ StepCpu
  /\ gui' = "over_add"
  /\ KeepLocals
  /\ UNCHANGED <<icount, bps, task, ui_running, threadVars, hookVars,
                 eventVars>>

(* Mutant: step_over starts the emulator without updating the buttons *)
StepOverStartSilent ==
  /\ GuiAt("over_start")
  /\ StartThread
  /\ gui' = "idle"
  /\ KeepTask
  /\ UNCHANGED <<bps, hookVars, cpuVars, eventVars>>

StepOverAdd ==
  /\ GuiAt("over_add")
  /\ bps' = AddBreakpoint(bps, next_instruction, TRUE)
  /\ gui' = "over_start"
  /\ next_instruction' = NoAddr
  /\ UNCHANGED <<task, was_running, ui_running, threadVars, hookVars, cpuVars,
                 eventVars>>

StepOverStart ==
  /\ GuiAt("over_start")
  /\ StartThread
  /\ gui' = "refresh"
  /\ KeepLocals
  /\ UNCHANGED <<bps, task, ui_running, hookVars, cpuVars, eventVars>>

-----------------------------------------------------------------------------
(* Reset, register edits, breakpoint edits: one step each *)

(* The RESET key and the debugger's button pull the line low; it stays low
   until the CPU performs the reset *)
Reset ==
  /\ User("Reset")
  /\ reset_line' = 0
  /\ UNCHANGED <<pc, icount, bps, guiVars, threadVars, hookVars, eventVars>>

(* The register pane is enabled while the Run button is *)
SetPc(a) ==
  /\ InDebugger("SetPc")
  /\ ~ui_running
  /\ pc' = a
  /\ UNCHANGED <<icount, reset_line, bps, guiVars, threadVars, hookVars,
                 eventVars>>

EditTable(new) ==
  /\ InDebugger("EditBreakpoints")
  /\ bps' = new
  /\ UNCHANGED <<guiVars, threadVars, hookVars, cpuVars, eventVars>>

AddUserBreakpoint(a) == EditTable(AddBreakpoint(bps, a, FALSE))
DeleteBreakpoint(a) == EditTable(RemoveBreakpoint(bps, a))
ToggleBreakpoint(a) == EditTable(AddOrRemoveBreakpoint(bps, a))
EnableBreakpoint(a, on) == EditTable(SetEnabled(bps, a, on))
ClearAllBreakpoints == EditTable(ClearBreakpoints(bps))

(* Closing a file dialog without a choice still ends in after_load_rom or
   after_load_ram, which update the buttons *)
CancelLoad ==
  /\ InDebugger("CancelLoad")
  /\ gui' = "refresh"
  /\ KeepLocals
  /\ UNCHANGED <<emuVars, task, ui_running>>

-----------------------------------------------------------------------------
(* File operations, Clear RAM and the shutdown: stop, a body, start again *)

(* The user has confirmed the operation's dialog.  clear_ram calls stop only
   if it saw the emulator running; the others call it always. *)
BeginTask(t) ==
  /\ User(t)
  /\ t \in {"LoadBreakpoints", "ClearRam"} => dialog = "open"
  /\ Len(queue) <= QueueBound
  /\ task' = t
  /\ was_running' = (t = "ClearRam" /\ is_running)
  /\ gui' = IF t = "ClearRam" /\ ~is_running THEN "body" ELSE "stop"
  /\ UNCHANGED <<emuVars, next_instruction, ui_running>>

(* Mutant: stop joins the worker without telling it to stop *)
StopCheckForgetful ==
  /\ GuiAt("stop")
  /\ gui' = IF is_running THEN "join_stop" ELSE "body"
  /\ KeepTask
  /\ UNCHANGED emuVars

(* Mutant: stop returns without waiting for the worker *)
StopJoinDetached ==
  /\ GuiAt("join_stop")
  /\ gui' = "body"
  /\ KeepTask
  /\ UNCHANGED emuVars

(* et3400emu::stop: only an emulator that runs is joined *)
StopCheck ==
  /\ GuiAt("stop")
  /\ is_running' = FALSE
  /\ gui' = IF is_running THEN "join_stop" ELSE "body"
  /\ KeepLocals
  /\ UNCHANGED <<worker, outcome, hookVars, cpuVars, bps, eventVars, task,
                 ui_running>>

StopJoin ==
  /\ GuiAt("join_stop")
  /\ JoinThread
  /\ gui' = "body"
  /\ KeepLocals
  /\ UNCHANGED <<is_running, hookVars, cpuVars, bps, eventVars, task, ui_running>>

Body(t) == GuiAt("body") /\ task = t /\ KeepTask

(* load_rom_dialog: a file that cannot be loaded raises a message box *)
LoadRomBody ==
  /\ Body("LoadRom")
  /\ \/ gui' = "restart" /\ reset_line' = 0
     \/ gui' = "errorbox" /\ UNCHANGED reset_line
  /\ UNCHANGED <<threadVars, hookVars, pc, icount, bps, eventVars>>

LoadRamBody ==
  /\ Body("LoadRam")
  /\ \/ gui' = "restart" /\ reset_line' = 0 /\ bps' = ClearRamBreakpoints(bps)
     \/ gui' = "errorbox" /\ UNCHANGED <<reset_line, bps>>
  /\ UNCHANGED <<threadVars, hookVars, pc, icount, eventVars>>

SaveRamBody ==
  /\ Body("SaveRam")
  /\ gui' = "restart"
  /\ UNCHANGED emuVars

(* The breakpoint files the user may have *)
File == {f \in BreakpointFile : \A a \in Addr \ EditAddr : f[a] = Absent}

(* The old breakpoints go first; an invalid file leaves the table empty *)
LoadBreakpointsBody ==
  /\ Body("LoadBreakpoints")
  /\ \/ /\ gui' = "restart"
        /\ \E f \in File : bps' = LoadBreakpoints(ClearBreakpoints(bps), f)
     \/ gui' = "errorbox" /\ bps' = ClearBreakpoints(bps)
  /\ UNCHANGED <<threadVars, hookVars, cpuVars, eventVars>>

(* reset and start only if the emulator was running *)
ClearRamBody ==
  /\ GuiAt("body") /\ task = "ClearRam"
  /\ was_running' = FALSE
  /\ IF was_running
     THEN gui' = "restart" /\ reset_line' = 0 /\ UNCHANGED task
     ELSE gui' = "idle" /\ task' = "none" /\ UNCHANGED reset_line
  /\ UNCHANGED <<threadVars, hookVars, pc, icount, bps, eventVars,
                 next_instruction, ui_running>>

ErrorBoxDismissed ==
  /\ GuiAt("errorbox")
  /\ gui' = "restart"
  /\ KeepTask
  /\ UNCHANGED emuVars

(* et3400emu::start; loading ROM or RAM ends in after_load_rom or after_load_ram
   of an open debugger, the other operations leave its buttons as they are *)
Restart ==
  /\ GuiAt("restart")
  /\ StartThread
  /\ task' = "none"
  /\ gui' = IF task \in {"LoadRom", "LoadRam"} /\ dialog = "open"
            THEN "refresh" ELSE "idle"
  /\ KeepLocals
  /\ UNCHANGED <<hookVars, cpuVars, bps, eventVars, ui_running>>

-----------------------------------------------------------------------------
(* The life of the debugger dialog and of the main window *)

(* show_debugger: set_emulator ends in update_button_state *)
ShowDebugger ==
  /\ User("ShowDebugger")
  /\ dialog = "none"
  /\ dialog' = "open"
  /\ gui' = "refresh"
  /\ KeepTask
  /\ UNCHANGED <<threadVars, hookVars, cpuVars, bps, queue>>

(* DebuggerDialog::closeEvent resumes an emulator that does not run; the
   dialog is deleted when the event loop gets to it *)
CloseDialog ==
  /\ dialog' = "closing"
  /\ queue' = Append(queue, "delete")
  /\ IF is_running THEN UNCHANGED threadVars ELSE StartThread
  /\ UNCHANGED <<hookVars, cpuVars, bps>>

CloseDebugger ==
  /\ InDebugger("CloseDebugger")
  /\ CloseDialog
  /\ UNCHANGED guiVars

(* Deleting the dialog discards the events posted to it; what may be left is
   the event that ends the loop *)
HandleDelete ==
  /\ GuiAt("idle")
  /\ queue # <<>> /\ Head(queue) = "delete"
  /\ queue' = IF Posted("quit") THEN <<"quit">> ELSE <<>>
  /\ dialog' = "none"
  /\ UNCHANGED <<threadVars, hookVars, cpuVars, bps, guiVars>>

(* MainWindow::closeEvent closes the debugger, then stops the emulator *)
CloseMain ==
  /\ User("CloseMain")
  /\ Len(queue) <= QueueBound
  /\ IF dialog = "open" THEN CloseDialog ELSE UNCHANGED emuVars
  /\ task' = "CloseMain"
  /\ gui' = "stop"
  /\ KeepLocals
  /\ UNCHANGED ui_running

(* Mutant: closing the last window does not end the event loop *)
CloseMainBodyStays ==
  /\ Body("CloseMain")
  /\ gui' = "idle"
  /\ UNCHANGED emuVars

(* The last window has closed: Qt posts the event that ends the loop *)
CloseMainBody ==
  /\ Body("CloseMain")
  /\ queue' = Append(queue, "quit")
  /\ gui' = "idle"
  /\ UNCHANGED <<threadVars, hookVars, cpuVars, bps, dialog>>

(* The loop has ended; ~MainWindow stops the emulator once more ... *)
HandleQuit ==
  /\ GuiAt("idle")
  /\ queue # <<>> /\ Head(queue) = "quit"
  /\ queue' = Tail(queue)
  /\ task' = "Quit"
  /\ gui' = "stop"
  /\ KeepLocals
  /\ UNCHANGED <<threadVars, hookVars, cpuVars, bps, dialog, ui_running>>

(* ... and deletes it: destroying a thread object that is still joinable calls
   std::terminate *)
DestroyEmulator ==
  /\ Body("Quit")
  /\ outcome' = IF worker = "none" THEN "exited" ELSE "aborted"
  /\ gui' = "idle"
  /\ UNCHANGED <<is_running, worker, hookVars, cpuVars, bps, eventVars>>

-----------------------------------------------------------------------------
EditBreakpoints ==
  \/ \E a \in EditAddr :
       \/ AddUserBreakpoint(a)
       \/ DeleteBreakpoint(a)
       \/ ToggleBreakpoint(a)
       \/ \E on \in BOOLEAN : EnableBreakpoint(a, on)
  \/ ClearAllBreakpoints

(* What the user may start.  Quit in the File menu ends the loop at once,
   without closing a window first. *)
UserAction ==
  \/ Run
  \/ Stop
  \/ BeginStep
  \/ BeginStepOver
  \/ Reset
  \/ \E a \in Addr : SetPc(a)
  \/ EditBreakpoints
  \/ CancelLoad
  \/ \E t \in Tasks \ {"CloseMain"} : BeginTask(t)
  \/ ShowDebugger
  \/ CloseDebugger
  \/ CloseMain

(* What a handler does once it has begun *)
GuiStepAction ==
  \/ HaltJoin
  \/ UpdateButtonState
  \/ GuiStep
  \/ StepOverStep
  \/ StepOverAdd
  \/ StepOverStart
  \/ StopCheck
  \/ StopJoin
  \/ LoadRomBody
  \/ LoadRamBody
  \/ SaveRamBody
  \/ LoadBreakpointsBody
  \/ ClearRamBody
  \/ Restart
  \/ CloseMainBody
  \/ DestroyEmulator

DispatchEvent == HandleBreakpoint \/ HandleDelete \/ HandleQuit

WorkerAction == Worker /\ UNCHANGED guiVars

Next ==
  \/ WorkerAction
  \/ UserAction
  \/ GuiStepAction
  \/ ErrorBoxDismissed
  \/ DispatchEvent

Spec == Init /\ [][Next]_vars

(* The operating system schedules both threads, and a handler that has begun
   goes on.  The event loop sends the posted events on every turn, before it
   waits for the user again, but a handler may be running whenever the event is
   due: hence the strong fairness.  Nothing makes the user act. *)
Fairness ==
  /\ WF_vars(WorkerAction)
  /\ WF_vars(GuiStepAction)
  /\ SF_vars(DispatchEvent)

FairSpec == Spec /\ Fairness

-----------------------------------------------------------------------------
(* Properties *)

(* The GUI thread steps the CPU, or works on memory and breakpoints between
   stop and start, only when the worker neither executes an instruction nor
   can begin one (et3400emu::step tests is_running alone, with no lock). *)
CpuExclusive ==
  outcome = "alive" /\ gui \in CpuAccess => ~is_running /\ worker \notin Executing

(* The control operations never end the process: no thread object is started
   or destroyed while joinable, none is joined when it is not, and no event is
   posted through the callback of a deleted dialog. *)
NoAbort == outcome # "aborted"

(* When nothing is under way, the debugger's buttons show whether the emulator
   runs, so that Stop is available exactly when there is something to stop. *)
UiTruthful ==
  outcome = "alive" /\ gui = "idle" /\ dialog = "open" /\ Settled
    => ui_running = is_running

(* The join in halt and in stop returns: the GUI thread is never blocked for
   good by a worker that goes on, whatever the worker is doing at the time. *)
JoinReturns == gui \in Joining ~> gui \notin Joining \/ outcome # "alive"

(* A worker that has stopped itself at a breakpoint and told the debugger so is
   joined in the end, so that the emulator can be started again, unless the
   debugger is closed first. *)
HitHandled ==
  worker = "done" /\ ~is_running /\ Posted("breakpoint")
    ~> worker = "none" \/ outcome # "alive" \/ dialog = "none"

(* Closing the main window or choosing Quit ends the process. *)
ShutdownEnds == task \in {"CloseMain", "Quit"} ~> outcome # "alive"

=============================================================================
