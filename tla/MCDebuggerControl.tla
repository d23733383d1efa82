------------------------- MODULE MCDebuggerControl -------------------------
(* Small instances of DebuggerControl. *)
EXTENDS DebuggerControl, MCProgram

(* Control of the emulator, nothing that stops and restarts it around a file
   and nothing that stops it while it runs *)
ControlHandlers ==
  {"Run", "StepInto", "StepOver", "Reset", "SetPc", "EditBreakpoints",
   "ShowDebugger", "CancelLoad"}

=============================================================================
