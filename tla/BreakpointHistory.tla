------------------------- MODULE BreakpointHistory -------------------------
(***************************************************************************)
(* DebuggerControl with two history variables, to state what the field     *)
(* last_pc is for: a breakpoint is neither missed nor hit twice without    *)
(* the program having moved in between.                                    *)
(***************************************************************************)
EXTENDS DebuggerControl

VARIABLES
  fresh,   \* the worker has executed nothing since it was launched
  moved    \* the program counter has been set since the last hit was decided

historyVars == <<vars, fresh, moved>>

HistoryInit == Init /\ fresh = TRUE /\ moved = TRUE

Hit == worker = "hook" /\ worker' \in {"remove", "clear"}

Launched == worker = "none" /\ worker' = "frame"

(* Any write to the program counter, also one that leaves it where it was *)
Moved ==
  \/ worker = "exec" /\ worker' # "exec"
  \/ pc' # pc
  \/ gui \in {"step", "over_step"} /\ gui' # gui
  \/ \E a \in Addr : SetPc(a)

HistoryNext ==
  /\ Next
  /\ fresh' = (Launched \/ (fresh /\ worker # "exec"))
  /\ moved' = (Moved \/ (moved /\ ~Hit))

HistorySpec == HistoryInit /\ [][HistoryNext]_historyVars

(* An enabled breakpoint is passed over only by the first instruction after a
   launch, when the emulator is resumed at the breakpoint it has stopped at. *)
BreakpointNeverMissed ==
  [][worker = "hook" /\ worker' = "exec" /\ bps[pc] \in Enabled
       => fresh /\ pc = last_pc]_historyVars

(* The emulator never stops twice at a breakpoint without having moved: Run
   always gets past the breakpoint it resumes from. *)
ProgressBeforeRehit == [][Hit => moved]_historyVars

=============================================================================
