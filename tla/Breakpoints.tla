---------------------------- MODULE Breakpoints ----------------------------
(***************************************************************************)
(* BreakpointManager (util/breakpoint_manager.cpp): a map from addresses   *)
(* to breakpoints, each operation under one mutex and hence one atomic     *)
(* update of the table.  A table is a function on Addr; an address that    *)
(* has no entry in the map is "absent".  A breakpoint is enabled or        *)
(* disabled, and visible (the user's) or hidden (the one-shot breakpoint   *)
(* Step Over plants behind a call).  The type, description and condition   *)
(* fields are never tested and are left out.                               *)
(***************************************************************************)
CONSTANTS
  Addr,       \* addresses at which the program has instructions
  RamAddr     \* those of them in RAM, below 0x0400

ASSUME RamAddrAssumption == RamAddr \subseteq Addr

Absent == "absent"

BpState == {Absent, "enabled", "disabled", "hidden", "hiddenDisabled"}

Table == [Addr -> BpState]

EmptyTable == [a \in Addr |-> Absent]

Hidden == {"hidden", "hiddenDisabled"}      \* is_hidden
Enabled == {"enabled", "hidden"}            \* is_enabled

(* hasBreakpoint, and the return value of tryGetBreakpoint *)
HasBreakpoint(b, a) == b[a] # Absent

(* setEnabled: no effect on an address without a breakpoint *)
SetEnabled(b, a, on) ==
  [b EXCEPT ![a] = CASE @ = Absent -> Absent
                     [] @ \in Hidden -> IF on THEN "hidden" ELSE "hiddenDisabled"
                     [] OTHER -> IF on THEN "enabled" ELSE "disabled"]

(* addBreakpoint: try_emplace leaves an existing breakpoint as it is *)
AddBreakpoint(b, a, hidden) ==
  [b EXCEPT ![a] = IF @ # Absent THEN @ ELSE IF hidden THEN "hidden" ELSE "enabled"]

RemoveBreakpoint(b, a) == [b EXCEPT ![a] = Absent]

AddOrRemoveBreakpoint(b, a) ==
  IF HasBreakpoint(b, a) THEN RemoveBreakpoint(b, a) ELSE AddBreakpoint(b, a, FALSE)

(* clearRamBreakpoints: everything below 0x0400, the hidden ones included *)
ClearRamBreakpoints(b) == [a \in Addr |-> IF a \in RamAddr THEN Absent ELSE b[a]]

(* clearBreakpoints: the visible ones only *)
ClearBreakpoints(b) == [a \in Addr |-> IF b[a] \in Hidden THEN b[a] ELSE Absent]

(* addBreakpoints: entries that are there already stay *)
AddBreakpoints(b, new) == [a \in Addr |-> IF b[a] # Absent THEN b[a] ELSE new[a]]

(* A breakpoint file: a line of address and "Yes" or "No" for each entry *)
BreakpointFile == [Addr -> {Absent, "Yes", "No"}]

(* saveBreakpoints writes every entry, the hidden ones included *)
SaveBreakpoints(b) ==
  [a \in Addr |-> CASE b[a] = Absent -> Absent
                    [] b[a] \in Enabled -> "Yes"
                    [] OTHER -> "No"]

(* BreakpointReader::Read builds Breakpoint{start, is_enabled}: the flag lands
   in the second field, type, and is_enabled and is_hidden stay false *)
ReadBreakpoints(f) == [a \in Addr |-> IF f[a] = Absent THEN Absent ELSE "disabled"]

(* loadBreakpoints of a valid file *)
LoadBreakpoints(b, f) == AddBreakpoints(b, ReadBreakpoints(f))

(* getBreakpoints: what the breakpoints window lists *)
GetBreakpoints(b) == {a \in Addr : b[a] \notin Hidden \cup {Absent}}

=============================================================================
