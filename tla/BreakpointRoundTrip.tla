------------------------ MODULE BreakpointRoundTrip ------------------------
(***************************************************************************)
(* Saving and loading breakpoints: the table, the file last saved, and the *)
(* operations of the user between the two.                                 *)
(***************************************************************************)
EXTENDS Breakpoints

VARIABLES bps, file

roundTripVars == <<bps, file>>

RoundTripInit == bps = EmptyTable /\ file = SaveBreakpoints(EmptyTable)

Edit ==
  /\ \E a \in Addr, on \in BOOLEAN :
       bps' \in {AddBreakpoint(bps, a, on), RemoveBreakpoint(bps, a),
                 AddOrRemoveBreakpoint(bps, a), SetEnabled(bps, a, on)}
  /\ UNCHANGED file

(* File::save_breakpoint_dialog *)
Save ==
  /\ file' = SaveBreakpoints(bps)
  /\ UNCHANGED bps

(* File::load_breakpoint_dialog *)
Load ==
  /\ bps' = LoadBreakpoints(ClearBreakpoints(bps), file)
  /\ UNCHANGED file

RoundTripNext == Edit \/ Save \/ Load

RoundTripSpec == RoundTripInit /\ [][RoundTripNext]_roundTripVars

(* Breakpoints can be saved and loaded (README, Loading and Saving
   Breakpoints): one that was enabled when it was saved breaks again after it
   has been loaded, unless a hidden one holds its place. *)
LoadKeepsEnabled ==
  [][Load => \A a \in Addr : file[a] = "Yes" => bps'[a] \in Enabled]_roundTripVars

=============================================================================
