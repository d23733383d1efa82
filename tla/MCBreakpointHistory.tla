------------------------ MODULE MCBreakpointHistory ------------------------
(* Small instances of BreakpointHistory. *)
EXTENDS BreakpointHistory, MCProgram

=============================================================================
