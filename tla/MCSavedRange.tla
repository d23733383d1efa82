----------------------------- MODULE MCSavedRange -----------------------------
(* A range that starts in the monitor's RAM and ends with a block of one byte. *)
EXTENDS RamFiles

MCInitial == [a \in Ram |-> a]
MCRanges == {<<MonitorStart + 1, MonitorEnd + 1 + BlockSize>>}

=============================================================================
