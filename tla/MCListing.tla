------------------------------ MODULE MCListing ------------------------------
EXTENDS DisassemblyView

MCMemory == {<<3, 1, 2, 1, 1, 2>>, <<1, 3, 1, 2, 1, 1>>}
Mem(s) == [a \in 0 .. 5 |-> s[a + 1]]
MCMemories == {Mem(s) : s \in MCMemory}
MCCandidates == {Label(1, 1, "COMMENT"), Label(1, 2, "DATA"), Label(3, 5, "DATA")}
MCFiles == {<<Label(1, 1, "COMMENT"), Label(3, 3, "DATA")>>, <<Label(1, 2, "ASSEMBLY")>>}

=============================================================================
