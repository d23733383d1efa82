-------------------------------- MODULE MCUser --------------------------------
(***************************************************************************)
(* What the user does beside the debugger: he saves and loads the RAM, the *)
(* labels of a device, edits bytes in the memory view, and presses the     *)
(* keys of the front panel.  These share nothing here: a behaviour is      *)
(* about one of them, and the others stay as they were.                    *)
(***************************************************************************)
EXTENDS RamFiles, LabelFile, MemoryView, FrontPanel

VARIABLE about    \* what the behaviour is about

(* The files.  The RAM has two blocks in front of the monitor's, one that
   reaches into it, and one behind it. *)
MCInitial == [a \in Ram |-> 16 * (15 - a) + a]
MCRanges == {<<0, 1>>, <<0, 4>>, <<0, 11>>, <<2, 3>>, <<1, 5>>, <<5, 11>>, <<6, 8>>, <<6, 9>>}
Bytes(n) == [i \in 1 .. n |-> i]
MCForeign ==
  {Format("s19", <<Block(1, Bytes(3)), Block(13, Bytes(2))>>),
   Format("hex", <<Block(13, Bytes(2)), Block(2, Bytes(1))>>),
   Format("s19", <<Block(10, Bytes(4))>>)}

MCTexts == {<<>>, <<"a">>, <<"a", ",", "b">>, <<"a", Quote>>, <<Quote, "a", Quote>>}
MCGiven ==
  {<<>>}
  \union {<<At(0, 0, "COMMENT", <<"a">>), At(2, 2, "COMMENT", s), At(3, 4, "DATA", t)>> :
            s, t \in MCTexts \ {<<>>}}
  \union {<<At(2, 4, "ASSEMBLY", s), At(5, 6, "DATA", <<"b">>), At(7, 7, "COMMENT", <<"c">>)>> :
            s \in MCTexts \ {<<>>}}
MCProvided ==
  {<<At(2, 2, "COMMENT", <<>>), At(3, 4, "DATA", <<"d">>)>>,
   <<At(2, 3, "DATA", <<"e">>), At(5, 4, "DATA", <<"f">>)>>,
   <<At(3, 3, "COMMENT", <<"g">>), At(4, 6, "DATA", <<"h">>)>>}

(* The memory view: devices with whole rows and with a broken one, of one byte,
   and one that cannot be written *)
Device(start, end, writable) == [start |-> start, end |-> end, writable |-> writable]
MCDevices == {Device(0, 6, TRUE), Device(8, 11, TRUE), Device(13, 13, TRUE),
              Device(14, 18, FALSE)}

(* The front panel: DO, and two digits, one in the row of DO, one in another row.
   Addresses with equal digits in a row, and with different ones.  Clock rates
   below the default, at it and above it. *)
MCKeys == {"D", "0", "2"}
MCRowOf == [key \in MCKeys |-> IF key = "2" THEN "C005" ELSE "C006"]
MCAddresses == {<<"0", "0", "2", "0">>, <<"2", "0", "2", "2">>}

(* Where a part begins that the behaviour is not about *)
Idle ==
  /\ about # "labels" => labels = <<>>
  /\ about # "bytes" =>
       device = Device(0, 6, TRUE) /\ visible_items = 1
  /\ about # "keys" => clock = DEFAULT_CLOCK_RATE /\ start_address = <<"0", "0", "2", "0">>

UserInit ==
  /\ RamInit /\ LabelInit /\ ViewInit /\ Init
  /\ about \in {"ram", "labels", "bytes", "keys"}
  /\ Idle

UserNext ==
  /\ \/ about = "ram" /\ RamNext /\ UNCHANGED <<labelVars, viewVars, vars>>
     \/ about = "labels" /\ LabelNext /\ UNCHANGED <<ramVars, viewVars, vars>>
     \/ about = "bytes" /\ ViewNext /\ UNCHANGED <<ramVars, labelVars, vars>>
     \/ about = "keys" /\ Next /\ UNCHANGED <<ramVars, labelVars, viewVars>>
  /\ UNCHANGED about

UserSpec == UserInit /\ [][UserNext]_<<about, ramVars, labelVars, viewVars, vars>>

=============================================================================
