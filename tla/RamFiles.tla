------------------------------ MODULE RamFiles ------------------------------
(***************************************************************************)
(* The user saves ranges of the RAM and loads files, his own and others,   *)
(* while the program changes the RAM between the two; a file may have been *)
(* cut short on its way.  The emulator is stopped in every operation here  *)
(* (DebuggerControl has what they do to it).                               *)
(***************************************************************************)
EXTENDS MemoryFiles

CONSTANTS
  Initial,     \* the RAM at the start
  Written,     \* the addresses the program writes
  Ranges,      \* the ranges the user saves, as <<start, end>>
  Foreign,     \* files that Save RAM did not write
  MaxSteps     \* bound of a session

(* A file is lines of digits, with their starts. *)
Line == [start : {"S0", "S1", "S5", "S9", ":"}, digits : Seq(0 .. 15)]
File == [name : {"none", "s19", "hex", "txt"}, lines : Seq(Line)]

ASSUME RamAssumption ==
  /\ Initial \in [Ram -> Byte]
  /\ Written \subseteq Ram
  /\ Ranges \subseteq Nat \X Nat
  /\ \A file \in Foreign : file \in File

VARIABLES
  cells,   \* the memory: the RAM, and what lies behind it in the process
  disk,    \* the file
  saved,   \* history: the RAM when it was saved, and the range
  steps    \* operations so far

ramVars == <<cells, disk, saved, steps>>

Names == {"s19", "hex", "txt"}
Memory == 0 .. End + BlockSize
NotSaved == [cells |-> <<>>, range |-> <<0, 0>>, cut |-> FALSE]

(* SaveDialog::validate *)
Accepts(start, end) == start < end /\ end <= End

Counts == steps < MaxSteps /\ steps' = steps + 1

Program(a) ==
  /\ Counts
  /\ cells' = [cells EXCEPT ![a] = 255 - @]
  /\ UNCHANGED <<disk, saved>>

(* The format of a file is that of its name; it is Motorola's when the name
   says nothing. *)
Format(name, blocks) ==
  [name |-> name, lines |-> IF name = "hex" THEN HexFile(blocks) ELSE SrecFile(blocks)]

(* save_ram_dialog *)
Save(name, start, end) ==
  /\ Counts
  /\ Accepts(start, end)
  /\ disk' = Format(name, SavedBlocks(cells, start, end))
  /\ saved' = [cells |-> cells, range |-> <<start, end>>, cut |-> FALSE]
  /\ UNCHANGED cells

(* The file ends after some lines and some digits of the next. *)
CutShort(lines, i, d) ==
  SubSeq(lines, 1, i - 1) \o <<[lines[i] EXCEPT !.digits = SubSeq(@, 1, d)]>>

Cut(i, d) ==
  /\ Counts
  /\ saved # NotSaved /\ ~saved.cut
  /\ disk' = [disk EXCEPT !.lines = CutShort(@, i, d)]
  /\ saved' = [saved EXCEPT !.cut = TRUE]
  /\ UNCHANGED cells

Provide(file) ==
  /\ Counts
  /\ disk' = file
  /\ saved' = NotSaved
  /\ UNCHANGED cells

(* What the lines of the file give, for a name that can be loaded *)
ReadDisk ==
  IF disk.name \in {"s19", "hex"} THEN ReadLines(disk.name, disk.lines) ELSE Failed

(* File::clear_ram *)
Cleared == [a \in Memory |-> IF a \in Ram THEN 0 ELSE cells[a]]

Before(clear) == IF clear THEN Cleared ELSE cells

(* load_ram_dialog: Settings say whether the RAM is cleared first. *)
Load(clear) ==
  /\ Counts
  /\ LET read == ReadDisk
     IN  cells' = IF read.ok THEN Loaded(Before(clear), read.blocks) ELSE Before(clear)
  /\ UNCHANGED <<disk, saved>>

RamInit ==
  /\ cells = [a \in Memory |-> IF a \in Ram THEN Initial[a] ELSE 0]
  /\ disk = [name |-> "none", lines |-> <<>>]
  /\ saved = NotSaved
  /\ steps = 0

RamNext ==
  \/ \E a \in Written : Program(a)
  \/ \E name \in Names, range \in Ranges : Save(name, range[1], range[2])
  \/ \E i \in DOMAIN disk.lines : \E d \in 0 .. Len(disk.lines[i].digits) : Cut(i, d)
  \/ \E file \in Foreign : Provide(file)
  \/ \E clear \in BOOLEAN : Load(clear)

RamSpec == RamInit /\ [][RamNext]_ramVars

-----------------------------------------------------------------------------
(* Properties *)

(* What the user asks for, and what he is told *)
Wanted(start, end) == (start .. end) \ MonitorRam

Interior == MonitorRam \ {MonitorStart}

(* The last byte of a range is left out when it would be a block of its own.
   Blocks are counted from the start, or from behind the monitor's RAM. *)
LeftOut(start, end) ==
  LET first == IF start <= MonitorEnd /\ end > MonitorEnd THEN MonitorEnd + 1 ELSE start
  IN  {a \in {end} \ MonitorRam : (a - first) % BlockSize = 0}

(* What is written besides: a whole block, when the range starts inside the
   monitor's RAM; or what there is up to the monitor's RAM, when the range ends
   behind the start of the block that reaches it. *)
Besides(start, end) ==
  IF start \in Interior THEN start .. start + BlockSize - 1
  ELSE IF /\ end < MonitorStart
          /\ \E a \in start .. end - 1 :
               (a - start) % BlockSize = 0 /\ a + BlockSize >= MonitorStart
    THEN end + 1 .. MonitorStart - 1
  ELSE {}

SavedAddresses(start, end) ==
  (Wanted(start, end) \ LeftOut(start, end)) \cup Besides(start, end)

(* A range has been saved: the blocks that its file holds *)
JustSaved == saved' \notin {saved, NotSaved} /\ ~saved'.cut
BlocksSaved == ReadLines(disk'.name, disk'.lines).blocks
AddressesSaved == UNION {Cells(BlocksSaved[i]) : i \in DOMAIN BlocksSaved}
RangeWanted == Wanted(saved'.range[1], saved'.range[2])

(* Save RAM writes, in both formats, so that it reads back as it is, the range
   without the monitor's RAM, less the last byte that would be a block of its
   own, and besides the rest of the block that reaches the monitor's RAM or
   starts inside it: these addresses and no others.  (This is what the code
   does, not what its dialog promises, which is SavesExactlyRange.) *)
RangeSaved ==
  JustSaved =>
    /\ AddressesSaved = SavedAddresses(saved'.range[1], saved'.range[2])
    /\ \A i \in DOMAIN BlocksSaved : \A a \in Cells(BlocksSaved[i]) :
         BlocksSaved[i].data[a - BlocksSaved[i].address + 1] = cells[a]

SavesRange == [][RangeSaved]_ramVars

(* What the dialog promises: Save RAM writes the range that was entered ("Enter the
   range to save", windows/save.cpp:120; "the range of RAM that will be written to
   the file", README.md:97) without the monitor's RAM ("Monitor RAM ($00C5-$00FF)
   will be excluded", windows/save.cpp:123), and nothing else.  It does not. *)
SavesExactlyRange == [][JustSaved => AddressesSaved = RangeWanted]_ramVars

(* A load is all or nothing: what the file holds, over what was there, or no
   byte of it.  A file that Save RAM wrote restores what was saved, changes
   nothing else and reaches nothing behind the RAM; one that was cut short
   restores bytes that were saved and no others, although nothing checks a
   checksum or the count of the records.  (A line of the Intel format that ends in the middle of its last
   byte is taken with half of it.) *)
SavedLoaded ==
  \A clear \in BOOLEAN : disk' = disk /\ Load(clear) =>
    LET before == Before(clear)
        restored == SavedAddresses(saved.range[1], saved.range[2])
        odd == {a \in Memory : cells'[a] \notin {before[a], saved.cells[a]}}
    IN  /\ cells' # before => cells' = LoadBlocks(before, ReadDisk.blocks)
        /\ saved # NotSaved =>
             /\ \A a \in Memory \ Ram : cells'[a] = before[a]
             /\ odd = {} \/ (disk.name = "hex" /\ saved.cut /\ \E a \in odd : odd = {a})
             /\ disk.name \in {"s19", "hex"} /\ ~saved.cut =>
                  \A a \in Memory :
                    cells'[a] = IF a \in restored THEN saved.cells[a] ELSE before[a]

LoadsSaved == [][SavedLoaded]_ramVars

=============================================================================
