----------------------------- MODULE MemoryFiles -----------------------------
(***************************************************************************)
(* Files of memory: which blocks Save RAM writes (windows/file.cpp), their *)
(* records in the formats of Motorola (util/srec.cpp) and Intel            *)
(* (util/hex.cpp), what is read back from the lines of such a file, whole  *)
(* or cut short, and how a device is loaded with it.                       *)
(*                                                                         *)
(* A line is its start ("S0", "S1", "S5", "S9" or ":") and its digits.     *)
(* Checksums are not modelled: nothing compares them, so that any two      *)
(* digits stand for one.                                                   *)
(***************************************************************************)
EXTENDS Integers, Sequences

CONSTANTS
  End,                  \* the last address of the RAM, which starts at 0
  BlockSize,            \* 16
  MonitorStart, MonitorEnd   \* the RAM of the monitor, 00C5 to 00FF

ASSUME FilesAssumption ==
  /\ {End, BlockSize, MonitorStart, MonitorEnd} \subseteq Nat
  /\ BlockSize > 0 /\ MonitorStart <= MonitorEnd /\ MonitorEnd < End
  /\ End <= 65535 - BlockSize               \* an address has four digits,
  /\ BlockSize <= 252                       \* and a count, of three more, two
  /\ MonitorEnd + BlockSize <= End + 1

Byte == 0 .. 255
Ram == 0 .. End
MonitorRam == MonitorStart .. MonitorEnd

(* data_block *)
Block(address, data) == [address |-> address, data |-> data]
Cells(block) == block.address .. block.address + Len(block.data) - 1

Smaller(i, j) == IF i < j THEN i ELSE j

-----------------------------------------------------------------------------
(* The blocks of a range *)

Copied(ram, address, count) ==
  Block(address, [i \in 1 .. count |-> ram[address + i - 1]])

(* Mutant: the block in front of the monitor's RAM is skipped with it. *)
InFrontOfMonitorNone(ram, address) == <<>>

(* The block that would reach the monitor's RAM ends there.  The difference is
   of 16 bits: a block that starts inside the monitor's RAM is whole. *)
InFrontOfMonitor(ram, address) ==
  <<Copied(ram, address, Smaller((MonitorStart - address) % 65536, BlockSize))>>

(* save_ram_dialog, from an address on *)
SavedBlocks(ram, start, end) ==
  LET last == Smaller(End, end)
      from[address \in 0 .. End + 1] ==
        IF address >= last THEN <<>>
        ELSE IF address <= MonitorEnd /\ address + BlockSize >= MonitorStart
          THEN InFrontOfMonitor(ram, address) \o from[MonitorEnd + 1]
        ELSE LET count == Smaller(last - address + 1, BlockSize)
             IN  <<Copied(ram, address, count)>> \o from[address + count]
  IN  from[start]

-----------------------------------------------------------------------------
(* Records *)

Digits(value, count) == [i \in 1 .. count |-> (value \div 16 ^ (count - i)) % 16]
AnyChecksum == <<0, 0>>

(* A record of digits: the count of bytes, the address, the data *)
Record(start, count, address, digits) ==
  [start |-> start,
   digits |-> Digits(count, 2) \o Digits(address, 4) \o digits \o AnyChecksum]

DataDigits(block) ==
  [i \in 1 .. 2 * Len(block.data) |->
     Digits(block.data[(i + 1) \div 2], 2)[IF i % 2 = 1 THEN 1 ELSE 2]]

(* SrecFile::Write, with the empty header of save_ram_dialog *)
SrecFile(blocks) ==
  <<Record("S0", 3, 0, <<>>)>>
    \o [i \in DOMAIN blocks |->
          Record("S1", Len(blocks[i].data) + 3, blocks[i].address, DataDigits(blocks[i]))]
    \o <<Record("S5", 3, Len(blocks), <<>>), Record("S9", 3, 0, <<>>)>>

(* HexFile::Write: the type of a record is behind its address. *)
HexFile(blocks) ==
  [i \in DOMAIN blocks |->
     Record(":", Len(blocks[i].data), blocks[i].address,
            Digits(0, 2) \o DataDigits(blocks[i]))]
    \o <<Record(":", 0, 0, Digits(1, 2))>>

-----------------------------------------------------------------------------
(* Reading.  A field may have fewer digits than it should, when the line ends
   in it; it cannot be read when it has none. *)

Mid(line, from, count) == SubSeq(line.digits, from + 1, Smaller(from + count, Len(line.digits)))
Readable(digits) == digits # <<>>
Number(digits) ==
  LET value[i \in 0 .. Len(digits)] ==
        IF i = 0 THEN 0 ELSE (16 * value[i - 1]) + digits[i]
  IN  value[Len(digits)]

(* What a line gives: a block as a sequence, nothing, or an error *)
Nothing == [ok |-> TRUE, blocks |-> <<>>]
Failed == [ok |-> FALSE, blocks |-> <<>>]
One(block) == [ok |-> TRUE, blocks |-> <<block>>]

DataAt(line, from, count) ==
  [i \in 1 .. count |-> Number(Mid(line, from + 2 * (i - 1), 2))]
DataReadable(line, from, count) ==
  \A i \in 1 .. count : Readable(Mid(line, from + 2 * (i - 1), 2))

(* Mutant: a record without a checksum is taken. *)
SrecEnds(line, count) == TRUE

(* The checksum of an S record is where its count says. *)
SrecComplete(line, count) == Readable(Mid(line, 2 * count, 2))

(* SrecFile::Read, of a line *)
SrecLine(line) ==
  LET count == Number(Mid(line, 0, 2))
      length == (count - 3) % 65536
  IN  IF ~Readable(Mid(line, 0, 2)) THEN Failed
      ELSE IF line.start # "S1" THEN Nothing
      ELSE IF /\ Readable(Mid(line, 2, 4))
              /\ DataReadable(line, 6, length)
              /\ SrecComplete(line, count)
        THEN One(Block(Number(Mid(line, 2, 4)), DataAt(line, 6, length)))
      ELSE Failed

(* HexFile::Read, of a line: the checksum is the last two digits, whatever they
   are. *)
HexLine(line) ==
  LET count == Number(Mid(line, 0, 2))
  IN  IF ~(/\ line.start = ":" /\ Readable(Mid(line, 0, 2))
           /\ Readable(Mid(line, 2, 4)) /\ Readable(Mid(line, 6, 2))) THEN Failed
      ELSE IF Number(Mid(line, 6, 2)) # 0 THEN Nothing
      ELSE IF DataReadable(line, 8, count)
        THEN One(Block(Number(Mid(line, 2, 4)), DataAt(line, 8, count)))
      ELSE Failed

(* Read: a line that fails ends it. *)
ReadLines(format, lines) ==
  LET results == [i \in DOMAIN lines |->
                    IF format = "hex" THEN HexLine(lines[i]) ELSE SrecLine(lines[i])]
      blocks[i \in 0 .. Len(lines)] ==
        IF i = 0 THEN <<>> ELSE blocks[i - 1] \o results[i].blocks
  IN  [ok |-> \A i \in DOMAIN lines : results[i].ok,
       blocks |-> blocks[Len(lines)]]

-----------------------------------------------------------------------------
(* Loading: `cells` is all memory, of which the device is the first part. *)

LoadBlock(cells, block) ==
  [a \in DOMAIN cells |->
     IF a \in Cells(block) THEN block.data[a - block.address + 1] ELSE cells[a]]

LoadBlocks(cells, blocks) ==
  LET loaded[i \in 0 .. Len(blocks)] ==
        IF i = 0 THEN cells ELSE LoadBlock(loaded[i - 1], blocks[i])
  IN  loaded[Len(blocks)]

(* load_memory: every address is checked before anything is loaded. *)
Loaded(cells, blocks) ==
  IF \A i \in DOMAIN blocks : blocks[i].address <= End
    THEN LoadBlocks(cells, blocks) ELSE cells

=============================================================================
