# A TLA+ verification of the ET-3400 emulator

This directory holds TLA+ specifications of the Heathkit ET-3400 emulator in
`src/`, configurations that model-check them with TLC on small instances, and
theorems about them proved with TLAPS for every instance.

## 1. The system

The program is a Qt 5 application with two threads. The **GUI thread** runs the
event loop: the main window (keypad, display), the debugger dialog, the file
dialogs. The **worker thread** (`et3400emu::worker`) runs the CPU, one frame of
16.7 ms of cycles at a time, while the plain `bool` `is_running` is set. They
share the CPU's registers, the memory map, the I/O devices and `is_running`
without a lock; only the breakpoint table has one. The worker reports to the GUI
thread by a queued call (`on_breakpoint`) and paints through `on_render_frame`.

| Part | State | Operations | What makes it correct |
|---|---|---|---|
| Breakpoint table (`util/breakpoint_manager.cpp`) | address -> enabled, hidden | add, remove, toggle, enable, clear, load, save | a file restores what was saved; hidden entries stay out of the user's way |
| Emulator thread (`emu/et3400.cpp`) | `is_running`, the thread object, `last_pc` | start, stop, halt, resume, step, reset, the instruction hook | one thread on the CPU at a time; no thread object started twice, joined twice or destroyed while joinable; no breakpoint missed or hit twice |
| Debugger control (`windows/debugger.cpp`, `file.cpp`, `mainwindow.cpp`) | the buttons, the dialogs, the event queue | Run, Stop, Step Into, Step Over, Reset, edits, file operations, opening and closing | the buttons tell the truth; joins return; closing ends the program |
| CPU run loop (`cpu/m6800.cpp`) | registers, wait state, NMI latch, IRQ and RESET lines, `irq_timeout`, cycle budget | a frame, a step, entering an interrupt, reset | an NMI edge taken exactly once; a wait pushes the registers once; RTI restores them |
| Instruction set (`cpu/6800ops.hxx`) | registers, flags | 197 opcodes | results and flags of the 6800 |
| Memory map (`dev/memory_map.cpp`) | 64 chains of devices | map, unmap, read, write, look-ups | a byte reaches every device that covers it and no other; safe while the GUI changes it |
| Address decoder (`dev/address_decoder.cpp`) | none | parse, match, ranges | the range of a pattern covers exactly its matches |
| Keypad (`dev/keypad_dev.cpp`, `widgets/keypad.cpp`) | column bytes, pressed keys | press, release, pause | no key stays down after its release |
| Display (`widgets/display.cpp`) | a latch for each LED | write | the latches end as the bits the program wrote, through all mirrors |
| LED and DIP devices (`dev/custom_dev.cpp`) | latches | read, write, map, unmap | the devices outlive the worker's use of them |
| Labels, disassembly lines (`util/label_manager.cpp`, `disassembly_builder.cpp`) | sorted labels | add, remove, lines of a range | sorted, no overlaps; the lines cover the range once, and end |
| Disassembly view (`widgets/disassembly_view.cpp`) | lines, scroll offset, selection, open menu or dialog | keys, clicks, scrolling, label edits, refresh | it shows the labels there are, and the program counter at a pause |
| Memory view (`widgets/memory_view.cpp`) | device, offset, selection, editor | keys, digits, clicks, focus | it writes only the byte under the cursor |
| Disassembler tables (`dasm/disassembler.cpp`) | none | length, kind of an opcode | they agree with the CPU |
| Memory files (`util/srec.cpp`, `hex.cpp`, `windows/file.cpp`) | none | load, save | what is saved is what is loaded, all or nothing |
| Label file (`util/label.cpp`, `csv.cpp`) | none | load, save | labels come back as they were |
| Command line, autostart (`windows/mainwindow.cpp`) | timers | type a start address | the monitor reads each key once |
| RS-232, MC6820 | shift registers | receive, send | not instantiated by the program |
| Settings, tips and the other dialogs | forms | | no property beyond their values |

How they interact: a click calls a method of the dialog, which calls the
emulator; the emulator starts, stops and joins the worker; the worker reads the
table and the memory map on every instruction, and posts an event when it has
stopped itself; the event's handler joins it. Reset is a line the GUI pulls and
the worker (or a step) notices. Closing the debugger resumes the emulator;
closing the main window closes the debugger, stops the emulator and ends the
loop, and the destructor stops it again and deletes it.

The hard behaviours: a worker that stops itself against a GUI that stops it;
events queued against clicks; buttons that cache `is_running`; a callback that
outlives its dialog; file operations that restart whatever they find; devices
unmapped under a running worker; interrupts against the frame; pause and timers
against the keypad; views that keep lines, rows and bytes of a state that has
changed; files that end too early. `PROJECT.json` lists them, each at its line.

## 2. The modules

| Module | Models | Correspondence |
|---|---|---|
| `Breakpoints` | `BreakpointManager`, `BreakpointReader` | a table is a function on `Addr`; each locked method is one operator |
| `BreakpointRoundTrip` | saving and loading a file | the table and the file as state |
| `EmulatorThread` | `et3400emu` and the worker | `worker` is the program counter of the thread, one action between two accesses to shared state; `"none"` means that the thread object is not joinable, `"done"` that the function has returned and nobody has joined it |
| `DebuggerControl` | the GUI thread | `gui` is the counter of the handler in progress; `task` the file or shutdown operation; `ui_running` what the buttons show; `queue` the posted events |
| `BreakpointHistory` | the two together, with history variables | `fresh`, `moved`: what the worker has done since it was launched and since the last hit |
| `MCProgram`, `MCDebuggerControl`, `MCBreakpointHistory` | instances | a four-instruction program with a call, a subroutine in RAM and an interrupt handler |
| `MemoryMap`, `MCMemoryMap` | `MemoryMapManager`, the handlers that map and unmap, the walk of a CPU access | `job` holds the calls that a handler of the GUI thread still has to make, each one write or one step down a list; `walk` is the access of the emulator thread |
| `InterruptLevels` | what interrupts promise: a stack of levels, each with its registers | abstract |
| `Interrupts`, `MCInterrupts` | the CPU's lines, mask, wait state, countdown and frames; the NMI button | `phase` is the counter of the thread that executes the CPU (the worker, or the GUI thread while `stepping`); `button` the steps of `pull_nmi_low` |
| `M6800` | the instructions of `cpu/6800ops.hxx` with the macros of `cpu/m6800.cpp` | registers, `cc` as the set of its bits, `bus` as the bytes of the devices; one action per row of the opcode table, a row being the handlers of one addressing mode |
| `M6800Programs`, `MCM6800Programs` | programs that use them | a task in the initial state chooses the program and its operands; the properties compare its end with arithmetic on integers |
| `Disassembler` | lengths, arguments, calls and returns in `dasm/disassembler.cpp` | one table for each quarter of the opcodes |
| `Display` | `display_dev.cpp` and `Display::write_hook` | the lit LEDs as pairs of position and segment |
| `Keypad` | `keypad_dev.cpp`, `widgets/keypad.cpp` | `low` are the keys whose bit is 0, `state` the buttons shown pressed |
| `FrontPanel` | the user, the timers of the autostart and the ROM on the keypad | `timers` is the list of timers that have been started; the ROM's INCH and ENCODE are taken from `monitor.bin` |
| `Labels` | `LabelManager` | a list of labels; each method is one operator |
| `DisassemblyBuilder` | `DisassemblyBuilder::build` | what the lines of a memory and a list of labels are: one `Turn` per round of its loops |
| `DisassemblyView`, `MCListing` | the view, its menu and dialogs, the labels table, the debugger's calls | `lines` as built last; `dialog` what is open and what it remembers; `status` whether the build returns |
| `MemoryFiles` | the blocks of Save RAM, the writers and readers of both formats, the load | a line is its start and its digits |
| `RamFiles`, `MCSavedRange` | Save RAM, Load RAM, the program, and what may happen to a file | `cells` is the memory and what lies behind it; `saved` is history |
| `LabelFile` | `csv.cpp`, `label.cpp`, Save and Load Labels | a file is a sequence of characters |
| `MemoryView` | the memory view | the editor's variables are those of the widget; a digit is the address it came from |
| `MCUser` | instances of `RamFiles`, `LabelFile`, `MemoryView` and `FrontPanel` | the four share no state: a behaviour is `about` one of them |
| `*_proofs` | theorems | section 4 |

**Abstractions.** The CPU is its program counter: `Flow` gives the successors of
an instruction, `Vectors` the interrupt handlers that may be entered at the
points where the code checks the lines. A frame that executes nothing stands for
the wait state. Memory contents are left out. Each access to `is_running` is one
step; the loop that tests it calls functions in other translation units, so the
compiler must re-read it. What happens to a detached thread after
`std::terminate` is of no interest: `outcome` becomes `"aborted"` and nothing
moves. A call through the callback of a deleted dialog is undefined; the model
lets it abort or be lost. Step Out is not modelled: its action is not connected
(`debugger_ui.h:145`), so `is_step_out` is never set. Both threads paint; what a
use after free inside a widget does is not modelled.

**Memory map.** The two threads touch the lists without a lock, so each load and
store of a pointer is a step of its own; the two reads of `is_mapped` and the
third read of `start`, which indexes the device's array, are separate as well.
Pointers do not tear on the machines the program is built for. The values of the
bytes, `last_write` and the access flags are left out: an access is the device it
reaches. A handler is entered only when its dialog is (modality is in the
guards), and every dialog that edits the map belongs to the debugger. Devices in
the settings file enter only through `RestartKeepsDevices`, which asks whether
`load_devices` would refuse what the dialogs accepted. The history variables say
which devices were linked for the whole of a walk (`steady`) and whether the
device the walk stood on was changed under it (`strayed`). An access through a
freed device or out of an array's bounds makes the walk `"wild"`; nothing is said
of what follows.

**Interrupts.** A frame on the stack is its seven bytes in the order in which
they are pushed, words as low and high byte, so that pushing and pulling are
checked against each other. `CC` is its mask bit and every instruction costs one
cycle. A frame of the worker keeps the excess of the frame before, so it may end
between any two instructions. The refinement mapping `Levels` reads the stack as
a sequence of suspended register sets with the running one on top, except in the
wait state, when the registers have already been pushed. A program that executes
RTI with no frame on its stack is left out: what it would pull is its own data.
The GUI thread handles one event at a time, but the three writes of
`pull_nmi_low` interleave with the CPU.

**Instructions.** Every one of the 197 opcodes is decoded and executed; each
addressing mode fetches its operand as the macros do, so that the order of
fetching, pushing and moving PC is checked. Cycle counts and the run loop are
left out (`Interrupts` has them). A read outside the mapped part of memory gives
the last byte that was written, which begins as either of `LastWrites`: the
program never initialises it. The tasks `single` execute one instruction of each
opcode from edge operands; the others are programs of several instructions.

**Front panel.** Time passes in ticks, each worth `clock` rows of the scan; a
timer fires at any point of the tick in which it is due. The ROM is modelled from
its code in `monitor.bin`, which is not part of `src/`'s sources: `Boot` and
`Work` stand for the time it takes before and between scans, `Debounce` for the
scans that must agree. Once the user interferes the ROM is no longer followed,
only the keypad and the timers. The same map of keys to buttons serves mouse and
keyboard.

**Listing.** Opcodes are their lengths; `memory` gives one for every address that
a label may reach (`Highest`), since the code decodes behind the device up to the
end of a label. The nested loops of `build` are one function from what has been
built to what has been built a turn later. A menu, once opened, remembers the line
it was opened on; a dialog is modal to the user, not to posted events, so that a
refresh or a pause may rebuild the lines under it: this is what `Refresh`,
`Stop`, `BreakpointHit` and `Step` do in any state. A build that does not return
makes `status` `"hung"`, an exception `"aborted"`; nothing happens afterwards.

**Files.** A record is kept down to its digits, since a file may be cut after any
of them; checksums are two arbitrary digits, because nothing compares them. What
lies behind the RAM in the process is part of `cells`, to see whether a load
reaches it. In label files the numbers and types, which contain no comma and no
quote, are one character each, and carriage returns are left out. The dialog
(`LabelDialog::validate`) refuses an empty comment and `isValid` drops a label
without one, or one that ends before it starts; such labels come from files that
something else wrote (`ProvideLabels`). `DisassemblyView` has no comments: there a
label is one that has a text.

**Memory view.** Values do not matter, only where they came from: `high_digit`
and `low_digit` are the addresses whose digits the editor holds. `AddressSpace` is 2^16 in
the program; it matters because `start_editing` takes its address in 16 bits.

**Order of clicks and events.** Qt fixes no order between a native click and an
event posted by another thread, so either may be handled first. The deletion of
a closed dialog is posted before the loop waits for the user again, so no click
comes in between. A message box runs a nested loop: events are delivered there,
clicks on other windows are not.

**Bounds.** `FrameLength` is the number of instructions in a frame (2: a frame
may end between any two instructions, or not). `QueueBound` stops the user from
beginning another stop while more events than that wait (1). `Addr` has four
instructions, `EditAddr` two of them: a breakpoint behind a call and one in a
subroutine in RAM, which Load RAM clears. `MCMemoryMap` has four blocks of four
bytes with RAM at the bottom and the monitor at the top, two custom devices and
five patterns: one byte, two bytes of one block, ranges over two blocks that
start at different bytes of the same block, and one that meets the monitor. That
is a list of up to four devices in one block, and every order of first, middle
and last. `MCInterrupts` has frames of four cycles against an interrupt of three,
so that a frame is used up by an interrupt or exceeded; two presses of the NMI
button; a program with LDS, CLI, WAI, SEI, SWI and TAP, a handler that changes
the registers and one that returns at once.

`MCM6800Programs` takes operands at the boundaries of sign, carry, half carry
and decimal digit, in bytes and words. The front panel of `MCUser` has a key of DO's row and
one of another row, addresses with equal and different neighbouring digits, and
clock rates below, at and above the default, since the timers stretch only below.
`MCListing` has a device of four bytes with two instructions of one to three
bytes that overlap it differently, up to two labels of which one starts inside an
instruction and one ends behind the device, memories of six bytes, the last that
this label reaches, and a window of four lines: more lines than the window, as
many, or fewer. The files of `MCUser` are of a RAM of three blocks
with the monitor's RAM across a boundary: ranges on all sides of it and inside
it, every place at which a file can be cut, and four operations, which is what it
takes to save, change, cut and load; labels in front of, in and behind the device
and across both of its ends, with commas and quotes, and files with labels that
no dialog accepts. Its memory view has three writable devices and one
that is not, with full and partial last rows, in windows smaller and larger than
they are. A behaviour of `MCUser` is about one of the four parts: as they share no
variable, what a property says of a part is the same when the others move.
`MCSavedRange` saves the one range that shows both what is missing from the file
and what should not be in it.

## 3. What the runs show

| Run | Checks | Result |
|---|---|---|
| `everything` | `TypeOK`, `CpuExclusive`, `BreakpointNeverMissed`, `ProgressBeforeRehit` over every operation at any moment | hold, 1.8 million states |
| `liveness` | `JoinReturns`, `HitHandled`, `ShutdownEnds` under `FairSpec` | hold |
| `patient_user` | `NoAbort`, `UiTruthful`, no deadlock, for a user who acts only when the emulator has settled, with the operations that neither stop it while it runs nor restart it around a file | hold |
| `stop_at_breakpoint` | `NoAbort` with Stop added | violated: Stop against a breakpoint in the same frame joins twice |
| `memory_map` | `ChainsSound`, `RestartKeepsDevices`, `WildOnlyWhenStrayed`, `SteadyFound`, `JobEnds`: mapping, moving and unmapping devices while the worker accesses memory; a device that stays is found in the block where it begins and in no other | hold, 367 thousand states |
| `spanning_device` | `DevicesFound`: a device that stays mapped is found at each of its addresses, as the comments at memory_map.cpp:183 and :211 have it | violated: 6..14 is not found at 8 with blocks of 4 |
| `interrupts` | `EdgeTakenOnce`, `ImplementsLevels`, `WaitLeftByInterrupt`, `NmiServed`: lines pulled and released at any moment of running, stepping and reset | hold, 1.0 million states |
| `instructions` | `ComparisonsDecide`, `DecimalSums`, `WideArithmetic`, `CallsReturn`, `OutchShows`, `FlagsExact`, `DisassemblyAgrees`: programs of all groups of instructions against integer arithmetic, the stack, the display and the disassembler | hold, 79 thousand states |
| `listing` | `TypeOK`, `LinesTile`, `LabelsShown`, `LabelsStayTidy`, `PausesShowPc`: every edit of labels, scrolling, running and pausing in any order; only a label that reaches behind the device hangs the builder | hold, 949 thousand states |
| `user` | `SavesRange`, `LoadsSaved`, `LabelsReadBack`: saving, changing, cutting and loading; `EditsOwnByte`, `SelectionShown`: keys, digits, clicks, focus, devices and sizes in any order; `LowIsShown`, `LowIsHeld`, `AutostartEnters`: keys, repeats, pauses, clock rates and timers in any order while the ROM scans | hold, 1.8 million states |
| `saved_range` | `SavesExactlyRange`: Save RAM writes the range that was entered without the monitor's RAM, as its dialog says | violated: the last byte is missing and bytes of the monitor's RAM are written |
| `load_breakpoints` | `LoadKeepsEnabled` | violated: loaded breakpoints are disabled |

Deadlock is checked in `patient_user` only: elsewhere the program may end, or a
session or a task be over.

**Statements of the documentation and of comments that the code does not keep**,
visible in the models but without a run of their own:

* The IRQ line is "only checked if the CPU is in a wait state" (README.md:251),
  while the code checks it at the start of each frame, after RTI and when the
  countdown of CLI, SEI and TAP ends; an NMI "will complete the current
  instruction" (README.md:257), while the latch is polled at those points only,
  so that up to a frame passes; the LED device is "write-only" (README.md:265),
  while its flags allow reads.
* Save RAM in a paused emulator starts it and leaves Stop disabled
  (file.cpp:422; README.md:150, :159). A step performs a reset that is pending
  (et3400.cpp:102; README.md:406). Clear RAM is followed by a reset only if the
  emulator ran (debugger.cpp:573; README.md:178). A Step Over with a disabled
  breakpoint behind the call does not come back (debugger.cpp:75,
  breakpoint_manager.cpp:58; README.md:151).
* The table of the labels dialog is not refreshed after edits in the view, and
  Delete uses the row as it was, so that it may remove another label
  (labels.cpp:215; README.md:182); an edit in the same dialog edits a copy and is
  lost. The highlight of the next instruction keeps its old place when no line
  begins at the program counter (README.md:220). A comment label inside an
  instruction changes how it is disassembled (disassembly_builder.cpp:4;
  README.md:216, :318).

**Exceptions that a property states**, since the code behaves so and no document
says otherwise:

* `SavesRange` states exactly which addresses Save RAM writes, as the code decides
  (`SavedAddresses`): the range without the monitor's RAM, less the last byte when
  it would be a block of its own (`LeftOut`), and besides up to the monitor's RAM
  when the block that reaches it begins inside the range, or a whole block of it
  when the range starts inside (`Besides`). What the dialog promises instead is
  `SavesExactlyRange`, which `saved_range` refutes. `SteadyFound` likewise states in
  which block a device is found; the comments are `DevicesFound`.
* A name without a known ending is written as S-records and cannot be loaded. A
  line of Intel hex that ends inside its last byte gives half a byte. A foreign
  record that starts in the RAM and runs past its end is written behind it
  (memory_dev.cpp:70).
* A label whose comment holds a quote is written unescaped and comes back without
  it, makes the file unreadable, or ends the process by an exception nobody
  catches. A label that starts in a device and ends behind it is not saved, but a
  load removes it.
* A data label that ends behind the device keeps the line builder in its loop
  (disassembly_builder.cpp:94, :157): `status` is `"hung"`. A click or a key on a
  line that the last build removed throws. Filler lines claim eight bytes. A page
  down onto a comment can leave the view blank; the wheel sets the offset to -1
  when everything fits. A menu or dialog that reads its line again after a refresh
  removes another label.
* In the memory view F2 with nothing selected edits FFFF, the arrows count from
  -1 then, and the space bar after a change of device selects an address of the
  old one. Enter writes the byte as it was read over what the program has written
  meanwhile, and the cursor does not scroll with the editor.
* A key that is released while the emulator is paused stays down until some key is
  let go; the release of one key lets all go, so that a key which is still held
  reads high (`LowIsHeld` is the other direction).

Not counted among the violations, since no document says otherwise, but visible
in the model: a hidden breakpoint is removed under a second lock, so that a
breakpoint the user puts in its place in between is removed instead
(`WorkerRemove`); a worker that hits a breakpoint after the debugger was closed
has nobody to report to, and an emulator that runs without a debugger stops for
good (`HitHandled` excludes it); a Step Over that is abandoned leaves its hidden
breakpoint behind. Read in the source and in no model: the clear dialog accepts
FFFF as an end, with which the loop of debugger.cpp:567 does not terminate; the
total of cycles counts the excess of each frame twice (et3400.cpp:250); a reset
releases an IRQ or NMI line that the user still holds (m6800.cpp:547);
`on_render_frame` may use a dialog that has been deleted (mainwindow.cpp:484);
saving breakpoints writes the hidden ones (breakpoint_manager.cpp:116).

**Fairness.** `WF` of the worker and of a handler that has begun: the operating
system schedules both threads. `SF` of the delivery of posted events: Qt sends
them on every turn of the loop, but a handler may be running whenever an event
is due. In `MemoryMap`, `WF` of the calls of a handler and of the walk; in
`Interrupts`, `WF` of the executing thread and of the call `pull_nmi_low`. `WF`
is enough there: neither thread ever waits for the other, so a step that is due
stays due. Nothing is assumed of the user, not even that a message box is
dismissed. The other modules state no fairness: what they promise is about what
steps may do, and `AutostartEnters` counts what has been read when the timers are
over instead of saying that it will be.

## 4. What is proved

`DebuggerControl_proofs`, for every program, table, set of handlers and bound,
from the assumptions on the constants in `Breakpoints`, `EmulatorThread` and
`DebuggerControl` alone:

* `TypeCorrect`: `Spec => []TypeOK`. The strengthening `FrameBegun` says that no
  instruction is begun with a cycle count of zero; without it the count could
  leave its range.
* `CpuAlwaysExclusive`: `Spec => []CpuExclusive`. `CpuExclusive` is not
  inductive, since it says nothing of the moments before the GUI thread gets to
  the CPU. `CpuInv` adds that `is_running` is clear from the request to stop
  until the GUI thread is done (`StopRequested`), and that a worker still
  executing although asked to stop is being waited for (`ExecutesOnlyIfAwaited`):
  a worker that clears the flag itself is already out of the loop.
* `UnbrokenNeverAborts`: if no breakpoint can be set (`NothingBreaks`), then
  `Spec => []NoAbort`, whatever the user does and whenever. `UnbrokenInv` ties
  the thread object to `is_running`: joinable exactly while the flag is set or
  the GUI thread is in a join. With breakpoints the worker clears the flag
  itself and the tie breaks: `NoAbort` is false then (run `stop_at_breakpoint`)
  unless the user waits.
* `WaitingNeverAborts` and `WaitingSeesTruth`: for a user who acts only when the
  emulator has settled and whose operations are neither Stop, nor Close, nor a
  file operation (`UserWaits`, the user of the run `patient_user`),
  `Spec => []NoAbort` and `Spec => []UiTruthful`, with any breakpoints.
  `WaitingInv` follows the worker through its life: in its loop with the flag set
  (`InTheLoop`), stopped by itself and about to post the event (`Announcing`), on
  its way out or out, with that event queued or a join under way (`Leaving`), or
  joined (`Parked`). `NotOpenedYet` says that there is no breakpoint before the
  debugger is opened, `ButtonsRight` what the buttons show in each stage. TLC has
  checked it on the instance of the run.
* `NeverMissed`: `HistorySpec => BreakpointNeverMissed`. `ResumeInv` says that a
  worker which remembers a breakpoint in `last_pc` has executed nothing since it
  was launched, or is on its way out.
* `NeverRehit`: `HistorySpec => ProgressBeforeRehit`. `HitInv` says that, as
  long as nothing has moved since a hit, the hook is handling that hit, remembers
  it, or has let it pass. `GuiEffect` is all that both need
  to know of the many handlers of the GUI thread.

`MemoryMap_proofs`, for any devices, address space, block size and patterns, from
`MapAssumption` alone: `TypeCorrect`, `ChainsAreSound`, `WildOnlyStrayed`,
`SteadyIsFound` and `RestartKeeps`, that is `[]TypeOK`, `[]ChainsSound`,
`[]WildOnlyWhenStrayed`, `[]SteadyFound` and `[]RestartKeepsDevices`; and
`FoundWithinBlocks`: if no pattern and no built-in range crosses the border of a
block (`NothingSpans`), then `Spec => []DevicesFound`, which without that
hypothesis is false (run `spanning_device`).

* A list is linked by `next`, `previous` and the block's first device, and each
  handler is a queue of single writes. `IndInv` says that there is an order, a
  number `pos` for every device, in which each link leads upwards (`Ascending`):
  so the lists have no cycle, and a walk on them meets every member once. The
  order exists in every state but is in no variable; a step may choose another
  one, since a device that is mapped goes behind all others.
* `JobInv` and `WellFormed` say which calls about a device may follow each other
  and that each meets it in the state the call is for; `Loose` that a device about
  to be mapped has no link of its own, and `CursorInv` that map and unmap walk in
  the list they change, unmap before its device.
* `WalkInv` says that the walk is in the list of its block, and not beyond any
  device that it must not miss (`Sought`), for as long as the device it stands on
  was left alone. `Sought` are the devices that begin in that block, and so
  `SteadyFound` speaks of no others: a device over two blocks is found in the first
  of them.
* `FoundWithinBlocks` needs that no device in a list ever spans. `FitsInv` says so
  of the devices there are and of the calls due for the built-in ones. A custom
  device crosses a border only between the two writes of a move, when it is in no
  list; once it is, it has the range it was aimed at, which is a pattern
  (`LinkedAimed`).
* `CustomInv` says which range each custom device will have once the calls due are
  made (`AimedAt`), and that these ranges collide neither with each other nor with
  the built-in devices (`ClearOfBuiltins`), although `has_collision` sees the
  lists of two blocks only.
* Where the proofs need an induction (a walk of k links exists; a member is met)
  they take the least counterexample of a set of numbers (`Least`), which the
  provers can do.

TLC has checked the invariant on the instance of `memory_map`, with the orders
of its devices.

`Interrupts_proofs`, for every program, choice of vectors, frame length, cost of
an interrupt and number of presses, from the assumptions in `Interrupts`:

* `TypeCorrect`: `Spec => []TypeOK`. `TypeOK` says that each frame on the stack is
  seven bytes which are the registers of a point of the program, without which RTI
  could leave it. The lemma `PullAfterPush` carries it: the words that RTI puts
  together again from their bytes are those that were pushed.
* `EdgesTakenOnce`: `Spec => []EdgeTakenOnce`. `EdgeInv` also counts the edge that
  is on its way between the test of the line and the latch.
* `LevelsImplemented`: `Spec => ImplementsLevels`, the refinement. `WaitFrame` says
  that a CPU which waits has its registers in its last frame. `Moves` classifies
  what a step may do to registers, stack and wait state: nothing, enter an
  interrupt, execute an instruction, or reset; each is a step of
  `InterruptLevels`.
* `WaitEndsByInterrupt`: `Spec => WaitLeftByInterrupt`.

`MemoryView_proofs`, for any devices, rows and window sizes:

* `EditsAlwaysOwnByte`: `Spec => []EditsOwnByte`. The property speaks of the
  moment of a write only. `EditorGuarded` says that the editor is open only with
  the focus and on a device that may be written, so that the device cannot change
  under it; `OwnDigits` that both digits belong to the byte under the cursor at
  every moment in between.

* `SelectionAlwaysShown`: `Spec => SelectionShown`, from `TypeOK` alone: rows are
  numbered by division (`RowHolds`, `RowsInOrder`), and `ScrolledIntoView` says
  what `scrollIntoView` does to any offset, in a window of any height.

`M6800_proofs`, for every program, memory, device map and content of the
uninitialised bytes, from `MachineAssumption`:

* `MachineStays`: `Spec => []MachineOK`; every register, flag and byte keeps its
  width under each of the 197 opcodes and the illegal ones. The work is in the
  lemmas about the operators, one per macro.
* `FlagsAreExact`: `Spec => FlagsExact`. `Asked` is what an exact sum or
  difference asks of C, V, N and Z, `BitsSay` what the macros compute from single
  bits; `SumsExact` and `DifferencesExact` show that the two agree.
* `DisassemblerAgrees`: `Spec => DisassemblyAgrees`: row by row, the length of the
  disassembler's tables (`ValidLengths`) is how far the handler moves PC.
* `ComparisonsAlwaysDecide`: `Spec => []ComparisonsDecide` for all pairs of bytes
  and the ten conditions (`BytesAreCompared`), if the tasks are run as
  `M6800Programs` loads them into memory that is there (`ProgramsAreRun`; the
  tasks of the run are such). `CompareInv` annotates the program, one assertion
  per address: behind CMP the flags are as the difference asks, and
  `ConditionDecides` reads each condition off them.
* `DecimalsAlwaysSum`: `Spec => []DecimalSums` for all pairs of two-digit numbers,
  a carry (`DigitsAreAdded`). `DecimalInv` carries the flags
  of ADC to DAA; `DigitsAdded` says what the half carry and the carry are in terms
  of the digits, `Corrected` what DAA makes of them.
* `CallsAlwaysReturn`: `Spec => []CallsReturn` for every mode of call, all registers
  and any other memory, if the stack and the programs are in memory that is there
  (`MemoryIsThere`). `StackIs` gives the bytes on the stack as a sequence; a lemma
  for each instruction (`PushStep`, `PullStep`, `CallStep`, `ReturnStep`,
  `StateIsSaved`, `StateIsRestored`) says how it changes the sequence and that
  nothing behind the stack changes, so that the program stays as loaded. `CallInv` and
  `InterruptInv` annotate the programs, an address with its registers and stack.
  `RowOf` and `LegalOpcodes` say which handler an opcode has, for any program.
* `WordsAlwaysComputed`: `Spec => []WideArithmetic` for all words, and all bytes for
  the product and the copy (`NumbersAreTasks`), over any other memory. `Kept` says
  that the program is as it was loaded, which holds because each write is to the
  data below it (`DataWritten`). On top of it each program has an assertion per
  address: `SumInv`, `ShiftInv` and `NegateInv` relate the carry between two
  instructions to the bytes that are done; `CopyInv` and `MultiplyInv` are loop
  invariants. In a product, `Partly` says that what A, B and the carry hold is the
  product with the bits of q that have been used, above the bits that have not.
  `ByBytes`, `IsLeft` and `IsRight` state what the operators compute as equations
  between integers, and `WordSums`, `WordDifferences`, `WordShifted`,
  `WordNegated` and `NextPart` add those up.
* `OutchAlwaysShows`: `Spec => []OutchShows` for every byte, digit and initial state
  of the LEDs (`DigitsAreShown`). A and the carry are a ring of nine bits that is
  turned eighteen times: `Turned(n)` says how the bits are arranged with n turns to
  go, `Lit(n)` that the LEDs from n on are final, and `OutchPoint` which n belong to
  which address and value of B. The eight writes before those to LEDs 7 to 0 go to
  the same LEDs and are the wrong bits: `Lit` claims nothing of them.

`DisassemblyView_proofs`, for any device, memories, labels, files, bound on the
list and window, from `BuilderAssumption` and `ViewAssumption`:

* `ViewInvariant`: `Spec => []ViewInv`, and from it `TypeCorrect`,
  `LinesAlwaysTile` and `LabelsAlwaysShown` (`[]TypeOK`, `[]LinesTile`,
  `[]LabelsShown`). `ListingInv` says that the lines are always a listing of the
  labels as they are now, so that no operation on the list forgets to build again,
  and `Fits` (in `ScrollInv`) that offset and bar are in the range of that listing,
  however it has grown or shrunk. `DialogInv` says that a dialog which remembers a
  label remembers one of the list.
* What a listing is rests on the lemma `Built`, about every memory and list of
  labels. `GoodBuild` says after each turn that the lines so far run from the start
  of the device to the next address without gap or overlap; `AllShown` that a
  label of a tidy list has been shown or is still ahead; `Advances` that a turn
  which does not finish moves the address or the label on, so that `build` is over
  after `Turns(labels)` turns unless a range of data behind the device keeps it
  in its loop: a builder that is stuck has a label that reaches behind the device
  (`ReachesBehind`). Each branch of the loop has a lemma.
* `PausesAlwaysShowPc`: `Spec => PausesShowPc`: the arithmetic of the scroll bar
  with its bounds of -1 (`EnsureVisibleShows`, `SetValueIs`).
* `LabelsRemainTidy`: `Spec => LabelsStayTidy` under two hypotheses. `FilesAreTidy`:
  the labels of one file do not overlap each other, for loading checks nothing.
  `NothingReachesIn`: no label starts in front of the device and ends inside it.
  `clear_and_load_labels` removes labels by where they start (label_manager.cpp), so such a label would
  survive and those of the file would be put in behind it. The constants of the
  run satisfy both. `Inserted`, `Removed`, `Added` and `Cleared` say what the
  operations on the list do to any sequence; `FileAdded` and `Cleared` go through
  the loops of the code.

All inductions, over the labels of a file, the list and the turns of `build`, take
the least counterexample (`Least`), as in `MemoryMap_proofs`. TLC has checked the
properties on the instance of `listing`.

`FrontPanel_proofs`, for any keys, rows, addresses, clock rates and times:

* `LowAlwaysShown`: `Spec => []LowIsShown`, inductive as it stands.
* `LowAlwaysHeld`: `Spec => []LowIsHeld`. `HeldUntilRelease` says that a key the
  autostart holds is held exactly while the next timer is a release, and
  `TimersInv` that presses and releases alternate in what is left of the list:
  without it a second press would make the first key nobody's. `PauseRemembered`
  says that an emulator which does not run is remembered as paused.
* `AutostartAlwaysEnters`: `TimesSuffice => (Spec => []AutostartEnters)`.
  `TimesSuffice` bounds the times from below for each clock rate: the ROM is up
  and has debounced once before the first press, and between two timers, of which
  the first may fire at the end of its tick and the next at the beginning of its
  own, it debounces a key, behind the scan that has begun, or ends its work with
  the last one and debounces its release. The constants of the run satisfy it,
  at clock rates on both sides of the default. `TypingInv` holds as long as
  nobody interferes: `Due` says which of the ten timers are left and when, and
  after an even number of them the ROM is `Ready` or will be, after an odd number
  it is `Entering` the key or has `Entered` it. "Will be" is a count: the rows
  the ROM still needs (`UntilReady`, `UntilEntered`) are at most `Left`, the rows
  surely scanned before the next timer. A row read takes one off both
  (`ReadyRom`, `EnteringRom`, `EnteredRom`), a tick keeps `Left`
  (`TickKeepsDue`) and a timer sets it to a hold less a tick (`NextIsDue`).
  TLC has checked `TypingInv` on the front panel of `user`.

`RamFiles_proofs`, for any size of the RAM and of a block, content, ranges, cuts and
foreign files, from `FilesAssumption` and `RamAssumption`:

* `RangeAlwaysSaved`: `RamSpec => SavesRange`: which addresses are written, exactly.
  `SavedRight` says that the blocks from an address on cover what
  `SavedAddresses` says of the rest of the range (`Covers`), by induction from the
  end of the range down (`SavingRight`). `PlainCovers` and `NearCovers` say what a
  block adds to it, away from the monitor's RAM and in front of it or inside;
  `OneMore` puts the block in front. Whether the last byte is a block of its own is
  arithmetic of remainders (`Remainders`). It is not a theorem that the dialog is
  right: `SavesExactlyRange` is false (run `saved_range`).
* `SavedAlwaysLoaded`: `RamSpec => LoadsSaved`. `RamInv` says that the file on the
  disk holds the blocks of the range as it was saved, whole or cut at some digit of
  some line (`SavedAs`). `Over` says what loading blocks over a memory leaves,
  whichever overlap; `Sound` that the blocks hold what was saved, but at one
  address.
* Both rest on the formats. `FileBlocks` says of the lines of a file that each of
  them, cut behind any digit, gives a block that was saved, nothing, an error, or,
  in Intel's format, a block with another last byte (`Like`), and that each
  block is in some line. `FileGives` shows it of both writers; `WholeFileRead` and
  `CutFileRead` draw from it what is read of a file. Underneath are lemmas on
  digits (`NumberOfTwo`, `NumberOfFour`: what is written is read) and on the fields
  of a line that is cut (`ByteField`, `WordField`, `FieldOfShort`).

Only model-checked:

* the liveness properties (`JoinReturns`, `HitHandled`, `ShutdownEnds`, `JobEnds`,
  `NmiServed`): fairness is out of the prover's reach;
* `LabelsReadBack`: `LabelFile` uses RECURSIVE operators, which the prover does not
  admit, and `ToString`, of which it knows nothing.

## 5. Not modelled

* *Address decoder*: a pure function without state; the ranges it yields are the
  `Patterns` of `MemoryMap`, and `match_pattern` has no caller.
* *RS-232 and MC6820*: nothing creates an instance.
* *Settings, tips and the other dialogs*: forms that read and write values. The
  clock rate is in `FrontPanel`, what a device dialog does to the map in
  `MemoryMap`.
* *Painting*: display blanking, fonts, colours, the heat map, the register
  labels; what a use after free inside a widget does.
* *Cycle counts* of instructions, and the real-time pacing of the worker.
* *Load ROM*, which is the reader of Load RAM with another device, and the text
  of lines, dialogs and messages.
* *Step Out*, whose action is not connected.
* *Lost releases*: a key or a mouse button that is let go while another window has
  the focus. In `FrontPanel` whoever presses a key may hold it for ever, but a
  release that comes reaches the keypad.

## 6. Plan

1. *Done*: the debugger and the worker; the memory map; interrupts; the
   instructions, display and disassembler tables; the front panel; the listing;
   files; the memory view.
2. *Done*: the proofs about the lists of `MemoryMap`, the user who waits, the
   history of breakpoints, the selection of the memory view, the flags of sums and
   differences, the disassembler's tables, the programs on the CPU, the labels, the
   line builder and its view, what the autostart types, what Save RAM and Load RAM
   do.
3. To prove: what a file of labels holds, once `LabelFile` is written without
   RECURSIVE and `ToString`.
4. To model: the range of an address pattern against its matches.
