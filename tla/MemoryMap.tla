------------------------------ MODULE MemoryMap ------------------------------
(***************************************************************************)
(* MemoryMapManager (dev/memory_map.cpp): the address space as blocks of   *)
(* BLOCK_SIZE bytes, each the head of a list of devices linked through     *)
(* their next pointers.  The GUI thread maps and unmaps: the constructor   *)
(* of the emulator, the debugger (its LED and DIP devices) and the Custom  *)
(* Devices dialog.  The emulator thread walks the same lists, without a    *)
(* lock, on every read and write of the CPU.                               *)
(*                                                                         *)
(* A handler of the GUI is a job, a sequence of calls that the GUI thread  *)
(* carries out one write at a time; its own walks down a list are steps    *)
(* too.  A load or a store of a pointer is one step: they are words, which *)
(* no supported machine tears.  Bytes are left out; an access is a device  *)
(* found and its array indexed by addr - start.                            *)
(***************************************************************************)
EXTENDS Naturals, Sequences, FiniteSets

CONSTANTS
  NULL,
  BlockSize,     \* BLOCK_SIZE
  Address,       \* 0 .. 0xFFFF
  Builtin,       \* the devices of the constructor and init_emu, in order
  BuiltinRange,  \* their start and end
  Led, Dip,      \* the debugger's two one-byte devices
  Custom,        \* objects the Custom Devices dialog may create
  Patterns,      \* start and end of the patterns a user may enter
  IoChoices,     \* LED and DIP addresses a user may choose
  Probes         \* addresses the CPU accesses

BuiltinDevices == {Builtin[i] : i \in 1 .. Len(Builtin)}

Device == BuiltinDevices \cup {Led, Dip} \cup Custom

AddressRange == [start : Address, end : Address]

ASSUME MapAssumption ==
  /\ BlockSize \in Nat \ {0}
  /\ Address \subseteq Nat /\ 0 \in Address
  /\ Builtin \in Seq(BuiltinDevices)
  /\ \A i, j \in 1 .. Len(Builtin) : Builtin[i] = Builtin[j] => i = j
  /\ IsFiniteSet(Custom)
  /\ NULL \notin Device
  /\ Led # Dip
  /\ {Led, Dip} \cap (BuiltinDevices \cup Custom) = {}
  /\ BuiltinDevices \cap Custom = {}
  /\ BuiltinRange \in [BuiltinDevices -> AddressRange]
  /\ Patterns \subseteq {r \in AddressRange : r.start <= r.end}
  /\ IoChoices \subseteq [led : Address, dip : Address]
  /\ Probes \subseteq Address

BlockOf(a) == a \div BlockSize

Block == {BlockOf(a) : a \in Address}

VARIABLES
  blocks,    \* mapped_memory_block blocks[]: the first device of each
  next,      \* memory_mapped_device::next
  range,     \* start and end of each device
  live,      \* the objects that are allocated
  io,        \* settings->ioLEDAddress and ioDIPAddress
  job,       \* calls the GUI thread still has to make
  cursor,    \* current_device of map or unmap; NULL when not walking
  started,   \* the emulator thread has been started
  walk,      \* the emulator thread's access: phase, address, device
  steady,    \* history: devices linked ever since the walk began
  strayed    \* history: the walk's device was changed under it

mapVars == <<blocks, next, range, live>>
guiVars == <<io, job, cursor, started>>
walkVars == <<walk, steady, strayed>>
vars == <<mapVars, guiVars, walkVars>>

WalkPhase ==
  {"idle", "head", "start", "end", "follow", "access", "none", "wild"}

(* Calls of the GUI thread. *)
Call(op, d) == [op |-> op, dev |-> d]
New(d, r) == [op |-> "new", dev |-> d, range |-> r]
SetStart(d, a) == [op |-> "start", dev |-> d, to |-> a]
SetEnd(d, a) == [op |-> "end", dev |-> d, to |-> a]

OneByte(a) == [start |-> a, end |-> a]

-----------------------------------------------------------------------------
(* Reading the lists, by the GUI thread: no one else writes to them. *)

(* The devices met from first on; there are none after NULL. *)
ListFrom(first) ==
  LET at[n \in 0 .. Cardinality(Device)] ==
        IF n = 0 THEN first
        ELSE IF at[n - 1] = NULL THEN NULL ELSE next[at[n - 1]]
  IN  {at[n] : n \in DOMAIN at} \ {NULL}

Chain(b) == ListFrom(blocks[b])

GetBlockDevices == UNION {Chain(b) : b \in Block}

IsMapped(d, a) == range[d].start <= a /\ a <= range[d].end

Overlap(r, s) == r.start <= s.end /\ s.start <= r.end

(* Mutant: only the first block is searched. *)
HasCollisionFirstBlock(r, exclude) ==
  \E d \in Chain(BlockOf(r.start)) \ exclude : Overlap(r, range[d])

(* Only the lists of the blocks that the range itself touches are searched. *)
HasCollision(r, exclude) ==
  \E b \in Block :
    /\ BlockOf(r.start) <= b /\ b <= BlockOf(r.end)
    /\ \E d \in Chain(b) \ exclude : Overlap(r, range[d])

AddressInUse(a) == \E d \in GetBlockDevices \ {Led, Dip} : IsMapped(d, a)

-----------------------------------------------------------------------------
(* The calls of a job. *)

Current(op) == job # <<>> /\ Head(job).op = op

Done == job' = Tail(job) /\ cursor' = NULL

(* The emulator thread stands on d, whose links, range or memory change. *)
Disturb(d) == strayed' = (strayed \/ (walk.at = d /\ walk.phase # "idle"))

(* Mutant: end = start + size. *)
NewDeviceOneOver ==
  /\ Current("new")
  /\ LET d == Head(job).dev
         r == Head(job).range
     IN  /\ live' = live \cup {d}
         /\ range' = [range EXCEPT ![d] = [r EXCEPT !.end = @ + 1]]
         /\ next' = [next EXCEPT ![d] = NULL]
  /\ Done
  /\ UNCHANGED <<blocks, io, started, walkVars>>

(* A constructor: the range is set before the device is in any list. *)
NewDevice ==
  /\ Current("new")
  /\ LET d == Head(job).dev
     IN  /\ live' = live \cup {d}
         /\ range' = [range EXCEPT ![d] = Head(job).range]
         /\ next' = [next EXCEPT ![d] = NULL]
  /\ Done
  /\ UNCHANGED <<blocks, io, started, walkVars>>

(* map: an empty block takes the device, else the walk begins. *)
MapFirst ==
  /\ Current("map") /\ cursor = NULL
  /\ LET d == Head(job).dev
         b == BlockOf(range[d].start)
     IN  IF blocks[b] = NULL
         THEN blocks' = [blocks EXCEPT ![b] = d] /\ Done
         ELSE cursor' = blocks[b] /\ UNCHANGED <<blocks, job>>
  /\ UNCHANGED <<next, range, live, io, started, walkVars>>

(* map: on to the last device of the list, to chain the new one to it. *)
MapNext ==
  /\ Current("map") /\ cursor # NULL
  /\ IF next[cursor] # NULL
     THEN cursor' = next[cursor] /\ UNCHANGED <<next, job>>
     ELSE next' = [next EXCEPT ![cursor] = Head(job).dev] /\ Done
  /\ UNCHANGED <<blocks, range, live, io, started, walkVars>>

(* Mutant: the device keeps its link. *)
ThenUnlinkForgetful(d) ==
  /\ job' = Tail(job)
  /\ cursor' = NULL
  /\ steady' = steady \ {d}
  /\ Disturb(d)
  /\ UNCHANGED walk

(* After a device has been taken out of its list, its own link is cleared. *)
ThenUnlink(d) ==
  /\ job' = <<Call("unlink", d)>> \o Tail(job)
  /\ cursor' = NULL
  /\ steady' = steady \ {d}
  /\ Disturb(d)
  /\ UNCHANGED walk

(* Mutant: the block is emptied with its first device. *)
UnmapFirstDropsRest ==
  /\ Current("unmap") /\ cursor = NULL
  /\ LET d == Head(job).dev
         b == BlockOf(range[d].start)
     IN  \/ /\ blocks[b] = d
            /\ blocks' = [blocks EXCEPT ![b] = NULL]
            /\ ThenUnlink(d)
         \/ /\ blocks[b] = NULL
            /\ Done
            /\ UNCHANGED <<blocks, walkVars>>
         \/ /\ blocks[b] \notin {d, NULL}
            /\ cursor' = blocks[b]
            /\ UNCHANGED <<blocks, job, walkVars>>
  /\ UNCHANGED <<next, range, live, io, started>>

(* unmap: the device is the first of its block, the block is empty (an early
   return), or the walk begins. *)
UnmapFirst ==
  /\ Current("unmap") /\ cursor = NULL
  /\ LET d == Head(job).dev
         b == BlockOf(range[d].start)
     IN  \/ /\ blocks[b] = d
            /\ blocks' = [blocks EXCEPT ![b] = next[d]]
            /\ ThenUnlink(d)
         \/ /\ blocks[b] = NULL
            /\ Done
            /\ UNCHANGED <<blocks, walkVars>>
         \/ /\ blocks[b] \notin {d, NULL}
            /\ cursor' = blocks[b]
            /\ UNCHANGED <<blocks, job, walkVars>>
  /\ UNCHANGED <<next, range, live, io, started>>

(* Mutant: the loop does not advance. *)
UnmapNextStuck ==
  /\ Current("unmap") /\ cursor # NULL
  /\ LET d == Head(job).dev
     IN  \/ /\ next[cursor] = NULL
            /\ ThenUnlink(d)
            /\ UNCHANGED next
         \/ /\ next[cursor] = d
            /\ next' = [next EXCEPT ![cursor] = next[d]]
            /\ ThenUnlink(d)
         \/ /\ next[cursor] \notin {d, NULL}
            /\ UNCHANGED <<next, job, cursor, walkVars>>
  /\ UNCHANGED <<blocks, range, live, io, started>>

(* unmap: look for the predecessor; the list may end before it is found. *)
UnmapNext ==
  /\ Current("unmap") /\ cursor # NULL
  /\ LET d == Head(job).dev
     IN  \/ /\ next[cursor] = NULL
            /\ ThenUnlink(d)
            /\ UNCHANGED next
         \/ /\ next[cursor] = d
            /\ next' = [next EXCEPT ![cursor] = next[d]]
            /\ ThenUnlink(d)
         \/ /\ next[cursor] \notin {d, NULL}
            /\ cursor' = next[cursor]
            /\ UNCHANGED <<next, job, walkVars>>
  /\ UNCHANGED <<blocks, range, live, io, started>>

Unlink ==
  /\ Current("unlink")
  /\ LET d == Head(job).dev
     IN  /\ next' = [next EXCEPT ![d] = NULL]
         /\ Disturb(d)
  /\ Done
  /\ UNCHANGED <<blocks, range, live, io, started, walk, steady>>

(* set_bit_pattern: two members are written, the array is resized. *)
MoveStart ==
  /\ Current("start")
  /\ LET d == Head(job).dev
     IN  range' = [range EXCEPT ![d].start = Head(job).to] /\ Disturb(d)
  /\ Done
  /\ UNCHANGED <<blocks, next, live, io, started, walk, steady>>

MoveEnd ==
  /\ Current("end")
  /\ LET d == Head(job).dev
     IN  range' = [range EXCEPT ![d].end = Head(job).to] /\ Disturb(d)
  /\ Done
  /\ UNCHANGED <<blocks, next, live, io, started, walk, steady>>

(* delete: a walk that stands on the device reads freed memory next. *)
Delete ==
  /\ Current("delete")
  /\ LET d == Head(job).dev
     IN  /\ live' = live \ {d}
         /\ Disturb(d)
         /\ walk' = IF walk.at = d THEN [walk EXCEPT !.phase = "wild"] ELSE walk
  /\ Done
  /\ UNCHANGED <<blocks, next, range, io, started, steady>>

JobStep ==
  \/ NewDevice \/ MapFirst \/ MapNext \/ UnmapFirst \/ UnmapNext \/ Unlink
  \/ MoveStart \/ MoveEnd \/ Delete

-----------------------------------------------------------------------------
(* Handlers of the GUI thread, each entered from its event loop. *)

Idle == job = <<>> /\ started

Post(calls) ==
  /\ job' = calls
  /\ UNCHANGED <<mapVars, cursor, started, walkVars>>

(* The debugger's LED and DIP devices exist exactly while it is open. *)
DebuggerOpen == {Led, Dip} \subseteq live

CreateIo(addresses) ==
  <<New(Led, OneByte(addresses.led)), New(Dip, OneByte(addresses.dip)),
    Call("map", Led), Call("map", Dip)>>

DestroyIo ==
  <<Call("unmap", Led), Call("unmap", Dip),
    Call("delete", Led), Call("delete", Dip)>>

(* The constructor and init_emu are over: execute_emu starts the thread. *)
ExecuteEmu ==
  /\ job = <<>> /\ ~started
  /\ started' = TRUE
  /\ UNCHANGED <<mapVars, io, job, cursor, walkVars>>

OpenDebugger ==
  /\ Idle /\ ~DebuggerOpen
  /\ Post(CreateIo(io)) /\ UNCHANGED io

CloseDebugger ==
  /\ Idle /\ DebuggerOpen
  /\ Post(DestroyIo) /\ UNCHANGED io

(* The I/O Settings dialog: what validate accepts, if it differs. *)
ChangeIo(choice) ==
  /\ Idle /\ DebuggerOpen
  /\ choice.led # choice.dip
  /\ ~AddressInUse(choice.led) /\ ~AddressInUse(choice.dip)
  /\ choice # io
  /\ io' = choice
  /\ Post(DestroyIo \o CreateIo(choice))

AddDevice(d, r) ==
  /\ Idle /\ DebuggerOpen
  /\ d \notin live
  /\ ~HasCollision(r, {})
  /\ Post(<<New(d, r), Call("map", d)>>) /\ UNCHANGED io

EditDevice(d, r) ==
  /\ Idle /\ DebuggerOpen
  /\ d \in live
  /\ ~HasCollision(r, {d})
  /\ Post(<<Call("unmap", d), SetStart(d, r.start), SetEnd(d, r.end),
            Call("map", d)>>)
  /\ UNCHANGED io

(* Mutant: the object is deleted before it is unmapped. *)
RemoveDeviceEarly(d) ==
  /\ Idle /\ DebuggerOpen
  /\ d \in live
  /\ Post(<<Call("delete", d), Call("unmap", d)>>) /\ UNCHANGED io

RemoveDevice(d) ==
  /\ Idle /\ DebuggerOpen
  /\ d \in live
  /\ Post(<<Call("unmap", d), Call("delete", d)>>) /\ UNCHANGED io

Handler ==
  \/ OpenDebugger \/ CloseDebugger
  \/ \E choice \in IoChoices : ChangeIo(choice)
  \/ \E d \in Custom, r \in Patterns : AddDevice(d, r) \/ EditDevice(d, r)
  \/ \E d \in Custom : RemoveDevice(d)

-----------------------------------------------------------------------------
(* The emulator thread: get_block_device, then the access to the device. *)

WalkTo(phase) ==
  /\ walk' = [walk EXCEPT !.phase = phase]
  /\ UNCHANGED <<mapVars, guiVars, steady, strayed>>

(* A walk on to a device, or off the end of the list *)
Reach(d) ==
  /\ walk' = [walk EXCEPT !.at = d,
                          !.phase = IF d = NULL THEN "none"
                                    ELSE IF d \in live THEN "start" ELSE "wild"]
  /\ UNCHANGED <<mapVars, guiVars, steady, strayed>>

Begin(a) ==
  /\ started /\ walk.phase = "idle"
  /\ walk' = [phase |-> "head", addr |-> a, at |-> NULL]
  /\ steady' = GetBlockDevices
  /\ strayed' = FALSE
  /\ UNCHANGED <<mapVars, guiVars>>

ReadHead == walk.phase = "head" /\ Reach(blocks[BlockOf(walk.addr)])

(* is_mapped reads start and, if need be, end. *)
TestStart ==
  /\ walk.phase = "start"
  /\ WalkTo(IF range[walk.at].start <= walk.addr THEN "end" ELSE "follow")

TestEnd ==
  /\ walk.phase = "end"
  /\ WalkTo(IF walk.addr <= range[walk.at].end THEN "access" ELSE "follow")

Follow == walk.phase = "follow" /\ Reach(next[walk.at])

EndWalk ==
  /\ walk' = [phase |-> "idle", addr |-> 0, at |-> NULL]
  /\ steady' = {} /\ strayed' = FALSE
  /\ UNCHANGED <<mapVars, guiVars>>

(* read or write: the start is read again, to index the device's array. *)
Access ==
  /\ walk.phase = "access"
  /\ IF IsMapped(walk.at, walk.addr) THEN EndWalk ELSE WalkTo("wild")

(* No device: a read returns last_write, a write is dropped. *)
OpenBus == walk.phase = "none" /\ EndWalk

WalkStep ==
  ReadHead \/ TestStart \/ TestEnd \/ Follow \/ Access \/ OpenBus

-----------------------------------------------------------------------------
ConstructBuiltins ==
  [i \in 1 .. Len(Builtin) |-> New(Builtin[i], BuiltinRange[Builtin[i]])]

MapBuiltins == [i \in 1 .. Len(Builtin) |-> Call("map", Builtin[i])]

(* The emulator's constructor is about to run. *)
Init ==
  /\ blocks = [b \in Block |-> NULL]
  /\ next = [d \in Device |-> NULL]
  /\ range = [d \in Device |-> OneByte(0)]
  /\ live = {}
  /\ io \in {c \in IoChoices : c.led # c.dip}
  /\ job = ConstructBuiltins \o MapBuiltins
  /\ cursor = NULL
  /\ started = FALSE
  /\ walk = [phase |-> "idle", addr |-> 0, at |-> NULL]
  /\ steady = {} /\ strayed = FALSE

Next ==
  \/ JobStep \/ ExecuteEmu \/ Handler
  \/ WalkStep \/ \E a \in Probes : Begin(a)

Spec == Init /\ [][Next]_vars

(* Both threads run on; nobody has to begin anything. *)
FairSpec == Spec /\ WF_vars(JobStep) /\ WF_vars(WalkStep)

-----------------------------------------------------------------------------
(* PROPERTIES *)

Jobs ==
  [op : {"map", "unmap", "unlink", "delete"}, dev : Device]
    \cup [op : {"new"}, dev : Device, range : AddressRange]
    \cup [op : {"start", "end"}, dev : Device, to : Address]

(* Every link is a device or NULL, every range within the address space
   (dev/memory_dev.cpp, dev/io_dev.cpp: end = start + size - 1). *)
TypeOK ==
  /\ blocks \in [Block -> Device \cup {NULL}]
  /\ next \in [Device -> Device \cup {NULL}]
  /\ range \in [Device -> AddressRange]
  /\ live \subseteq Device
  /\ io \in [led : Address, dip : Address]
  /\ job \in Seq(Jobs)
  /\ cursor \in Device \cup {NULL}
  /\ started \in BOOLEAN
  /\ walk \in [phase : WalkPhase, addr : Address, at : Device \cup {NULL}]
  /\ steady \subseteq Device
  /\ strayed \in BOOLEAN

(* Between two handlers, the list of a block holds exactly the live devices
   that start in it: whatever was mapped, moved and unmapped, no device is
   lost from its list, left in an old one, or there after its deletion. *)
ChainsSound ==
  Idle => \A b \in Block :
            Chain(b) = {d \in live : BlockOf(range[d].start) = b}

(* get_custom_devices lists d before e: block by block, each in its order. *)
SavedBefore(d, e) ==
  \/ BlockOf(range[d].start) < BlockOf(range[e].start)
  \/ e \in ListFrom(next[d])

(* load_devices would find e in the way of d: e is built in, or saved before. *)
RefusedFor(d, e) ==
  /\ e \in BuiltinDevices \/ (e \in Custom \cap live /\ SavedBefore(e, d))
  /\ Overlap(range[d], range[e])
  /\ BlockOf(range[d].start) <= BlockOf(range[e].start)
  /\ BlockOf(range[e].start) <= BlockOf(range[d].end)

(* Every set of custom devices that the dialogs have accepted is accepted
   again, in the order it was saved in, when load_devices maps it at the next
   start: no saved device is refused. *)
RestartKeepsDevices ==
  Idle => \A d \in Custom \cap live, e \in live : ~RefusedFor(d, e)

(* The emulator thread leaves the devices' memory (it reads a freed device,
   or indexes an array out of its bounds) only if the device it stood on was
   edited or removed during that very access. *)
WildOnlyWhenStrayed == walk.phase = "wild" => strayed

(* A device that stays in its list for the whole of a walk which looks for one
   of its addresses is found, whatever is mapped and unmapped around it, in the
   block of its first address and in no other: when no device is found, the
   devices that hold the address begin in an earlier block, and a device that is
   found begins in the block of the address.  (Unless the walk stood on a device
   that was itself moved or removed.) *)
SteadyFound ==
  ~strayed =>
    /\ walk.phase = "none" =>
         \A d \in steady :
           IsMapped(d, walk.addr) => BlockOf(range[d].start) < BlockOf(walk.addr)
    /\ walk.phase = "access" => BlockOf(range[walk.at].start) = BlockOf(walk.addr)

(* "A device mapped across multiple blocks appears in each one"
   (dev/memory_map.cpp:183, :211): a device that stays mapped is found at every
   address it holds.  It is not, behind the block in which it begins. *)
DevicesFound ==
  walk.phase = "none" /\ ~strayed => \A d \in steady : ~IsMapped(d, walk.addr)

(* A handler's calls return: map and unmap never walk in a circle. *)
JobEnds == job # <<>> ~> job = <<>>

=============================================================================
