----------------------------- MODULE FrontPanel -----------------------------
(***************************************************************************)
(* The keypad in use: the user presses keys, pauses the emulator and sets  *)
(* its clock (the GUI thread), the timers of the autostart type a start    *)
(* address (MainWindow::autostart_sequence), and the monitor ROM, run by   *)
(* the worker, scans the rows one after the other.                         *)
(*                                                                         *)
(* Time passes in ticks, each worth `clock` rows scanned.  The worker of a *)
(* running emulator does its work in every tick; a timer fires at any      *)
(* moment of the tick in which it is due.  What the ROM does is followed   *)
(* up to the end of the sequence, or up to the first thing the user does.  *)
(***************************************************************************)
EXTENDS Keypad, Integers, Sequences, FiniteSets

CONSTANTS
  Addresses,          \* start addresses, as their four digits
  KeyD,               \* the key of the DO command
  DEFAULT_CLOCK_RATE, \* rows scanned in a tick at the default clock rate
  ClockRates,
  AUTOSTART_DELAY, AUTOSTART_KEY_HOLD,    \* in ticks
  Boot, Debounce, Work  \* the ROM: rows worth of start, scans, rows of work

ASSUME FrontPanelAssumption ==
  /\ KeyD \in Keys /\ Addresses \subseteq [1 .. 4 -> Keys]
  /\ ClockRates \subseteq Nat \ {0}
  /\ {DEFAULT_CLOCK_RATE, AUTOSTART_DELAY, AUTOSTART_KEY_HOLD,
      Boot, Debounce, Work} \subseteq Nat \ {0}

VARIABLES
  held,       \* the buttons the user holds
  timed,      \* the button the autostart holds, as a set
  clock,      \* the clock rate
  timers,     \* the timers that have been started, by the ticks until they fire
  start_address,
  rom,        \* INCH of the monitor ROM
  done,       \* rows scanned in this tick
  entered,    \* history: the keys INCH has returned
  disturbed,  \* history: the user has interfered with the autostart
  paused      \* history: the emulator was paused since no key was low

time == <<timers, rom, done, entered>>
vars == <<running, low, state, held, timed, clock, timers, start_address, rom,
          done, entered, disturbed, paused>>

Rows == <<"C003", "C006", "C005">>     \* as ENCODE reads them

Typed == <<KeyD>> \o start_address

InProgress == timers # <<>> /\ ~disturbed

-----------------------------------------------------------------------------
(* The timers *)

Larger(i, j) == IF i > j THEN i ELSE j

(* Mutant: the times do not depend on the clock rate. *)
ScaledFixed(ticks) == ticks

(* A time at the default clock rate, longer when the clock is slower *)
Scaled(ticks) == Larger((DEFAULT_CLOCK_RATE * ticks) \div clock, ticks)

Timer(due, op, key) == [due |-> due, op |-> op, key |-> key]

(* autostart_sequence: all ten timers are started at once. *)
KeyTimers ==
  LET hold == Scaled(AUTOSTART_KEY_HOLD)
  IN  [i \in 1 .. 10 |->
         Timer((i - 1) * hold, IF i % 2 = 1 THEN "press" ELSE "release",
               Typed[(i + 1) \div 2])]

Fires == timers # <<>> /\ Head(timers).due = 0

AutostartSequence ==
  /\ Fires /\ Head(timers).op = "sequence"
  /\ timers' = KeyTimers
  /\ UNCHANGED <<low, state, timed>>

TimedPress ==
  /\ Fires /\ Head(timers).op = "press"
  /\ PressKey(Head(timers).key)
  /\ timed' = {Head(timers).key}
  /\ timers' = Tail(timers)

TimedRelease ==
  /\ Fires /\ Head(timers).op = "release"
  /\ ReleaseKey(Head(timers).key)
  /\ timed' = {}
  /\ timers' = Tail(timers)

(* Nothing else depends on time, which passes faster once the user has
   interfered: the timers that are left then fire in order, at any time. *)
Tick ==
  /\ timers # <<>> /\ Head(timers).due > 0
  /\ done = clock \/ disturbed
  /\ done' = 0
  /\ timers' = [i \in DOMAIN timers |->
                  [timers[i] EXCEPT !.due =
                     @ - (IF disturbed THEN Head(timers).due ELSE 1)]]
  /\ UNCHANGED <<running, keypadVars, held, timed, clock, start_address, rom,
                 entered, disturbed, paused>>

-----------------------------------------------------------------------------
(* The monitor ROM *)

Rom(mode, count) == [mode |-> mode, count |-> count, row |-> 1, seen |-> {}]

Scans == InProgress /\ running /\ done < clock

(* The start of the ROM, and what it does between two keys *)
RomWork ==
  /\ Scans /\ rom.mode = "work"
  /\ rom' = IF rom.count > 1 THEN Rom("work", rom.count - 1) ELSE Rom("up", 0)
  /\ UNCHANGED entered

ReadsRow ==
  /\ Scans /\ rom.mode # "work" /\ rom.row < 3
  /\ rom' = [rom EXCEPT !.row = @ + 1,
                        !.seen = @ \union ReadRow(Rows[rom.row])]
  /\ UNCHANGED entered

(* ENCODE finds a key when one bit is low.  INCH waits for Debounce scans
   without a key, and then for as many with one. *)
ReadsLastRow ==
  /\ Scans /\ rom.mode # "work" /\ rom.row = 3
  /\ LET seen == rom.seen \union ReadRow(Rows[3])
         found == Cardinality(seen) = 1
         wanted == found <=> rom.mode = "down"
         complete == wanted /\ rom.count + 1 = Debounce
     IN  /\ rom' = IF ~wanted THEN Rom(rom.mode, 0)
                   ELSE IF ~complete THEN Rom(rom.mode, rom.count + 1)
                   ELSE IF rom.mode = "up" THEN Rom("down", 0)
                   ELSE Rom("work", Work)
         /\ entered' = IF complete /\ found
                         THEN Append(entered, CHOOSE key \in seen : TRUE)
                         ELSE entered

Worker ==
  /\ RomWork \/ ReadsRow \/ ReadsLastRow
  /\ done' = done + 1
  /\ UNCHANGED <<running, keypadVars, held, timed, clock, timers, start_address,
                 disturbed, paused>>

-----------------------------------------------------------------------------
(* The user.  What he does ends what is followed of the ROM. *)

Interferes ==
  /\ disturbed' = TRUE
  /\ rom' = Rom("work", Work) /\ done' = 0 /\ entered' = <<>>

Press(key) ==
  /\ key \notin held
  /\ held' = held \union {key}
  /\ PressKey(key)
  /\ UNCHANGED running

(* A key of the keyboard that is held down repeats its press event. *)
Repeat(key) ==
  /\ key \in held
  /\ PressKey(key)
  /\ UNCHANGED <<held, running>>

Release(key) ==
  /\ key \in held
  /\ held' = held \ {key}
  /\ ReleaseKey(key)
  /\ UNCHANGED running

(* The debugger's Run and Stop *)
PauseOrResume ==
  /\ running' = ~running
  /\ UNCHANGED <<keypadVars, held>>

User ==
  /\ \/ \E key \in Buttons : Press(key) \/ Repeat(key) \/ Release(key)
     \/ PauseOrResume
  /\ Interferes
  /\ UNCHANGED <<timed, clock, timers, start_address>>

(* The settings dialog *)
SetClockRate ==
  /\ clock' \in ClockRates \ {clock}
  /\ Interferes
  /\ UNCHANGED <<running, keypadVars, held, timed, timers, start_address>>

Timers ==
  /\ AutostartSequence \/ TimedPress \/ TimedRelease
  /\ UNCHANGED <<running, held, clock, start_address, rom, done, entered,
                 disturbed>>

(* MainWindow::execute_emu *)
Init ==
  /\ running = TRUE
  /\ low = {} /\ state = {} /\ held = {} /\ timed = {}
  /\ clock \in ClockRates
  /\ start_address \in Addresses
  /\ timers = <<Timer(Scaled(AUTOSTART_DELAY), "sequence", KeyD)>>
  /\ rom = Rom("work", Boot) /\ done = 0 /\ entered = <<>>
  /\ disturbed = FALSE /\ paused = FALSE

Next ==
  \/ Tick \/ Worker
  \/ /\ Timers \/ User \/ SetClockRate
     /\ paused' = (~running' \/ (low' # {} /\ paused))

Spec == Init /\ [][Next]_vars

-----------------------------------------------------------------------------
(* Properties *)

(* A line that is low belongs to a button that shows its key pressed, however
   presses, releases, repeats and pauses follow each other: the user sees which
   keys the program reads. *)
LowIsShown == low \subseteq state

(* A key is low because somebody holds it, the user or the autostart, unless
   the emulator was paused since it went low: only pausing, which makes keys
   switches, leaves a key down that nobody holds. *)
LowIsHeld == ~paused => low \subseteq held \union timed

(* The autostart types DO and the four digits, each once and in order, into
   the ROM, and nothing else, at every clock rate: the ROM is up when it
   begins, holds are longer than a key takes, and two equal digits are told
   apart.  The user must not interfere. *)
AutostartEnters ==
  ~disturbed =>
    /\ Len(entered) <= 5 /\ entered = SubSeq(Typed, 1, Len(entered))
    /\ timers = <<>> => Len(entered) = 5

=============================================================================
