-------------------------- MODULE FrontPanel_proofs --------------------------
(***************************************************************************)
(* Proofs about FrontPanel, for any keys, clock rates and times.           *)
(***************************************************************************)
EXTENDS FrontPanel, FiniteSetTheorems, SequenceTheorems, TLAPS

TimerType == [due : Int, op : {"sequence", "press", "release"}, key : Keys]

(* A press is followed by its release, and as long as the autostart holds a key
   the next timer is the one that releases it. *)
PressThenRelease ==
  \A i \in 1 .. Len(timers) :
    timers[i].op = "press" /\ i < Len(timers) => timers[i + 1].op = "release"

HeldUntilRelease ==
  timed # {} /\ timers # <<>> => Head(timers).op = "release"

TimersInv ==
  /\ timers \in Seq(TimerType)
  /\ PressThenRelease
  /\ HeldUntilRelease

(* While the emulator is paused keys are switches, and some may stay on when it
   runs again. *)
PauseRemembered == running \in BOOLEAN /\ paused \in BOOLEAN /\ (~paused => running)

PanelInv == LowIsShown /\ LowIsHeld /\ PauseRemembered

-----------------------------------------------------------------------------
(* The timers of the autostart *)

LEMMA FunctionAsSequence ==
  ASSUME NEW S, NEW n \in Nat, NEW f \in [1 .. n -> S]
  PROVE f \in Seq(S) /\ Len(f) = n
<1>1. f \in Seq(S)
  BY SeqDef
<1>2. Len(f) \in Nat /\ 1 .. Len(f) = 1 .. n
  BY <1>1, LenProperties
<1> QED
  BY <1>1, <1>2

LEMMA TypedKeys ==
  ASSUME start_address \in Addresses
  PROVE  /\ Typed \in Seq(Keys) /\ Len(Typed) = 5
         /\ \A j \in 1 .. 5 : Typed[j] \in Keys
<1>1. KeyD \in Keys /\ start_address \in [1 .. 4 -> Keys]
  BY FrontPanelAssumption
<1>2. start_address \in Seq(Keys) /\ Len(start_address) = 4
  BY <1>1, FunctionAsSequence
<1> DEFINE first == <<KeyD>>
<1>3. first \in Seq(Keys) /\ Len(first) = 1
  BY <1>1
<1>4. Typed = first \o start_address
  BY DEF Typed
<1> HIDE DEF first
<1>5. /\ first \o start_address \in Seq(Keys)
      /\ Len(first \o start_address) = Len(first) + Len(start_address)
  BY <1>2, <1>3, ConcatProperties, Zenon
<1>6. Typed \in Seq(Keys) /\ Len(Typed) = 5
  BY <1>2, <1>3, <1>4, <1>5
<1> QED BY <1>6, ElementOfSeq

LEMMA KeyTimersType ==
  ASSUME start_address \in Addresses, clock \in Nat \ {0}
  PROVE /\ KeyTimers \in Seq(TimerType)
        /\ Len(KeyTimers) = 10
        /\ \A i \in 1 .. 10 :
             KeyTimers[i].op = IF i % 2 = 1 THEN "press" ELSE "release"
<1>1. Scaled(AUTOSTART_KEY_HOLD) \in Int
  <2>1. (DEFAULT_CLOCK_RATE * AUTOSTART_KEY_HOLD) \div clock \in Int
    BY FrontPanelAssumption
  <2> QED
    BY <2>1, FrontPanelAssumption DEF Scaled, Larger
<1>2. ASSUME NEW j \in 1 .. 5 PROVE Typed[j] \in Keys
  BY TypedKeys
<1>3. ASSUME NEW i \in 1 .. 10 PROVE KeyTimers[i] \in TimerType
  <2>1. (i + 1) \div 2 \in 1 .. 5
    OBVIOUS
  <2>2. Typed[(i + 1) \div 2] \in Keys
    BY <1>2, <2>1
  <2>3. (i - 1) * Scaled(AUTOSTART_KEY_HOLD) \in Int
    BY <1>1
  <2> QED
    BY <2>2, <2>3 DEF KeyTimers, Timer, TimerType
<1>4. KeyTimers \in [1 .. 10 -> TimerType]
  BY <1>3 DEF KeyTimers
<1>5. KeyTimers \in Seq(TimerType) /\ Len(KeyTimers) = 10
  BY <1>4, FunctionAsSequence
<1> QED
  BY <1>5 DEF KeyTimers, Timer

LEMMA NextTimers ==
  ASSUME TimersInv, [Next]_vars,
         start_address \in Addresses, clock \in Nat \ {0}
  PROVE TimersInv'
<1> USE DEF TimersInv, PressThenRelease, HeldUntilRelease
<1>t. Len(timers) \in Nat /\ (timers # <<>> => Len(timers) > 0)
  BY LenProperties, EmptySeq
<1>1. CASE Tick
  <2>1. timers # <<>> /\ UNCHANGED timed
    BY <1>1 DEF Tick
  <2>2. /\ timers' \in [1 .. Len(timers) -> TimerType]
        /\ \A i \in 1 .. Len(timers) : timers'[i].op = timers[i].op
    <3> DEFINE step == IF disturbed THEN Head(timers).due ELSE 1
    <3>1. timers' = [i \in DOMAIN timers |-> [timers[i] EXCEPT !.due = @ - step]]
      BY <1>1 DEF Tick
    <3>2. step \in Int
      <4>1. Head(timers) \in TimerType
        BY <2>1, HeadTailProperties
      <4> QED
        BY <4>1 DEF TimerType
    <3>3. DOMAIN timers = 1 .. Len(timers)
      BY LenProperties
    <3> HIDE DEF step
    <3>4. ASSUME NEW i \in 1 .. Len(timers)
          PROVE /\ [timers[i] EXCEPT !.due = @ - step] \in TimerType
                /\ [timers[i] EXCEPT !.due = @ - step].op = timers[i].op
      <4>1. timers[i] \in TimerType
        BY ElementOfSeq
      <4> QED
        BY <3>2, <4>1 DEF TimerType
    <3> QED
      BY <3>1, <3>3, <3>4
  <2>3. timers' \in Seq(TimerType) /\ Len(timers') = Len(timers)
    BY <1>t, <2>2, FunctionAsSequence
  <2>4. timers' # <<>> /\ Head(timers) = timers[1] /\ Head(timers') = timers'[1]
    BY <1>t, <2>1, <2>3, EmptySeq
  <2>5. Head(timers').op = Head(timers).op
    BY <1>t, <2>1, <2>2, <2>4
  <2>6. PressThenRelease'
    BY <1>t, <2>2, <2>3
  <2> QED
    BY <2>1, <2>3, <2>5, <2>6
<1>2. CASE AutostartSequence
  <2>1. timers' = KeyTimers /\ timed' = {}
    BY <1>2 DEF AutostartSequence, Fires
  <2>2. \A i \in 1 .. 9 : i % 2 = 1 => (i + 1) % 2 = 0
    OBVIOUS
  <2>3. /\ KeyTimers \in Seq(TimerType) /\ Len(KeyTimers) = 10
        /\ \A i \in 1 .. 10 :
             KeyTimers[i].op = IF i % 2 = 1 THEN "press" ELSE "release"
    BY KeyTimersType
  <2> HIDE DEF TimersInv, HeldUntilRelease
  <2>4. PressThenRelease'
    <3> SUFFICES ASSUME NEW i \in 1 .. 9, KeyTimers[i].op = "press"
                 PROVE KeyTimers[i + 1].op = "release"
      BY <2>1, <2>3
    <3>1. i \in 1 .. 10 /\ i + 1 \in 1 .. 10
      OBVIOUS
    <3>2. KeyTimers[i].op = IF i % 2 = 1 THEN "press" ELSE "release"
      BY <2>3, <3>1, Zenon
    <3>3. i % 2 = 1
      BY <3>2
    <3>4. (i + 1) % 2 # 1
      BY <2>2, <3>3
    <3> QED
      BY <2>3, <3>1, <3>4
  <2> QED
    BY <2>1, <2>3, <2>4 DEF TimersInv, HeldUntilRelease
<1>3. ASSUME Fires, timers' = Tail(timers),
             Head(timers).op = "press" \/ timed' = {}
      PROVE TimersInv'
  <2>1. /\ timers # <<>> /\ Head(timers) = timers[1]
        /\ timers' \in Seq(TimerType)
        /\ Len(timers') = Len(timers) - 1
        /\ \A i \in 1 .. Len(timers') : timers'[i] = timers[i + 1]
    BY <1>3, HeadTailProperties DEF Fires
  <2>2. PressThenRelease'
    BY <1>t, <2>1
  <2>3. HeldUntilRelease'
    <3> SUFFICES ASSUME timed' # {}, timers' # <<>> PROVE Head(timers').op = "release"
      OBVIOUS
    <3>1. Len(timers') \in Nat \ {0}
      BY <2>1, EmptySeq
    <3>2. Head(timers') = timers'[1] /\ timers'[1] = timers[2]
      BY <2>1, <3>1
    <3> QED
      BY <1>3, <1>t, <2>1, <3>1, <3>2
  <2> QED
    BY <2>1, <2>2, <2>3
<1>4. CASE TimedPress
  BY <1>3, <1>4 DEF TimedPress
<1>5. CASE TimedRelease
  BY <1>3, <1>5 DEF TimedRelease
<1>6. CASE Worker
  BY <1>6 DEF Worker
<1>7. CASE User
  BY <1>7 DEF User
<1>8. CASE SetClockRate
  BY <1>8 DEF SetClockRate
<1>9. CASE UNCHANGED vars
  BY <1>9 DEF vars
<1> QED
  BY <1>1, <1>2, <1>4, <1>5, <1>6, <1>7, <1>8, <1>9 DEF Next, Timers

-----------------------------------------------------------------------------
(* Keys and buttons *)

(* A button takes its key down with it, or every key up. *)
LEMMA PressedIsShown ==
  ASSUME LowIsShown, NEW key, PressKey(key)
  PROVE /\ LowIsShown'
        /\ low' = {} \/ (low' \subseteq low \union {key} /\ (running \/ key \notin state))
BY DEF PressKey, PullLow, PullHigh, LowIsShown

LEMMA ReleasedIsShown ==
  ASSUME LowIsShown, NEW key, ReleaseKey(key)
  PROVE /\ LowIsShown'
        /\ low' = {} \/ (~running /\ low' = low)
BY DEF ReleaseKey, PullHigh, LowIsShown, keypadVars

Bookkeeping == paused' = (~running' \/ (low' # {} /\ paused))

(* After a step that keeps the books, keys are held or a pause is remembered,
   if they are held when no pause came before. *)
LEMMA HeldOrPaused ==
  ASSUME PauseRemembered, Bookkeeping, running' \in BOOLEAN,
         ~paused => low' \subseteq held' \union timed'
  PROVE PauseRemembered' /\ LowIsHeld'
<1>1. paused' \in BOOLEAN
  BY DEF Bookkeeping
<1>2. ~paused' => running' /\ (low' = {} \/ ~paused)
  BY DEF Bookkeeping
<1> QED
  BY <1>1, <1>2 DEF PauseRemembered, LowIsHeld

LEMMA NextPanel ==
  ASSUME PanelInv, TimersInv, [Next]_vars
  PROVE PanelInv'
<1> USE DEF PanelInv
<1>1. CASE UNCHANGED <<running, keypadVars, held, timed, paused>>
  BY <1>1 DEF LowIsShown, LowIsHeld, PauseRemembered, keypadVars
<1>2. ASSUME Bookkeeping, UNCHANGED running, NEW key, PressKey(key),
             held \union timed \union {key} \subseteq held' \union timed'
      PROVE PanelInv'
  <2>1. ~paused => low' \subseteq held' \union timed'
    BY <1>2, PressedIsShown DEF LowIsHeld
  <2> QED
    BY <1>2, <2>1, PressedIsShown, HeldOrPaused DEF PauseRemembered
<1>3. ASSUME Bookkeeping, UNCHANGED running, NEW key, ReleaseKey(key)
      PROVE PanelInv'
  <2>1. ~paused => low' \subseteq held' \union timed'
    BY <1>3, ReleasedIsShown DEF PauseRemembered
  <2> QED
    BY <1>3, <2>1, ReleasedIsShown, HeldOrPaused DEF PauseRemembered
<1>4. CASE AutostartSequence /\ Timers /\ Bookkeeping
  <2>1. UNCHANGED <<running, low, state, held, timed>>
    BY <1>4 DEF AutostartSequence, Timers
  <2> QED
    BY <1>4, <2>1, HeldOrPaused DEF LowIsShown, LowIsHeld, PauseRemembered
<1>5. CASE TimedPress /\ Timers /\ Bookkeeping
  <2>1. timers # <<>> /\ Head(timers).op = "press"
    BY <1>5 DEF TimedPress, Fires
  <2>2. timed = {}
    BY <2>1 DEF TimersInv, HeldUntilRelease
  <2>3. /\ PressKey(Head(timers).key) /\ timed' = {Head(timers).key}
        /\ UNCHANGED <<running, held>>
    BY <1>5 DEF TimedPress, Timers
  <2> QED
    BY <1>2, <1>5, <2>2, <2>3
<1>6. CASE TimedRelease /\ Timers /\ Bookkeeping
  BY <1>3, <1>6 DEF TimedRelease, Timers
<1>7. CASE User /\ Bookkeeping
  <2>1. UNCHANGED timed
    BY <1>7 DEF User
  <2>2. ASSUME NEW key, Press(key) \/ Repeat(key) PROVE PanelInv'
    BY <1>2, <1>7, <2>1, <2>2 DEF Press, Repeat
  <2>3. ASSUME NEW key, Release(key) PROVE PanelInv'
    BY <1>3, <1>7, <2>3 DEF Release
  <2>4. CASE PauseOrResume
    <3>1. running' \in BOOLEAN /\ UNCHANGED <<low, state, held, timed>>
      BY <2>1, <2>4 DEF PauseOrResume, keypadVars
    <3> QED
      BY <1>7, <3>1, HeldOrPaused DEF LowIsShown, LowIsHeld
  <2> QED
    BY <1>7, <2>2, <2>3, <2>4 DEF User
<1>8. CASE SetClockRate /\ Bookkeeping
  <2>1. UNCHANGED <<running, low, state, held, timed>>
    BY <1>8 DEF SetClockRate, keypadVars
  <2> QED
    BY <1>8, <2>1, HeldOrPaused DEF LowIsShown, LowIsHeld, PauseRemembered
<1>9. Tick \/ Worker \/ UNCHANGED vars => UNCHANGED <<running, keypadVars, held, timed, paused>>
  BY DEF Tick, Worker, vars, keypadVars
<1> QED
  BY <1>1, <1>4, <1>5, <1>6, <1>7, <1>8, <1>9 DEF Next, Timers, Bookkeeping

-----------------------------------------------------------------------------
(* All of it *)

PanelState == start_address \in Addresses /\ clock \in Nat \ {0}

Inv == PanelState /\ TimersInv /\ PanelInv

LEMMA InitInv == Init => Inv
<1> SUFFICES ASSUME Init PROVE Inv
  OBVIOUS
<1>1. PanelState
  BY FrontPanelAssumption DEF Init, PanelState
<1>2. PanelInv
  BY DEF Init, PanelInv, LowIsShown, LowIsHeld, PauseRemembered
<1>3. Timer(Scaled(AUTOSTART_DELAY), "sequence", KeyD) \in TimerType
  <2>1. (DEFAULT_CLOCK_RATE * AUTOSTART_DELAY) \div clock \in Int
    BY <1>1, FrontPanelAssumption DEF PanelState
  <2>2. Scaled(AUTOSTART_DELAY) \in Int
    BY <2>1, FrontPanelAssumption DEF Scaled, Larger
  <2> QED
    BY <2>2, FrontPanelAssumption DEF Timer, TimerType
<1>4. /\ timers \in Seq(TimerType) /\ Len(timers) = 1
      /\ timed = {}
  BY <1>3 DEF Init
<1>5. TimersInv
  BY <1>4 DEF TimersInv, PressThenRelease, HeldUntilRelease
<1> QED
  BY <1>1, <1>2, <1>5 DEF Inv

LEMMA NextInv == Inv /\ [Next]_vars => Inv'
<1> SUFFICES ASSUME Inv, [Next]_vars PROVE Inv'
  OBVIOUS
<1>1. PanelState'
  BY FrontPanelAssumption
     DEF Inv, PanelState, Next, vars, Tick, Worker, Timers, User, SetClockRate
<1> QED
  BY <1>1, NextTimers, NextPanel DEF Inv, PanelState

(* Theorem: with any keys, clock rates and times of the timers, no line is ever
   low without its button showing it, in whatever order the mouse, the keyboard
   and the timers press and release around pauses (LowIsShown; keypad.cpp:68-111,
   keypad_dev.cpp:17-89). *)
THEOREM LowAlwaysShown == Spec => []LowIsShown
<1>1. Inv => LowIsShown
  BY DEF Inv, PanelInv
<1> QED
  BY <1>1, InitInv, NextInv, PTL DEF Spec

(* Theorem: a key that is low is held by the user or by the autostart, unless
   the emulator was paused since it went low (LowIsHeld; keypad.cpp:68-111,
   mainwindow.cpp:517-548). *)
THEOREM LowAlwaysHeld == Spec => []LowIsHeld
<1>1. Inv => LowIsHeld
  BY DEF Inv, PanelInv
<1> QED
  BY <1>1, InitInv, NextInv, PTL DEF Spec

-----------------------------------------------------------------------------
(* What the autostart types *)

ScaledAt(ticks, rate) == Larger((DEFAULT_CLOCK_RATE * ticks) \div rate, ticks)

(* The ROM is up before the first press.  Between two timers it finds the key
   that is down, or that it is up, in Debounce scans behind the one that has
   begun, and what it does with the key takes no longer than the next hold.
   A timer may fire at the end of a tick and the next at the beginning. *)
TimesSuffice ==
  \A rate \in ClockRates :
    LET delay == rate * ScaledAt(AUTOSTART_DELAY, rate)
        hold == rate * (ScaledAt(AUTOSTART_KEY_HOLD, rate) - 1)
    IN  /\ delay >= Boot + 3 * Debounce
        /\ hold >= 3 * Debounce + 2 /\ hold >= 3 * Debounce + Work

(* The keys entered are the first ones of what is typed. *)
EnteredFirst(count) ==
  /\ entered \in Seq(Keys) /\ Len(entered) = count
  /\ \A i \in 1 .. count : entered[i] = Typed[i]

(* At least so many rows are scanned before the next timer fires. *)
Left == clock * Head(timers).due - done

(* A timer of KeyTimers, of which the first n have fired *)
Due(n, elapsed) ==
  /\ timers \in Seq(TimerType) /\ Len(timers) = 10 - n
  /\ \A i \in 1 .. 10 - n :
       /\ timers[i].due = (n + i - 1) * ScaledAt(AUTOSTART_KEY_HOLD, clock) - elapsed
       /\ timers[i].op = IF (n + i) % 2 = 1 THEN "press" ELSE "release"
       /\ timers[i].key = Typed[(n + i + 1) \div 2]
  /\ n < 10 => timers[1].due >= 0

RomOK ==
  /\ rom \in [mode : {"work", "up", "down"}, count : Nat, row : 1 .. 3,
              seen : SUBSET Keys]
  /\ IF rom.mode = "work" THEN rom.count >= 1 ELSE rom.count < Debounce
  /\ rom.row = 1 => rom.seen = {}
  /\ rom.seen = {} \/ \E key \in Keys : rom.seen = {key}

(* The rows until the ROM waits for a key, when none is down *)
UntilReady ==
  IF rom.mode = "work" THEN rom.count + 3 * Debounce
  ELSE IF rom.seen = {} THEN 3 * (Debounce - rom.count) - (rom.row - 1)
  ELSE 3 * Debounce + 4 - rom.row

(* No key is down, and the ROM waits for one or will in time. *)
Ready ==
  /\ low = {}
  /\ IF rom.mode = "down" THEN rom.count = 0 /\ rom.seen = {}
     ELSE UntilReady <= Left

(* This scan finds the key. *)
Finds(key) == rom.seen = {key} \/ \E row \in rom.row .. 3 : RowOf[key] = Rows[row]

(* The rows until the key is entered *)
UntilEntered(key) ==
  IF Finds(key) THEN 3 * (Debounce - rom.count) - (rom.row - 1)
  ELSE 3 * Debounce + 4 - rom.row

(* The key is down, and the ROM will enter it in time ... *)
Entering(key) ==
  /\ low = {key} /\ rom.mode = "down" /\ rom.seen \subseteq {key}
  /\ Finds(key) \/ (rom.seen = {} /\ rom.count = 0)
  /\ UntilEntered(key) <= Left

(* ... or has, and works or waits until it is up. *)
Entered(key) ==
  /\ low = {key} /\ rom.mode # "down"
  /\ IF rom.mode = "work" THEN rom.count <= Work
     ELSE rom.count = 0 /\ rom.seen \subseteq {key} /\ Finds(key)

BeforeSequence ==
  /\ timers \in Seq(TimerType) /\ Len(timers) = 1
  /\ timers[1].op = "sequence" /\ timers[1].due >= 0
  /\ Ready /\ EnteredFirst(0)

Typing(n) ==
  /\ \E elapsed \in Nat : Due(n, elapsed)
  /\ IF n = 10 THEN EnteredFirst(5)
     ELSE IF n % 2 = 0 THEN Ready /\ EnteredFirst(n \div 2)
     ELSE LET key == Typed[(n + 1) \div 2]
          IN  \/ Entering(key) /\ EnteredFirst(n \div 2)
              \/ Entered(key) /\ EnteredFirst(n \div 2 + 1)

TypingInv ==
  ~disturbed =>
    /\ running /\ clock \in ClockRates /\ done \in 0 .. clock /\ RomOK
    /\ BeforeSequence \/ \E n \in 0 .. 10 : Typing(n)

LEMMA Times ==
  ASSUME TimesSuffice, clock \in ClockRates
  PROVE  /\ clock \in Nat \ {0} /\ Debounce \in Nat \ {0} /\ Work \in Nat \ {0}
         /\ Boot \in Nat \ {0}
         /\ ScaledAt(AUTOSTART_KEY_HOLD, clock) \in Nat
         /\ ScaledAt(AUTOSTART_DELAY, clock) \in Nat
         /\ clock * ScaledAt(AUTOSTART_DELAY, clock) >= Boot + 3 * Debounce
         /\ clock * (ScaledAt(AUTOSTART_KEY_HOLD, clock) - 1) >= 3 * Debounce + 2
         /\ clock * (ScaledAt(AUTOSTART_KEY_HOLD, clock) - 1) >= 3 * Debounce + Work
<1>1. /\ clock \in Nat \ {0} /\ Debounce \in Nat \ {0} /\ Work \in Nat \ {0}
      /\ Boot \in Nat \ {0} /\ DEFAULT_CLOCK_RATE \in Nat
      /\ AUTOSTART_DELAY \in Nat /\ AUTOSTART_KEY_HOLD \in Nat
  BY FrontPanelAssumption
<1>2. \A ticks \in Nat : ScaledAt(ticks, clock) \in Nat
  <2> TAKE ticks \in Nat
  <2>1. DEFAULT_CLOCK_RATE * ticks \in Nat
    BY <1>1
  <2>2. (DEFAULT_CLOCK_RATE * ticks) \div clock \in Int
    BY <1>1, <2>1
  <2> QED BY <2>2 DEF ScaledAt, Larger
<1> QED BY <1>1, <1>2 DEF TimesSuffice

-----------------------------------------------------------------------------
(* What the ROM reads *)

LEMMA NothingRead == ASSUME low = {}, NEW row PROVE ReadRow(row) = {}
BY DEF ReadRow

LEMMA KeyRead ==
  ASSUME NEW key, low = {key}, NEW row
  PROVE  ReadRow(row) = IF RowOf[key] = row THEN {key} ELSE {}
BY DEF ReadRow

LEMMA OneKey ==
  ASSUME NEW key
  PROVE  /\ Cardinality({}) = 0 /\ Cardinality({key}) = 1
         /\ (CHOOSE k \in {key} : TRUE) = key
<1>1. Cardinality({}) = 0 /\ Cardinality({key}) = 1
  BY FS_EmptySet, FS_Singleton
<1>2. (CHOOSE k \in {key} : TRUE) \in {key}
  OBVIOUS
<1> QED BY <1>1, <1>2

LEMMA EachKeyHasRow ==
  ASSUME NEW key \in Keys PROVE \E row \in 1 .. 3 : RowOf[key] = Rows[row]
<1>1. RowOf[key] \in {"C003", "C005", "C006"}
  BY KeypadAssumption
<1>2. Rows[1] = "C003" /\ Rows[2] = "C006" /\ Rows[3] = "C005"
  BY DEF Rows
<1> QED BY <1>1, <1>2

Times3 == Debounce \in Nat \ {0} /\ Work \in Nat \ {0}

(* A scan ends. *)
LEMMA ScanEnds ==
  ASSUME ReadsLastRow, NEW seen, seen = rom.seen \union ReadRow(Rows[3]),
         NEW wanted, wanted = (Cardinality(seen) = 1 <=> rom.mode = "down")
  PROVE  /\ rom.row = 3 /\ rom.mode # "work"
         /\ rom' = IF ~wanted THEN Rom(rom.mode, 0)
                   ELSE IF rom.count + 1 # Debounce THEN Rom(rom.mode, rom.count + 1)
                   ELSE IF rom.mode = "up" THEN Rom("down", 0) ELSE Rom("work", Work)
         /\ ~wanted \/ rom.count + 1 # Debounce \/ Cardinality(seen) # 1
              => entered' = entered
         /\ \A key : wanted /\ rom.count + 1 = Debounce /\ seen = {key}
                      => entered' = Append(entered, key)
<1> DEFINE all == rom.seen \union ReadRow(Rows[3])
           found == Cardinality(all) = 1
           complete == (found <=> rom.mode = "down") /\ rom.count + 1 = Debounce
<1>1. entered' = IF complete /\ found THEN Append(entered, CHOOSE key \in all : TRUE)
                 ELSE entered
  BY DEF ReadsLastRow
<1>2. /\ rom.row = 3 /\ rom.mode # "work"
      /\ rom' = IF ~(found <=> rom.mode = "down") THEN Rom(rom.mode, 0)
                ELSE IF ~complete THEN Rom(rom.mode, rom.count + 1)
                ELSE IF rom.mode = "up" THEN Rom("down", 0) ELSE Rom("work", Work)
  BY DEF ReadsLastRow
<1>3. wanted = (found <=> rom.mode = "down")
  OBVIOUS
<1>4. ASSUME NEW key, wanted, rom.count + 1 = Debounce, seen = {key}
      PROVE  entered' = Append(entered, key)
  <2>1. all = {key}
    BY <1>4
  <2>2. found /\ complete
    BY <1>3, <1>4, <2>1, OneKey
  <2>3. (CHOOSE k \in all : TRUE) \in all
    BY <2>1
  <2> QED BY <1>1, <2>1, <2>2, <2>3
<1>5. ~wanted \/ rom.count + 1 # Debounce \/ Cardinality(seen) # 1 => entered' = entered
  BY <1>1, <1>3
<1> HIDE DEF found
<1> QED BY <1>2, <1>3, <1>4, <1>5

(* A row is read, or some work done, without a key. *)
LEMMA ReadyRom ==
  ASSUME Times3, RomOK, low = {}, rom.mode = "down" => rom.count = 0 /\ rom.seen = {},
         RomWork \/ ReadsRow \/ ReadsLastRow
  PROVE  /\ RomOK' /\ entered' = entered
         /\ IF rom'.mode = "down" THEN rom'.count = 0 /\ rom'.seen = {}
            ELSE rom.mode # "down" /\ UntilReady' = UntilReady - 1
<1> USE DEF Times3
<1>1. /\ rom.mode \in {"work", "up", "down"} /\ rom.count \in Nat /\ rom.row \in 1 .. 3
      /\ rom.seen \in SUBSET Keys
      /\ rom = [mode |-> rom.mode, count |-> rom.count, row |-> rom.row, seen |-> rom.seen]
      /\ IF rom.mode = "work" THEN rom.count >= 1 ELSE rom.count < Debounce
      /\ rom.row = 1 => rom.seen = {}
      /\ rom.seen = {} \/ \E key \in Keys : rom.seen = {key}
  BY DEF RomOK
<1>2. CASE RomWork
  BY <1>1, <1>2 DEF RomWork, RomOK, Rom, UntilReady
<1>3. CASE ReadsRow
  <2>1. /\ rom' = [rom EXCEPT !.row = @ + 1] /\ entered' = entered
        /\ rom.mode # "work" /\ rom.row < 3
    BY <1>1, <1>3, NothingRead DEF ReadsRow
  <2>2. rom' = [mode |-> rom.mode, count |-> rom.count, row |-> rom.row + 1, seen |-> rom.seen]
    BY <1>1, <2>1
  <2> QED BY <1>1, <2>1, <2>2 DEF RomOK, UntilReady
<1>4. CASE ReadsLastRow
  <2>1. rom.seen \union ReadRow(Rows[3]) = rom.seen
    BY NothingRead
  <2>2. Cardinality({}) = 0
    BY OneKey
  <2> PICK wanted : wanted = (Cardinality(rom.seen) = 1 <=> rom.mode = "down")
    OBVIOUS
  <2>3. /\ rom.row = 3 /\ rom.mode # "work"
        /\ rom' = IF ~wanted THEN Rom(rom.mode, 0)
                  ELSE IF rom.count + 1 # Debounce THEN Rom(rom.mode, rom.count + 1)
                  ELSE IF rom.mode = "up" THEN Rom("down", 0) ELSE Rom("work", Work)
        /\ ~wanted \/ rom.count + 1 # Debounce \/ Cardinality(rom.seen) # 1
             => entered' = entered
    <3> PICK seen : seen = rom.seen
      OBVIOUS
    <3> QED BY <1>4, <2>1, ScanEnds
  <2>4. CASE rom.seen = {} /\ rom.mode = "down"
    <3>1. ~wanted
      <4>1. Cardinality(rom.seen) # 1
        BY <2>2, <2>4
      <4> QED BY <2>4, <4>1
    <3>2. rom' = [mode |-> "down", count |-> 0, row |-> 1, seen |-> {}] /\ entered' = entered
      BY <2>3, <2>4, <3>1 DEF Rom
    <3> QED BY <3>2 DEF RomOK
  <2>5. CASE rom.seen = {} /\ rom.mode = "up"
    <3>1. wanted
      <4>1. Cardinality(rom.seen) # 1 /\ rom.mode # "down"
        BY <2>2, <2>5
      <4> QED BY <4>1
    <3>2. entered' = entered
      BY <2>2, <2>3, <2>5
    <3>3. CASE rom.count + 1 = Debounce
      <4>1. rom' = [mode |-> "down", count |-> 0, row |-> 1, seen |-> {}]
        BY <2>3, <2>5, <3>1, <3>3 DEF Rom
      <4> QED BY <3>2, <4>1 DEF RomOK
    <3>4. CASE rom.count + 1 # Debounce
      <4>1. rom' = [mode |-> "up", count |-> rom.count + 1, row |-> 1, seen |-> {}]
        BY <2>3, <2>5, <3>1, <3>4 DEF Rom
      <4> QED BY <1>1, <2>3, <2>5, <3>2, <3>4, <4>1 DEF RomOK, UntilReady
    <3> QED BY <3>3, <3>4
  <2>6. CASE rom.seen # {} /\ rom.mode = "up"
    <3>1. Cardinality(rom.seen) = 1
      BY <1>1, <2>6, OneKey
    <3>2. ~wanted
      BY <2>6, <3>1
    <3>3. rom' = [mode |-> "up", count |-> 0, row |-> 1, seen |-> {}] /\ entered' = entered
      BY <2>3, <2>6, <3>2 DEF Rom
    <3> QED BY <1>1, <2>3, <2>6, <3>3 DEF RomOK, UntilReady
  <2> QED BY <1>1, <2>3, <2>4, <2>5, <2>6
<1> QED BY <1>2, <1>3, <1>4

(* What a row that is read says about this scan *)
LEMMA FindsOn ==
  ASSUME NEW key \in Keys, low = {key}, rom.row \in 1 .. 3, rom.seen \subseteq {key},
         NEW seen, seen = rom.seen \union ReadRow(Rows[rom.row])
  PROVE  /\ seen = {} \/ seen = {key}
         /\ rom.row < 3 =>
              (Finds(key) <=> \/ seen = {key}
                              \/ \E row \in rom.row + 1 .. 3 : RowOf[key] = Rows[row])
         /\ rom.row = 3 => (Finds(key) <=> seen = {key})
         /\ rom.row = 1 => Finds(key)
<1>1. seen = IF RowOf[key] = Rows[rom.row] THEN {key} ELSE rom.seen
  BY KeyRead
<1>2. seen = {} \/ seen = {key}
  BY <1>1
<1>3. seen = {key} <=> rom.seen = {key} \/ RowOf[key] = Rows[rom.row]
  BY <1>1
<1>4. rom.row < 3 =>
        \A row : row \in rom.row .. 3 <=> row = rom.row \/ row \in rom.row + 1 .. 3
  OBVIOUS
<1>5. rom.row = 3 => \A row : row \in rom.row .. 3 <=> row = rom.row
  OBVIOUS
<1>6. rom.row = 1 => Finds(key)
  BY EachKeyHasRow DEF Finds
<1> QED BY <1>2, <1>3, <1>4, <1>5, <1>6 DEF Finds

LEMMA EnteringRom ==
  ASSUME Times3, RomOK, NEW key \in Keys, low = {key}, low' = low, rom.mode = "down",
         rom.seen \subseteq {key}, Finds(key) \/ (rom.seen = {} /\ rom.count = 0),
         RomWork \/ ReadsRow \/ ReadsLastRow
  PROVE  /\ RomOK'
         /\ \/ /\ entered' = entered /\ rom'.mode = "down" /\ rom'.seen \subseteq {key}
               /\ Finds(key)' \/ (rom'.seen = {} /\ rom'.count = 0)
               /\ UntilEntered(key)' = UntilEntered(key) - 1
            \/ entered' = Append(entered, key) /\ rom' = Rom("work", Work)
<1> USE DEF Times3
<1>1. /\ rom.count \in Nat /\ rom.row \in 1 .. 3 /\ rom.count < Debounce
      /\ rom = [mode |-> "down", count |-> rom.count, row |-> rom.row, seen |-> rom.seen]
      /\ Debounce \in Nat
  BY DEF RomOK
<1>2. CASE ReadsRow
  <2> PICK seen : seen = rom.seen \union ReadRow(Rows[rom.row])
    OBVIOUS
  <2>1. /\ rom' = [rom EXCEPT !.row = @ + 1, !.seen = @ \union ReadRow(Rows[rom.row])]
        /\ entered' = entered /\ rom.row < 3
    BY <1>2 DEF ReadsRow
  <2>2. rom' = [mode |-> "down", count |-> rom.count, row |-> rom.row + 1, seen |-> seen]
    BY <1>1, <2>1
  <2>3. /\ seen = {} \/ seen = {key}
        /\ Finds(key) <=> seen = {key} \/ \E row \in rom.row + 1 .. 3 : RowOf[key] = Rows[row]
    BY <1>1, <2>1, FindsOn
  <2>4. Finds(key)' <=> Finds(key)
    BY <2>2, <2>3 DEF Finds
  <2>5. RomOK'
    <3>1. rom.row + 1 \in 1 .. 3 /\ rom.row + 1 # 1
      BY <1>1, <2>1
    <3> QED BY <1>1, <2>2, <2>3, <3>1 DEF RomOK
  <2>6. UntilEntered(key)' = UntilEntered(key) - 1
    BY <1>1, <2>2, <2>4 DEF UntilEntered
  <2>7. ~Finds(key) => seen = {}
    BY <2>3
  <2> QED BY <2>1, <2>2, <2>3, <2>4, <2>5, <2>6, <2>7
<1>3. CASE ReadsLastRow
  <2> PICK seen : seen = rom.seen \union ReadRow(Rows[3])
    OBVIOUS
  <2> PICK wanted : wanted = (Cardinality(seen) = 1 <=> rom.mode = "down")
    OBVIOUS
  <2>1. /\ rom.row = 3
        /\ rom' = IF ~wanted THEN Rom(rom.mode, 0)
                  ELSE IF rom.count + 1 # Debounce THEN Rom(rom.mode, rom.count + 1)
                  ELSE IF rom.mode = "up" THEN Rom("down", 0) ELSE Rom("work", Work)
        /\ ~wanted \/ rom.count + 1 # Debounce \/ Cardinality(seen) # 1
             => entered' = entered
        /\ wanted /\ rom.count + 1 = Debounce /\ seen = {key}
             => entered' = Append(entered, key)
    BY <1>3, ScanEnds
  <2>2. (seen = {} \/ seen = {key}) /\ (Finds(key) <=> seen = {key})
    BY <1>1, <2>1, FindsOn
  <2>3. ASSUME rom'.row = 1, rom'.seen = {} PROVE Finds(key)'
    <3>1. \E row \in 1 .. 3 : RowOf[key] = Rows[row]
      BY EachKeyHasRow
    <3> QED BY <2>3, <3>1 DEF Finds
  <2>4. CASE seen = {}
    <3>1. ~wanted
      <4>1. Cardinality(seen) # 1
        BY <2>4, FS_EmptySet
      <4> QED BY <4>1
    <3>2. rom' = [mode |-> "down", count |-> 0, row |-> 1, seen |-> {}] /\ entered' = entered
      BY <2>1, <3>1 DEF Rom
    <3>3. ~Finds(key) /\ Finds(key)'
      BY <2>2, <2>3, <2>4, <3>2
    <3>4. RomOK'
      BY <3>2 DEF RomOK
    <3>5. UntilEntered(key) = 3 * Debounce + 1 /\ UntilEntered(key)' = 3 * Debounce
      <4>1. UntilEntered(key) = 3 * Debounce + 4 - 3
        BY <2>1, <3>3 DEF UntilEntered
      <4>2. UntilEntered(key)' = 3 * (Debounce - 0) - (1 - 1)
        BY <3>2, <3>3 DEF UntilEntered
      <4> QED BY <4>1, <4>2
    <3> QED BY <3>2, <3>3, <3>4, <3>5
  <2>5. CASE seen = {key}
    <3>1. wanted
      <4>1. Cardinality(seen) = 1
        BY <2>5, OneKey
      <4> QED BY <4>1
    <3>2. CASE rom.count + 1 = Debounce
      <4>1. entered' = Append(entered, key) /\ rom' = Rom("work", Work)
        BY <2>1, <2>5, <3>1, <3>2
      <4> QED BY <4>1 DEF RomOK, Rom
    <3>3. CASE rom.count + 1 # Debounce
      <4>1. /\ rom' = [mode |-> "down", count |-> rom.count + 1, row |-> 1, seen |-> {}]
            /\ entered' = entered
        BY <2>1, <3>1, <3>3 DEF Rom
      <4>2. Finds(key) /\ Finds(key)'
        BY <2>2, <2>3, <2>5, <4>1
      <4>3. rom.count + 1 \in Nat /\ rom.count + 1 < Debounce
        BY <1>1, <3>3
      <4>4. RomOK'
        BY <4>1, <4>3 DEF RomOK
      <4>5. UntilEntered(key)' = UntilEntered(key) - 1
        <5>1. UntilEntered(key) = 3 * (Debounce - rom.count) - (3 - 1)
          BY <2>1, <4>2 DEF UntilEntered
        <5>2. UntilEntered(key)' = 3 * (Debounce - (rom.count + 1)) - (1 - 1)
          BY <4>1, <4>2 DEF UntilEntered
        <5> QED BY <1>1, <5>1, <5>2
      <4> QED BY <4>1, <4>2, <4>4, <4>5
    <3> QED BY <3>2, <3>3
  <2> QED BY <2>2, <2>4, <2>5
<1> QED BY <1>2, <1>3 DEF RomWork

LEMMA EnteredRom ==
  ASSUME Times3, RomOK, NEW key \in Keys, Entered(key), low' = low,
         RomWork \/ ReadsRow \/ ReadsLastRow
  PROVE  RomOK' /\ Entered(key)' /\ entered' = entered
<1> USE DEF Times3
<1>1. /\ rom.mode \in {"work", "up"} /\ rom.count \in Nat /\ rom.row \in 1 .. 3
      /\ rom = [mode |-> rom.mode, count |-> rom.count, row |-> rom.row, seen |-> rom.seen]
      /\ IF rom.mode = "work" THEN rom.count >= 1 /\ rom.count <= Work
         ELSE rom.count = 0 /\ rom.seen \subseteq {key} /\ Finds(key)
      /\ low = {key} /\ Debounce \in Nat /\ Debounce > 0
  BY DEF RomOK, Entered
<1>a. ASSUME rom'.row = 1, rom'.seen = {} PROVE Finds(key)'
  <2>1. \E row \in 1 .. 3 : RowOf[key] = Rows[row]
    BY EachKeyHasRow
  <2> QED BY <1>a, <2>1 DEF Finds
<1>2. CASE RomWork
  <2>1. /\ rom.mode = "work" /\ entered' = entered
        /\ rom' = IF rom.count > 1 THEN Rom("work", rom.count - 1) ELSE Rom("up", 0)
    BY <1>2 DEF RomWork
  <2>2. CASE rom.count > 1
    <3>1. rom' = [mode |-> "work", count |-> rom.count - 1, row |-> 1, seen |-> {}]
      BY <2>1, <2>2 DEF Rom
    <3> QED BY <1>1, <2>1, <2>2, <3>1 DEF RomOK, Entered
  <2>3. CASE ~(rom.count > 1)
    <3>1. rom' = [mode |-> "up", count |-> 0, row |-> 1, seen |-> {}]
      BY <2>1, <2>3 DEF Rom
    <3> QED BY <1>1, <1>a, <2>1, <3>1 DEF RomOK, Entered
  <2> QED BY <2>2, <2>3
<1>3. CASE ReadsRow
  <2> PICK seen : seen = rom.seen \union ReadRow(Rows[rom.row])
    OBVIOUS
  <2>1. /\ rom' = [rom EXCEPT !.row = @ + 1, !.seen = @ \union ReadRow(Rows[rom.row])]
        /\ entered' = entered /\ rom.row < 3 /\ rom.mode = "up"
    BY <1>1, <1>3 DEF ReadsRow
  <2>2. rom' = [mode |-> "up", count |-> 0, row |-> rom.row + 1, seen |-> seen]
    BY <1>1, <2>1
  <2>3. /\ seen = {} \/ seen = {key}
        /\ Finds(key) <=> seen = {key} \/ \E row \in rom.row + 1 .. 3 : RowOf[key] = Rows[row]
    BY <1>1, <2>1, FindsOn
  <2>4. Finds(key)'
    BY <1>1, <2>1, <2>2, <2>3 DEF Finds
  <2>5. rom.row + 1 \in 1 .. 3 /\ rom.row + 1 # 1
    BY <1>1, <2>1
  <2> QED BY <1>1, <2>1, <2>2, <2>3, <2>4, <2>5 DEF RomOK, Entered
<1>4. CASE ReadsLastRow
  <2> PICK seen : seen = rom.seen \union ReadRow(Rows[3])
    OBVIOUS
  <2> PICK wanted : wanted = (Cardinality(seen) = 1 <=> rom.mode = "down")
    OBVIOUS
  <2>1. /\ rom.row = 3 /\ rom.mode # "work"
        /\ ~wanted => rom' = Rom(rom.mode, 0) /\ entered' = entered
    BY <1>4, ScanEnds
  <2>2. seen = {key}
    BY <1>1, <2>1, FindsOn
  <2>3. ~wanted
    <3>1. Cardinality(seen) = 1 /\ rom.mode # "down"
      BY <1>1, <2>2, OneKey
    <3> QED BY <3>1
  <2>4. rom' = [mode |-> "up", count |-> 0, row |-> 1, seen |-> {}] /\ entered' = entered
    BY <1>1, <2>1, <2>3 DEF Rom
  <2> QED BY <1>1, <1>a, <2>4 DEF RomOK, Entered
<1> QED BY <1>2, <1>3, <1>4

-----------------------------------------------------------------------------
(* The timers that are left *)

LEMMA LeftInt ==
  ASSUME clock \in Nat, done \in Nat, timers \in Seq(TimerType), timers # <<>>
  PROVE  /\ Left \in Int /\ Left = clock * timers[1].due - done
         /\ timers[1].due \in Int /\ Head(timers) = timers[1]
<1>1. Head(timers) = timers[1] /\ Head(timers) \in TimerType
  BY HeadTailProperties
<1>2. Head(timers).due \in Int
  BY <1>1 DEF TimerType
<1>3. clock * Head(timers).due \in Int
  BY <1>2
<1> QED BY <1>1, <1>2, <1>3 DEF Left

(* In a tick, all come nearer, and as many rows are left. *)
LEMMA TickTimers ==
  ASSUME clock \in Nat, done \in Nat, timers \in Seq(TimerType), Tick, ~disturbed
  PROVE  /\ timers' \in Seq(TimerType) /\ Len(timers') = Len(timers)
         /\ \A i \in 1 .. Len(timers) :
              /\ timers'[i].due = timers[i].due - 1
              /\ timers'[i].op = timers[i].op /\ timers'[i].key = timers[i].key
         /\ timers # <<>> /\ timers' # <<>> /\ timers'[1].due >= 0 /\ Left' = Left
<1>1. /\ timers # <<>> /\ Head(timers).due > 0 /\ done = clock /\ done' = 0
      /\ clock' = clock
      /\ timers' = [i \in DOMAIN timers |-> [timers[i] EXCEPT !.due = @ - 1]]
  BY DEF Tick
<1>2. Len(timers) \in Nat /\ Len(timers) > 0 /\ DOMAIN timers = 1 .. Len(timers)
  BY <1>1, LenProperties, EmptySeq
<1>3. ASSUME NEW i \in 1 .. Len(timers)
      PROVE  LET t == [timers[i] EXCEPT !.due = @ - 1]
             IN  /\ t \in TimerType /\ t.due = timers[i].due - 1
                 /\ t.op = timers[i].op /\ t.key = timers[i].key
  <2>1. timers[i] \in TimerType
    BY ElementOfSeq
  <2> QED BY <2>1 DEF TimerType
<1>4. timers' \in [1 .. Len(timers) -> TimerType]
  BY <1>1, <1>2, <1>3
<1>5. timers' \in Seq(TimerType) /\ Len(timers') = Len(timers)
  BY <1>2, <1>4, FunctionAsSequence
<1>6. \A i \in 1 .. Len(timers) :
        /\ timers'[i].due = timers[i].due - 1
        /\ timers'[i].op = timers[i].op /\ timers'[i].key = timers[i].key
  BY <1>1, <1>2, <1>3
<1>7. /\ timers[1].due \in Int /\ Head(timers) = timers[1]
      /\ Left = clock * timers[1].due - done
  BY <1>1, LeftInt
<1>8. timers' # <<>> /\ Head(timers') = timers'[1]
  BY <1>2, <1>5, EmptySeq
<1>9. timers'[1].due = timers[1].due - 1
  BY <1>2, <1>6
<1>10. Left' = clock * (timers[1].due - 1) - 0
  BY <1>1, <1>8, <1>9 DEF Left
<1>11. clock * (timers[1].due - 1) - 0 = clock * timers[1].due - clock
  BY <1>7
<1>12. timers'[1].due >= 0
  BY <1>1, <1>7, <1>9
<1> QED BY <1>1, <1>5, <1>6, <1>7, <1>8, <1>10, <1>11, <1>12

LEMMA TickKeepsDue ==
  ASSUME clock \in Nat, done \in Nat, Tick, ~disturbed,
         NEW n \in 0 .. 10, NEW elapsed \in Nat, Due(n, elapsed),
         ScaledAt(AUTOSTART_KEY_HOLD, clock) \in Nat
  PROVE  Due(n, elapsed + 1)'
<1> DEFINE hold == ScaledAt(AUTOSTART_KEY_HOLD, clock)
<1>1. /\ timers \in Seq(TimerType) /\ Len(timers) = 10 - n
      /\ \A i \in 1 .. 10 - n :
           /\ timers[i].due = (n + i - 1) * hold - elapsed
           /\ timers[i].op = IF (n + i) % 2 = 1 THEN "press" ELSE "release"
           /\ timers[i].key = Typed[(n + i + 1) \div 2]
  BY DEF Due
<1>2. /\ timers' \in Seq(TimerType) /\ Len(timers') = 10 - n
      /\ \A i \in 1 .. 10 - n :
           /\ timers'[i].due = timers[i].due - 1
           /\ timers'[i].op = timers[i].op /\ timers'[i].key = timers[i].key
      /\ timers'[1].due >= 0
  BY <1>1, TickTimers
<1>3. clock' = clock /\ start_address' = start_address
  BY DEF Tick
<1>4. Typed' = Typed /\ hold' = hold
  BY <1>3 DEF Typed, ScaledAt
<1>5. ASSUME NEW i \in 1 .. 10 - n
      PROVE  timers'[i].due = (n + i - 1) * hold - (elapsed + 1)
  <2>1. timers'[i].due = (n + i - 1) * hold - elapsed - 1
    BY <1>1, <1>2
  <2>2. (n + i - 1) * hold \in Int
    <3> HIDE DEF hold
    <3>1. n + i - 1 \in Int /\ hold \in Int
      BY DEF hold
    <3> QED BY <3>1
  <2> HIDE DEF hold
  <2>3. \A w \in Int : w - elapsed - 1 = w - (elapsed + 1)
    OBVIOUS
  <2> QED BY <2>1, <2>2, <2>3
<1> QED BY <1>1, <1>2, <1>4, <1>5 DEF Due

(* The next timer is a hold away, and a tick may be over. *)
LEMMA NextIsDue ==
  ASSUME clock \in Nat, done \in 0 .. clock, Fires, timers' = Tail(timers),
         UNCHANGED <<clock, done, start_address>>,
         NEW n \in 0 .. 9, NEW elapsed \in Nat, Due(n, elapsed),
         ScaledAt(AUTOSTART_KEY_HOLD, clock) \in Nat
  PROVE  /\ Due(n + 1, elapsed)'
         /\ n < 9 => /\ Left' \in Int
                     /\ Left' >= clock * (ScaledAt(AUTOSTART_KEY_HOLD, clock) - 1)
<1> PICK hold \in Nat : hold = ScaledAt(AUTOSTART_KEY_HOLD, clock)
  OBVIOUS
<1>1. /\ timers \in Seq(TimerType) /\ Len(timers) = 10 - n
      /\ \A i \in 1 .. 10 - n :
           /\ timers[i].due = (n + i - 1) * hold - elapsed
           /\ timers[i].op = IF (n + i) % 2 = 1 THEN "press" ELSE "release"
           /\ timers[i].key = Typed[(n + i + 1) \div 2]
  BY DEF Due
<1>2. /\ timers # <<>> /\ Head(timers) = timers[1] /\ Head(timers).due = 0
      /\ timers' \in Seq(TimerType) /\ Len(timers') = 10 - (n + 1)
      /\ \A i \in 1 .. 10 - (n + 1) : timers'[i] = timers[i + 1]
  BY <1>1, HeadTailProperties DEF Fires
<1>3. Typed' = Typed /\ ScaledAt(AUTOSTART_KEY_HOLD, clock)' = hold
  BY DEF Typed, ScaledAt
<1>4. ASSUME NEW i \in 1 .. 10 - (n + 1)
      PROVE  /\ timers'[i].due = (n + 1 + i - 1) * hold - elapsed
             /\ timers'[i].op = IF (n + 1 + i) % 2 = 1 THEN "press" ELSE "release"
             /\ timers'[i].key = Typed[(n + 1 + i + 1) \div 2]
  <2> PICK j : j = i + 1
    OBVIOUS
  <2>1. j \in 1 .. 10 - n /\ timers'[i] = timers[j]
    BY <1>2
  <2>2. /\ timers[j].due = (n + j - 1) * hold - elapsed
        /\ timers[j].op = IF (n + j) % 2 = 1 THEN "press" ELSE "release"
        /\ timers[j].key = Typed[(n + j + 1) \div 2]
    BY <1>1, <2>1
  <2>3. n + j - 1 = n + 1 + i - 1 /\ n + j = n + 1 + i /\ n + j + 1 = n + 1 + i + 1
    OBVIOUS
  <2> QED BY <2>1, <2>2, <2>3
<1>5. n * hold - elapsed = 0
  <2>1. timers[1].due = (n + 1 - 1) * hold - elapsed
    BY <1>1
  <2>2. n + 1 - 1 = n
    OBVIOUS
  <2> QED BY <1>2, <2>1, <2>2
<1>6. n < 9 => timers'[1].due = hold
  <2> SUFFICES ASSUME n < 9 PROVE timers'[1].due = hold
    OBVIOUS
  <2>1. 1 \in 1 .. 10 - (n + 1) /\ n + 1 + 1 - 1 = n + 1
    OBVIOUS
  <2>2. timers'[1].due = (n + 1) * hold - elapsed
    <3>1. PICK i \in 1 .. 10 - (n + 1) : i = 1
      BY <2>1
    <3>2. PICK m : m = n + 1 + i - 1
      OBVIOUS
    <3>3. timers'[i].due = m * hold - elapsed
      BY <1>4, <3>2
    <3>4. m = n + 1
      BY <3>1, <3>2
    <3> QED BY <3>1, <3>3, <3>4
  <2>3. (n + 1) * hold = n * hold + hold /\ n * hold \in Int
    OBVIOUS
  <2>4. PICK now \in Int, later \in Int : now = n * hold /\ later = (n + 1) * hold
    BY <2>3
  <2>5. now - elapsed = 0
    BY <1>5, <2>4
  <2>6. now + hold - elapsed = hold
    BY <2>5
  <2>7. later = now + hold
    BY <2>3, <2>4
  <2>8. timers'[1].due = later - elapsed
    BY <2>2, <2>4
  <2>9. later - elapsed = hold
    BY <2>6, <2>7
  <2> QED BY <2>8, <2>9
<1>7. Due(n + 1, elapsed)'
  <2>1. n + 1 < 10 => timers'[1].due >= 0
    <3>1. n + 1 < 10 => n < 9
      OBVIOUS
    <3>2. hold >= 0
      OBVIOUS
    <3> QED BY <1>6, <3>1, <3>2
  <2>2. ScaledAt(AUTOSTART_KEY_HOLD, clock') = hold
    BY <1>3 DEF ScaledAt
  <2>3. Typed' = Typed
    BY <1>3
  <2>4. \A i \in 1 .. 10 - (n + 1) :
          /\ timers'[i].due = (n + 1 + i - 1) * ScaledAt(AUTOSTART_KEY_HOLD, clock') - elapsed
          /\ timers'[i].op = IF (n + 1 + i) % 2 = 1 THEN "press" ELSE "release"
          /\ timers'[i].key = Typed'[(n + 1 + i + 1) \div 2]
    BY <1>4, <2>2, <2>3
  <2>5. timers' \in Seq(TimerType) /\ Len(timers') = 10 - (n + 1)
    BY <1>2
  <2> HIDE <1>1, <1>2, <1>3, <1>4
  <2> QED BY <2>1, <2>4, <2>5 DEF Due
<1>8. ASSUME n < 9
      PROVE  Left' \in Int /\ Left' >= clock * (hold - 1)
  <2>0. Len(timers') # 0
    BY <1>2, <1>8
  <2>1. timers' # <<>> /\ Head(timers') = timers'[1]
    <3>1. timers' # <<>>
      <4>1. timers' = <<>> => Len(timers') = 0
        BY EmptySeq
      <4> QED BY <2>0, <4>1
    <3> QED BY <1>2, <3>1, HeadTailProperties
  <2>2. Left' = clock * hold - done
    BY <1>6, <1>8, <2>1 DEF Left
  <2>3. clock * hold \in Int /\ clock * (hold - 1) = clock * hold - clock
    OBVIOUS
  <2> QED BY <2>2, <2>3
<1> QED BY <1>7, <1>8

(* A timer fires when no row is left before it: the ROM is ready then. *)
LEMMA FiringIsReady ==
  ASSUME Times3, RomOK, clock \in Nat, done \in Nat, timers \in Seq(TimerType), Fires
  PROVE  /\ Left <= 0 /\ Left \in Int
         /\ rom.mode # "down" => ~(UntilReady <= Left)
         /\ \A key : rom.mode = "down" => ~(UntilEntered(key) <= Left)
<1> USE DEF Times3
<1>1. Left = clock * 0 - done /\ Left \in Int
  BY LeftInt DEF Fires
<1>2. Left <= 0
  BY <1>1
<1>3. /\ rom.mode \in {"work", "up", "down"} /\ rom.count \in Nat /\ rom.row \in 1 .. 3
      /\ rom.mode # "work" => rom.count < Debounce
  BY DEF RomOK
<1>4. rom.mode # "down" => UntilReady >= 1 /\ UntilReady \in Int
  BY <1>3 DEF UntilReady
<1>5. ASSUME NEW key, rom.mode = "down"
      PROVE  UntilEntered(key) >= 1 /\ UntilEntered(key) \in Int
  <2> PICK count \in Nat, row \in 1 .. 3 : count = rom.count /\ row = rom.row
    BY <1>3
  <2>1. count < Debounce
    BY <1>3, <1>5
  <2>2. /\ 3 * (Debounce - count) - (row - 1) >= 1
        /\ 3 * (Debounce - count) - (row - 1) \in Int
    BY <2>1
  <2>3. 3 * Debounce + 4 - row >= 1 /\ 3 * Debounce + 4 - row \in Int
    OBVIOUS
  <2> QED BY <2>2, <2>3 DEF UntilEntered
<1> HIDE DEF UntilReady, UntilEntered
<1> QED BY <1>1, <1>2, <1>4, <1>5

-----------------------------------------------------------------------------
(* What is entered *)

LEMMA KeepsEntered ==
  ASSUME UNCHANGED <<entered, start_address>>, NEW count, EnteredFirst(count)
  PROVE  EnteredFirst(count)'
BY DEF EnteredFirst, Typed

LEMMA EntersNext ==
  ASSUME start_address \in Addresses, start_address' = start_address,
         NEW count \in 0 .. 4, EnteredFirst(count),
         entered' = Append(entered, Typed[count + 1])
  PROVE  EnteredFirst(count + 1)'
<1>1. entered \in Seq(Keys) /\ Len(entered) = count /\ \A i \in 1 .. count : entered[i] = Typed[i]
  BY DEF EnteredFirst
<1>2. Typed[count + 1] \in Keys
  BY TypedKeys
<1> PICK key \in Keys : key = Typed[count + 1]
  BY <1>2
<1>3. /\ entered' \in Seq(Keys) /\ Len(entered') = count + 1
      /\ entered'[count + 1] = key /\ \A i \in 1 .. count : entered'[i] = entered[i]
  BY <1>1, AppendProperties
<1>4. \A i \in 1 .. count + 1 : i \in 1 .. count \/ i = count + 1
  OBVIOUS
<1>5. \A i \in 1 .. count + 1 : entered'[i] = Typed[i]
  BY <1>1, <1>3, <1>4
<1>6. Typed' = Typed
  BY DEF Typed
<1> QED BY <1>3, <1>5, <1>6 DEF EnteredFirst

-----------------------------------------------------------------------------
(* The steps *)

(* Between two timers time passes, and the ROM goes on. *)
LEMMA TickTyping ==
  ASSUME Times3, clock \in Nat, done \in 0 .. clock, RomOK, Tick, ~disturbed,
         ScaledAt(AUTOSTART_KEY_HOLD, clock) \in Nat,
         BeforeSequence \/ \E n \in 0 .. 10 : Typing(n)
  PROVE  BeforeSequence' \/ \E n \in 0 .. 10 : Typing(n)'
<1>1. UNCHANGED <<low, rom, entered, start_address, clock>> /\ timers # <<>>
  BY DEF Tick, keypadVars
<1>2. ASSUME Left' = Left, Ready PROVE Ready'
  BY <1>1, <1>2 DEF Ready, UntilReady
<1>3. ASSUME Left' = Left, NEW key, Entering(key) PROVE Entering(key)'
  BY <1>1, <1>3 DEF Entering, UntilEntered, Finds
<1>4. ASSUME NEW key, Entered(key) PROVE Entered(key)'
  BY <1>1, <1>4 DEF Entered, Finds
<1>5. CASE BeforeSequence
  <2>1. /\ timers \in Seq(TimerType) /\ Len(timers) = 1 /\ timers[1].op = "sequence"
        /\ Ready /\ EnteredFirst(0)
    BY <1>5 DEF BeforeSequence
  <2>2. /\ timers' \in Seq(TimerType) /\ Len(timers') = 1 /\ timers'[1].op = "sequence"
        /\ timers'[1].due >= 0 /\ Left' = Left
    BY <2>1, TickTimers
  <2> QED BY <1>1, <1>2, <2>1, <2>2, KeepsEntered DEF BeforeSequence
<1>6. CASE \E n \in 0 .. 10 : Typing(n)
  <2> PICK n \in 0 .. 10 : Typing(n)
    BY <1>6
  <2>1. PICK elapsed \in Nat : Due(n, elapsed)
    BY DEF Typing
  <2>2. timers \in Seq(TimerType) /\ Len(timers) = 10 - n
    BY <2>1 DEF Due
  <2>3. n # 10
    BY <1>1, <2>2, EmptySeq
  <2>4. Due(n, elapsed + 1)' /\ elapsed + 1 \in Nat
    BY <2>1, TickKeepsDue
  <2>5. Left' = Left
    BY <2>2, TickTimers
  <2>6. Typed' = Typed
    BY <1>1 DEF Typed
  <2>7. CASE n % 2 = 0
    <3>1. Ready /\ EnteredFirst(n \div 2)
      BY <2>3, <2>7 DEF Typing
    <3>2. Ready' /\ EnteredFirst(n \div 2)'
      BY <1>1, <1>2, <2>5, <3>1, KeepsEntered
    <3> QED BY <2>3, <2>4, <2>7, <3>2 DEF Typing
  <2>8. CASE n % 2 # 0
    <3> PICK key : key = Typed[(n + 1) \div 2]
      OBVIOUS
    <3>1. \/ Entering(key) /\ EnteredFirst(n \div 2)
          \/ Entered(key) /\ EnteredFirst(n \div 2 + 1)
      BY <2>3, <2>8 DEF Typing
    <3>2. \/ Entering(key)' /\ EnteredFirst(n \div 2)'
          \/ Entered(key)' /\ EnteredFirst(n \div 2 + 1)'
      BY <1>1, <1>3, <1>4, <2>5, <3>1, KeepsEntered
    <3>3. key = Typed'[(n + 1) \div 2]
      BY <2>6
    <3> QED BY <2>3, <2>4, <2>8, <3>2, <3>3 DEF Typing
  <2> QED BY <2>7, <2>8
<1> QED BY <1>5, <1>6

LEMMA WorkerTyping ==
  ASSUME Times3, clock \in Nat, done \in 0 .. clock, RomOK, Worker,
         start_address \in Addresses,
         BeforeSequence \/ \E n \in 0 .. 10 : Typing(n)
  PROVE  /\ RomOK' /\ done' \in 0 .. clock
         /\ BeforeSequence' \/ \E n \in 0 .. 10 : Typing(n)'
<1>1. /\ UNCHANGED <<low, timers, start_address, clock>> /\ timers # <<>>
      /\ RomWork \/ ReadsRow \/ ReadsLastRow
      /\ done' = done + 1 /\ done < clock
  BY DEF Worker, keypadVars, Scans, InProgress, RomWork, ReadsRow, ReadsLastRow
<1>2. done' \in 0 .. clock
  BY <1>1
<1>3. ASSUME timers \in Seq(TimerType) PROVE Left \in Int /\ Left' = Left - 1
  <2>1. Left \in Int /\ Left = clock * timers[1].due - done /\ timers[1].due \in Int
        /\ Head(timers) = timers[1]
    BY <1>1, <1>3, LeftInt
  <2>2. Left' = clock * timers[1].due - (done + 1)
    BY <1>1, <2>1 DEF Left
  <2>3. clock * timers[1].due \in Int
    BY <2>1
  <2> QED BY <2>1, <2>2, <2>3
<1>4. ASSUME timers \in Seq(TimerType), Ready
      PROVE  RomOK' /\ Ready' /\ entered' = entered
  <2>1. /\ low = {} /\ low' = {}
        /\ rom.mode = "down" => rom.count = 0 /\ rom.seen = {}
        /\ rom.mode # "down" => UntilReady <= Left
    BY <1>1, <1>4 DEF Ready
  <2>2. /\ RomOK' /\ entered' = entered
        /\ IF rom'.mode = "down" THEN rom'.count = 0 /\ rom'.seen = {}
           ELSE rom.mode # "down" /\ UntilReady' = UntilReady - 1
    BY <1>1, <2>1, ReadyRom
  <2>3. rom.mode # "down" => UntilReady \in Int
    BY DEF RomOK, UntilReady, Times3
  <2>4. Left \in Int /\ Left' = Left - 1
    BY <1>3, <1>4
  <2>5. rom'.mode # "down" => UntilReady' <= Left'
    BY <2>1, <2>2, <2>3, <2>4
  <2> QED BY <2>1, <2>2, <2>5 DEF Ready
<1>5. ASSUME timers \in Seq(TimerType), NEW key \in Keys, Entering(key)
      PROVE  /\ RomOK'
             /\ \/ Entering(key)' /\ entered' = entered
                \/ Entered(key)' /\ entered' = Append(entered, key)
  <2>1. /\ low = {key} /\ low' = low /\ rom.mode = "down" /\ rom.seen \subseteq {key}
        /\ Finds(key) \/ (rom.seen = {} /\ rom.count = 0)
        /\ UntilEntered(key) <= Left
    BY <1>1, <1>5 DEF Entering
  <2>2. /\ RomOK'
        /\ \/ /\ entered' = entered /\ rom'.mode = "down" /\ rom'.seen \subseteq {key}
              /\ Finds(key)' \/ (rom'.seen = {} /\ rom'.count = 0)
              /\ UntilEntered(key)' = UntilEntered(key) - 1
           \/ entered' = Append(entered, key) /\ rom' = Rom("work", Work)
    BY <1>1, <2>1, EnteringRom
  <2>3. UntilEntered(key) \in Int
    BY DEF RomOK, UntilEntered, Times3
  <2>4. Left \in Int /\ Left' = Left - 1
    BY <1>3, <1>5
  <2>5. CASE entered' = Append(entered, key) /\ rom' = Rom("work", Work)
    <3>1. Entered(key)'
      BY <2>1, <2>5 DEF Entered, Rom, Times3
    <3> QED BY <2>2, <2>5, <3>1
  <2>6. CASE UntilEntered(key)' = UntilEntered(key) - 1
    <3>1. UntilEntered(key)' <= Left'
      BY <2>1, <2>3, <2>4, <2>6
    <3> QED BY <2>1, <2>2, <2>5, <3>1 DEF Entering
  <2> QED BY <2>2, <2>5, <2>6
<1>6. ASSUME NEW key \in Keys, Entered(key)
      PROVE  RomOK' /\ Entered(key)' /\ entered' = entered
  BY <1>1, <1>6, EnteredRom
<1>7. CASE BeforeSequence
  <2>1. /\ timers \in Seq(TimerType) /\ Len(timers) = 1 /\ timers[1].op = "sequence"
        /\ timers[1].due >= 0 /\ Ready /\ EnteredFirst(0)
    BY <1>7 DEF BeforeSequence
  <2>2. RomOK' /\ Ready' /\ entered' = entered
    BY <1>4, <2>1
  <2> QED BY <1>1, <1>2, <2>1, <2>2, KeepsEntered DEF BeforeSequence
<1>8. CASE \E n \in 0 .. 10 : Typing(n)
  <2> PICK n \in 0 .. 10 : Typing(n)
    BY <1>8
  <2>1. PICK elapsed \in Nat : Due(n, elapsed)
    BY DEF Typing
  <2>2. timers \in Seq(TimerType) /\ Len(timers) = 10 - n
    BY <2>1 DEF Due
  <2>3. n # 10
    BY <1>1, <2>2, EmptySeq
  <2>4. Due(n, elapsed)'
    BY <1>1, <2>1 DEF Due, Typed, ScaledAt
  <2>5. Typed' = Typed
    BY <1>1 DEF Typed
  <2>6. CASE n % 2 = 0
    <3>1. Ready /\ EnteredFirst(n \div 2)
      BY <2>3, <2>6 DEF Typing
    <3>2. RomOK' /\ Ready' /\ EnteredFirst(n \div 2)'
      BY <1>1, <1>4, <2>2, <3>1, KeepsEntered
    <3> QED BY <1>2, <2>3, <2>4, <2>6, <3>2 DEF Typing
  <2>7. CASE n % 2 # 0
    <3>0. (n + 1) \div 2 \in 1 .. 5 /\ n \div 2 \in 0 .. 4 /\ (n + 1) \div 2 = n \div 2 + 1
      BY <2>3, <2>7
    <3> PICK key \in Keys : key = Typed[(n + 1) \div 2]
      BY <3>0, TypedKeys
    <3>1. \/ Entering(key) /\ EnteredFirst(n \div 2)
          \/ Entered(key) /\ EnteredFirst(n \div 2 + 1)
      BY <2>3, <2>7 DEF Typing
    <3>2. /\ RomOK'
          /\ \/ Entering(key)' /\ EnteredFirst(n \div 2)'
             \/ Entered(key)' /\ EnteredFirst(n \div 2 + 1)'
      <4>1. CASE Entered(key) /\ EnteredFirst(n \div 2 + 1)
        BY <1>1, <1>6, <4>1, KeepsEntered
      <4>2. CASE Entering(key) /\ EnteredFirst(n \div 2)
        <5>1. CASE Entering(key)' /\ entered' = entered
          BY <1>1, <1>5, <2>2, <4>2, <5>1, KeepsEntered
        <5>2. CASE Entered(key)' /\ entered' = Append(entered, key)
          <6>1. key = Typed[n \div 2 + 1]
            BY <3>0
          <6>2. EnteredFirst(n \div 2 + 1)'
            BY <1>1, <3>0, <4>2, <5>2, <6>1, EntersNext
          <6> QED BY <1>5, <2>2, <4>2, <5>2, <6>2
        <5> QED BY <1>5, <2>2, <4>2, <5>1, <5>2
      <4> QED BY <3>1, <4>1, <4>2
    <3>3. key = Typed'[(n + 1) \div 2]
      BY <2>5
    <3> QED BY <1>2, <2>3, <2>4, <2>7, <3>2, <3>3 DEF Typing
  <2> QED BY <2>6, <2>7
<1> QED BY <1>7, <1>8

(* All ten timers are started. *)
LEMMA SequenceTyping ==
  ASSUME Times3, clock \in Nat \ {0}, done \in 0 .. clock, RomOK,
         AutostartSequence, UNCHANGED <<rom, entered, start_address, clock>>,
         start_address \in Addresses, ScaledAt(AUTOSTART_KEY_HOLD, clock) \in Nat,
         BeforeSequence
  PROVE  Typing(0)'
<1>1. /\ timers \in Seq(TimerType) /\ Ready /\ EnteredFirst(0) /\ Fires
      /\ timers' = KeyTimers /\ low' = low
  BY DEF BeforeSequence, AutostartSequence
<1>2. rom.mode = "down" /\ rom.count = 0 /\ rom.seen = {} /\ low = {}
  BY <1>1, FiringIsReady DEF Ready
<1>3. Ready' /\ EnteredFirst(0)'
  BY <1>1, <1>2, KeepsEntered DEF Ready
<1>4. Due(0, 0)'
  <2> PICK hold \in Nat : hold = ScaledAt(AUTOSTART_KEY_HOLD, clock)
    OBVIOUS
  <2>1. KeyTimers \in Seq(TimerType) /\ Len(KeyTimers) = 10 - 0
    BY KeyTimersType
  <2>2. Scaled(AUTOSTART_KEY_HOLD) = hold
    BY DEF Scaled, ScaledAt
  <2>3. ASSUME NEW i \in 1 .. 10 - 0
        PROVE  /\ KeyTimers[i].due = (0 + i - 1) * hold - 0
               /\ KeyTimers[i].op = IF (0 + i) % 2 = 1 THEN "press" ELSE "release"
               /\ KeyTimers[i].key = Typed[(0 + i + 1) \div 2]
    <3>1. i \in 1 .. 10 /\ 0 + i - 1 = i - 1 /\ 0 + i = i /\ 0 + i + 1 = i + 1
      OBVIOUS
    <3>2. /\ KeyTimers[i].due = (i - 1) * hold
          /\ KeyTimers[i].op = IF i % 2 = 1 THEN "press" ELSE "release"
          /\ KeyTimers[i].key = Typed[(i + 1) \div 2]
      BY <2>2, <3>1 DEF KeyTimers, Timer
    <3>3. (i - 1) * hold - 0 = (i - 1) * hold
      OBVIOUS
    <3> QED BY <3>1, <3>2, <3>3
  <2>4. KeyTimers[1].due >= 0
    <3>1. KeyTimers[1].due = (1 - 1) * hold
      BY <2>2 DEF KeyTimers, Timer
    <3> QED BY <3>1
  <2>5. Typed' = Typed /\ ScaledAt(AUTOSTART_KEY_HOLD, clock') = hold
    BY DEF Typed, ScaledAt
  <2> HIDE DEF KeyTimers
  <2> QED BY <1>1, <2>1, <2>3, <2>4, <2>5 DEF Due
<1> QED BY <1>3, <1>4 DEF Typing

(* A timer presses its key, for which the ROM waits ... *)
LEMMA PressTyping ==
  ASSUME Times3, TimesSuffice, clock \in ClockRates, done \in 0 .. clock, RomOK, running,
         TimedPress, UNCHANGED <<rom, done, entered, start_address, clock>>,
         start_address \in Addresses,
         NEW n \in 0 .. 9, Typing(n)
  PROVE  Typing(n + 1)'
<1>0. clock \in Nat \ {0} /\ ScaledAt(AUTOSTART_KEY_HOLD, clock) \in Nat
      /\ clock * (ScaledAt(AUTOSTART_KEY_HOLD, clock) - 1) >= 3 * Debounce + 2
  BY Times
<1>1. PICK elapsed \in Nat : Due(n, elapsed)
  BY DEF Typing
<1>2. /\ Fires /\ Head(timers).op = "press" /\ timers' = Tail(timers) /\ timers # <<>>
      /\ PressKey(Head(timers).key)
  BY DEF TimedPress, Fires
<1>3. /\ timers \in Seq(TimerType) /\ Head(timers) = timers[1] /\ 1 \in 1 .. 10 - n
      /\ timers[1].op = IF (n + 1) % 2 = 1 THEN "press" ELSE "release"
      /\ timers[1].key = Typed[(n + 1 + 1) \div 2]
  <2>1. timers \in Seq(TimerType)
    BY <1>1 DEF Due
  <2> QED BY <1>1, <1>2, <2>1, HeadTailProperties DEF Due
<1>4. n % 2 = 0 /\ n \in 0 .. 8
  BY <1>2, <1>3
<1>5. /\ (n + 1) % 2 # 0 /\ (n + 1) \div 2 = n \div 2
      /\ (n + 1 + 1) \div 2 \in 1 .. 5 /\ n + 1 # 10 /\ n + 1 \in 0 .. 10
  BY <1>4
<1> PICK key \in Keys : key = Typed[(n + 1 + 1) \div 2]
  BY <1>5, TypedKeys
<1>6. Ready /\ EnteredFirst(n \div 2)
  BY <1>4 DEF Typing
<1>7. rom.mode = "down" /\ rom.count = 0 /\ rom.seen = {} /\ low = {}
  BY <1>0, <1>2, <1>3, <1>6, FiringIsReady DEF Ready
<1>8. low' = {key}
  BY <1>2, <1>3, <1>7 DEF PressKey, PullLow
<1>9. Due(n + 1, elapsed)' /\ Left' \in Int /\ Left' >= 3 * Debounce + 2
  <2>1. /\ Due(n + 1, elapsed)' /\ Left' \in Int
        /\ Left' >= clock * (ScaledAt(AUTOSTART_KEY_HOLD, clock) - 1)
    BY <1>0, <1>1, <1>2, <1>4, NextIsDue
  <2> PICK enough : enough = clock * (ScaledAt(AUTOSTART_KEY_HOLD, clock) - 1)
    OBVIOUS
  <2>2. enough \in Int
    BY <1>0
  <2>3. enough >= 3 * Debounce + 2 /\ Left' >= enough
    BY <1>0, <2>1
  <2> QED BY <2>1, <2>2, <2>3 DEF Times3
<1>10. Entering(key)'
  <2>1. rom' = rom /\ rom.row \in 1 .. 3 /\ Debounce \in Nat
    BY DEF RomOK, Times3
  <2>2. rom.row = 1 => Finds(key)
    BY EachKeyHasRow DEF Finds
  <2>3. UntilEntered(key) <= 3 * Debounce + 2 /\ UntilEntered(key) \in Int
    BY <1>7, <2>1, <2>2 DEF UntilEntered
  <2>4. UntilEntered(key)' = UntilEntered(key)
    BY <2>1 DEF UntilEntered, Finds
  <2>5. UntilEntered(key)' <= Left'
    BY <1>9, <2>1, <2>3, <2>4
  <2> QED BY <1>7, <1>8, <2>1, <2>5 DEF Entering
<1>11. EnteredFirst((n + 1) \div 2)'
  BY <1>5, <1>6, KeepsEntered
<1>12. key = Typed'[(n + 1 + 1) \div 2]
  BY DEF Typed
<1> QED BY <1>1, <1>5, <1>9, <1>10, <1>11, <1>12 DEF Typing

(* ... or releases it, when the ROM has entered it. *)
LEMMA ReleaseTyping ==
  ASSUME Times3, TimesSuffice, clock \in ClockRates, done \in 0 .. clock, RomOK, running,
         TimedRelease, UNCHANGED <<rom, done, entered, start_address, clock>>,
         start_address \in Addresses,
         NEW n \in 0 .. 9, Typing(n)
  PROVE  Typing(n + 1)'
<1>0. clock \in Nat \ {0} /\ ScaledAt(AUTOSTART_KEY_HOLD, clock) \in Nat
      /\ clock * (ScaledAt(AUTOSTART_KEY_HOLD, clock) - 1) >= 3 * Debounce + 2
      /\ clock * (ScaledAt(AUTOSTART_KEY_HOLD, clock) - 1) >= 3 * Debounce + Work
  BY Times
<1>1. PICK elapsed \in Nat : Due(n, elapsed)
  BY DEF Typing
<1>2. /\ Fires /\ Head(timers).op = "release" /\ timers' = Tail(timers) /\ timers # <<>>
      /\ ReleaseKey(Head(timers).key)
  BY DEF TimedRelease, Fires
<1>3. /\ timers \in Seq(TimerType) /\ Head(timers) = timers[1] /\ 1 \in 1 .. 10 - n
      /\ timers[1].op = IF (n + 1) % 2 = 1 THEN "press" ELSE "release"
  <2>1. timers \in Seq(TimerType)
    BY <1>1 DEF Due
  <2> QED BY <1>1, <1>2, <2>1, HeadTailProperties DEF Due
<1>4. n % 2 # 0
  <2>1. (n + 1) % 2 # 1
    BY <1>2, <1>3
  <2> QED BY <2>1
<1>5. /\ (n + 1) % 2 = 0 /\ (n + 1) \div 2 = n \div 2 + 1 /\ (n + 1) \div 2 \in 1 .. 5
      /\ n + 1 \in 0 .. 10 /\ n # 10 /\ (n + 1 = 10 => (n + 1) \div 2 = 5)
  BY <1>4
<1> PICK key : key = Typed[(n + 1) \div 2]
  OBVIOUS
<1>6. Entered(key) /\ EnteredFirst(n \div 2 + 1)
  <2>1. \/ Entering(key)
        \/ Entered(key) /\ EnteredFirst(n \div 2 + 1)
    BY <1>4, <1>5 DEF Typing
  <2>2. ~Entering(key)
    BY <1>0, <1>2, <1>3, FiringIsReady DEF Entering
  <2> QED BY <2>1, <2>2
<1>7. low' = {}
  BY <1>2 DEF ReleaseKey, PullHigh
<1>8. /\ Due(n + 1, elapsed)'
      /\ n < 9 => Left' \in Int /\ Left' >= 3 * Debounce + 2 /\ Left' >= 3 * Debounce + Work
  <2>1. /\ Due(n + 1, elapsed)'
        /\ n < 9 => /\ Left' \in Int
                    /\ Left' >= clock * (ScaledAt(AUTOSTART_KEY_HOLD, clock) - 1)
    BY <1>0, <1>1, <1>2, NextIsDue
  <2> PICK enough : enough = clock * (ScaledAt(AUTOSTART_KEY_HOLD, clock) - 1)
    OBVIOUS
  <2>2. enough \in Int
    BY <1>0
  <2>3. /\ enough >= 3 * Debounce + 2 /\ enough >= 3 * Debounce + Work
        /\ n < 9 => Left' >= enough
    BY <1>0, <2>1
  <2> QED BY <2>1, <2>2, <2>3 DEF Times3
<1>9. n < 9 => Ready'
  <2>1. /\ rom' = rom /\ rom.row \in 1 .. 3 /\ rom.mode \in {"work", "up"}
        /\ Debounce \in Nat /\ Work \in Nat
        /\ rom.row = 1 => rom.seen = {}
        /\ IF rom.mode = "work" THEN rom.count <= Work ELSE rom.count = 0
        /\ rom.count \in Nat
    BY <1>6 DEF RomOK, Times3, Entered
  <2>2. /\ UntilReady <= 3 * Debounce + 2 \/ UntilReady <= 3 * Debounce + Work
        /\ UntilReady \in Int
    BY <2>1 DEF UntilReady
  <2>3. UntilReady' = UntilReady
    BY <2>1 DEF UntilReady
  <2>4. n < 9 => UntilReady' <= Left'
    BY <1>8, <2>1, <2>2, <2>3
  <2> QED BY <1>7, <2>1, <2>4 DEF Ready
<1>10. EnteredFirst((n + 1) \div 2)'
  BY <1>5, <1>6, KeepsEntered
<1> QED BY <1>1, <1>5, <1>8, <1>9, <1>10 DEF Typing

LEMMA TypingBoots == ASSUME TimesSuffice PROVE Init => TypingInv
<1> SUFFICES ASSUME Init PROVE TypingInv
  OBVIOUS
<1>1. /\ running = TRUE /\ low = {} /\ clock \in ClockRates /\ start_address \in Addresses
      /\ timers = <<Timer(Scaled(AUTOSTART_DELAY), "sequence", KeyD)>>
      /\ rom = [mode |-> "work", count |-> Boot, row |-> 1, seen |-> {}]
      /\ done = 0 /\ entered = <<>>
  BY DEF Init, Rom
<1>2. /\ clock \in Nat \ {0} /\ Debounce \in Nat \ {0} /\ Boot \in Nat \ {0}
      /\ ScaledAt(AUTOSTART_DELAY, clock) \in Nat
      /\ clock * ScaledAt(AUTOSTART_DELAY, clock) >= Boot + 3 * Debounce
  BY <1>1, Times
<1> PICK delay \in Nat : delay = ScaledAt(AUTOSTART_DELAY, clock)
  BY <1>2
<1>3. Timer(delay, "sequence", KeyD) \in TimerType
  BY FrontPanelAssumption DEF Timer, TimerType
<1>4. timers = <<Timer(delay, "sequence", KeyD)>>
  BY <1>1 DEF Scaled, ScaledAt
<1>5. /\ timers \in Seq(TimerType) /\ Len(timers) = 1 /\ timers # <<>>
      /\ timers[1].op = "sequence" /\ timers[1].due = delay
  BY <1>3, <1>4 DEF Timer
<1>6. Ready
  <2>1. Left = clock * delay - 0
    BY <1>1, <1>2, <1>5, LeftInt
  <2>2. clock * delay \in Int
    BY <1>2
  <2>3. UntilReady = Boot + 3 * Debounce
    BY <1>1 DEF UntilReady
  <2>4. UntilReady <= Left
    <3> PICK rows \in Int : rows = clock * delay
      BY <2>2
    <3>1. rows >= Boot + 3 * Debounce
      BY <1>2
    <3> QED BY <2>1, <2>3, <3>1
  <2> QED BY <1>1, <2>4 DEF Ready
<1>7. RomOK /\ done \in 0 .. clock /\ EnteredFirst(0)
  BY <1>1, <1>2 DEF RomOK, EnteredFirst
<1>8. BeforeSequence
  BY <1>5, <1>6, <1>7 DEF BeforeSequence
<1> QED BY <1>1, <1>7, <1>8 DEF TypingInv

LEMMA TypingSteps ==
  ASSUME TimesSuffice PROVE Inv /\ TypingInv /\ [Next]_vars => TypingInv'
<1> SUFFICES ASSUME Inv, TypingInv, [Next]_vars, ~disturbed' PROVE TypingInv'
  BY DEF TypingInv
<1>1. start_address \in Addresses
  BY DEF Inv, PanelState
<1>2. CASE UNCHANGED vars
  <2>1. /\ UNCHANGED <<running, low, clock, timers, start_address, rom, done, entered>>
        /\ UNCHANGED disturbed
    BY <1>2 DEF vars
  <2>2. /\ Left' = Left /\ Typed' = Typed /\ UntilReady' = UntilReady
        /\ \A key : UntilEntered(key)' = UntilEntered(key) /\ Finds(key)' = Finds(key)
    BY <2>1 DEF Left, Typed, UntilReady, UntilEntered, Finds
  <2>3. RomOK' = RomOK /\ Ready' = Ready
    BY <2>1, <2>2 DEF RomOK, Ready
  <2>4. \A count : EnteredFirst(count)' = EnteredFirst(count)
    BY <2>1, <2>2 DEF EnteredFirst
  <2>5. \A key : Entering(key)' = Entering(key) /\ Entered(key)' = Entered(key)
    BY <2>1, <2>2 DEF Entering, Entered
  <2>6. \A n, elapsed : Due(n, elapsed)' = Due(n, elapsed)
    BY <2>1, <2>2 DEF Due
  <2>7. BeforeSequence' = BeforeSequence
    BY <2>1, <2>3, <2>4 DEF BeforeSequence
  <2>8. \A n : Typing(n) => Typing(n)'
    BY <2>2, <2>3, <2>4, <2>5, <2>6 DEF Typing
  <2> QED BY <2>1, <2>3, <2>7, <2>8 DEF TypingInv
<1>3. CASE Next
  <2>1. ~disturbed
    BY <1>3 DEF Next, Tick, Worker, Timers, User, SetClockRate, Interferes
  <2>2. /\ running /\ clock \in ClockRates /\ done \in 0 .. clock /\ RomOK
        /\ BeforeSequence \/ \E n \in 0 .. 10 : Typing(n)
    BY <2>1 DEF TypingInv
  <2>3. /\ Times3 /\ clock \in Nat \ {0} /\ ScaledAt(AUTOSTART_KEY_HOLD, clock) \in Nat
    BY <2>2, Times DEF Times3
  <2>4. CASE Tick
    <3>1. BeforeSequence' \/ \E n \in 0 .. 10 : Typing(n)'
      BY <2>1, <2>2, <2>3, <2>4, TickTyping
    <3>2. UNCHANGED <<running, clock, rom>> /\ done' = 0
      BY <2>4 DEF Tick
    <3>3. RomOK' /\ done' \in 0 .. clock
      BY <2>2, <2>3, <3>2 DEF RomOK
    <3> QED BY <2>2, <3>1, <3>2, <3>3 DEF TypingInv
  <2>5. CASE Worker
    <3>1. /\ RomOK' /\ done' \in 0 .. clock
          /\ BeforeSequence' \/ \E n \in 0 .. 10 : Typing(n)'
      BY <1>1, <2>2, <2>3, <2>5, WorkerTyping
    <3>2. UNCHANGED <<running, clock>>
      BY <2>5 DEF Worker
    <3> QED BY <2>2, <3>1, <3>2 DEF TypingInv
  <2>6. CASE Timers
    <3>1. UNCHANGED <<running, rom, done, entered, start_address, clock>>
      BY <2>6 DEF Timers
    <3>2. RomOK' /\ running' /\ clock' \in ClockRates /\ done' \in 0 .. clock'
      BY <2>2, <3>1 DEF RomOK
    <3>3. timers # <<>> /\ Head(timers).op \in {"sequence", "press", "release"}
      BY <2>6 DEF Timers, AutostartSequence, TimedPress, TimedRelease, Fires
    <3>4. ASSUME NEW n \in 0 .. 10, Typing(n)
          PROVE  n \in 0 .. 9 /\ Head(timers).op # "sequence"
      <4>1. PICK elapsed \in Nat : Due(n, elapsed)
        BY <3>4 DEF Typing
      <4>2. timers \in Seq(TimerType) /\ Len(timers) = 10 - n
        BY <4>1 DEF Due
      <4>3. n \in 0 .. 9
        <5>1. n # 10
          BY <3>3, <4>2, EmptySeq
        <5> QED BY <5>1
      <4>4. Head(timers) = timers[1] /\ 1 \in 1 .. 10 - n
        BY <3>3, <4>2, <4>3, HeadTailProperties
      <4> QED BY <4>1, <4>3, <4>4 DEF Due
    <3>5. ASSUME BeforeSequence PROVE Head(timers).op = "sequence"
      <4>1. timers \in Seq(TimerType) /\ timers[1].op = "sequence"
        BY <3>5 DEF BeforeSequence
      <4> QED BY <3>3, <4>1, HeadTailProperties
    <3>6. CASE BeforeSequence
      <4>1. AutostartSequence
        BY <2>6, <3>5, <3>6 DEF Timers, TimedPress, TimedRelease
      <4>2. Typing(0)'
        BY <1>1, <2>2, <2>3, <3>1, <3>6, <4>1, SequenceTyping
      <4> QED BY <3>2, <4>2 DEF TypingInv
    <3>7. CASE \E n \in 0 .. 10 : Typing(n)
      <4> PICK n \in 0 .. 10 : Typing(n)
        BY <3>7
      <4>1. n \in 0 .. 9 /\ (TimedPress \/ TimedRelease)
        BY <2>6, <3>4 DEF Timers, AutostartSequence
      <4>2. Typing(n + 1)'
        BY <1>1, <2>2, <2>3, <3>1, <4>1, PressTyping, ReleaseTyping
      <4>3. n + 1 \in 0 .. 10
        BY <4>1
      <4> QED BY <3>2, <4>2, <4>3 DEF TypingInv
    <3> QED BY <2>2, <3>6, <3>7
  <2>7. ~User /\ ~SetClockRate
    BY DEF User, SetClockRate, Interferes
  <2> QED BY <1>3, <2>4, <2>5, <2>6, <2>7 DEF Next
<1> QED BY <1>2, <1>3

LEMMA TypedIsEntered == ASSUME Inv, TypingInv PROVE AutostartEnters
<1> SUFFICES ASSUME ~disturbed
             PROVE  /\ Len(entered) <= 5 /\ entered = SubSeq(Typed, 1, Len(entered))
                    /\ timers = <<>> => Len(entered) = 5
  BY DEF AutostartEnters
<1>1. BeforeSequence \/ \E n \in 0 .. 10 : Typing(n)
  BY DEF TypingInv
<1>2. PICK count \in 0 .. 5 : EnteredFirst(count) /\ (timers = <<>> => count = 5)
  <2>1. CASE BeforeSequence
    <3>1. EnteredFirst(0) /\ Len(timers) = 1
      BY <2>1 DEF BeforeSequence
    <3>2. timers # <<>>
      BY <3>1, EmptySeq
    <3> QED BY <3>1, <3>2
  <2>2. CASE \E n \in 0 .. 10 : Typing(n)
    <3> PICK n \in 0 .. 10 : Typing(n)
      BY <2>2
    <3>1. n = 10 => EnteredFirst(5)
      BY DEF Typing
    <3>2. n # 10 => EnteredFirst(n \div 2) \/ EnteredFirst(n \div 2 + 1)
      BY DEF Typing
    <3>3. n # 10 => n \div 2 \in 0 .. 5 /\ n \div 2 + 1 \in 0 .. 5
      OBVIOUS
    <3>4. timers = <<>> => n = 10
      <4>1. Len(timers) = 10 - n
        BY DEF Typing, Due
      <4> QED BY <4>1, EmptySeq
    <3> QED BY <3>1, <3>2, <3>3, <3>4
  <2> QED BY <1>1, <2>1, <2>2
<1>3. /\ entered \in Seq(Keys) /\ Len(entered) = count
      /\ \A i \in 1 .. count : entered[i] = Typed[i]
  BY <1>2 DEF EnteredFirst
<1>4. Typed \in Seq(Keys) /\ Len(Typed) = 5
  BY TypedKeys DEF Inv, PanelState
<1> PICK first : first = SubSeq(Typed, 1, count)
  OBVIOUS
<1>5. first \in Seq(Keys) /\ Len(first) = count /\ \A i \in 1 .. count : first[i] = Typed[i]
  <2> HIDE DEF Typed
  <2> QED BY <1>4
<1>6. entered = first
  BY <1>3, <1>5, SeqEqual
<1> QED BY <1>2, <1>3, <1>6

(* Theorem: for every address, clock rate and layout of the keys, if the ROM can
   scan as often within a delay and a hold as TimesSuffice says, the ten timers
   that autostart_sequence starts at once type DO and the digits of the address
   into it, each once, in order and without another key, although each timer may
   fire anywhere in its tick (AutostartEnters; mainwindow.cpp:517-548). *)
THEOREM AutostartAlwaysEnters ==
  ASSUME TimesSuffice PROVE Spec => []AutostartEnters
<1>1. Init => Inv /\ TypingInv
  BY InitInv, TypingBoots
<1>2. Inv /\ TypingInv /\ [Next]_vars => Inv' /\ TypingInv'
  BY NextInv, TypingSteps
<1>3. Inv /\ TypingInv => AutostartEnters
  BY TypedIsEntered
<1> QED BY <1>1, <1>2, <1>3, PTL DEF Spec

=============================================================================
