------------------------------- MODULE Runloop -------------------------------
(***************************************************************************)
(* The run loop, libz80e/src/runloop/runloop.c, and the hardware timers it *)
(* serves, libz80e/src/ti/asic.c and speed.c. A slice of cycles plans the  *)
(* ticks of all timers ahead, sorts them, and then lets the processor run  *)
(* from one tick to the next. The guest changes the timers under a slice   *)
(* that has been planned: through port 4 (write_timer_speed) and, on the   *)
(* calculators that have it, port 20h (write_speed).                       *)
(* Slots, and entries of the tick array, are numbered from 1; id 0 is -1.  *)
(* Frequencies are whole numbers, some of those in the tables are not.     *)
(***************************************************************************)
EXTENDS Integers, Sequences, FiniteSets

CONSTANTS HostTimers,        \* the frequencies of the frontend's timers, a sequence
          FirstTable,        \* first_timer_table: speed -> frequency
          SecondTable,       \* second_timer_table
          SlowRate, FastRate,\* the two clock rates of port 20h
          HasSpeedPort,      \* not on the TI-73 and the TI-83+
          Slices,            \* how many cycles the frontend asks for at a time
          Overshoot,         \* the most that an instruction runs over its budget
          TickArray, Growth, \* 40 entries at first, 10 more whenever it is full
          Garbage,           \* what an entry from realloc can hold
          MaxSlices          \* bound: slices in a behavior

Frequencies == {HostTimers[i] : i \in 1..Len(HostTimers)}
                 \union {FirstTable[v] : v \in DOMAIN FirstTable}
                 \union {SecondTable[v] : v \in DOMAIN SecondTable}

ASSUME TimersAssumption ==
  /\ HostTimers \in Seq(Nat \ {0})
  /\ FirstTable \in [DOMAIN FirstTable -> Nat \ {0}]
  /\ SecondTable \in [DOMAIN FirstTable -> Nat \ {0}]
ASSUME RatesAssumption ==
  /\ SlowRate \in Nat /\ FastRate \in Nat
  /\ \A f \in Frequencies : f <= SlowRate /\ f <= FastRate
ASSUME SlicesAssumption ==
  /\ Slices \subseteq Nat \ {0} /\ Overshoot \in Nat /\ MaxSlices \in Nat
  /\ HasSpeedPort \in BOOLEAN
ASSUME ArrayAssumption ==
  /\ TickArray \in Nat \ {0} /\ Growth \in Nat \ {0}
  /\ Garbage \subseteq Int /\ Garbage # {}

VARIABLES timers,         \* asic->timers
          first_id, second_id,
          clock_rate,
          ticks,          \* the array of planned ticks, with what earlier slices left in it
          current_tick,   \* how many of them this slice has planned
          tick_i,         \* how many it has fired
          total,          \* total_cycles
          cycles,         \* what is left of the slice
          until_next,     \* cycles_until_next_tick
          undefined,      \* write_speed has divided by zero cycles
          slices          \* history: slices begun, for the bound

timerVars == <<timers, first_id, second_id, clock_rate>>
sliceVars == <<ticks, current_tick, tick_i, total, cycles, until_next, slices>>
vars == <<timerVars, sliceVars, undefined>>

-----------------------------------------------------------------------------
(* Hardware timers *)

Period(frequency, rate) == rate \div frequency

(* earned is history: the cycles the program has asked for since the timer was *)
(* set, less one period for each planned tick, less what was left at that time.*)
NewTimer(frequency, owner, left) ==
  [in_use |-> TRUE, left |-> left, frequency |-> frequency, owner |-> owner,
   earned |-> -left]

\* Mutant of FreeSlot: a new timer always gets a slot of its own.
FreeSlotAtEnd(ts) == Len(ts) + 1

(* The first slot that is not in use; the slots beyond those ever used are free. *)
FreeSlot(ts) ==
  CHOOSE i \in 1..(Len(ts) + 1) :
    /\ i = Len(ts) + 1 \/ ~ts[i].in_use
    /\ \A j \in 1..(i - 1) : ts[j].in_use

asic_add_timer(ts, frequency, owner, rate) ==
  [i \in 1..(IF FreeSlot(ts) > Len(ts) THEN Len(ts) + 1 ELSE Len(ts)) |->
     IF i = FreeSlot(ts) THEN NewTimer(frequency, owner, Period(frequency, rate)) ELSE ts[i]]

asic_remove_timer(ts, i) == [ts EXCEPT ![i].in_use = FALSE]

(* set_first_timer_frequency, set_second_timer_frequency: remove, then add. *)
Removed(ts, id) == IF id = 0 THEN ts ELSE asic_remove_timer(ts, id)

(* Port 4: both timers get the frequency of the new speed. *)
write_timer_speed(speed) ==
  LET free1 == Removed(timers, first_id)
      set1  == asic_add_timer(free1, FirstTable[speed], "first", clock_rate)
      free2 == Removed(set1, second_id)
  IN /\ first_id' = FreeSlot(free1)
     /\ second_id' = FreeSlot(free2)
     /\ timers' = asic_add_timer(free2, SecondTable[speed], "second", clock_rate)
     /\ UNCHANGED clock_rate

\* Mutant of WithRate: the cycles left are kept.
WithRateKept(timer, rate) ==
  IF timer.in_use THEN NewTimer(timer.frequency, timer.owner, timer.left) ELSE timer

(* asic_set_clock_rate: not a scaling, the new rate is divided by the cycles left. *)
(* With none left the quotient is infinite, and storing it in an int is undefined. *)
WithRate(timer, rate) ==
  LET left == rate \div (timer.left * timer.frequency)
  IN IF timer.in_use THEN NewTimer(timer.frequency, timer.owner, left) ELSE timer

DividesByZero == \E i \in DOMAIN timers : timers[i].in_use /\ timers[i].left = 0

asic_set_clock_rate(rate) ==
  \/ /\ DividesByZero
     /\ undefined' = TRUE
     /\ UNCHANGED timerVars
  \/ /\ ~DividesByZero
     /\ timers' = [i \in DOMAIN timers |-> WithRate(timers[i], rate)]
     /\ clock_rate' = rate
     /\ UNCHANGED <<first_id, second_id, undefined>>

write_speed(value) == asic_set_clock_rate(IF value = 0 THEN SlowRate ELSE FastRate)

-----------------------------------------------------------------------------
(* Planning a slice *)

\* Mutant of PlannedTimes: one tick too many when the period ends beyond the slice.
PlannedTimesOver(timer, period, c) ==
  IF timer.left < c
  THEN {timer.left + k * period : k \in 0..((c - timer.left) \div period + 1)}
  ELSE {}

(* When a timer ticks in a slice of c cycles. A tick at its very end is planned *)
(* unless it is the timer's first.                                              *)
PlannedTimes(timer, period, c) ==
  IF timer.left < c
  THEN {timer.left + k * period : k \in 0..((c - timer.left) \div period)}
  ELSE {}

TimesOf(i, c) ==
  IF timers[i].in_use
  THEN PlannedTimes(timers[i], Period(timers[i].frequency, clock_rate), c)
  ELSE {}

Planned(c) ==
  UNION {{[slot |-> i, after |-> t, owner |-> timers[i].owner] : t \in TimesOf(i, c)}
           : i \in DOMAIN timers}

(* What planning leaves in a timer: after a tick, the whole period is left. *)
Counted(i, c) ==
  LET timer  == timers[i]
      period == Period(timer.frequency, clock_rate)
      n      == Cardinality(TimesOf(i, c))
  IN IF ~timer.in_use THEN timer
     ELSE [timer EXCEPT !.left   = IF n > 0 THEN period ELSE @ - c,
                        !.earned = @ + c - n * period]

Earliest(S) == {t \in S : \A u \in S : t.after <= u.after}

(* The ways to take the ticks one by one, always one of the earliest. *)
Arrangements(S) ==
  LET taken[T \in SUBSET S] ==
        IF T = {} THEN {<<>>}
        ELSE UNION {{<<t>> \o s : s \in taken[T \ {t}]} : t \in Earliest(T)}
  IN taken[S]

\* Mutant of Orders: the comparison is the wrong way round.
OrdersReversed(S) ==
  {[i \in 1..Len(s) |-> s[Len(s) + 1 - i]] : s \in Arrangements(S)}

(* qsort with runloop_compare: ticks at the same cycle come in any order. (The *)
(* condition holds of every arrangement; it spells out what sorting promises.) *)
Orders(S) ==
  {s \in Arrangements(S) :
     /\ s \in Seq(S)
     /\ \A i, j \in 1..Len(s) : i < j => s[i].after <= s[j].after}

Unplanned(a) == [slot |-> 1, after |-> a, owner |-> "none"]

\* Mutant of Capacity: the array grows one tick too late.
CapacityLate(n) ==
  IF n <= Len(ticks) THEN Len(ticks)
  ELSE Len(ticks) + Growth * ((n - Len(ticks)) \div Growth + 1)

(* The array has room for one more tick than are planned. *)
Capacity(n) ==
  IF n < Len(ticks) THEN Len(ticks)
  ELSE Len(ticks) + Growth * ((n - Len(ticks)) \div Growth + 1)

Written(s, garbage) ==
  [j \in 1..Capacity(Len(s)) |->
     IF j <= Len(s) THEN s[j]
     ELSE IF j <= Len(ticks) THEN ticks[j] ELSE Unplanned(garbage[j])]

(* runloop_tick_cycles up to its loop *)
Plan(c) ==
  /\ cycles <= 0 /\ slices < MaxSlices
  /\ slices' = slices + 1
  /\ \E s \in Orders(Planned(c)) :
       /\ \E garbage \in [(Len(ticks) + 1)..Capacity(Len(s)) -> Garbage] :
            ticks' = Written(s, garbage)
       /\ current_tick' = Len(s)
       /\ until_next' = IF s = <<>> THEN c ELSE s[1].after
  /\ timers' = [i \in DOMAIN timers |-> Counted(i, c)]
  /\ total' = 0 /\ cycles' = c /\ tick_i' = 0
  /\ UNCHANGED <<first_id, second_id, clock_rate, undefined>>

-----------------------------------------------------------------------------
(* Running a slice *)

(* cpu_execute runs at least what it is given, and nothing if that is not positive. *)
Runs(budget) == IF budget > 0 THEN budget..(budget + Overshoot) ELSE {0}

\* Mutant of AfterTick: the budget is counted from the start of the slice.
AfterTickAbsolute ==
  /\ tick_i' = tick_i + 1
  /\ until_next' = IF tick_i' <= current_tick THEN ticks[tick_i' + 1].after ELSE cycles'

\* Mutant of AfterTick: the tick that was fired stays the next one.
AfterTickAgain ==
  /\ UNCHANGED tick_i
  /\ until_next' = IF tick_i < current_tick
                   THEN ticks[tick_i + 1].after - total'
                   ELSE cycles'

(* The tick that is due is fired. The entry after it tells how far to run next, *)
(* also when it is not one of this slice.                                       *)
AfterTick ==
  /\ tick_i' = tick_i + 1
  /\ until_next' = IF tick_i' <= current_tick
                   THEN ticks[tick_i' + 1].after - total'
                   ELSE cycles'

(* One round of the loop. The last entry to be compared can lie beyond the array. *)
Round ==
  /\ cycles > 0
  /\ \E ran \in Runs(until_next) :
       /\ total' = total + ran
       /\ cycles' = cycles - ran
  /\ \E due \in IF tick_i < Len(ticks) THEN {total' >= ticks[tick_i + 1].after} ELSE BOOLEAN :
       IF due THEN AfterTick ELSE UNCHANGED <<tick_i, until_next>>
  /\ UNCHANGED <<timerVars, ticks, current_tick, slices, undefined>>

(* The guest writes a port while cpu_execute runs. *)
GuestWrites ==
  /\ cycles > 0 /\ until_next > 0
  /\ \/ /\ \E speed \in DOMAIN FirstTable : write_timer_speed(speed)
        /\ UNCHANGED undefined
     \/ HasSpeedPort /\ \E value \in 0..1 : write_speed(value)
  /\ UNCHANGED sliceVars

(* The frontend has added its timers to a fresh asic. *)
Init ==
  /\ clock_rate = SlowRate
  /\ timers = [i \in 1..Len(HostTimers) |->
                 NewTimer(HostTimers[i], "host", Period(HostTimers[i], clock_rate))]
  /\ first_id = 0 /\ second_id = 0
  /\ ticks = [j \in 1..TickArray |-> Unplanned(0)]
  /\ current_tick = 0 /\ tick_i = 0
  /\ total = 0 /\ cycles = 0 /\ until_next = 0
  /\ undefined = FALSE /\ slices = 0

(* Once a timer holds an undefined value nothing more is described. *)
Next ==
  /\ ~undefined
  /\ \/ \E c \in Slices : Plan(c)
     \/ Round
     \/ GuestWrites

Spec == Init /\ [][Next]_vars
FairSpec == Spec /\ WF_vars(~undefined /\ Round)

-----------------------------------------------------------------------------
(* Properties *)

Owners == {"host", "first", "second"}

TypeOK ==
  /\ timers \in Seq([in_use : BOOLEAN, left : Nat, frequency : Frequencies,
                     owner : Owners, earned : Int])
  /\ first_id \in 0..Len(timers) /\ second_id \in 0..Len(timers)
  /\ clock_rate \in {SlowRate, FastRate}
  /\ ticks \in Seq([slot : Nat, after : Int, owner : Owners \union {"none"}])
  /\ current_tick \in 0..(Len(ticks) - 1)
  /\ tick_i \in 0..(current_tick + 2)
  /\ total \in Nat /\ cycles \in Int /\ until_next \in Int
  /\ undefined \in BOOLEAN /\ slices \in 0..MaxSlices

Pending == (tick_i + 1)..current_tick

(* A planned tick names a slot, and the guest may have removed and added     *)
(* timers since: the slot still belongs to the timer that planned the tick.  *)
PendingReachTheirTimer ==
  \A j \in Pending : /\ ticks[j].slot \in DOMAIN timers
                     /\ timers[ticks[j].slot].in_use
                     /\ timers[ticks[j].slot].owner = ticks[j].owner

(* A slice ends with the instruction that uses it up. Ticks planned inside   *)
(* that instruction are lost, and no others; and no tick waits for longer.   *)
OnlyOvershootDelays == \A j \in Pending : total - ticks[j].after <= Overshoot

(* Ticks are fired at their cycle or after it, one instruction late at most. *)
TicksOnTime ==
  [][tick_i' = tick_i + 1 /\ tick_i' <= current_tick =>
       (total' - ticks[tick_i'].after) \in 0..Overshoot]_vars

(* A slice runs over by one instruction, or as far as the entry that the     *)
(* last tick's successor in the array names: an earlier, longer slice's.     *)
OverrunIsStale ==
  cycles < -Overshoot =>
    /\ current_tick > 0
    /\ total - ticks[current_tick + 1].after <= Overshoot

(* Timers never run fast: n periods pass in the slices asked for before the  *)
(* n-th tick is planned, counted from when the timer was last set.           *)
TimersNeverFast ==
  \A i \in DOMAIN timers : timers[i].in_use => timers[i].earned + timers[i].left >= 0

(* A timer is never further than one period away from its next tick.         *)
TickWithinPeriod ==
  \A i \in DOMAIN timers : timers[i].in_use =>
     timers[i].left <= Period(timers[i].frequency, clock_rate)

(* The loop comes back to its frontend.                                      *)
SliceEnds == cycles > 0 ~> (cycles <= 0 \/ undefined)
==============================================================================
