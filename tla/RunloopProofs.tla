---------------------------- MODULE RunloopProofs ----------------------------
(***************************************************************************)
(* What Runloop's runs check, proved for all timers, rates, slices and     *)
(* array sizes. The inductive invariant has four parts: the timers and the *)
(* ids that name them (TimersInv), the planned ticks (SliceInv), where the *)
(* budget ends (BudgetInv), and whom the pending ticks belong to           *)
(* (PendingInv). There is a lemma for each action.                         *)
(***************************************************************************)
EXTENDS Runloop, FiniteSetTheorems, TLAPS

(* Division rounds down. *)
LEMMA Division ==
  ASSUME NEW a \in Nat, NEW d \in Nat \ {0}
  PROVE  /\ a \div d \in Nat
         /\ (a \div d) * d <= a
         /\ a < (a \div d) * d + d
OBVIOUS

LEMMA DivisionLeast ==
  ASSUME NEW a \in Nat, NEW d \in Nat \ {0}, NEW q \in Nat, q * d <= a
  PROVE  q <= a \div d
<1> DEFINE e == a \div d
<1>1. e \in Nat /\ a < e * d + d
  BY Division
<1> HIDE DEF e
<1>2. SUFFICES ASSUME e < q PROVE FALSE
  BY <1>1 DEF e
<1>3. e + 1 <= q
  BY <1>1, <1>2
<1>4. (e + 1) * d <= q * d
  BY <1>1, <1>3
<1>5. (e + 1) * d = e * d + d
  BY <1>1
<1> QED
  BY <1>1, <1>4, <1>5

LEMMA DivisionByMultiple ==
  ASSUME NEW a \in Nat, NEW d \in Nat \ {0}, NEW k \in Nat \ {0}
  PROVE  /\ k * d \in Nat \ {0}
         /\ a \div (k * d) \in Nat
         /\ a \div (k * d) <= a \div d
<1>1. k * d \in Nat \ {0}
  OBVIOUS
<1> DEFINE q == a \div (k * d)
<1>2. q \in Nat /\ q * (k * d) <= a
  BY <1>1, Division
<1> HIDE DEF q
<1>3. q * d <= q * (k * d)
  <2>1. d <= k * d
    OBVIOUS
  <2> QED
    BY <1>1, <1>2, <2>1
<1>4. q * d <= a
  BY <1>1, <1>2, <1>3
<1>5. q <= a \div d
  BY <1>2, <1>4, DivisionLeast
<1> QED
  BY <1>1, <1>2, <1>5 DEF q

(* How many ticks a timer has in a slice, and when. *)
LEMMA CountOfTimes ==
  ASSUME NEW timer, timer.left \in Nat, NEW period \in Nat \ {0}, NEW c \in Nat
  PROVE  /\ timer.left < c =>
              Cardinality(PlannedTimes(timer, period, c)) = (c - timer.left) \div period + 1
         /\ ~(timer.left < c) => Cardinality(PlannedTimes(timer, period, c)) = 0
         /\ \A t \in PlannedTimes(timer, period, c) : t \in 0..c
<1> DEFINE left == timer.left
           m == (c - left) \div period
           T == {left + k * period : k \in 0..m}
           f == [k \in 0..m |-> left + k * period]
<1>1. CASE left < c
  <2>1. c - left \in Nat
    BY <1>1
  <2>2. m \in Nat /\ m * period <= c - left
    BY <2>1, Division
  <2> HIDE DEF m
  <2>3. f \in Bijection(0..m, T)
    <3>1. f \in [0..m -> T]
      OBVIOUS
    <3>2. ASSUME NEW k \in 0..m, NEW l \in 0..m, f[k] = f[l] PROVE k = l
      <4>1. k * period = l * period
        BY <3>2, <2>2
      <4> QED
        BY <4>1, <2>2
    <3>3. \A t \in T : \E k \in 0..m : f[k] = t
      OBVIOUS
    <3> QED
      BY <3>1, <3>2, <3>3 DEF Bijection, Injection, Surjection, IsInjective
  <2>4. Cardinality(T) = Cardinality(0..m)
    <3>1. IsFiniteSet(0..m)
      BY <2>2, FS_Interval
    <3>2. ExistsBijection(0..m, T)
      BY <2>3 DEF ExistsBijection
    <3> HIDE DEF T
    <3> QED
      BY <3>1, <3>2, FS_Bijection
  <2>5. Cardinality(0..m) = m + 1
    BY <2>2, FS_Interval
  <2>6. \A t \in T : t \in 0..c
    <3>1. ASSUME NEW k \in 0..m PROVE left + k * period \in 0..c
      <4>1. k * period <= m * period /\ k * period \in Nat
        BY <2>2
      <4> QED
        BY <4>1, <2>2, <1>1
    <3> QED
      BY <3>1
  <2>7. PlannedTimes(timer, period, c) = T
    BY <1>1 DEF PlannedTimes, m
  <2> HIDE DEF T
  <2> QED
    BY <1>1, <2>4, <2>5, <2>6, <2>7 DEF m
<1>2. CASE ~(left < c)
  <2>1. PlannedTimes(timer, period, c) = {}
    BY <1>2 DEF PlannedTimes
  <2> QED
    BY <1>2, <2>1, FS_EmptySet
<1> QED
  BY <1>1, <1>2

-----------------------------------------------------------------------------
(* The timers. Between two port writes every slot ever used is in use, which  *)
(* is why a timer that is removed and added again gets its slot back.         *)

Timer == [in_use : {TRUE}, left : Nat, frequency : Frequencies, owner : Owners, earned : Int]

Good(timer, rate) ==
  /\ timer \in Timer
  /\ timer.earned + timer.left >= 0
  /\ timer.left <= Period(timer.frequency, rate)

AllGood(ts, rate) == ts \in Seq(Timer) /\ \A i \in 1..Len(ts) : Good(ts[i], rate)

Names(ts, id, owner) == id \in 0..Len(ts) /\ (id # 0 => ts[id].owner = owner)

LEMMA PeriodType ==
  ASSUME NEW f \in Frequencies, NEW rate \in {SlowRate, FastRate}
  PROVE  f \in Nat \ {0} /\ rate \in Nat /\ Period(f, rate) \in Nat \ {0}
<1>1. f \in Nat \ {0}
  BY TimersAssumption DEF Frequencies
<1>2. rate \in Nat /\ 1 * f <= rate
  BY RatesAssumption, <1>1
<1>3. 1 <= rate \div f /\ rate \div f \in Nat
  BY <1>1, <1>2, DivisionLeast, Division
<1> QED
  BY <1>1, <1>2, <1>3 DEF Period

LEMMA NewIsGood ==
  ASSUME NEW f \in Frequencies, NEW owner \in Owners, NEW rate, NEW left \in Nat,
         left <= Period(f, rate)
  PROVE  Good(NewTimer(f, owner, left), rate) /\ NewTimer(f, owner, left).owner = owner
BY DEF Good, NewTimer, Timer

LEMMA FreeSlotIs ==
  ASSUME NEW ts, Len(ts) \in Nat, NEW k \in 1..(Len(ts) + 1),
         k = Len(ts) + 1 \/ ~ts[k].in_use,
         \A j \in 1..(k - 1) : ts[j].in_use
  PROVE  FreeSlot(ts) = k
<1>1. ASSUME NEW i \in 1..(Len(ts) + 1),
             i = Len(ts) + 1 \/ ~ts[i].in_use,
             \A j \in 1..(i - 1) : ts[j].in_use
      PROVE  i = k
  <2>1. CASE i < k
    <3>1. i \in 1..(k - 1) /\ i # Len(ts) + 1
      BY <2>1
    <3> QED
      BY <1>1, <3>1
  <2>2. CASE k < i
    <3>1. k \in 1..(i - 1) /\ k # Len(ts) + 1
      BY <2>2
    <3> QED
      BY <1>1, <3>1
  <2> QED
    BY <2>1, <2>2
<1> QED
  BY <1>1 DEF FreeSlot

(* Removing a timer and adding it again changes nothing but its own slot.     *)
LEMMA SetTimer ==
  ASSUME NEW rate \in {SlowRate, FastRate}, NEW ts, AllGood(ts, rate),
         NEW owner \in Owners, NEW f \in Frequencies, NEW id, Names(ts, id, owner)
  PROVE  /\ AllGood(asic_add_timer(Removed(ts, id), f, owner, rate), rate)
         /\ Names(asic_add_timer(Removed(ts, id), f, owner, rate),
                  FreeSlot(Removed(ts, id)), owner)
         /\ Len(asic_add_timer(Removed(ts, id), f, owner, rate)) >= Len(ts)
         /\ \A i \in 1..Len(ts) :
              asic_add_timer(Removed(ts, id), f, owner, rate)[i].owner = ts[i].owner
         /\ \A i \in 1..Len(asic_add_timer(Removed(ts, id), f, owner, rate)) :
              \/ asic_add_timer(Removed(ts, id), f, owner, rate)[i]
                   = NewTimer(f, owner, Period(f, rate))
              \/ /\ i \in 1..Len(ts)
                 /\ asic_add_timer(Removed(ts, id), f, owner, rate)[i] = ts[i]
<1> DEFINE new  == NewTimer(f, owner, Period(f, rate))
           free == Removed(ts, id)
           set  == asic_add_timer(free, f, owner, rate)
<1>1. Good(new, rate) /\ new.owner = owner /\ new \in Timer
  <2>1. Period(f, rate) \in Nat /\ Period(f, rate) <= Period(f, rate)
    BY PeriodType
  <2> QED
    BY <2>1, NewIsGood DEF Good
<1>2. ts \in Seq(Timer) /\ Len(ts) \in Nat /\ DOMAIN ts = 1..Len(ts)
      /\ \A i \in 1..Len(ts) : ts[i] \in Timer /\ ts[i].in_use = TRUE /\ Good(ts[i], rate)
  <2>1. ts \in Seq(Timer) /\ \A i \in 1..Len(ts) : Good(ts[i], rate)
    BY DEF AllGood
  <2>2. \A i \in 1..Len(ts) : ts[i] \in Timer
    BY <2>1 DEF Good
  <2>3. \A t \in Timer : t.in_use = TRUE
    BY DEF Timer
  <2>4. Len(ts) \in Nat /\ DOMAIN ts = 1..Len(ts)
    BY <2>1
  <2> QED
    BY <2>1, <2>2, <2>3, <2>4
<1>3. CASE id = 0
  <2>1. free = ts
    BY <1>3 DEF Removed
  <2>2. FreeSlot(free) = Len(ts) + 1
    <3>1. \A j \in 1..((Len(ts) + 1) - 1) : ts[j].in_use
      BY <1>2
    <3>2. Len(ts) + 1 \in 1..(Len(ts) + 1)
      BY <1>2
    <3> QED
      BY <1>2, <2>1, <3>1, <3>2, FreeSlotIs
  <2> HIDE DEF new, free
  <2>3. set = [i \in 1..(Len(ts) + 1) |-> IF i = Len(ts) + 1 THEN new ELSE ts[i]]
    BY <1>2, <2>1, <2>2 DEF asic_add_timer, new
  <2> HIDE DEF set
  <2>4. set \in Seq(Timer) /\ Len(set) = Len(ts) + 1 /\ set[Len(ts) + 1] = new
        /\ \A i \in 1..Len(ts) : set[i] = ts[i]
    BY <1>1, <1>2, <2>3
  <2>5. \A i \in 1..Len(set) : Good(set[i], rate)
    <3>1. \A i \in 1..Len(set) : i = Len(ts) + 1 \/ i \in 1..Len(ts)
      BY <1>2, <2>4
    <3> QED
      BY <1>1, <1>2, <2>4, <3>1
  <2>6. AllGood(set, rate)
    BY <2>4, <2>5 DEF AllGood
  <2>7. Names(set, FreeSlot(free), owner)
    BY <1>1, <1>2, <2>2, <2>4 DEF Names
  <2>8. \A i \in 1..Len(set) : set[i] = new \/ (i \in 1..Len(ts) /\ set[i] = ts[i])
    <3>1. \A i \in 1..Len(set) : i = Len(ts) + 1 \/ i \in 1..Len(ts)
      BY <1>2, <2>4
    <3>2. set[Len(ts) + 1] = new /\ \A i \in 1..Len(ts) : set[i] = ts[i]
      BY <2>4
    <3> QED
      BY <3>1, <3>2, Zenon
  <2> QED
    BY <1>2, <2>4, <2>6, <2>7, <2>8 DEF set, free, new
<1>4. CASE id # 0
  <2>1. id \in 1..Len(ts) /\ ts[id].owner = owner
    BY <1>2, <1>4 DEF Names
  <2>2. free = [i \in 1..Len(ts) |-> IF i = id THEN [ts[id] EXCEPT !.in_use = FALSE] ELSE ts[i]]
    BY <1>2, <1>4, <2>1 DEF Removed, asic_remove_timer
  <2>3. Len(free) = Len(ts) /\ ~free[id].in_use
        /\ \A i \in 1..Len(ts) : i # id => free[i] = ts[i]
    <3>1. [ts[id] EXCEPT !.in_use = FALSE].in_use = FALSE
      BY <1>2, <2>1 DEF Timer
    <3> HIDE DEF free
    <3>2. DOMAIN free = 1..Len(ts)
      BY <2>2
    <3>3. Len(free) = Len(ts)
      BY <1>2, <2>2, <3>2
    <3> QED
      BY <2>1, <2>2, <3>1, <3>3
  <2> HIDE DEF new, free
  <2>4. FreeSlot(free) = id
    <3>1. \A j \in 1..(id - 1) : free[j].in_use
      <4>1. \A j \in 1..(id - 1) : j \in 1..Len(ts) /\ j # id
        BY <1>2, <2>1
      <4> QED
        BY <1>2, <2>3, <4>1
    <3>2. id \in 1..(Len(free) + 1) /\ Len(free) \in Nat
      BY <1>2, <2>1, <2>3
    <3> QED
      BY <2>3, <3>1, <3>2, FreeSlotIs
  <2>5. set = [i \in 1..Len(ts) |-> IF i = id THEN new ELSE free[i]]
    <3>1. ~(FreeSlot(free) > Len(free)) /\ Len(free) = Len(ts)
      BY <1>2, <2>1, <2>3, <2>4
    <3>2. set = [i \in 1..Len(free) |-> IF i = FreeSlot(free) THEN new ELSE free[i]]
      BY <3>1 DEF asic_add_timer, new
    <3> QED
      BY <2>4, <3>1, <3>2
  <2> HIDE DEF set
  <2>6. set \in Seq(Timer) /\ Len(set) = Len(ts) /\ set[id] = new
        /\ \A i \in 1..Len(ts) : i # id => set[i] = ts[i]
    <3>1. set = [i \in 1..Len(ts) |-> IF i = id THEN new ELSE ts[i]]
      BY <2>3, <2>5
    <3> QED
      BY <1>1, <1>2, <2>1, <3>1
  <2>7. AllGood(set, rate)
    BY <1>1, <1>2, <2>6 DEF AllGood
  <2>8. Names(set, FreeSlot(free), owner)
    BY <1>1, <2>1, <2>4, <2>6 DEF Names
  <2>9. \A i \in 1..Len(ts) : set[i].owner = ts[i].owner
    BY <1>1, <2>1, <2>6
  <2>10. \A i \in 1..Len(set) : set[i] = new \/ (i \in 1..Len(ts) /\ set[i] = ts[i])
    <3>1. /\ Len(set) = Len(ts) /\ set[id] = new
          /\ \A i \in 1..Len(ts) : i # id => set[i] = ts[i]
      BY <2>6
    <3> QED
      BY <3>1, Zenon
  <2> QED
    BY <1>2, <2>6, <2>7, <2>8, <2>9, <2>10 DEF set, free, new
<1> QED
  BY <1>3, <1>4

TimersInv ==
  /\ clock_rate \in {SlowRate, FastRate}
  /\ AllGood(timers, clock_rate)
  /\ Names(timers, first_id, "first")
  /\ Names(timers, second_id, "second")

(* No slot is given to another timer. *)
OwnersKept ==
  /\ Len(timers') >= Len(timers)
  /\ \A i \in 1..Len(timers) : timers'[i].owner = timers[i].owner

LEMMA GoodTimers ==
  ASSUME NEW ts, NEW rate, AllGood(ts, rate)
  PROVE  /\ Len(ts) \in Nat /\ DOMAIN ts = 1..Len(ts) /\ ts \in Seq(Timer)
         /\ \A i \in 1..Len(ts) :
              /\ ts[i] \in Timer /\ ts[i].in_use = TRUE /\ ts[i].left \in Nat
              /\ ts[i].frequency \in Frequencies /\ ts[i].owner \in Owners
              /\ ts[i].earned \in Int
              /\ ts[i].earned + ts[i].left >= 0
              /\ ts[i].left <= Period(ts[i].frequency, rate)
<1>1. ts \in Seq(Timer) /\ \A i \in 1..Len(ts) : Good(ts[i], rate)
  BY DEF AllGood
<1>2. Len(ts) \in Nat /\ DOMAIN ts = 1..Len(ts)
  BY <1>1
<1>3. \A t \in Timer : /\ t.in_use = TRUE /\ t.left \in Nat /\ t.frequency \in Frequencies
                       /\ t.owner \in Owners /\ t.earned \in Int
  BY DEF Timer
<1> QED
  BY <1>1, <1>2, <1>3 DEF Good

(* A guest's write to port 4 or 20h leaves good timers, each in its slot.     *)
LEMMA GuestStep ==
  ASSUME TimersInv, GuestWrites
  PROVE  TimersInv' /\ OwnersKept /\ undefined' \in BOOLEAN \union {undefined}
<1> USE DEF TimersInv
<1>1. ASSUME NEW speed \in DOMAIN FirstTable, write_timer_speed(speed)
      PROVE  TimersInv' /\ OwnersKept
  <2> DEFINE free1 == Removed(timers, first_id)
             set1  == asic_add_timer(free1, FirstTable[speed], "first", clock_rate)
             free2 == Removed(set1, second_id)
             set2  == asic_add_timer(free2, SecondTable[speed], "second", clock_rate)
  <2>1. /\ first_id' = FreeSlot(free1) /\ second_id' = FreeSlot(free2)
        /\ timers' = set2 /\ clock_rate' = clock_rate
    BY <1>1 DEF write_timer_speed
  <2>2. FirstTable[speed] \in Frequencies /\ SecondTable[speed] \in Frequencies
    BY TimersAssumption DEF Frequencies
  <2>3. "first" \in Owners /\ "second" \in Owners
    BY DEF Owners
  <2>4. /\ AllGood(set1, clock_rate) /\ Names(set1, FreeSlot(free1), "first")
        /\ Len(set1) >= Len(timers)
        /\ \A i \in 1..Len(timers) : set1[i].owner = timers[i].owner
    BY <2>2, <2>3, SetTimer
  <2> HIDE DEF free1, set1
  <2>5. Len(timers) \in Nat /\ Len(set1) \in Nat
    BY <2>4, GoodTimers
  <2>6. Names(set1, second_id, "second")
    BY <2>4, <2>5 DEF Names
  <2>7. /\ AllGood(set2, clock_rate) /\ Names(set2, FreeSlot(free2), "second")
        /\ Len(set2) >= Len(set1)
        /\ \A i \in 1..Len(set1) : set2[i].owner = set1[i].owner
    <3>1. clock_rate \in {SlowRate, FastRate} /\ AllGood(set1, clock_rate)
          /\ SecondTable[speed] \in Frequencies /\ "second" \in Owners
      BY <2>2, <2>3, <2>4
    <3> HIDE DEF TimersInv
    <3> QED
      BY <2>6, <3>1, SetTimer
  <2> HIDE DEF free2, set2
  <2>8. Len(set2) \in Nat
    BY <2>7, GoodTimers
  <2>9. Names(set2, FreeSlot(free1), "first")
    BY <2>4, <2>5, <2>7, <2>8 DEF Names
  <2> QED
    BY <2>1, <2>4, <2>5, <2>7, <2>8, <2>9 DEF OwnersKept
<1>2. ASSUME NEW value \in 0..1, write_speed(value)
      PROVE  TimersInv' /\ OwnersKept /\ undefined' \in BOOLEAN \union {undefined}
  <2> DEFINE rate == IF value = 0 THEN SlowRate ELSE FastRate
  <2>1. CASE DividesByZero /\ undefined' = TRUE /\ UNCHANGED timerVars
    BY <2>1 DEF timerVars, OwnersKept, Names
  <2>2. CASE /\ ~DividesByZero
             /\ timers' = [i \in DOMAIN timers |-> WithRate(timers[i], rate)]
             /\ clock_rate' = rate
             /\ UNCHANGED <<first_id, second_id, undefined>>
    <3>1. rate \in {SlowRate, FastRate} /\ rate \in Nat
      BY RatesAssumption
    <3> HIDE DEF rate
    <3>2. ASSUME NEW i \in 1..Len(timers)
          PROVE  Good(WithRate(timers[i], rate), rate)
                 /\ WithRate(timers[i], rate).owner = timers[i].owner
      <4> DEFINE t == timers[i]
                 left == rate \div (t.left * t.frequency)
      <4>1. t.in_use = TRUE /\ t.left \in Nat /\ t.frequency \in Frequencies /\ t.owner \in Owners
        BY GoodTimers
      <4>2. i \in DOMAIN timers
        BY GoodTimers
      <4>3. t.left # 0
        BY <2>2, <4>1, <4>2 DEF DividesByZero
      <4>4. t.frequency \in Nat \ {0}
        BY <3>1, <4>1, PeriodType
      <4>5. left \in Nat /\ left <= Period(t.frequency, rate)
        BY <3>1, <4>1, <4>3, <4>4, DivisionByMultiple DEF Period
      <4>6. WithRate(t, rate) = NewTimer(t.frequency, t.owner, left)
        BY <4>1 DEF WithRate
      <4> HIDE DEF t, left
      <4>7. Good(WithRate(t, rate), rate) /\ WithRate(t, rate).owner = t.owner
        BY <4>1, <4>5, <4>6, NewIsGood
      <4> QED
        BY <4>7 DEF t
    <3>3. DOMAIN timers = 1..Len(timers) /\ Len(timers) \in Nat
      BY GoodTimers
    <3>4. timers' = [i \in 1..Len(timers) |-> WithRate(timers[i], rate)]
      BY <2>2, <3>3
    <3>5. timers' \in Seq(Timer) /\ Len(timers') = Len(timers)
          /\ \A i \in 1..Len(timers) : timers'[i] = WithRate(timers[i], rate)
      BY <3>2, <3>3, <3>4 DEF Good
    <3>6. AllGood(timers', rate)
      BY <3>2, <3>5 DEF AllGood
    <3>7. OwnersKept
      BY <3>2, <3>3, <3>5 DEF OwnersKept
    <3>8. Names(timers', first_id', "first") /\ Names(timers', second_id', "second")
      BY <2>2, <3>3, <3>5, <3>7 DEF Names, OwnersKept
    <3> QED
      BY <2>2, <3>1, <3>6, <3>7, <3>8
  <2> QED
    BY <1>2, <2>1, <2>2 DEF write_speed, asic_set_clock_rate
<1> QED
  BY <1>1, <1>2 DEF GuestWrites

-----------------------------------------------------------------------------
(* Planning *)

(* Planning counts a timer down, or up to its whole period after a tick.      *)
LEMMA CountedIsGood ==
  ASSUME TimersInv, NEW c \in Nat, NEW i \in 1..Len(timers)
  PROVE  /\ Good(Counted(i, c), clock_rate)
         /\ Counted(i, c).owner = timers[i].owner
         /\ \A t \in TimesOf(i, c) : t \in 0..c
<1> DEFINE t == timers[i]
           period == Period(t.frequency, clock_rate)
           n == Cardinality(TimesOf(i, c))
<1>1. /\ t \in Timer /\ t.in_use = TRUE /\ t.left \in Nat /\ t.frequency \in Frequencies
      /\ t.earned \in Int /\ t.earned + t.left >= 0 /\ t.left <= period
  BY GoodTimers DEF TimersInv
<1>2. period \in Nat \ {0}
  BY <1>1, PeriodType DEF TimersInv
<1>3. TimesOf(i, c) = PlannedTimes(t, period, c)
  BY <1>1 DEF TimesOf
<1> HIDE DEF t, period
<1>4. /\ t.left < c => n = (c - t.left) \div period + 1
      /\ ~(t.left < c) => n = 0
      /\ \A u \in TimesOf(i, c) : u \in 0..c
  BY <1>1, <1>2, <1>3, CountOfTimes
<1> DEFINE left   == IF n > 0 THEN period ELSE t.left - c
           earned == t.earned + c - n * period
<1>5. Counted(i, c) = [t EXCEPT !.left = left, !.earned = earned]
  BY <1>1 DEF Counted, t, period, Timer
<1> HIDE DEF n, left, earned
<1>6. ASSUME left \in Nat, left <= period, earned \in Int, earned + left >= 0
      PROVE  Good(Counted(i, c), clock_rate) /\ Counted(i, c).owner = t.owner
  BY <1>1, <1>5, <1>6 DEF Good, Timer, period
<1>7. CASE t.left < c
  <2> DEFINE m == (c - t.left) \div period
  <2>1. c - t.left \in Nat
    BY <1>1, <1>7
  <2>2. m \in Nat /\ m * period <= c - t.left
    BY <1>2, <2>1, Division
  <2>3. n = m + 1
    BY <1>4, <1>7
  <2> HIDE DEF m
  <2>4. n * period = m * period + period /\ m * period \in Nat
    BY <1>2, <2>2, <2>3
  <2>5. left = period
    BY <2>2, <2>3 DEF left
  <2>6. earned = t.earned + c - (m * period + period)
    BY <2>4 DEF earned
  <2>7. earned \in Int /\ earned + left >= 0
    BY <1>1, <1>2, <2>2, <2>4, <2>5, <2>6
  <2> QED
    BY <1>2, <1>4, <1>6, <2>5, <2>7 DEF t
<1>8. CASE ~(t.left < c)
  <2>1. n = 0
    BY <1>4, <1>8
  <2>2. n * period = 0
    BY <1>2, <2>1
  <2>3. left = t.left - c /\ earned = t.earned + c
    BY <1>1, <2>1, <2>2 DEF left, earned
  <2>4. \A l \in Nat, p \in Nat, e \in Int :
          ~(l < c) /\ l <= p /\ e + l >= 0
            => l - c \in Nat /\ l - c <= p /\ e + c \in Int /\ (e + c) + (l - c) >= 0
    OBVIOUS
  <2>5. left \in Nat /\ left <= period /\ earned \in Int /\ earned + left >= 0
    BY <1>1, <1>2, <1>8, <2>3, <2>4
  <2> QED
    BY <1>4, <1>6, <2>5 DEF t
<1> QED
  BY <1>7, <1>8

Entry == [slot : Nat, after : Int, owner : Owners \union {"none"}]

LEMMA PlannedTicks ==
  ASSUME TimersInv, NEW c \in Nat, NEW tick \in Planned(c)
  PROVE  /\ tick \in Entry /\ tick.after \in 0..c
         /\ tick.slot \in 1..Len(timers) /\ timers[tick.slot].owner = tick.owner
<1>1. PICK i \in 1..Len(timers) :
        \E t \in TimesOf(i, c) : tick = [slot |-> i, after |-> t, owner |-> timers[i].owner]
  BY GoodTimers DEF Planned, TimersInv
<1>2. PICK t \in TimesOf(i, c) : tick = [slot |-> i, after |-> t, owner |-> timers[i].owner]
  BY <1>1
<1>3. t \in 0..c
  BY CountedIsGood
<1>4. timers[i].owner \in Owners /\ Len(timers) \in Nat
  <2>1. AllGood(timers, clock_rate)
    BY DEF TimersInv
  <2> QED
    BY <2>1, GoodTimers
<1>5. i \in Nat
  BY <1>4
<1> QED
  BY <1>2, <1>3, <1>4, <1>5 DEF Entry

LEMMA CapacityIsMore ==
  ASSUME Len(ticks) \in Nat, NEW n \in Nat
  PROVE  Capacity(n) \in Nat /\ n < Capacity(n) /\ Len(ticks) <= Capacity(n)
<1>1. CASE n < Len(ticks)
  BY <1>1 DEF Capacity
<1>2. CASE ~(n < Len(ticks))
  <2> DEFINE d == n - Len(ticks)
             q == d \div Growth
  <2>1. d \in Nat /\ Growth \in Nat \ {0}
    BY <1>2, ArrayAssumption
  <2>2. q \in Nat /\ d < q * Growth + Growth
    BY <2>1, Division
  <2>3. Capacity(n) = Len(ticks) + Growth * (q + 1)
    BY <1>2 DEF Capacity
  <2> HIDE DEF q
  <2>4. Growth * (q + 1) = q * Growth + Growth /\ q * Growth \in Nat
    BY <2>1, <2>2
  <2> QED
    BY <2>1, <2>2, <2>3, <2>4
<1> QED
  BY <1>1, <1>2

SliceInv ==
  /\ ticks \in Seq(Entry)
  /\ current_tick \in 0..(Len(ticks) - 1) /\ tick_i \in 0..(current_tick + 2)
  /\ total \in Nat /\ cycles \in Int /\ until_next \in Int
  /\ \A i, j \in 1..current_tick : i < j => ticks[i].after <= ticks[j].after
  /\ \A j \in 1..current_tick : ticks[j].after \in 0..(total + cycles)
  /\ \A j \in Pending : total - ticks[j].after <= Overshoot
  /\ cycles < -Overshoot =>
       current_tick > 0 /\ total - ticks[current_tick + 1].after <= Overshoot

(* While the slice runs, the budget ends exactly at the next entry of the     *)
(* array, or, once the array has no say any more, at the end of the slice.    *)
BudgetInv ==
  cycles > 0 =>
    /\ tick_i <= current_tick + 1
    /\ until_next = IF 0 < current_tick /\ tick_i <= current_tick
                    THEN ticks[tick_i + 1].after - total ELSE cycles

PendingInv ==
  \A j \in Pending : /\ ticks[j].slot \in 1..Len(timers)
                     /\ timers[ticks[j].slot].owner = ticks[j].owner

BoundInv == undefined \in BOOLEAN /\ slices \in 0..MaxSlices

IInv == TimersInv /\ SliceInv /\ BudgetInv /\ PendingInv /\ BoundInv

LEMMA PlanStep ==
  ASSUME IInv, NEW c \in Slices, Plan(c)
  PROVE  IInv'
<1>1. c \in Nat \ {0} /\ Overshoot \in Nat /\ MaxSlices \in Nat
  BY SlicesAssumption
<1>2. PICK s \in Orders(Planned(c)) :
        /\ \E garbage \in [(Len(ticks) + 1)..Capacity(Len(s)) -> Garbage] :
             ticks' = Written(s, garbage)
        /\ current_tick' = Len(s)
        /\ until_next' = IF s = <<>> THEN c ELSE s[1].after
  BY DEF Plan
<1>3. PICK garbage \in [(Len(ticks) + 1)..Capacity(Len(s)) -> Garbage] :
        ticks' = Written(s, garbage)
  BY <1>2
<1>4. /\ s \in Seq(Planned(c)) /\ Len(s) \in Nat
      /\ \A i, j \in 1..Len(s) : i < j => s[i].after <= s[j].after
  BY DEF Orders
<1>5. \A j \in 1..Len(s) : /\ s[j] \in Entry /\ s[j].after \in 0..c
                           /\ s[j].slot \in 1..Len(timers)
                           /\ timers[s[j].slot].owner = s[j].owner
  <2>1. \A j \in 1..Len(s) : s[j] \in Planned(c)
    BY <1>4
  <2> QED
    BY <1>1, <2>1, PlannedTicks DEF IInv
<1>6. Len(ticks) \in Nat /\ \A j \in 1..Len(ticks) : ticks[j] \in Entry
  BY DEF IInv, SliceInv
<1>7. /\ Capacity(Len(s)) \in Nat /\ Len(s) < Capacity(Len(s))
      /\ Len(ticks) <= Capacity(Len(s))
  BY <1>4, <1>6, CapacityIsMore
<1>8. /\ ticks' \in Seq(Entry) /\ Len(ticks') = Capacity(Len(s))
      /\ \A j \in 1..Len(s) : ticks'[j] = s[j]
  <2> DEFINE n == Capacity(Len(s))
  <2>1. ticks' = [j \in 1..n |-> IF j <= Len(s) THEN s[j]
                                 ELSE IF j <= Len(ticks) THEN ticks[j]
                                 ELSE Unplanned(garbage[j])]
    BY <1>3 DEF Written
  <2>2. ASSUME NEW j \in 1..n, ~(j <= Len(ticks)) PROVE Unplanned(garbage[j]) \in Entry
    <3>1. j \in (Len(ticks) + 1)..n
      BY <1>6, <1>7, <2>2
    <3>2. garbage[j] \in Int
      BY <3>1, ArrayAssumption
    <3> QED
      BY <3>2 DEF Unplanned, Entry
  <2> HIDE DEF n
  <2>3. \A j \in 1..n : ticks'[j] \in Entry
    BY <1>4, <1>5, <1>6, <2>1, <2>2
  <2>4. n \in Nat /\ DOMAIN ticks' = 1..n
    BY <1>7, <2>1 DEF n
  <2>5. ticks' \in Seq(Entry) /\ Len(ticks') = n
    BY <2>1, <2>3, <2>4
  <2>6. \A j \in 1..Len(s) : ticks'[j] = s[j]
    BY <1>4, <1>7, <2>1 DEF n
  <2> QED
    BY <2>5, <2>6 DEF n
<1>9. /\ total' = 0 /\ cycles' = c /\ tick_i' = 0 /\ slices' = slices + 1
      /\ slices < MaxSlices
      /\ UNCHANGED <<first_id, second_id, clock_rate, undefined>>
      /\ timers' = [i \in DOMAIN timers |-> Counted(i, c)]
  BY DEF Plan
<1>10. /\ DOMAIN timers = 1..Len(timers) /\ Len(timers) \in Nat
       /\ timers' \in Seq(Timer) /\ Len(timers') = Len(timers)
       /\ \A i \in 1..Len(timers) : timers'[i] = Counted(i, c)
  <2>1. DOMAIN timers = 1..Len(timers) /\ Len(timers) \in Nat
    BY GoodTimers DEF IInv, TimersInv
  <2>2. \A i \in 1..Len(timers) : Counted(i, c) \in Timer
    BY <1>1, CountedIsGood DEF IInv, Good
  <2> QED
    BY <1>9, <2>1, <2>2
<1>11. \A i \in 1..Len(timers) : Good(timers'[i], clock_rate) /\ timers'[i].owner = timers[i].owner
  BY <1>1, <1>10, CountedIsGood DEF IInv
<1>12. TimersInv'
  <2>1. AllGood(timers', clock_rate')
    BY <1>9, <1>10, <1>11 DEF AllGood
  <2>2. Names(timers', first_id', "first") /\ Names(timers', second_id', "second")
    BY <1>9, <1>10, <1>11 DEF IInv, TimersInv, Names
  <2> QED
    BY <1>9, <2>1, <2>2 DEF IInv, TimersInv
<1>13. \A j \in Pending' : j \in 1..Len(s)
  BY <1>2, <1>4, <1>9 DEF Pending
<1>14. SliceInv'
  <2>1. ticks' \in Seq(Entry) /\ current_tick' \in 0..(Len(ticks') - 1)
        /\ tick_i' \in 0..(current_tick' + 2)
    BY <1>2, <1>4, <1>7, <1>8, <1>9
  <2>2. total' \in Nat /\ cycles' \in Int /\ ~(cycles' < -Overshoot) /\ total' + cycles' = c
    BY <1>1, <1>9
  <2>3. until_next' \in Int
    <3>1. CASE s = <<>>
      BY <1>1, <1>2, <3>1
    <3>2. CASE s # <<>>
      <4>1. 1 \in 1..Len(s)
        BY <1>4, <3>2
      <4> QED
        BY <1>2, <1>5, <3>2, <4>1
    <3> QED
      BY <3>1, <3>2
  <2>4. \A i, j \in 1..current_tick' : i < j => ticks'[i].after <= ticks'[j].after
    BY <1>2, <1>4, <1>8
  <2>5. \A j \in 1..current_tick' : ticks'[j].after \in 0..(total' + cycles')
    BY <1>2, <1>5, <1>8, <2>2
  <2>6. \A j \in Pending' : total' - ticks'[j].after <= Overshoot
    BY <1>1, <1>5, <1>8, <1>9, <1>13
  <2> QED
    BY <2>1, <2>2, <2>3, <2>4, <2>5, <2>6 DEF SliceInv
<1>15. BudgetInv'
  <2>1. CASE s = <<>>
    BY <1>1, <1>2, <1>9, <2>1 DEF BudgetInv
  <2>2. CASE s # <<>>
    <3>1. 1 \in 1..Len(s)
      BY <1>4, <2>2
    <3>2. 0 < current_tick' /\ tick_i' <= current_tick' /\ tick_i' + 1 = 1
      BY <1>2, <1>4, <1>9, <3>1
    <3>3. until_next' = ticks'[1].after - total'
      BY <1>2, <1>5, <1>8, <1>9, <2>2, <3>1
    <3>4. tick_i' <= current_tick' + 1
      BY <1>2, <1>4, <1>9
    <3>5. ticks'[tick_i' + 1].after - total' = until_next'
      BY <3>2, <3>3
    <3> QED
      BY <3>2, <3>4, <3>5, Zenon DEF BudgetInv
  <2> QED
    BY <2>1, <2>2
<1>16. PendingInv'
  BY <1>5, <1>8, <1>10, <1>11, <1>13 DEF PendingInv
<1>17. BoundInv'
  BY <1>1, <1>9 DEF IInv, BoundInv
<1> QED
  BY <1>12, <1>14, <1>15, <1>16, <1>17 DEF IInv
-----------------------------------------------------------------------------
(* Running *)

(* What a round takes from the slice's rest c it adds to the total a.         *)
LEMMA Spent ==
  ASSUME NEW a \in Int, NEW c \in Int, NEW a2 \in Int, NEW c2 \in Int, a2 + c2 = a + c,
         NEW o \in Nat
  PROVE  /\ a2 = a => c2 = c
         /\ \A t \in Int : a2 - t <= o /\ t <= a + c => ~(c2 < -o)
         /\ c > 0 /\ a2 - a \in c..(c + o) => ~(c2 > 0) /\ ~(c2 < -o)
<1>1. c2 = (a + c) - a2
  OBVIOUS
<1> QED
  BY <1>1

LEMMA LaterIsWithin ==
  ASSUME NEW a \in Int, NEW o \in Int, NEW t \in Int, NEW u \in Int, a - t <= o, t <= u
  PROVE  a - u <= o
OBVIOUS

(* What a round of the loop does to the array's entry that ends its budget.   *)
LEMMA RoundRuns ==
  ASSUME IInv, Round
  PROVE  /\ cycles > 0 /\ cycles' \in Int /\ total' \in Nat /\ total <= total'
         /\ total' + cycles' = total + cycles
         /\ until_next > 0 => total' - total \in until_next..(until_next + Overshoot)
         /\ ~(until_next > 0) => total' = total
         /\ tick_i < Len(ticks) /\ total' >= ticks[tick_i + 1].after => AfterTick
         /\ AfterTick \/ UNCHANGED <<tick_i, until_next>>
         /\ UNCHANGED <<timers, first_id, second_id, clock_rate>>
         /\ UNCHANGED <<ticks, current_tick, slices, undefined>>
<1>1. /\ cycles \in Int /\ total \in Nat /\ until_next \in Int /\ Overshoot \in Nat
  BY SlicesAssumption DEF IInv, SliceInv
<1>2. PICK ran \in Runs(until_next) : total' = total + ran /\ cycles' = cycles - ran
  BY DEF Round
<1>3. /\ ran \in Nat
      /\ until_next > 0 => ran \in until_next..(until_next + Overshoot)
      /\ ~(until_next > 0) => ran = 0
  BY <1>1 DEF Runs
<1>4. /\ tick_i < Len(ticks) /\ total' >= ticks[tick_i + 1].after => AfterTick
      /\ AfterTick \/ UNCHANGED <<tick_i, until_next>>
  BY DEF Round
<1>5. /\ UNCHANGED <<timers, first_id, second_id, clock_rate>>
      /\ UNCHANGED <<ticks, current_tick, slices, undefined>> /\ cycles > 0
  BY DEF Round, timerVars
<1>6. /\ total' \in Nat /\ total <= total' /\ cycles' \in Int
      /\ total' + cycles' = total + cycles /\ total' - total = ran
  BY <1>1, <1>2, <1>3
<1>7. /\ until_next > 0 => total' - total \in until_next..(until_next + Overshoot)
      /\ ~(until_next > 0) => total' = total
  BY <1>1, <1>2, <1>3, <1>6
<1> QED
  BY <1>4, <1>5, <1>6, <1>7

(* The tick that the budget led to is due, and it is fired on time.           *)
LEMMA TickFires ==
  ASSUME IInv, Round, 0 < current_tick, tick_i <= current_tick
  PROVE  /\ tick_i + 1 \in 1..Len(ticks) /\ tick_i' = tick_i + 1 /\ AfterTick
         /\ ticks[tick_i + 1].after \in Int /\ 0 <= total' - ticks[tick_i + 1].after
         /\ until_next > 0 => total' - ticks[tick_i + 1].after <= Overshoot
<1>1. /\ cycles > 0 /\ total' \in Nat /\ total \in Nat /\ until_next \in Int /\ Overshoot \in Nat
  BY RoundRuns, SlicesAssumption DEF IInv, SliceInv
<1>2. tick_i + 1 \in 1..Len(ticks) /\ tick_i < Len(ticks)
  BY DEF IInv, SliceInv
<1>3. ticks[tick_i + 1].after \in Int
  <2>1. ticks[tick_i + 1] \in Entry
    BY <1>2 DEF IInv, SliceInv
  <2> QED
    BY <2>1 DEF Entry
<1>4. until_next = ticks[tick_i + 1].after - total
  BY <1>1 DEF IInv, BudgetInv
<1>5. /\ until_next > 0 => total' - total \in until_next..(until_next + Overshoot)
      /\ ~(until_next > 0) => total' = total
  BY RoundRuns
<1>6. /\ 0 <= total' - ticks[tick_i + 1].after
      /\ until_next > 0 => total' - ticks[tick_i + 1].after <= Overshoot
  BY <1>1, <1>3, <1>4, <1>5
<1>7. AfterTick
  BY <1>1, <1>2, <1>3, <1>6, RoundRuns
<1> QED
  BY <1>2, <1>3, <1>6, <1>7 DEF AfterTick

(* What every kind of round leaves of the invariant.                          *)
LEMMA RoundKeeps ==
  ASSUME IInv, Round, tick_i <= tick_i', tick_i' \in 0..(current_tick + 2), until_next' \in Int,
         \A j \in Pending : j > tick_i' => total' - ticks[j].after <= Overshoot,
         cycles' < -Overshoot => current_tick > 0
                                 /\ total' - ticks[current_tick + 1].after <= Overshoot,
         BudgetInv'
  PROVE  IInv'
<1>1. /\ UNCHANGED <<timers, first_id, second_id, clock_rate>>
      /\ UNCHANGED <<ticks, current_tick, slices, undefined>>
      /\ cycles' \in Int /\ total' \in Nat /\ total' + cycles' = total + cycles
  BY RoundRuns
<1>2. \A j \in Pending' : j \in Pending /\ j > tick_i'
  <2>1. current_tick \in Nat /\ tick_i \in Nat /\ tick_i' \in Nat
    <3>1. Len(ticks) \in Nat
      BY DEF IInv, SliceInv
    <3> QED
      BY <3>1 DEF IInv, SliceInv
  <2>2. Pending' = (tick_i' + 1)..current_tick
    BY <1>1 DEF Pending
  <2>3. \A m \in Nat, n \in Nat : m <= n =>
          \A j \in (n + 1)..current_tick : j \in (m + 1)..current_tick /\ j > n
    BY <2>1
  <2> QED
    BY <2>1, <2>2, <2>3 DEF Pending
<1>3. TimersInv' /\ BoundInv'
  BY <1>1 DEF IInv, TimersInv, BoundInv
<1>4. PendingInv'
  BY <1>1, <1>2 DEF IInv, PendingInv
<1>5. SliceInv'
  <2>1. /\ ticks' \in Seq(Entry) /\ current_tick' \in 0..(Len(ticks') - 1)
        /\ \A i, j \in 1..current_tick' : i < j => ticks'[i].after <= ticks'[j].after
    BY <1>1 DEF IInv, SliceInv
  <2>2. \A j \in 1..current_tick' : ticks'[j].after \in 0..(total' + cycles')
    BY <1>1 DEF IInv, SliceInv
  <2>3. \A j \in Pending' : total' - ticks'[j].after <= Overshoot
    BY <1>1, <1>2
  <2> QED
    BY <1>1, <2>1, <2>2, <2>3 DEF SliceInv
<1> QED
  BY <1>3, <1>4, <1>5 DEF IInv

OnTime ==
  tick_i' = tick_i + 1 /\ tick_i' <= current_tick =>
    (total' - ticks[tick_i'].after) \in 0..Overshoot

LEMMA RoundStep ==
  ASSUME IInv, Round
  PROVE  IInv' /\ OnTime
<1>1. /\ cycles > 0 /\ cycles' \in Int /\ cycles \in Int /\ total \in Nat /\ total' \in Nat
      /\ total' + cycles' = total + cycles /\ until_next \in Int /\ Overshoot \in Nat
  BY RoundRuns, SlicesAssumption DEF IInv, SliceInv
<1>2. /\ current_tick \in Nat /\ tick_i \in 0..(current_tick + 1)
      /\ current_tick + 1 \in 1..Len(ticks)
      /\ \A i, j \in 1..current_tick : i < j => ticks[i].after <= ticks[j].after
      /\ \A j \in 1..current_tick : ticks[j].after \in 0..(total + cycles)
      /\ \A j \in Pending : total - ticks[j].after <= Overshoot
  <2>1. Len(ticks) \in Nat /\ current_tick \in 0..(Len(ticks) - 1)
        /\ tick_i \in 0..(current_tick + 2) /\ tick_i <= current_tick + 1
    BY <1>1 DEF IInv, SliceInv, BudgetInv
  <2>2. current_tick \in Nat /\ tick_i \in 0..(current_tick + 1)
        /\ current_tick + 1 \in 1..Len(ticks)
    BY <2>1
  <2> QED
    BY <2>2 DEF IInv, SliceInv
<1>3. \A j \in 1..Len(ticks) : ticks[j].after \in Int
  <2>1. \A j \in 1..Len(ticks) : ticks[j] \in Entry
    BY DEF IInv, SliceInv
  <2> QED
    BY <2>1 DEF Entry
<1>4. /\ UNCHANGED <<ticks, current_tick>>
      /\ until_next > 0 => total' - total \in until_next..(until_next + Overshoot)
      /\ ~(until_next > 0) => total' = total
      /\ AfterTick \/ UNCHANGED <<tick_i, until_next>>
  BY RoundRuns
<1>Spent. /\ total' = total => cycles' = cycles
          /\ \A t \in Int : total' - t <= Overshoot /\ t <= total + cycles => ~(cycles' < -Overshoot)
          /\ cycles > 0 /\ total' - total \in cycles..(cycles + Overshoot)
               => ~(cycles' > 0) /\ ~(cycles' < -Overshoot)
  <2>1. total \in Int /\ total' \in Int
    BY <1>1
  <2> QED
    BY <1>1, <2>1, Spent
<1>5. CASE 0 < current_tick /\ tick_i < current_tick
  <2> DEFINE t == ticks[tick_i + 1].after
             u == ticks[tick_i + 2].after
  <2>1. /\ tick_i' = tick_i + 1 /\ AfterTick /\ t \in Int /\ 0 <= total' - t
        /\ until_next > 0 => total' - t <= Overshoot
    BY <1>2, <1>5, TickFires
  <2>2. tick_i + 1 \in 1..current_tick /\ tick_i + 1 \in Pending /\ tick_i + 2 \in 1..Len(ticks)
    BY <1>2, <1>5 DEF Pending
  <2>3. total' - t <= Overshoot
    BY <1>2, <1>4, <2>1, <2>2
  <2>4. u \in Int /\ until_next' = u - total'
    <3>1. tick_i' + 1 = tick_i + 2 /\ tick_i' <= current_tick
      BY <1>2, <1>5, <2>1
    <3>2. until_next' = ticks[tick_i' + 1].after - total'
      BY <2>1, <3>1 DEF AfterTick
    <3> QED
      BY <1>3, <2>2, <3>1, <3>2
  <2>5. t \in 0..(total + cycles)
    BY <1>2, <2>2
  <2>6. ~(cycles' < -Overshoot)
    <3>1. t <= total + cycles
      BY <1>1, <2>1, <2>5
    <3> QED
      BY <1>Spent, <2>1, <2>3, <3>1
  <2>7. \A j \in Pending : j > tick_i' => total' - ticks[j].after <= Overshoot
    <3>1. ASSUME NEW j \in Pending, j > tick_i'
          PROVE  j \in 1..current_tick /\ tick_i + 1 < j /\ j \in 1..Len(ticks)
      BY <1>2, <2>1, <3>1 DEF Pending
    <3>2. ASSUME NEW j \in Pending, j > tick_i' PROVE t <= ticks[j].after /\ ticks[j].after \in Int
      BY <1>2, <1>3, <2>2, <3>1, <3>2
    <3>3. total' \in Int /\ Overshoot \in Int
      BY <1>1
    <3> HIDE DEF t
    <3>4. ASSUME NEW j \in Pending, j > tick_i' PROVE total' - ticks[j].after <= Overshoot
      BY <2>1, <2>3, <3>2, <3>3, <3>4, LaterIsWithin
    <3> QED
      BY <3>4
  <2>8. BudgetInv'
    <3>1. tick_i' + 1 = tick_i + 2 /\ tick_i' <= current_tick' /\ 0 < current_tick'
          /\ tick_i' <= current_tick' + 1
      BY <1>2, <1>4, <1>5, <2>1
    <3>2. until_next' = ticks'[tick_i' + 1].after - total'
      BY <1>4, <2>4, <3>1
    <3> QED
      BY <3>1, <3>2, Zenon DEF BudgetInv
  <2>9. OnTime
    <3>1. total' - t \in 0..Overshoot
      BY <1>1, <2>1, <2>3
    <3> QED
      BY <2>1, <3>1 DEF OnTime
  <2>10. tick_i <= tick_i' /\ tick_i' \in 0..(current_tick + 2) /\ until_next' \in Int
    BY <1>1, <1>2, <1>5, <2>1, <2>4
  <2> QED
    BY <2>6, <2>7, <2>8, <2>9, <2>10, RoundKeeps
<1>6. CASE 0 < current_tick /\ tick_i = current_tick
  <2>1. /\ tick_i' = tick_i + 1 /\ AfterTick
        /\ until_next > 0 => total' - ticks[current_tick + 1].after <= Overshoot
    BY <1>2, <1>6, TickFires
  <2>2. tick_i' = current_tick + 1 /\ ~(tick_i' <= current_tick) /\ until_next' = cycles'
    BY <1>2, <1>6, <2>1 DEF AfterTick
  <2>3. cycles' < -Overshoot => total' - ticks[current_tick + 1].after <= Overshoot
    <3>1. CASE until_next > 0
      BY <2>1, <3>1
    <3>2. CASE ~(until_next > 0)
      <4>1. cycles' = cycles
        BY <1>Spent, <1>4, <3>2
      <4> QED
        BY <1>1, <4>1
    <3> QED
      BY <3>1, <3>2
  <2>4. \A j \in Pending : ~(j > tick_i')
    BY <1>2, <2>2 DEF Pending
  <2>5. BudgetInv'
    BY <1>4, <1>2, <2>2 DEF BudgetInv
  <2>6. tick_i <= tick_i' /\ tick_i' \in 0..(current_tick + 2) /\ until_next' \in Int
    BY <1>1, <1>2, <2>1, <2>2
  <2> QED
    BY <1>6, <2>2, <2>3, <2>4, <2>5, <2>6, RoundKeeps DEF OnTime
<1>7. CASE current_tick = 0 \/ tick_i = current_tick + 1
  <2>1. until_next = cycles
    BY <1>1, <1>2, <1>7 DEF IInv, BudgetInv
  <2>2. cycles' \in Int /\ ~(cycles' > 0) /\ ~(cycles' < -Overshoot)
    <3>1. total' - total \in cycles..(cycles + Overshoot)
      BY <1>1, <1>4, <2>1
    <3> QED
      BY <1>1, <1>Spent, <3>1
  <2>3. /\ tick_i' \in {tick_i, tick_i + 1} /\ until_next' \in Int
        /\ tick_i' = tick_i + 1 => ~(tick_i' <= current_tick)
    BY <1>1, <1>2, <1>4, <1>7, <2>2 DEF AfterTick
  <2>4. tick_i <= tick_i' /\ tick_i' \in 0..(current_tick + 2)
    BY <1>2, <1>7, <2>3
  <2>5. Pending = {}
    BY <1>2, <1>7 DEF Pending
  <2>6. BudgetInv'
    BY <2>2 DEF BudgetInv
  <2> QED
    BY <2>2, <2>3, <2>4, <2>5, <2>6, RoundKeeps DEF OnTime
<1> QED
  BY <1>2, <1>5, <1>6, <1>7
-----------------------------------------------------------------------------
(* The invariant *)

LEMMA GuestKeeps ==
  ASSUME IInv, GuestWrites
  PROVE  IInv'
<1>1. TimersInv' /\ OwnersKept /\ undefined' \in BOOLEAN
  BY GuestStep DEF IInv, BoundInv
<1>2. UNCHANGED <<ticks, current_tick, tick_i, total, cycles, until_next, slices>>
  BY DEF GuestWrites, sliceVars
<1>3. SliceInv' /\ BudgetInv' /\ BoundInv'
  BY <1>1, <1>2 DEF IInv, SliceInv, BudgetInv, BoundInv, Pending
<1>4. PendingInv'
  <2>1. Len(timers) \in Nat /\ Len(timers') \in Nat
    BY <1>1, GoodTimers DEF IInv, TimersInv
  <2>2. \A j \in Pending : /\ ticks[j].slot \in 1..Len(timers)
                           /\ timers[ticks[j].slot].owner = ticks[j].owner
    BY DEF IInv, PendingInv
  <2>3. \A i \in 1..Len(timers) : i \in 1..Len(timers') /\ timers'[i].owner = timers[i].owner
    BY <1>1, <2>1 DEF OwnersKept
  <2>4. Pending' = Pending /\ ticks' = ticks
    BY <1>2 DEF Pending
  <2> QED
    BY <2>2, <2>3, <2>4 DEF PendingInv
<1> QED
  BY <1>1, <1>3, <1>4 DEF IInv

LEMMA Initial == Init => IInv
<1> SUFFICES ASSUME Init PROVE IInv
  OBVIOUS
<1>1. /\ clock_rate = SlowRate /\ first_id = 0 /\ second_id = 0
      /\ timers = [i \in 1..Len(HostTimers) |->
                     NewTimer(HostTimers[i], "host", Period(HostTimers[i], SlowRate))]
  BY DEF Init
<1>2. Len(HostTimers) \in Nat /\ HostTimers \in Seq(Nat \ {0})
  BY TimersAssumption
<1>3. ASSUME NEW i \in 1..Len(HostTimers)
      PROVE  Good(NewTimer(HostTimers[i], "host", Period(HostTimers[i], SlowRate)), SlowRate)
  <2>1. HostTimers[i] \in Frequencies
    BY DEF Frequencies
  <2>2. Period(HostTimers[i], SlowRate) \in Nat
        /\ Period(HostTimers[i], SlowRate) <= Period(HostTimers[i], SlowRate)
    BY <2>1, PeriodType
  <2>3. "host" \in Owners
    BY DEF Owners
  <2> QED
    BY <2>1, <2>2, <2>3, NewIsGood
<1>4. timers \in Seq(Timer) /\ Len(timers) = Len(HostTimers)
      /\ \A i \in 1..Len(HostTimers) : Good(timers[i], SlowRate)
  <2>1. \A i \in 1..Len(HostTimers) :
          NewTimer(HostTimers[i], "host", Period(HostTimers[i], SlowRate)) \in Timer
    BY <1>3 DEF Good
  <2> QED
    BY <1>1, <1>2, <1>3, <2>1
<1>5. TimersInv
  BY <1>1, <1>2, <1>4 DEF TimersInv, AllGood, Names
<1>6. ticks = [j \in 1..TickArray |-> Unplanned(0)] /\ current_tick = 0 /\ tick_i = 0
      /\ total = 0 /\ cycles = 0 /\ until_next = 0 /\ undefined = FALSE /\ slices = 0
  BY DEF Init
<1>7. ticks \in Seq(Entry) /\ Len(ticks) = TickArray
  <2>1. Unplanned(0) \in Entry
    BY DEF Unplanned, Entry
  <2> QED
    BY <1>6, <2>1, ArrayAssumption
<1>8. Pending = {}
  BY <1>6 DEF Pending
<1>9. SliceInv
  BY <1>6, <1>7, <1>8, ArrayAssumption, SlicesAssumption DEF SliceInv
<1>10. BudgetInv /\ PendingInv /\ BoundInv
  <2>1. BudgetInv
    BY <1>6 DEF BudgetInv
  <2>2. PendingInv
    BY <1>8 DEF PendingInv
  <2>3. BoundInv
    <3>1. undefined \in BOOLEAN
      BY <1>6
    <3>2. slices \in 0..MaxSlices
      BY <1>6, SlicesAssumption
    <3> QED
      BY <3>1, <3>2 DEF BoundInv
  <2> QED
    BY <2>1, <2>2, <2>3
<1> QED
  BY <1>5, <1>9, <1>10 DEF IInv

LEMMA NextKeeps == IInv /\ [Next]_vars => IInv'
<1> SUFFICES ASSUME IInv, [Next]_vars PROVE IInv'
  OBVIOUS
<1>1. ASSUME NEW c \in Slices, Plan(c) PROVE IInv'
  BY <1>1, PlanStep
<1>2. CASE Round
  BY <1>2, RoundStep
<1>3. CASE GuestWrites
  BY <1>3, GuestKeeps
<1>4. CASE UNCHANGED vars
  BY <1>4 DEF vars, timerVars, sliceVars, IInv, TimersInv, SliceInv, BudgetInv, PendingInv,
              BoundInv, Pending
<1> QED
  BY <1>1, <1>2, <1>3, <1>4 DEF Next

LEMMA Invariance == Spec => []IInv
<1> QED
  BY Initial, NextKeeps, PTL DEF Spec

-----------------------------------------------------------------------------
(* The theorems *)

(* Every variable keeps its type. In particular there is always an entry      *)
(* after the last planned tick, which is what the loop reads last.            *)
THEOREM TypeCorrect == Spec => []TypeOK
<1>1. IInv => TypeOK
  <2> SUFFICES ASSUME IInv PROVE TypeOK
    OBVIOUS
  <2>1. timers \in Seq(Timer) /\ Len(timers) \in Nat
    BY GoodTimers DEF IInv, TimersInv
  <2>2. timers \in Seq([in_use : BOOLEAN, left : Nat, frequency : Frequencies,
                        owner : Owners, earned : Int])
    <3> DEFINE Record == [in_use : BOOLEAN, left : Nat, frequency : Frequencies,
                          owner : Owners, earned : Int]
    <3>1. \A t \in Timer : t \in Record
      BY DEF Timer
    <3> HIDE DEF Record
    <3>2. timers \in Seq(Record)
      BY <2>1, <3>1
    <3> QED
      BY <3>2 DEF Record
  <2>3. first_id \in 0..Len(timers) /\ second_id \in 0..Len(timers)
        /\ clock_rate \in {SlowRate, FastRate}
    BY DEF IInv, TimersInv, Names
  <2>4. ticks \in Seq([slot : Nat, after : Int, owner : Owners \union {"none"}])
    BY DEF IInv, SliceInv, Entry
  <2> QED
    BY <2>2, <2>3, <2>4 DEF IInv, SliceInv, BoundInv, TypeOK
<1> QED
  BY <1>1, Invariance, PTL

(* A pending tick belongs to the timer in its slot, whatever the guest writes *)
(* to ports 4 and 20h under the slice.                                        *)
THEOREM PendingCorrect == Spec => []PendingReachTheirTimer
<1>1. IInv => PendingReachTheirTimer
  <2> SUFFICES ASSUME IInv, NEW j \in Pending
               PROVE  /\ ticks[j].slot \in DOMAIN timers
                      /\ timers[ticks[j].slot].in_use
                      /\ timers[ticks[j].slot].owner = ticks[j].owner
    BY DEF PendingReachTheirTimer
  <2>1. ticks[j].slot \in 1..Len(timers) /\ timers[ticks[j].slot].owner = ticks[j].owner
    BY DEF IInv, PendingInv
  <2>2. DOMAIN timers = 1..Len(timers) /\ \A i \in 1..Len(timers) : timers[i].in_use = TRUE
    BY GoodTimers DEF IInv, TimersInv
  <2> QED
    BY <2>1, <2>2
<1> QED
  BY <1>1, Invariance, PTL

(* No planned tick waits longer than one instruction after its cycle.         *)
THEOREM DelaysCorrect == Spec => []OnlyOvershootDelays
<1>1. IInv => OnlyOvershootDelays
  BY DEF IInv, SliceInv, OnlyOvershootDelays
<1> QED
  BY <1>1, Invariance, PTL

(* A slice that runs over by more than an instruction was led by the entry    *)
(* after its last tick.                                                       *)
THEOREM OverrunCorrect == Spec => []OverrunIsStale
<1>1. IInv => OverrunIsStale
  BY DEF IInv, SliceInv, OverrunIsStale
<1> QED
  BY <1>1, Invariance, PTL

(* No timer ticks more often than its frequency and the clock rate allow.     *)
THEOREM NeverFast == Spec => []TimersNeverFast
<1>1. IInv => TimersNeverFast
  <2> SUFFICES ASSUME IInv PROVE TimersNeverFast
    OBVIOUS
  <2>1. DOMAIN timers = 1..Len(timers)
        /\ \A i \in 1..Len(timers) : timers[i].earned + timers[i].left >= 0
    BY GoodTimers DEF IInv, TimersInv
  <2> QED
    BY <2>1 DEF TimersNeverFast
<1> QED
  BY <1>1, Invariance, PTL

(* A timer's next tick is never more than one period away, at either rate.    *)
THEOREM WithinPeriod == Spec => []TickWithinPeriod
<1>1. IInv => TickWithinPeriod
  <2> SUFFICES ASSUME IInv PROVE TickWithinPeriod
    OBVIOUS
  <2>1. DOMAIN timers = 1..Len(timers)
        /\ \A i \in 1..Len(timers) :
             timers[i].left <= Period(timers[i].frequency, clock_rate)
    BY GoodTimers DEF IInv, TimersInv
  <2> QED
    BY <2>1 DEF TickWithinPeriod
<1> QED
  BY <1>1, Invariance, PTL

(* A tick is fired at its cycle, or later by the rest of one instruction.     *)
THEOREM FiredOnTime == Spec => TicksOnTime
<1>1. IInv /\ [Next]_vars => [OnTime]_vars
  <2> SUFFICES ASSUME IInv, [Next]_vars PROVE [OnTime]_vars
    OBVIOUS
  <2>1. ASSUME NEW c \in Slices, Plan(c) PROVE OnTime
    <3>1. tick_i' = 0 /\ tick_i \in Nat
      <4>1. Len(ticks) \in Nat
        BY DEF IInv, SliceInv
      <4> QED
        BY <2>1, <4>1 DEF Plan, IInv, SliceInv
    <3> QED
      BY <3>1 DEF OnTime
  <2>2. CASE Round
    BY <2>2, RoundStep
  <2>3. CASE GuestWrites
    <3>1. tick_i' = tick_i /\ tick_i \in Nat
      <4>1. Len(ticks) \in Nat
        BY DEF IInv, SliceInv
      <4> QED
        BY <2>3, <4>1 DEF GuestWrites, sliceVars, IInv, SliceInv
    <3> QED
      BY <3>1 DEF OnTime
  <2> QED
    BY <2>1, <2>2, <2>3 DEF Next
<1> QED
  BY <1>1, Invariance, PTL DEF Spec, TicksOnTime, OnTime

-----------------------------------------------------------------------------
(* A slice is a few rounds                                                    *)

(* Every round of the loop uses the slice up or fires the next tick, and no   *)
(* tick beyond the one behind the last planned: a slice is over after         *)
(* current_tick + 2 rounds, whatever the processor runs over its budgets. The *)
(* rounds need no fairness beyond being taken for the slice to end.           *)
RoundsBounded ==
  [][Round => cycles' <= 0 \/ (tick_i' = tick_i + 1 /\ tick_i' <= current_tick + 1)]_vars

THEOREM RoundsAreBounded == Spec => RoundsBounded
<1>1. ASSUME IInv, Round
      PROVE  cycles' <= 0 \/ (tick_i' = tick_i + 1 /\ tick_i' <= current_tick + 1)
  <2>1. /\ cycles > 0 /\ cycles' \in Int /\ cycles \in Int /\ total \in Nat /\ total' \in Nat
        /\ total' + cycles' = total + cycles /\ Overshoot \in Nat
        /\ until_next > 0 => total' - total \in until_next..(until_next + Overshoot)
    BY <1>1, RoundRuns, SlicesAssumption DEF IInv, SliceInv
  <2>2. Len(ticks) \in Nat /\ current_tick \in Nat /\ tick_i \in Nat
    <3>1. Len(ticks) \in Nat
      BY <1>1 DEF IInv, SliceInv
    <3> QED
      BY <1>1, <3>1 DEF IInv, SliceInv
  <2>3. CASE 0 < current_tick /\ tick_i <= current_tick
    <3>1. tick_i' = tick_i + 1
      BY <1>1, <2>3, TickFires
    <3> QED
      BY <2>2, <2>3, <3>1
  <2>4. CASE ~(0 < current_tick /\ tick_i <= current_tick)
    <3>1. until_next = cycles
      BY <1>1, <2>1, <2>4 DEF IInv, BudgetInv
    <3>2. total' - total \in cycles..(cycles + Overshoot)
      BY <2>1, <3>1
    <3>3. total \in Int /\ total' \in Int
      BY <2>1
    <3>4. cycles > 0 /\ total' - total \in cycles..(cycles + Overshoot)
            => ~(cycles' > 0) /\ ~(cycles' < -Overshoot)
      BY <2>1, <3>3, Spent
    <3> QED
      BY <2>1, <3>2, <3>4
  <2> QED
    BY <2>3, <2>4
<1> QED
  BY <1>1, Invariance, PTL DEF Spec, RoundsBounded

-----------------------------------------------------------------------------
(* Timers are slow by a bounded amount                                        *)

Slow(timer, rate, n) ==
  timer.earned + timer.left <= n * (Period(timer.frequency, rate) - 1)

(* A timer falls behind by less than one period for each slice begun: what    *)
(* is left of a slice behind its last tick is what planning forgets. Together *)
(* with TimersNeverFast this is the timer's whole error.                      *)
TimersSlowBounded ==
  \A i \in DOMAIN timers : timers[i].in_use => Slow(timers[i], clock_rate, slices)

SlowInv == \A i \in 1..Len(timers) : Slow(timers[i], clock_rate, slices)

LEMMA Multiples ==
  ASSUME NEW n \in Nat, NEW p \in Nat \ {0}
  PROVE  /\ n * (p - 1) \in Nat
         /\ (n + 1) * (p - 1) = n * (p - 1) + (p - 1)
<1>1. p - 1 \in Nat
  OBVIOUS
<1>2. \A k \in Nat : n * k \in Nat /\ (n + 1) * k = n * k + k
  OBVIOUS
<1> QED
  BY <1>1, <1>2

(* Only the timers that a guest sets start over, or all when the rate moves.  *)
LEMMA GuestResets ==
  ASSUME TimersInv, GuestWrites, NEW i \in 1..Len(timers')
  PROVE  \/ timers'[i].earned + timers'[i].left = 0
         \/ i \in 1..Len(timers) /\ timers'[i] = timers[i] /\ clock_rate' = clock_rate
<1>0. ASSUME NEW f, NEW owner, NEW left \in Int
      PROVE  NewTimer(f, owner, left).earned + NewTimer(f, owner, left).left = 0
  BY DEF NewTimer
<1>1. ASSUME NEW speed \in DOMAIN FirstTable, write_timer_speed(speed)
      PROVE  \/ timers'[i].earned + timers'[i].left = 0
             \/ i \in 1..Len(timers) /\ timers'[i] = timers[i] /\ clock_rate' = clock_rate
  <2> DEFINE f1 == FirstTable[speed]
             f2 == SecondTable[speed]
             free1 == Removed(timers, first_id)
             set1  == asic_add_timer(free1, f1, "first", clock_rate)
             free2 == Removed(set1, second_id)
             set2  == asic_add_timer(free2, f2, "second", clock_rate)
  <2>1. timers' = set2 /\ clock_rate' = clock_rate
    BY <1>1 DEF write_timer_speed
  <2>2. /\ f1 \in Frequencies /\ f2 \in Frequencies
        /\ clock_rate \in {SlowRate, FastRate} /\ AllGood(timers, clock_rate)
        /\ "first" \in Owners /\ "second" \in Owners
        /\ Names(timers, first_id, "first") /\ Names(timers, second_id, "second")
    BY TimersAssumption DEF Frequencies, Owners, TimersInv
  <2>3. Period(f1, clock_rate) \in Int /\ Period(f2, clock_rate) \in Int
    BY <2>2, PeriodType
  <2> HIDE DEF f1, f2
  <2>4. /\ AllGood(set1, clock_rate) /\ Len(set1) >= Len(timers)
        /\ \A j \in 1..Len(timers) : set1[j].owner = timers[j].owner
    BY <2>2, SetTimer
  <2>8. ASSUME NEW j \in 1..Len(set1)
        PROVE  \/ set1[j] = NewTimer(f1, "first", Period(f1, clock_rate))
               \/ j \in 1..Len(timers) /\ set1[j] = timers[j]
    BY <2>2, SetTimer
  <2> HIDE DEF free1, set1
  <2>5. Len(timers) \in Nat /\ Len(set1) \in Nat
    BY <2>2, <2>4, GoodTimers
  <2>6. Names(set1, second_id, "second")
    BY <2>2, <2>4, <2>5 DEF Names
  <2>7. ASSUME NEW j \in 1..Len(set2)
        PROVE  \/ set2[j] = NewTimer(f2, "second", Period(f2, clock_rate))
               \/ j \in 1..Len(set1) /\ set2[j] = set1[j]
    <3>1. clock_rate \in {SlowRate, FastRate} /\ AllGood(set1, clock_rate)
          /\ f2 \in Frequencies /\ "second" \in Owners /\ Names(set1, second_id, "second")
      BY <2>2, <2>4, <2>6
    <3> QED
      BY <3>1, SetTimer
  <2> HIDE DEF free2, set2
  <2> QED
    BY <1>0, <2>1, <2>3, <2>7, <2>8
<1>2. ASSUME NEW value \in 0..1, write_speed(value)
      PROVE  \/ timers'[i].earned + timers'[i].left = 0
             \/ i \in 1..Len(timers) /\ timers'[i] = timers[i] /\ clock_rate' = clock_rate
  <2> DEFINE rate == IF value = 0 THEN SlowRate ELSE FastRate
  <2>1. CASE DividesByZero /\ undefined' = TRUE /\ UNCHANGED timerVars
    BY <2>1 DEF timerVars
  <2>2. CASE /\ ~DividesByZero
             /\ timers' = [j \in DOMAIN timers |-> WithRate(timers[j], rate)]
    <3>1. rate \in Nat
      BY RatesAssumption
    <3> HIDE DEF rate
    <3>2. DOMAIN timers = 1..Len(timers) /\ Len(timers) \in Nat
      BY GoodTimers DEF TimersInv
    <3>3. i \in 1..Len(timers) /\ timers'[i] = WithRate(timers[i], rate)
      <4>1. Len(timers') = Len(timers)
        BY <2>2, <3>2
      <4> QED
        BY <2>2, <3>2, <4>1
    <3> DEFINE t == timers[i]
               left == rate \div (t.left * t.frequency)
    <3>4. t.in_use = TRUE /\ t.left \in Nat /\ t.frequency \in Frequencies
      BY <3>3, GoodTimers DEF TimersInv
    <3>5. t.left # 0 /\ t.frequency \in Nat \ {0}
      BY <2>2, <3>2, <3>3, <3>4, PeriodType DEF DividesByZero
    <3>6. left \in Nat
      BY <3>1, <3>4, <3>5, DivisionByMultiple
    <3>7. WithRate(t, rate) = NewTimer(t.frequency, t.owner, left)
      BY <3>4 DEF WithRate
    <3> HIDE DEF left
    <3> QED
      BY <1>0, <3>3, <3>6, <3>7
  <2> QED
    BY <1>2, <2>1, <2>2 DEF write_speed, asic_set_clock_rate
<1> QED
  BY <1>1, <1>2 DEF GuestWrites

(* Planning a slice forgets less than one period.                             *)
LEMMA CountedIsSlow ==
  ASSUME TimersInv, NEW c \in Nat, NEW i \in 1..Len(timers), NEW n \in Nat,
         Slow(timers[i], clock_rate, n)
  PROVE  Slow(Counted(i, c), clock_rate, n + 1)
<1> DEFINE t == timers[i]
           period == Period(t.frequency, clock_rate)
           k == Cardinality(TimesOf(i, c))
<1>1. /\ t \in Timer /\ t.in_use = TRUE /\ t.left \in Nat /\ t.frequency \in Frequencies
      /\ t.earned \in Int
  BY GoodTimers DEF TimersInv
<1>2. period \in Nat \ {0}
  BY <1>1, PeriodType DEF TimersInv
<1>3. TimesOf(i, c) = PlannedTimes(t, period, c)
  BY <1>1 DEF TimesOf
<1>4. t.earned + t.left <= n * (period - 1)
  BY DEF Slow
<1> HIDE DEF t, period
<1>5. /\ t.left < c => k = (c - t.left) \div period + 1
      /\ ~(t.left < c) => k = 0
  BY <1>1, <1>2, <1>3, CountOfTimes
<1> DEFINE left   == IF k > 0 THEN period ELSE t.left - c
           earned == t.earned + c - k * period
<1>6. Counted(i, c) = [t EXCEPT !.left = left, !.earned = earned]
  BY <1>1 DEF Counted, t, period, Timer
<1> HIDE DEF k, left, earned
<1>7. /\ n * (period - 1) \in Nat
      /\ (n + 1) * (period - 1) = n * (period - 1) + (period - 1)
  BY <1>2, Multiples
<1>8. ASSUME earned + left <= n * (period - 1) + (period - 1)
      PROVE  Slow(Counted(i, c), clock_rate, n + 1)
  <2>1. /\ Counted(i, c).left = left /\ Counted(i, c).earned = earned
        /\ Counted(i, c).frequency = t.frequency
    BY <1>1, <1>6 DEF Timer
  <2> QED
    BY <1>7, <1>8, <2>1 DEF Slow, period
<1>9. CASE t.left < c
  <2> DEFINE m == (c - t.left) \div period
  <2>1. c - t.left \in Nat
    BY <1>1, <1>9
  <2>2. m \in Nat /\ c - t.left < m * period + period
    BY <1>2, <2>1, Division
  <2>3. k = m + 1
    BY <1>5, <1>9
  <2> HIDE DEF m
  <2>4. k * period = m * period + period /\ m * period \in Nat
    BY <1>2, <2>2, <2>3
  <2>5. left = period /\ earned = t.earned + c - (m * period + period)
    BY <2>2, <2>3, <2>4 DEF left, earned
  <2>6. earned + left <= n * (period - 1) + (period - 1)
    BY <1>1, <1>2, <1>4, <1>7, <2>2, <2>4, <2>5
  <2> QED
    BY <1>8, <2>6
<1>10. CASE ~(t.left < c)
  <2>1. k = 0
    BY <1>5, <1>10
  <2>2. k * period = 0
    BY <1>2, <2>1
  <2>3. left = t.left - c /\ earned = t.earned + c
    BY <1>1, <2>1, <2>2 DEF left, earned
  <2>4. earned + left = t.earned + t.left /\ t.earned + t.left \in Int
    BY <1>1, <2>3
  <2>5. earned + left <= n * (period - 1) + (period - 1)
    BY <1>2, <1>4, <1>7, <2>4
  <2> QED
    BY <1>8, <2>5
<1> QED
  BY <1>9, <1>10

THEOREM SlowBounded == Spec => []TimersSlowBounded
<1>1. Init => SlowInv
  <2> SUFFICES ASSUME Init, NEW i \in 1..Len(timers)
               PROVE  Slow(timers[i], clock_rate, slices)
    BY DEF SlowInv
  <2>1. IInv /\ slices = 0 /\ clock_rate = SlowRate
    BY Initial DEF Init
  <2>2. timers[i].frequency \in Frequencies /\ timers[i].left \in Nat
    BY <2>1, GoodTimers DEF IInv, TimersInv
  <2>3. Period(timers[i].frequency, clock_rate) \in Nat \ {0}
    BY <2>1, <2>2, PeriodType
  <2>4. timers[i].earned + timers[i].left = 0
    <3>1. timers = [j \in 1..Len(HostTimers) |->
                      NewTimer(HostTimers[j], "host", Period(HostTimers[j], clock_rate))]
      BY DEF Init
    <3>2. i \in 1..Len(HostTimers)
      BY <3>1, TimersAssumption
    <3>3. timers[i] = NewTimer(HostTimers[i], "host", Period(HostTimers[i], clock_rate))
      BY <3>1, <3>2
    <3>4. timers[i].earned = -timers[i].left
      BY <3>3 DEF NewTimer
    <3> QED
      BY <2>2, <3>4
  <2>5. 0 * (Period(timers[i].frequency, clock_rate) - 1) = 0
    BY <2>3
  <2> QED
    BY <2>1, <2>4, <2>5 DEF Slow
<1>2. IInv /\ IInv' /\ SlowInv /\ [Next]_vars => SlowInv'
  <2> SUFFICES ASSUME IInv, IInv', SlowInv, [Next]_vars, NEW i \in 1..Len(timers')
               PROVE  Slow(timers'[i], clock_rate', slices')
    BY DEF SlowInv
  <2>0. TimersInv /\ TimersInv' /\ slices \in Nat /\ slices' \in Nat
    BY SlicesAssumption DEF IInv, BoundInv
  <2>1. ASSUME NEW c \in Slices, Plan(c)
        PROVE  Slow(timers'[i], clock_rate', slices')
    <3>1. c \in Nat
      BY SlicesAssumption
    <3>2. /\ timers' = [j \in DOMAIN timers |-> Counted(j, c)]
          /\ clock_rate' = clock_rate /\ slices' = slices + 1
      BY <2>1 DEF Plan
    <3>3. DOMAIN timers = 1..Len(timers) /\ Len(timers) \in Nat
      BY <2>0, GoodTimers DEF TimersInv
    <3>4. Len(timers') = Len(timers)
      BY <3>2, <3>3
    <3>5. i \in 1..Len(timers) /\ timers'[i] = Counted(i, c)
      BY <3>2, <3>3, <3>4
    <3>6. Slow(timers[i], clock_rate, slices)
      BY <3>5 DEF SlowInv
    <3>7. Slow(Counted(i, c), clock_rate, slices + 1)
      BY <2>0, <3>1, <3>5, <3>6, CountedIsSlow
    <3> QED
      BY <3>2, <3>5, <3>7
  <2>2. CASE GuestWrites
    <3>1. slices' = slices
      BY <2>2 DEF GuestWrites, sliceVars
    <3>2. CASE timers'[i].earned + timers'[i].left = 0
      <4>1. timers'[i].frequency \in Frequencies /\ clock_rate' \in {SlowRate, FastRate}
        BY <2>0, GoodTimers DEF TimersInv
      <4>2. Period(timers'[i].frequency, clock_rate') \in Nat \ {0}
        BY <4>1, PeriodType
      <4>3. slices' * (Period(timers'[i].frequency, clock_rate') - 1) \in Nat
        BY <2>0, <4>2, Multiples
      <4> QED
        BY <3>2, <4>3 DEF Slow
    <3>3. CASE i \in 1..Len(timers) /\ timers'[i] = timers[i] /\ clock_rate' = clock_rate
      BY <3>1, <3>3 DEF SlowInv
    <3> QED
      BY <2>0, <2>2, <3>2, <3>3, GuestResets
  <2>3. CASE UNCHANGED <<timers, clock_rate, slices>>
    BY <2>3 DEF SlowInv
  <2> QED
    BY <2>1, <2>2, <2>3 DEF Next, Round, vars, timerVars, sliceVars
<1>3. IInv /\ SlowInv => TimersSlowBounded
  BY GoodTimers DEF IInv, TimersInv, SlowInv, TimersSlowBounded
<1> QED
  BY <1>1, <1>2, <1>3, Invariance, PTL DEF Spec

-----------------------------------------------------------------------------
(* The planning loop                                                          *)

(* Induction, in a form that needs no operator: for a set of numbers. *)
LEMMA SetInduction ==
  ASSUME NEW S, 0 \in S, \A n \in S : n \in Nat => n + 1 \in S
  PROVE  Nat \subseteq S
<1> DEFINE T == Nat \ S
<1>1. SUFFICES ASSUME T # {} PROVE FALSE
  OBVIOUS
<1>2. \E a \in T : \A b \in T : ~ (<<b, a>> \in OpToRel(<, Nat))
  <2>1. T \subseteq Nat
    OBVIOUS
  <2> HIDE DEF T
  <2> QED
    BY <1>1, <2>1, WFMin, NatLessThanWellFounded
<1>3. PICK a \in T : \A b \in T : ~ (<<b, a>> \in OpToRel(<, Nat))
  BY <1>2
<1>4. \A b \in T : ~ (b < a)
  BY <1>3 DEF OpToRel
<1>5. a # 0 /\ a - 1 \in Nat /\ a - 1 < a /\ (a - 1) + 1 = a
  OBVIOUS
<1> QED
  BY <1>4, <1>5

(* The passes of runloop_tick_cycles over `retry' for one timer: pass k        *)
(* records after[k] and leaves tot[k] of the slice's c cycles, and the n-th is *)
(* the last one.                                                               *)
Retries(timer, period, c, n, after, tot) ==
  /\ after[0] = timer.left /\ tot[0] = c - timer.left
  /\ \A k \in 0..(n - 2) : /\ period <= tot[k]
                           /\ after[k + 1] = period + (c - tot[k])
                           /\ tot[k + 1] = tot[k] - period
  /\ ~(period <= tot[n - 1])

(* The closed form by which the model plans a timer's ticks is what the loop  *)
(* records, pass by pass, for any period and any length of the slice.         *)
THEOREM PlannedAsRetried ==
  ASSUME NEW timer, timer.left \in Nat, NEW period \in Nat \ {0}, NEW c \in Nat,
         timer.left < c, NEW n \in Nat \ {0}, NEW after, NEW tot,
         Retries(timer, period, c, n, after, tot)
  PROVE  /\ PlannedTimes(timer, period, c) = {after[k] : k \in 0..(n - 1)}
         /\ Cardinality(PlannedTimes(timer, period, c)) = n
<1> DEFINE left == timer.left
           Passed(k) == after[k] = left + k * period /\ tot[k] = (c - left) - k * period
           S == {k \in Nat : k <= n - 1 => Passed(k)}
           last == n - 1
<1>0. left \in Nat /\ c - left \in Nat /\ last \in Nat /\ c \in Nat
  OBVIOUS
<1>1. 0 \in S
  <2>1. after[0] = left /\ tot[0] = c - left
    BY DEF Retries
  <2>2. 0 * period = 0 /\ left + 0 = left /\ (c - left) - 0 = c - left
    BY <1>0
  <2> QED
    BY <2>1, <2>2
<1>2. ASSUME NEW k \in S, k \in Nat
      PROVE  k + 1 \in S
  <2> SUFFICES ASSUME k + 1 <= n - 1
               PROVE  Passed(k + 1)
    OBVIOUS
  <2>1. k \in 0..(n - 2)
    OBVIOUS
  <2>2. after[k] = left + k * period /\ tot[k] = (c - left) - k * period
    OBVIOUS
  <2>3. after[k + 1] = period + (c - tot[k]) /\ tot[k + 1] = tot[k] - period
    BY <2>1 DEF Retries
  <2>4. (k + 1) * period = k * period + period /\ k * period \in Nat
    BY <1>2
  <2> HIDE DEF left
  <2>5. after[k + 1] = left + (k * period + period)
        /\ tot[k + 1] = (c - left) - (k * period + period)
    BY <1>0, <2>2, <2>3, <2>4
  <2> QED
    BY <2>4, <2>5
<1>3. \A k \in 0..last : Passed(k)
  <2> HIDE DEF S
  <2>1. Nat \subseteq S
    BY <1>1, <1>2, SetInduction
  <2> QED
    BY <2>1, <1>0 DEF S
<1>4. last * period <= c - left /\ c - left < last * period + period /\ last * period \in Nat
  <2>1. last * period \in Nat
    BY <1>0
  <2>2. tot[last] = (c - left) - last * period
    BY <1>0, <1>3
  <2>3. ~(period <= tot[last])
    BY DEF Retries
  <2>4. CASE last = 0
    BY <1>0, <2>1, <2>2, <2>3, <2>4
  <2>5. CASE last # 0
    <3>1. last - 1 \in 0..(n - 2) /\ last - 1 \in Nat /\ (last - 1) + 1 = last
      BY <1>0, <2>5
    <3>2. period <= tot[last - 1] /\ tot[(last - 1) + 1] = tot[last - 1] - period
      BY <3>1 DEF Retries
    <3>3. tot[last - 1] = (c - left) - (last - 1) * period
      BY <1>0, <1>3, <3>1
    <3>4. (last - 1) * period \in Nat
      BY <3>1
    <3> HIDE DEF last, left
    <3> QED
      BY <1>0, <2>1, <2>2, <2>3, <3>1, <3>2, <3>3, <3>4
  <2> QED
    BY <2>4, <2>5
<1>5. (c - left) \div period = last
  <2> DEFINE d == c - left
             q == d \div period
  <2>1. q \in Nat /\ q * period <= d /\ d < q * period + period
    BY <1>0, Division
  <2>2. last <= q
    BY <1>0, <1>4, DivisionLeast
  <2>3. ~(last + 1 <= q)
    <3> SUFFICES ASSUME last + 1 <= q
                 PROVE  FALSE
      OBVIOUS
    <3> HIDE DEF q, last, d
    <3>1. (last + 1) * period <= q * period
      BY <1>0, <2>1
    <3>2. (last + 1) * period = last * period + period
      BY <1>0
    <3> QED
      BY <1>0, <1>4, <2>1, <3>1, <3>2 DEF d
  <2> HIDE DEF q, last
  <2> QED
    BY <1>0, <2>1, <2>2, <2>3 DEF q
<1>6. PlannedTimes(timer, period, c) = {left + k * period : k \in 0..last}
  BY <1>5 DEF PlannedTimes
<1>7. Cardinality(PlannedTimes(timer, period, c)) = last + 1
  BY <1>5, CountOfTimes
<1>8. {left + k * period : k \in 0..last} = {after[k] : k \in 0..last}
  BY <1>3
<1>9. PlannedTimes(timer, period, c) = {after[k] : k \in 0..(n - 1)}
  BY <1>6, <1>8, Zenon
<1>10. Cardinality(PlannedTimes(timer, period, c)) = n
  <2>1. (n - 1) + 1 = n
    OBVIOUS
  <2> QED
    BY <1>7, <2>1
<1> QED
  BY <1>9, <1>10

-----------------------------------------------------------------------------
(* The ticks can always be sorted, and none is lost                          *)

(* One pass of the recursion in Arrangements. *)
Takes(taken, T) ==
  IF T = {} THEN {<<>>}
  ELSE UNION {{<<t>> \o s : s \in taken[T \ {t}]} : t \in Earliest(T)}

Continues(taken, T, s) == \E t \in Earliest(T) : \E r \in taken[T \ {t}] : s = <<t>> \o r

LEMMA TakesIn ==
  ASSUME NEW f, NEW T, T # {}
  PROVE  \A s : s \in Takes(f, T) <=> Continues(f, T, s)
<1> DEFINE Behind(t) == {<<t>> \o s : s \in f[T \ {t}]}
<1>1. Takes(f, T) = UNION {Behind(t) : t \in Earliest(T)}
  BY DEF Takes
<1>2. \A s, t : s \in Behind(t) <=> \E r \in f[T \ {t}] : s = <<t>> \o r
  OBVIOUS
<1> HIDE DEF Behind
<1>3. \A s : s \in Takes(f, T) <=> \E t \in Earliest(T) : s \in Behind(t)
  BY <1>1
<1> QED
  BY <1>2, <1>3 DEF Continues

LEMMA TakesLooksBack ==
  ASSUME NEW f, NEW g, NEW T, \A t \in T : f[T \ {t}] = g[T \ {t}]
  PROVE  Takes(f, T) = Takes(g, T)
<1>1. CASE T = {}
  BY <1>1 DEF Takes
<1>2. CASE T # {}
  <2>1. \A t \in Earliest(T) : f[T \ {t}] = g[T \ {t}]
    BY DEF Earliest
  <2>2. \A s : s \in Takes(f, T) <=> s \in Takes(g, T)
    <3>1. \A s : Continues(f, T, s) <=> Continues(g, T, s)
      BY <2>1 DEF Continues
    <3> QED
      BY <1>2, <3>1, TakesIn
  <2>3. \A s \in Takes(f, T) : s \in Takes(g, T)
    BY <2>2
  <2>4. \A s \in Takes(g, T) : s \in Takes(f, T)
    BY <2>2
  <2> HIDE DEF Takes
  <2> QED
    BY <2>3, <2>4
<1> QED
  BY <1>1, <1>2

(* The recursion has a solution: from the small subsets to the large ones.   *)
Upto(S, n) == {T \in SUBSET S : Cardinality(T) <= n}
TakenUpto(S, n, f) == f = [T \in Upto(S, n) |-> Takes(f, T)]

LEMMA OneLess ==
  ASSUME NEW S, IsFiniteSet(S), NEW T \in SUBSET S, NEW t \in T
  PROVE  /\ T \ {t} \in SUBSET S /\ IsFiniteSet(T) /\ Cardinality(T) \in Nat \ {0}
         /\ Cardinality(T \ {t}) = Cardinality(T) - 1
<1>1. IsFiniteSet(T)
  BY FS_Subset
<1>2. Cardinality(T) \in Nat /\ Cardinality(T) # 0
  BY <1>1, FS_CardinalityType, FS_EmptySet
<1> QED
  BY <1>1, <1>2, FS_RemoveElement

LEMMA TakenGrows ==
  ASSUME NEW S, IsFiniteSet(S), NEW n \in Nat, NEW f, TakenUpto(S, n, f)
  PROVE  \E g : TakenUpto(S, n + 1, g)
<1> DEFINE g == [T \in Upto(S, n + 1) |-> IF Cardinality(T) <= n THEN f[T] ELSE Takes(f, T)]
<1>1. \A T \in Upto(S, n + 1) : g[T] = Takes(f, T)
  BY DEF TakenUpto, Upto
<1>2. ASSUME NEW T \in Upto(S, n + 1)
      PROVE  Takes(f, T) = Takes(g, T)
  <2>1. ASSUME NEW t \in T PROVE f[T \ {t}] = g[T \ {t}]
    <3>1. /\ T \ {t} \in SUBSET S /\ Cardinality(T \ {t}) <= n
          /\ Cardinality(T \ {t}) <= n + 1
      BY OneLess DEF Upto
    <3>2. T \ {t} \in Upto(S, n + 1)
      BY <3>1 DEF Upto
    <3> QED
      BY <3>1, <3>2
  <2> HIDE DEF g
  <2> QED
    BY <2>1, TakesLooksBack
<1>3. g = [T \in Upto(S, n + 1) |-> Takes(g, T)]
  <2>1. \A T \in Upto(S, n + 1) : g[T] = Takes(g, T)
    BY <1>1, <1>2
  <2>2. g = [T \in Upto(S, n + 1) |-> g[T]]
    OBVIOUS
  <2> HIDE DEF g
  <2> QED
    BY <2>1, <2>2
<1> QED
  BY <1>3 DEF TakenUpto

LEMMA TakenExists ==
  ASSUME NEW S, IsFiniteSet(S)
  PROVE  \E f : f = [T \in SUBSET S |-> Takes(f, T)]
<1> DEFINE N == {n \in Nat : \E f : TakenUpto(S, n, f)}
<1>1. 0 \in N
  <2> DEFINE f == [T \in Upto(S, 0) |-> {<<>>}]
  <2>1. ASSUME NEW T \in Upto(S, 0) PROVE T = {}
    <3>1. IsFiniteSet(T) /\ Cardinality(T) \in Nat /\ Cardinality(T) <= 0
      BY FS_Subset, FS_CardinalityType DEF Upto
    <3> QED
      BY <3>1, FS_EmptySet
  <2>2. \A T \in Upto(S, 0) : Takes(f, T) = {<<>>}
    BY <2>1 DEF Takes
  <2>3. f = [T \in Upto(S, 0) |-> Takes(f, T)]
    BY <2>2
  <2>4. \E h : TakenUpto(S, 0, h)
    BY <2>3 DEF TakenUpto
  <2> QED
    BY <2>4
<1>2. \A n \in N : n \in Nat => n + 1 \in N
  BY TakenGrows
<1>3. Cardinality(S) \in N
  <2> HIDE DEF N
  <2> QED
    BY <1>1, <1>2, SetInduction, FS_CardinalityType
<1>4. Upto(S, Cardinality(S)) = SUBSET S
  BY FS_Subset DEF Upto
<1> QED
  BY <1>3, <1>4 DEF TakenUpto

LEMMA ArrangementsAre ==
  ASSUME NEW S, IsFiniteSet(S)
  PROVE  \E f : f = [T \in SUBSET S |-> Takes(f, T)] /\ Arrangements(S) = f[S]
<1> DEFINE taken == CHOOSE f : f = [T \in SUBSET S |-> Takes(f, T)]
<1>1. PICK g : g = [T \in SUBSET S |-> Takes(g, T)]
  BY TakenExists
<1>2. taken = [T \in SUBSET S |-> Takes(taken, T)]
  BY <1>1, Zenon
<1>3. Arrangements(S) = taken[S]
  BY Zenon DEF Arrangements, Takes
<1> QED
  BY <1>2, <1>3

-----------------------------------------------------------------------------
(* What sorting a set of ticks gives: each of them once, in order.            *)
Arranged(T, s) ==
  /\ s \in Seq(T) /\ Len(s) = Cardinality(T)
  /\ \A i, j \in 1..Len(s) : i < j => s[i] # s[j] /\ s[i].after <= s[j].after
  /\ \A t \in T : \E i \in 1..Len(s) : s[i] = t

LEMMA EarliestExists ==
  ASSUME NEW T, T # {}, \A t \in T : t.after \in Nat
  PROVE  Earliest(T) # {}
<1> DEFINE A == {t.after : t \in T}
<1>1. A \subseteq Nat /\ A # {}
  OBVIOUS
<1>2. \E a \in A : \A b \in A : ~ (<<b, a>> \in OpToRel(<, Nat))
  <2> HIDE DEF A
  <2> QED
    BY <1>1, WFMin, NatLessThanWellFounded
<1>3. PICK t \in T : \A u \in T : ~ (<<u.after, t.after>> \in OpToRel(<, Nat))
  BY <1>2
<1>4. ASSUME NEW u \in T PROVE t.after <= u.after
  <2>1. u.after \in Nat /\ t.after \in Nat
    OBVIOUS
  <2>2. ~(u.after < t.after)
    BY <1>3, <2>1 DEF OpToRel
  <2> QED
    BY <2>1, <2>2
<1> QED
  BY <1>4 DEF Earliest

LEMMA OneMore ==
  ASSUME NEW T, IsFiniteSet(T), NEW t \in Earliest(T), \A u \in T : u.after \in Nat,
         NEW r, Arranged(T \ {t}, r)
  PROVE  Arranged(T, <<t>> \o r)
<1> DEFINE s == <<t>> \o r
           n == Len(r)
<1>1. /\ t \in T /\ \A u \in T : t.after <= u.after
      /\ r \in Seq(T \ {t}) /\ n \in Nat
      /\ \A k \in 1..n : r[k] \in T \ {t}
  <2>1. t \in T /\ \A u \in T : t.after <= u.after
    BY DEF Earliest
  <2>2. r \in Seq(T \ {t})
    BY DEF Arranged
  <2>3. n \in Nat /\ \A k \in 1..n : r[k] \in T \ {t}
    BY <2>2
  <2> QED
    BY <2>1, <2>2, <2>3
<1>2. /\ s \in Seq(T) /\ Len(s) = n + 1 /\ s[1] = t
      /\ \A k \in 1..n : s[k + 1] = r[k]
  BY <1>1
<1>3. \A k \in 2..(n + 1) : k - 1 \in 1..n /\ s[k] = r[k - 1]
  <2>1. \A k \in 2..(n + 1) : k - 1 \in 1..n /\ (k - 1) + 1 = k
    BY <1>1
  <2> HIDE DEF s, n
  <2> QED
    BY <1>2, <2>1
<1>4. Len(s) = Cardinality(T)
  <2>1. n = Cardinality(T) - 1 /\ Cardinality(T) \in Nat
    BY <1>1, FS_RemoveElement, FS_CardinalityType DEF Arranged
  <2> HIDE DEF s, n
  <2> QED
    BY <1>2, <2>1
<1> HIDE DEF s, n
<1>5. ASSUME NEW i \in 1..(n + 1), NEW j \in 1..(n + 1), i < j
      PROVE  s[i] # s[j] /\ s[i].after <= s[j].after
  <2>1. j \in 2..(n + 1)
    BY <1>1, <1>5
  <2>2. CASE i = 1
    BY <1>1, <1>2, <1>3, <2>1, <2>2
  <2>3. CASE i # 1
    <3>1. i \in 2..(n + 1) /\ i - 1 < j - 1
      BY <1>1, <1>5, <2>3
    <3>2. r[i - 1] # r[j - 1] /\ r[i - 1].after <= r[j - 1].after
      BY <1>3, <2>1, <3>1 DEF Arranged, n
    <3> QED
      BY <1>3, <2>1, <3>1, <3>2
  <2> QED
    BY <2>2, <2>3
<1>6. ASSUME NEW u \in T
      PROVE  \E i \in 1..(n + 1) : s[i] = u
  <2>1. CASE u = t
    BY <1>1, <1>2, <2>1
  <2>2. CASE u # t
    <3>1. PICK k \in 1..n : r[k] = u
      BY <2>2 DEF Arranged, n
    <3>2. k + 1 \in 1..(n + 1) /\ s[k + 1] = u
      BY <1>1, <1>2, <3>1
    <3> QED
      BY <3>2
  <2> QED
    BY <2>1, <2>2
<1>7. Arranged(T, s)
  BY <1>2, <1>4, <1>5, <1>6 DEF Arranged
<1> QED
  BY <1>7 DEF s

LEMMA TakenArranged ==
  ASSUME NEW S, IsFiniteSet(S), \A t \in S : t.after \in Nat,
         NEW f, f = [T \in SUBSET S |-> Takes(f, T)]
  PROVE  f[S] # {} /\ \A s \in f[S] : Arranged(S, s)
<1> DEFINE Fine(T) == f[T] # {} /\ \A s \in f[T] : Arranged(T, s)
           N == {n \in Nat : \A T \in SUBSET S : Cardinality(T) = n => Fine(T)}
<1>0. \A T \in SUBSET S : f[T] = Takes(f, T)
  OBVIOUS
<1>1. 0 \in N
  <2> SUFFICES ASSUME NEW T \in SUBSET S, Cardinality(T) = 0
               PROVE  Fine(T)
    OBVIOUS
  <2>1. T = {}
    BY FS_Subset, FS_EmptySet
  <2>2. f[T] = {<<>>}
    BY <1>0, <2>1 DEF Takes
  <2>3. Arranged({}, <<>>)
    BY FS_EmptySet DEF Arranged
  <2> QED
    BY <2>1, <2>2, <2>3
<1>2. ASSUME NEW n \in N, n \in Nat
      PROVE  n + 1 \in N
  <2> SUFFICES \A T \in SUBSET S : Cardinality(T) = n + 1 => Fine(T)
    <3> HIDE DEF Fine
    <3> QED
      BY <1>2
  <2> SUFFICES ASSUME NEW T \in SUBSET S, Cardinality(T) = n + 1
               PROVE  Fine(T)
    OBVIOUS
  <2>1. T # {}
    <3> SUFFICES ASSUME T = {} PROVE FALSE
      OBVIOUS
    <3> QED
      BY <1>2, FS_EmptySet
  <2>2. IsFiniteSet(T)
    BY FS_Subset
  <2>3. ASSUME NEW t \in T PROVE Fine(T \ {t})
    <3>1. T \ {t} \in SUBSET S /\ Cardinality(T \ {t}) = n
      BY <1>2, OneLess
    <3> HIDE DEF Fine
    <3> QED
      BY <1>2, <3>1
  <2>4. PICK t : t \in Earliest(T)
    BY <2>1, EarliestExists
  <2>5. \A u \in Earliest(T) : u \in T
    BY DEF Earliest
  <2>6. PICK r : r \in f[T \ {t}]
    BY <2>3, <2>4, <2>5
  <2>0. \A s : s \in f[T] <=> Continues(f, T, s)
    <3>1. f[T] = Takes(f, T)
      BY <1>0
    <3> QED
      BY <2>1, <3>1, TakesIn
  <2>7. <<t>> \o r \in f[T]
    BY <2>0, <2>4, <2>6 DEF Continues
  <2>8. ASSUME NEW s \in f[T] PROVE Arranged(T, s)
    <3>1. PICK u \in Earliest(T) : \E q \in f[T \ {u}] : s = <<u>> \o q
      BY <2>0, <2>8 DEF Continues
    <3>2. PICK q \in f[T \ {u}] : s = <<u>> \o q
      BY <3>1
    <3>3. Arranged(T \ {u}, q)
      BY <2>3, <2>5, <3>2
    <3>4. \A v \in T : v.after \in Nat
      OBVIOUS
    <3>5. Arranged(T, <<u>> \o q)
      BY <2>2, <3>3, <3>4, OneMore
    <3> QED
      BY <3>2, <3>5
  <2> QED
    BY <2>7, <2>8
<1>3. Cardinality(S) \in N
  <2> HIDE DEF N
  <2> QED
    BY <1>1, <1>2, SetInduction, FS_CardinalityType
<1>4. S \in SUBSET S /\ Fine(S)
  BY <1>3
<1> QED
  BY <1>4

(* However many ticks fall on one cycle, there is a way to sort them; each way *)
(* has every tick once; and the condition in Orders holds of every            *)
(* arrangement, so that it removes none.                                     *)
LEMMA SortingSorts ==
  ASSUME NEW S, IsFiniteSet(S), \A t \in S : t.after \in Nat
  PROVE  /\ Orders(S) = Arrangements(S) /\ Orders(S) # {}
         /\ \A s \in Orders(S) : Arranged(S, s)
<1>1. PICK f : f = [T \in SUBSET S |-> Takes(f, T)] /\ Arrangements(S) = f[S]
  BY ArrangementsAre
<1>2. Arrangements(S) # {} /\ \A s \in Arrangements(S) : Arranged(S, s)
  BY <1>1, TakenArranged
<1> HIDE DEF Arrangements
<1>3. Orders(S) = Arrangements(S)
  BY <1>2 DEF Orders, Arranged
<1> QED
  BY <1>2, <1>3

(* A slice plans finitely many ticks: a slot and a cycle determine each.      *)
LEMMA FinitelyPlanned ==
  ASSUME IInv, NEW c \in Slices
  PROVE  IsFiniteSet(Planned(c)) /\ \A t \in Planned(c) : t.after \in Nat
<1> DEFINE D == (1..Len(timers)) \X (0..c)
           f == [d \in D |-> [slot |-> d[1], after |-> d[2], owner |-> timers[d[1]].owner]]
           R == {f[d] : d \in D}
<1>1. c \in Nat /\ Len(timers) \in Nat /\ DOMAIN timers = 1..Len(timers)
  BY SlicesAssumption, GoodTimers DEF IInv, TimersInv
<1>2. IsFiniteSet(1..Len(timers)) /\ IsFiniteSet(0..c)
  BY <1>1, FS_Interval
<1>3. IsFiniteSet(D)
  BY <1>2, FS_Product
<1>4. f \in Surjection(D, R)
  BY DEF Surjection
<1>5. IsFiniteSet(R)
  <2> HIDE DEF D, f, R
  <2> QED
    BY <1>3, <1>4, FS_Surjection
<1>6. ASSUME NEW t \in Planned(c) PROVE t \in R /\ t.after \in Nat
  <2>1. /\ t.after \in 0..c /\ t.slot \in 1..Len(timers)
        /\ timers[t.slot].owner = t.owner
    BY <1>1, PlannedTicks DEF IInv
  <2>2. t = [slot |-> t.slot, after |-> t.after, owner |-> t.owner]
    BY DEF Planned
  <2>3. <<t.slot, t.after>> \in D /\ f[<<t.slot, t.after>>] = t
    BY <2>1, <2>2
  <2> QED
    BY <2>1, <2>3
<1>7. Planned(c) \in SUBSET R
  BY <1>6
<1> HIDE DEF R
<1> QED
  BY <1>5, <1>6, <1>7, FS_Subset

(* Planning never gets stuck for want of an order, and the array holds every  *)
(* planned tick exactly once in front of the entries earlier slices left:     *)
(* none is lost or doubled by the sorting or by the growth of the array.      *)
AlwaysSortable == \A c \in Slices : Orders(Planned(c)) # {}

AllPlanned ==
  \A c \in Slices : Plan(c) =>
    /\ current_tick' = Cardinality(Planned(c))
    /\ \A t \in Planned(c) : \E j \in 1..current_tick' : ticks'[j] = t
    /\ \A i, j \in 1..current_tick' : i < j => ticks'[i] # ticks'[j]

NoTickLost == [][AllPlanned]_vars

THEOREM PlansAreComplete == Spec => NoTickLost /\ []AlwaysSortable
<1>1. IInv => AlwaysSortable
  BY FinitelyPlanned, SortingSorts DEF AlwaysSortable
<1>2. IInv /\ [Next]_vars => AllPlanned
  <2> SUFFICES ASSUME IInv, NEW c \in Slices, Plan(c)
               PROVE  /\ current_tick' = Cardinality(Planned(c))
                      /\ \A t \in Planned(c) : \E j \in 1..current_tick' : ticks'[j] = t
                      /\ \A i, j \in 1..current_tick' : i < j => ticks'[i] # ticks'[j]
    BY DEF AllPlanned
  <2>1. PICK s \in Orders(Planned(c)) :
          (\E garbage : ticks' = Written(s, garbage)) /\ current_tick' = Len(s)
    BY DEF Plan
  <2>2. Arranged(Planned(c), s)
    BY <2>1, FinitelyPlanned, SortingSorts
  <2>3. Len(s) \in Nat /\ Len(ticks) \in Nat
    BY <2>2 DEF Arranged, IInv, SliceInv
  <2>4. Capacity(Len(s)) \in Nat /\ Len(s) < Capacity(Len(s))
    BY <2>3, CapacityIsMore
  <2>5. \A j \in 1..Len(s) : ticks'[j] = s[j]
    BY <2>1, <2>3, <2>4 DEF Written
  <2> QED
    BY <2>1, <2>2, <2>5 DEF Arranged
<1> QED
  BY <1>1, <1>2, Invariance, PTL DEF Spec, NoTickLost
==============================================================================
