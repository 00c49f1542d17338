---------------------------- MODULE DebuggerProofs ----------------------------
(***************************************************************************)
(* What the debugger promises, for every address space, every number of    *)
(* breakpoints and hooks, every size of the hook arrays, and every code    *)
(* that a step over can find at PC.                                        *)
(***************************************************************************)
EXTENDS Debugger, SequenceTheorems, FiniteSetTheorems, WellFoundedInduction, TLAPS

Slot == Nat \cup {Free, Wild}
Looping == {"before", "check", "tick", "after", "test"}

(* The hook arrays and those who are registered in them. *)
DataTyped ==
  /\ chunk \in Nat \ {0}
  /\ chunk \in Chunks
  /\ callbacks \in [Kinds -> Seq(Slot)]
  /\ breaks \in Seq(BreakData)
  /\ ons \in Nat

SlotsInv ==
  \A s \in Called(Before) :
    \/ callbacks[Before][s] = Wild
    \/ /\ callbacks[Before][s] \in DOMAIN breaks
       /\ breaks[callbacks[Before][s]].hook_id = s

Registered(i) ==
  /\ breaks[i].hook_id \in DOMAIN callbacks[Before]
  /\ callbacks[Before][breaks[i].hook_id] = i

KeptInv == ~Grew => \A i \in DOMAIN breaks : breaks[i].count = 0 \/ Registered(i)

OnsInv == \A k \in 1..ons : \E s \in DOMAIN callbacks[On] : callbacks[On][s] = k

DataInv ==
  /\ DataTyped
  /\ Len(callbacks[Before]) >= chunk
  /\ SlotsInv
  /\ KeptInv
  /\ OnsInv

(* Where command_run is, what it has done, and the stops that came in. *)
ControlTyped ==
  /\ PC \in Addresses /\ iff \in BOOLEAN /\ guest_iff \in BOOLEAN /\ undone \in BOOLEAN
  /\ stopped \in {0, 1}
  /\ at \in Looping \cup {"prompt", "exited", "crashed"}
  /\ left \in Nat \cup {Endless}
  /\ first \in BOOLEAN /\ hiding \in BOOLEAN /\ saved \in BOOLEAN
  /\ ran \in BOOLEAN /\ since \in Int

LoopInv ==
  /\ at \in Looping => left # 0
  /\ at \in {"before", "check"} => first = ~ran
  /\ at \in {"tick", "after", "test"} => ~first
  /\ at \in {"after", "test"} => ran

SinceInv ==
  /\ since >= -1 /\ since <= 1
  /\ at \in Looping /\ since >= 0 => stopped = 1
  /\ at \in {"before", "check", "tick"} => since <= 0

FlipInv ==
  \/ undone
  \/ IF at = "tick" /\ hiding THEN saved = guest_iff ELSE iff = guest_iff

ControlInv == ControlTyped /\ LoopInv /\ SinceInv /\ FlipInv

(* How the two meet: a stop has a reason, and a breakpoint is one. Those that  *)
(* are not used up are active, and stop whoever comes by.                    *)
Active == {breaks[i].address : i \in {j \in DOMAIN breaks : breaks[j].count # 0}}

BreakAtPC == \E i \in DOMAIN breaks : breaks[i].address = PC

MeetInv ==
  /\ at = "check" /\ ~Grew /\ PC \in Active => stopped = 1
  /\ at = "tick" /\ ran /\ ~Grew => PC \notin Active
  /\ at \in {"before", "tick", "after"} /\ since = -1 => stopped = 0
  /\ at \in {"check", "test"} /\ since = -1 /\ stopped = 1 => BreakAtPC
  /\ StopsWhereAsked

IInv == DataInv /\ ControlInv /\ MeetInv

-----------------------------------------------------------------------------
(* The hook arrays. *)

(* After realloc: the old slots are kept, or are free now; the new ones are   *)
(* free or wild.                                                             *)
GrownFrom(kind, s, n, g) ==
  /\ g \in Seq(Slot)
  /\ Len(g) = Len(s) + n
  /\ \A j \in 1..(Len(s) + n) :
       \/ j <= Len(s) /\ g[j] = s[j]
       \/ g[j] \in {Free, Wild}
  /\ kind \notin ExecutionKinds => \A j \in 1..Len(s) : g[j] = s[j]

LEMMA GrownIs ==
  ASSUME NEW kind, NEW s \in Seq(Slot), NEW n \in Nat \ {0},
         NEW fresh \in [1..n -> {Free, Wild}]
  PROVE  GrownFrom(kind, s, n, Grown(kind, s, n, fresh))
<1>1. Len(s) \in Nat /\ n \in Nat /\ n >= 1
  BY LenProperties
<1>2. \A j \in 1..Len(s) : s[j] \in Slot
  BY ElementOfSeq
<1>3. {Free, Wild} \subseteq Slot
  BY DEF Slot
<1>4. CASE kind \in ExecutionKinds
  <2> DEFINE total == Len(s) + n
  <2> DEFINE value(j) == IF j <= n THEN Free ELSE IF j <= Len(s) THEN s[j] ELSE fresh[j - Len(s)]
  <2>1. total \in Nat
    BY <1>1
  <2>2. ASSUME NEW j \in 1..total
        PROVE  /\ value(j) \in Slot
               /\ (j <= Len(s) /\ value(j) = s[j]) \/ value(j) \in {Free, Wild}
    <3>1. CASE j <= n
      BY <3>1, <1>3
    <3>2. CASE ~(j <= n) /\ j <= Len(s)
      BY <3>2, <1>1, <1>2
    <3>3. CASE ~(j <= n) /\ ~(j <= Len(s))
      <4>1. j - Len(s) \in 1..n
        BY <3>3, <1>1
      <4>2. fresh[j - Len(s)] \in {Free, Wild}
        BY <4>1
      <4> QED
        BY <4>2, <3>3, <1>3
    <3> QED
      BY <3>1, <3>2, <3>3
  <2>6. \A j \in 1..total : value(j) \in Slot
    BY <2>2
  <2>7. \A j \in 1..total : (j <= Len(s) /\ value(j) = s[j]) \/ value(j) \in {Free, Wild}
    BY <2>2
  <2>3. Grown(kind, s, n, fresh) = [j \in 1..total |-> value(j)]
    BY <1>4 DEF Grown
  <2> HIDE DEF value, total
  <2>4. [j \in 1..total |-> value(j)] \in Seq(Slot)
    <3>1. [j \in 1..total |-> value(j)] \in [1..total -> Slot]
      BY <2>6
    <3> QED
      BY <2>1, <3>1, SeqDef
  <2>5. Len([j \in 1..total |-> value(j)]) = total
    BY <2>1
  <2> QED
    BY <2>7, <2>3, <2>4, <2>5, <1>4 DEF total, GrownFrom
<1>5. CASE kind \notin ExecutionKinds
  <2>1. Empty(n) \in Seq(Slot) /\ Len(Empty(n)) = n
    BY <1>1, <1>3 DEF Empty
  <2>2. \A j \in 1..n : Empty(n)[j] = Free
    BY DEF Empty
  <2>3. Grown(kind, s, n, fresh) = s \o Empty(n)
    BY <1>5 DEF Grown
  <2>4. \A j \in 1..(Len(s) + n) :
          (s \o Empty(n))[j] = IF j <= Len(s) THEN s[j] ELSE Free
    <3> SUFFICES ASSUME NEW j \in 1..(Len(s) + n)
                 PROVE  (s \o Empty(n))[j] = IF j <= Len(s) THEN s[j] ELSE Free
      OBVIOUS
    <3>1. (s \o Empty(n))[j] = IF j <= Len(s) THEN s[j] ELSE Empty(n)[j - Len(s)]
      BY <2>1, ConcatProperties
    <3>2. ~(j <= Len(s)) => j - Len(s) \in 1..n
      BY <1>1
    <3> QED
      BY <3>1, <3>2, <2>2
  <2>5. s \o Empty(n) \in Seq(Slot) /\ Len(s \o Empty(n)) = Len(s) + n
    BY <2>1, ConcatProperties
  <2> QED
    BY <2>3, <2>4, <2>5, <1>1 DEF GrownFrom
<1> QED
  BY <1>4, <1>5

(* What adding data at i makes of an array s: the slot holds the data and was  *)
(* nobody's before; the others are kept, or free or wild if the array grew.   *)
Keeps(s, t) == \A j \in DOMAIN s : s[j] # Free => j \in DOMAIN t /\ t[j] = s[j]

Added(kind, data, i, s, t) ==
  /\ t \in Seq(Slot) /\ DOMAIN t = 1..Len(t)
  /\ i \in DOMAIN t /\ t[i] = data
  /\ i \in Nat \ {0}
  /\ Len(t) >= Len(s)
  /\ \A j \in DOMAIN t \ {i} : (j \in DOMAIN s /\ t[j] = s[j]) \/ t[j] \in {Free, Wild}
  /\ Len(t) = Len(s) \/ Len(t) = Len(s) + chunk
  /\ kind \notin ExecutionKinds \/ Len(t) = Len(s) => Keeps(s, t)

LEMMA Adding ==
  ASSUME chunk \in Nat \ {0}, callbacks \in [Kinds -> Seq(Slot)],
         NEW kind \in Kinds, NEW data \in Nat, NEW i, hook_add(kind, data, i)
  PROVE  /\ chunk' = chunk
         /\ callbacks' \in [Kinds -> Seq(Slot)]
         /\ \A k \in Kinds \ {kind} : callbacks'[k] = callbacks[k]
         /\ Added(kind, data, i, callbacks[kind], callbacks'[kind])
<1> DEFINE s == callbacks[kind]
<1>1. s \in Seq(Slot) /\ Len(s) \in Nat /\ DOMAIN s = 1..Len(s)
  BY LenProperties
<1>2. data \in Slot
  BY DEF Slot
<1>3. chunk' = chunk
  BY DEF hook_add
<1>4. CASE /\ IsFirstFree(s, 1, i)
           /\ callbacks' = [callbacks EXCEPT ![kind][i] = data]
  <2>1. i \in 1..Len(s) /\ s[i] = Free
    BY <1>4 DEF IsFirstFree, InUse
  <2> DEFINE t == [s EXCEPT ![i] = data]
  <2>2. t \in Seq(Slot) /\ Len(t) = Len(s) /\ DOMAIN t = DOMAIN s
    BY <2>1, <1>1, <1>2, ExceptSeq
  <2>3. \A j \in DOMAIN s : t[j] = IF j = i THEN data ELSE s[j]
    OBVIOUS
  <2>4. callbacks' = [callbacks EXCEPT ![kind] = t]
    BY <1>4
  <2> HIDE DEF t
  <2>5. callbacks'[kind] = t
    BY <2>4
  <2>6. callbacks' \in [Kinds -> Seq(Slot)] /\ \A k \in Kinds \ {kind} : callbacks'[k] = callbacks[k]
    BY <2>4, <2>2
  <2> HIDE DEF s
  <2>7. i \in DOMAIN t /\ t[i] = data /\ i \in Nat \ {0}
    BY <2>1, <2>2, <2>3, <1>1
  <2>8. \A j \in DOMAIN t \ {i} : j \in DOMAIN s /\ t[j] = s[j]
    BY <2>2, <2>3
  <2>9. \A j \in DOMAIN s : s[j] # Free => j \in DOMAIN t /\ t[j] = s[j]
    BY <2>1, <2>2, <2>3
  <2>10. Added(kind, data, i, s, t)
    BY <2>2, <2>7, <2>8, <2>9, <1>1 DEF Added, Keeps
  <2> QED
    BY <1>3, <2>5, <2>6, <2>10 DEF s
<1>5. CASE \E fresh \in [1..chunk -> {Free, Wild}] :
             /\ IsFirstFree(Grown(kind, s, chunk, fresh), Len(s) + 1, i)
             /\ callbacks' = [callbacks EXCEPT ![kind] = [Grown(kind, s, chunk, fresh) EXCEPT ![i] = data]]
  <2>1. PICK fresh \in [1..chunk -> {Free, Wild}] :
             /\ IsFirstFree(Grown(kind, s, chunk, fresh), Len(s) + 1, i)
             /\ callbacks' = [callbacks EXCEPT ![kind] = [Grown(kind, s, chunk, fresh) EXCEPT ![i] = data]]
    BY <1>5
  <2> HIDE DEF s
  <2> DEFINE g == Grown(kind, s, chunk, fresh)
  <2>3. IsFirstFree(g, Len(s) + 1, i)
    BY <2>1
  <2>2. /\ g \in Seq(Slot) /\ Len(g) = Len(s) + chunk
        /\ \A j \in 1..(Len(s) + chunk) :
              (j <= Len(s) /\ g[j] = s[j]) \/ g[j] \in {Free, Wild}
        /\ kind \notin ExecutionKinds => \A j \in 1..Len(s) : g[j] = s[j]
    <3>1. s \in Seq(Slot)
      BY <1>1
    <3>2. GrownFrom(kind, s, chunk, g)
      BY <3>1, GrownIs
    <3> HIDE DEF g
    <3> QED
      BY <3>2 DEF GrownFrom
  <2> HIDE DEF g
  <2>4. i \in 1..Len(g) /\ i > Len(s) /\ i \in Nat \ {0}
    BY <2>2, <2>3, <1>1 DEF IsFirstFree
  <2> DEFINE t == [g EXCEPT ![i] = data]
  <2>5. t \in Seq(Slot) /\ Len(t) = Len(g) /\ DOMAIN t = DOMAIN g /\ DOMAIN g = 1..Len(g)
    BY <2>2, <2>4, <1>2, ExceptSeq
  <2>6. \A j \in DOMAIN g : t[j] = IF j = i THEN data ELSE g[j]
    OBVIOUS
  <2>7. callbacks' = [callbacks EXCEPT ![kind] = t]
    BY <2>1 DEF g
  <2> HIDE DEF t
  <2>8. callbacks'[kind] = t
    BY <2>7
  <2>9. callbacks' \in [Kinds -> Seq(Slot)] /\ \A k \in Kinds \ {kind} : callbacks'[k] = callbacks[k]
    BY <2>5, <2>7
  <2> HIDE DEF s
  <2>10. i \in DOMAIN t /\ t[i] = data
    BY <2>4, <2>5, <2>6
  <2>11. \A j \in DOMAIN t \ {i} : (j \in DOMAIN s /\ t[j] = s[j]) \/ t[j] \in {Free, Wild}
    BY <2>2, <2>5, <2>6, <1>1
  <2>12. Len(t) = Len(s) + chunk /\ Len(t) >= Len(s) /\ Len(t) # Len(s)
    <3>1. Len(t) = Len(s) + chunk
      BY <2>2, <2>5
    <3>2. Len(s) \in Nat /\ chunk \in Nat \ {0}
      BY <1>1
    <3> HIDE DEF t
    <3> QED
      BY <3>1, <3>2
  <2>13. kind \notin ExecutionKinds =>
           \A j \in DOMAIN s : s[j] # Free => j \in DOMAIN t /\ t[j] = s[j]
    BY <2>2, <2>4, <2>5, <2>6, <1>1
  <2>14. Added(kind, data, i, s, t)
    BY <2>4, <2>5, <2>10, <2>11, <2>12, <2>13 DEF Added, Keeps
  <2> QED
    BY <1>3, <2>8, <2>9, <2>14 DEF s
<1> QED
  BY <1>4, <1>5 DEF hook_add

(* A breakpoint that is added, by break or by step_over. *)
LEMMA SettingKeeps ==
  ASSUME DataInv, NEW address \in Addresses, NEW count \in Int, NEW after \in Addresses,
         NEW misjudged \in BOOLEAN, SetBreak(address, count, after, misjudged), ons' = ons
  PROVE  /\ DataInv'
         /\ \A i \in DOMAIN breaks : i \in DOMAIN breaks' /\ breaks'[i] = breaks[i]
<1> DEFINE new == Len(breaks) + 1
<1>1. /\ chunk \in Nat \ {0} /\ chunk \in Chunks /\ callbacks \in [Kinds -> Seq(Slot)]
      /\ breaks \in Seq(BreakData) /\ ons \in Nat
      /\ Before \in Kinds /\ On \in Kinds /\ On # Before /\ Before \in ExecutionKinds
  BY KindsAssumption, ArraysAssumption DEF DataInv, DataTyped
<1>2. PICK i :
        /\ hook_add(Before, new, i)
        /\ breaks' = Append(breaks, [address |-> address, count |-> count,
                                     hook_id |-> i, after |-> after,
                                     misjudged |-> misjudged])
  BY DEF SetBreak
<1> DEFINE s == callbacks[Before]
           t == callbacks'[Before]
           record == [address |-> address, count |-> count, hook_id |-> i, after |-> after,
                      misjudged |-> misjudged]
<1>3. Len(breaks) \in Nat /\ new \in Nat /\ DOMAIN breaks = 1..Len(breaks)
  BY <1>1, LenProperties
<1>4. /\ chunk' = chunk /\ callbacks' \in [Kinds -> Seq(Slot)]
      /\ \A k \in Kinds \ {Before} : callbacks'[k] = callbacks[k]
      /\ Added(Before, new, i, s, t)
  BY <1>1, <1>2, <1>3, Adding
<1>5. record \in BreakData
  BY <1>4 DEF BreakData, Added
<1>6. /\ breaks' \in Seq(BreakData) /\ DOMAIN breaks' = 1..new
      /\ \A k \in DOMAIN breaks : breaks'[k] = breaks[k]
      /\ breaks'[new] = record
  <2>1. breaks' = Append(breaks, record)
    BY <1>2
  <2> HIDE DEF record
  <2>2. /\ Append(breaks, record) \in Seq(BreakData)
        /\ Len(Append(breaks, record)) = new
        /\ \A k \in 1..Len(breaks) : Append(breaks, record)[k] = breaks[k]
        /\ Append(breaks, record)[Len(breaks) + 1] = record
    BY <1>1, <1>5, AppendProperties
  <2> QED
    BY <2>1, <2>2, <1>3, LenProperties
<1>7. record.hook_id = i /\ record.count = count
  OBVIOUS
<1>8. /\ new \notin DOMAIN breaks /\ new \in DOMAIN breaks'
      /\ \A k \in DOMAIN breaks : k \in DOMAIN breaks'
      /\ \A k \in DOMAIN breaks' : k = new \/ k \in DOMAIN breaks
  BY <1>3, <1>6
<1> HIDE DEF record, new
<1>9. DataTyped'
  BY <1>1, <1>4, <1>6 DEF DataTyped
<1>10. Len(s) >= chunk /\ Len(s) \in Nat /\ Len(t) \in Nat /\ DOMAIN s = 1..Len(s) /\ DOMAIN t = 1..Len(t)
  BY <1>1, <1>4, LenProperties DEF DataInv
<1>11. Free # Wild /\ new # Free /\ new # Wild
  BY <1>3, FreeAssumption, SlotsAssumption
<1>12. SlotsInv'
  <2> SUFFICES ASSUME NEW j \in DOMAIN t, t[j] # Free
               PROVE  \/ t[j] = Wild
                      \/ t[j] \in DOMAIN breaks' /\ breaks'[t[j]].hook_id = j
    BY Zenon DEF SlotsInv, Called, InUse
  <2>1. CASE j = i
    BY <2>1, <1>4, <1>6, <1>7, <1>8 DEF Added
  <2>2. CASE j # i /\ j \in DOMAIN s /\ t[j] = s[j]
    <3>1. s[j] = Wild \/ (s[j] \in DOMAIN breaks /\ breaks[s[j]].hook_id = j)
      BY <2>2 DEF DataInv, SlotsInv, Called, InUse
    <3> HIDE DEF s, t
    <3> QED
      BY <3>1, <2>2, <1>6, <1>8
  <2>3. CASE t[j] \in {Free, Wild}
    BY <2>3
  <2> QED
    BY <2>1, <2>2, <2>3, <1>4 DEF Added
<1>13. KeptInv'
  <2>1. SUFFICES ASSUME ~(Len(t) > chunk), NEW k \in DOMAIN breaks', breaks'[k].count # 0
                 PROVE  breaks'[k].hook_id \in DOMAIN t /\ t[breaks'[k].hook_id] = k
    BY <1>4 DEF KeptInv, Grew, Registered
  <2> HIDE DEF s, t
  <2>2. Len(t) = Len(s)
    <3>1. Len(t) = Len(s) \/ Len(t) = Len(s) + chunk
      BY <1>4 DEF Added
    <3>2. chunk \in Nat /\ chunk > 0 /\ Len(s) >= chunk /\ Len(s) \in Nat /\ Len(t) \in Nat
      BY <1>1, <1>10
    <3>3. ~(Len(t) > chunk)
      BY <2>1
    <3> QED
      BY <3>1, <3>2, <3>3
  <2>3. Keeps(s, t)
    BY <1>4, <2>2 DEF Added
  <2>4. CASE k = new
    BY <2>4, <1>4, <1>6, <1>7 DEF Added
  <2>5. CASE k \in DOMAIN breaks
    <3>1. ~Grew
      BY <2>1, <2>2 DEF Grew, s, t
    <3>2. breaks'[k] = breaks[k]
      BY <2>5, <1>6
    <3>3. breaks[k].hook_id \in DOMAIN s /\ s[breaks[k].hook_id] = k
      BY <2>1, <2>5, <3>1, <3>2 DEF DataInv, KeptInv, Registered, s
    <3>4. k # Free
      BY <2>5, <1>3, SlotsAssumption
    <3> QED
      BY <2>3, <3>2, <3>3, <3>4 DEF Keeps
  <2> QED
    BY <2>4, <2>5, <1>8
<1>14. OnsInv'
  <2>1. callbacks'[On] = callbacks[On]
    BY <1>1, <1>4
  <2> QED
    BY <2>1 DEF DataInv, OnsInv
<1>15. Len(t) >= chunk'
  <2>1. Len(t) >= Len(s) /\ chunk' = chunk
    BY <1>4 DEF Added
  <2> HIDE DEF s, t
  <2> QED
    BY <1>1, <1>10, <2>1
<1> QED
  BY <1>6, <1>8, <1>9, <1>12, <1>13, <1>14, <1>15 DEF DataInv

(* The hooks called with PC: whoever is used up takes its own slot along and   *)
(* nobody else's, and a breakpoint that stays stops the run.                  *)
LEMMA FiringKeeps ==
  ASSUME DataInv, Fire(PC), ons' = ons
  PROVE  /\ DataInv'
         /\ stopped' = stopped \/ (stopped' = 1 /\ BreakAtPC)
         /\ \A i \in DOMAIN breaks :
              i \in DOMAIN breaks' /\ breaks'[i].address = breaks[i].address
         /\ DOMAIN breaks' = DOMAIN breaks
         /\ ~Grew' => \A i \in DOMAIN breaks' :
              breaks'[i].address = PC /\ breaks'[i].count # 0 => stopped' = 1
<1> DEFINE s == callbacks[Before]
           t == callbacks'[Before]
           hit == {j \in Called(Before) : s[j] \in DOMAIN breaks /\ breaks[s[j]].address = PC}
           ids == {s[j] : j \in hit}
           gone == {breaks[i].hook_id : i \in {k \in ids : UsedUp(k)}}
<1>1. /\ chunk \in Nat \ {0} /\ chunk \in Chunks /\ callbacks \in [Kinds -> Seq(Slot)]
      /\ breaks \in Seq(BreakData) /\ ons \in Nat
      /\ Before \in Kinds /\ On \in Kinds /\ On # Before
  BY KindsAssumption, ArraysAssumption DEF DataInv, DataTyped
<1>2. /\ stopped' = IF hit = {} THEN stopped ELSE 1
      /\ breaks' = [i \in DOMAIN breaks |->
            IF i \in ids THEN [breaks[i] EXCEPT !.count = CountedDown(i)] ELSE breaks[i]]
      /\ callbacks' = [callbacks EXCEPT ![Before] = Removed(s, gone)]
      /\ chunk' = chunk
  BY DEF Fire, FlagAfter, Hits
<1>3. /\ s \in Seq(Slot) /\ Len(s) \in Nat /\ DOMAIN s = 1..Len(s)
      /\ Len(breaks) \in Nat /\ DOMAIN breaks = 1..Len(breaks)
  BY <1>1, LenProperties
<1>4. \A i \in DOMAIN breaks : breaks[i] \in BreakData /\ CountedDown(i) \in Int
  <2>1. \A i \in DOMAIN breaks : breaks[i] \in BreakData
    BY <1>1, <1>3, ElementOfSeq
  <2> QED
    BY <2>1 DEF CountedDown, BreakData
<1>5. \A j \in hit : j \in DOMAIN s /\ s[j] \in DOMAIN breaks /\ breaks[s[j]].address = PC
  BY DEF Called, InUse
<1>6. \A j \in hit : s[j] \in DOMAIN breaks /\ breaks[s[j]].hook_id = j
  BY <1>3, <1>5, SlotsAssumption DEF DataInv, SlotsInv
(* The array. *)
<1>7. t = Removed(s, gone) /\ \A k \in Kinds \ {Before} : callbacks'[k] = callbacks[k]
  BY <1>1, <1>2
<1> HIDE DEF hit, ids, gone
<1>8. t = [j \in DOMAIN s |-> IF j \in gone THEN Free ELSE s[j]]
  BY <1>7 DEF Removed
<1>9. /\ DOMAIN t = DOMAIN s /\ \A j \in DOMAIN s : t[j] = IF j \in gone THEN Free ELSE s[j]
      /\ t \in Seq(Slot) /\ Len(t) = Len(s)
  <2>1. \A j \in 1..Len(s) : (IF j \in gone THEN Free ELSE s[j]) \in Slot
    BY <1>3, ElementOfSeq DEF Slot
  <2>2. t = [j \in 1..Len(s) |-> IF j \in gone THEN Free ELSE s[j]]
    BY <1>3, <1>8
  <2>3. t \in [1..Len(s) -> Slot]
    BY <2>1, <2>2
  <2>4. t \in Seq(Slot)
    BY <1>3, <2>3, SeqDef
  <2> HIDE DEF s, t
  <2>5. Len(t) = Len(s)
    BY <1>3, <2>2
  <2> QED
    BY <1>3, <2>2, <2>4, <2>5
<1>10. callbacks' \in [Kinds -> Seq(Slot)]
  BY <1>1, <1>2, <1>7, <1>9
(* The breakpoints. *)
<1>11. /\ DOMAIN breaks' = DOMAIN breaks
       /\ \A i \in DOMAIN breaks :
            /\ breaks'[i] \in BreakData
            /\ breaks'[i].address = breaks[i].address /\ breaks'[i].hook_id = breaks[i].hook_id
            /\ breaks'[i].count = IF i \in ids THEN CountedDown(i) ELSE breaks[i].count
  <2>1. DOMAIN breaks' = DOMAIN breaks
    BY <1>2
  <2>2. ASSUME NEW i \in DOMAIN breaks
        PROVE  /\ breaks'[i] \in BreakData
               /\ breaks'[i].address = breaks[i].address /\ breaks'[i].hook_id = breaks[i].hook_id
               /\ breaks'[i].count = IF i \in ids THEN CountedDown(i) ELSE breaks[i].count
    <3> DEFINE record == breaks[i]
               count == CountedDown(i)
    <3>1. record \in BreakData /\ count \in Int
      BY <1>4
    <3>2. breaks'[i] = IF i \in ids THEN [record EXCEPT !.count = count] ELSE record
      BY <1>2
    <3> HIDE DEF record, count
    <3>3. LET updated == [record EXCEPT !.count = count] IN
            /\ updated \in BreakData
            /\ updated.address = record.address /\ updated.hook_id = record.hook_id
            /\ updated.count = count
      BY <3>1 DEF BreakData
    <3> QED
      BY <3>1, <3>2, <3>3 DEF record, count
  <2> QED
    BY <2>1, <2>2
<1>12. breaks' \in Seq(BreakData)
  <2>1. breaks' \in [1..Len(breaks) -> BreakData]
    <3>1. breaks' = [i \in 1..Len(breaks) |-> breaks'[i]]
      BY <1>2, <1>3
    <3> QED
      BY <3>1, <1>3, <1>11
  <2> QED
    BY <1>3, <2>1, SeqDef
<1>13. DataTyped'
  BY <1>1, <1>2, <1>10, <1>12 DEF DataTyped
<1>14. SlotsInv'
  <2> SUFFICES ASSUME NEW j \in DOMAIN t, t[j] # Free
               PROVE  \/ t[j] = Wild
                      \/ t[j] \in DOMAIN breaks' /\ breaks'[t[j]].hook_id = j
    BY Zenon DEF SlotsInv, Called, InUse
  <2>1. t[j] = s[j] /\ j \in DOMAIN s
    BY <1>9
  <2>2. s[j] = Wild \/ (s[j] \in DOMAIN breaks /\ breaks[s[j]].hook_id = j)
    BY <2>1 DEF DataInv, SlotsInv, Called, InUse
  <2> HIDE DEF s, t
  <2> QED
    BY <2>1, <2>2, <1>11
(* A slot that is emptied belongs to the one breakpoint that is used up. *)
<1>15. \A i \in ids : \A k \in DOMAIN breaks :
         Registered(k) /\ breaks[k].hook_id = breaks[i].hook_id => k = i
  BY <1>6 DEF ids, Registered
<1>16. KeptInv'
  <2> SUFFICES ASSUME ~(Len(t) > chunk), NEW k \in DOMAIN breaks', breaks'[k].count # 0
               PROVE  breaks'[k].hook_id \in DOMAIN t /\ t[breaks'[k].hook_id] = k
    BY <1>2 DEF KeptInv, Grew, Registered
  <2>1. k \in DOMAIN breaks /\ breaks'[k].hook_id = breaks[k].hook_id
    BY <1>11
  <2>2. Registered(k)
    <3>1. CASE k \in ids
      BY <3>1, <1>5, <1>6 DEF ids, Registered
    <3>2. CASE k \notin ids
      <4>1. breaks[k].count # 0
        BY <3>2, <2>1, <1>11
      <4>2. ~Grew
        BY <1>9 DEF Grew
      <4> QED
        BY <4>1, <4>2, <2>1 DEF DataInv, KeptInv
    <3> QED
      BY <3>1, <3>2
  <2>3. breaks[k].hook_id \notin gone
    <3> SUFFICES ASSUME NEW i \in ids, UsedUp(i), breaks[k].hook_id = breaks[i].hook_id
                 PROVE  FALSE
      BY DEF gone
    <3>1. k = i
      BY <2>1, <2>2, <1>15
    <3>2. breaks'[k].count = 0
      BY <3>1, <2>1, <1>11 DEF UsedUp
    <3> QED
      BY <3>2
  <2> QED
    BY <2>1, <2>2, <2>3, <1>9 DEF Registered
<1>17. OnsInv'
  BY <1>1, <1>7 DEF DataInv, OnsInv
<1>18. Len(t) >= chunk'
  BY <1>2, <1>9 DEF DataInv
<1>19. DataInv'
  BY <1>13, <1>14, <1>16, <1>17, <1>18 DEF DataInv
<1>20. stopped' = stopped \/ (stopped' = 1 /\ BreakAtPC)
  BY <1>2, <1>5 DEF BreakAtPC
<1>21. ASSUME ~Grew', NEW i \in DOMAIN breaks', breaks'[i].address = PC, breaks'[i].count # 0
       PROVE  stopped' = 1
  <2>1. i \in DOMAIN breaks /\ breaks[i].address = PC
    BY <1>11, <1>21
  <2>2. CASE i \in ids
    BY <2>2, <1>2 DEF ids
  <2>3. CASE i \notin ids
    <3>1. breaks[i].count # 0
      BY <2>1, <2>3, <1>11, <1>21
    <3>2. ~Grew
      BY <1>2, <1>9, <1>21 DEF Grew
    <3>3. Registered(i)
      BY <2>1, <3>1, <3>2 DEF DataInv, KeptInv
    <3>4. breaks[i].hook_id \in hit
      <4>1. breaks[i].hook_id \in DOMAIN s /\ s[breaks[i].hook_id] = i
        BY <3>3 DEF Registered
      <4>2. i # Free
        BY <2>1, <1>3, SlotsAssumption
      <4> QED
        BY <4>1, <4>2, <2>1 DEF hit, Called, InUse
    <3> QED
      BY <3>4, <1>2
  <2> QED
    BY <2>2, <2>3
<1> QED
  BY <1>11, <1>19, <1>20, <1>21

(* An `on' hook that is added. *)
LEMMA RegisteringKeeps ==
  ASSUME DataInv, command_on
  PROVE  DataInv'
<1>1. /\ chunk \in Nat \ {0} /\ chunk \in Chunks /\ callbacks \in [Kinds -> Seq(Slot)]
      /\ breaks \in Seq(BreakData) /\ ons \in Nat
      /\ Before \in Kinds /\ On \in Kinds /\ On # Before /\ On \notin ExecutionKinds
  BY KindsAssumption, ArraysAssumption DEF DataInv, DataTyped
<1>2. PICK i : hook_add(On, ons + 1, i)
  BY DEF command_on
<1>3. ons + 1 \in Nat /\ ons' = ons + 1 /\ breaks' = breaks
  BY <1>1 DEF command_on
<1>4. /\ chunk' = chunk /\ callbacks' \in [Kinds -> Seq(Slot)]
      /\ \A k \in Kinds \ {On} : callbacks'[k] = callbacks[k]
      /\ Added(On, ons + 1, i, callbacks[On], callbacks'[On])
  BY <1>1, <1>2, <1>3, Adding
<1>5. callbacks'[Before] = callbacks[Before]
  BY <1>1, <1>4
<1>6. DataTyped'
  BY <1>1, <1>3, <1>4 DEF DataTyped
<1>7. SlotsInv' /\ KeptInv' /\ Len(callbacks'[Before]) >= chunk'
  BY <1>3, <1>4, <1>5 DEF DataInv, SlotsInv, KeptInv, Grew, Registered, Called
<1>8. OnsInv'
  <2> DEFINE s == callbacks[On]
             t == callbacks'[On]
  <2>1. /\ i \in DOMAIN t /\ t[i] = ons + 1
        /\ \A j \in DOMAIN s : s[j] # Free => j \in DOMAIN t /\ t[j] = s[j]
    BY <1>1, <1>4 DEF Added, Keeps
  <2> SUFFICES ASSUME NEW k \in 1..(ons + 1)
               PROVE  \E j \in DOMAIN t : t[j] = k
    BY <1>3 DEF OnsInv
  <2>2. CASE k = ons + 1
    BY <2>1, <2>2
  <2>3. CASE k \in 1..ons
    <3>1. PICK j \in DOMAIN s : s[j] = k
      BY <2>3 DEF DataInv, OnsInv
    <3>2. s[j] # Free
      BY <2>3, <3>1, <1>1, SlotsAssumption
    <3> QED
      BY <2>1, <3>1, <3>2
  <2> QED
    BY <2>2, <2>3, <1>1
<1> QED
  BY <1>6, <1>7, <1>8 DEF DataInv

LEMMA DataSame ==
  ASSUME DataInv, UNCHANGED <<hookVars, breaks, ons>>
  PROVE  DataInv'
<1>1. callbacks' = callbacks /\ chunk' = chunk /\ breaks' = breaks /\ ons' = ons
  BY DEF hookVars
<1>2. DataTyped' /\ (Len(callbacks[Before]) >= chunk)' /\ OnsInv'
  BY <1>1 DEF DataInv, DataTyped, OnsInv
<1>3. SlotsInv'
  BY <1>1 DEF DataInv, SlotsInv, Called
<1>4. KeptInv'
  BY <1>1 DEF DataInv, KeptInv, Grew, Registered
<1> QED
  BY <1>2, <1>3, <1>4 DEF DataInv

(* What the steps outside of the loops and the hooks do to the breakpoints. *)
LEMMA BreakSets ==
  ASSUME DataInv, command_break
  PROVE  /\ DataInv'
         /\ \A i \in DOMAIN breaks : i \in DOMAIN breaks' /\ breaks'[i] = breaks[i]
<1>1. PICK address \in BreakAddresses, count \in Counts :
        SetBreak(address, count, address, FALSE)
  BY DEF command_break
<1>2. address \in Addresses /\ count \in Int /\ FALSE \in BOOLEAN
  BY AddressesAssumption, CountsAssumption
<1>3. ons' = ons
  BY DEF command_break
<1> QED
  BY <1>1, <1>2, <1>3, SettingKeeps

StepRun ==
  /\ at = "prompt"
  /\ \E step \in Steps, address \in Addresses, end \in Addresses :
       /\ address = Wrap(PC + step.size)
       /\ end = Wrap(PC + step.length)
       /\ SetBreak(address, 1, end, step.misjudged)
  /\ StartRun(Endless)
  /\ UNCHANGED <<ons, guestVars>>

LEMMA StepsTyped ==
  ASSUME NEW step \in Steps
  PROVE  step.misjudged \in BOOLEAN
<1>1. PICK code \in Codes, knightos \in BOOLEAN :
        step = [size |-> SizeOver(code, knightos), length |-> EndOver(code, knightos),
                misjudged |-> Misjudged(code, knightos)]
  BY DEF Steps
<1>2. Misjudged(code, knightos) \in BOOLEAN
  BY DEF Misjudged
<1> QED
  BY <1>1, <1>2

LEMMA StepSets ==
  ASSUME DataInv, StepRun
  PROVE  DataInv'
<1>1. PICK step \in Steps, address \in Addresses, end \in Addresses :
        SetBreak(address, 1, end, step.misjudged)
  BY DEF StepRun
<1>2. ons' = ons
  BY DEF StepRun
<1> QED
  BY <1>1, <1>2, StepsTyped, SettingKeeps

(* Every step but those four leaves hooks and breakpoints alone. *)
Leaves == UNCHANGED <<hookVars, breaks, ons>>

LEMMA LeavesCases ==
  ASSUME [Next]_vars
  PROVE  \/ command_break \/ command_on \/ StepRun
         \/ RunHooks \/ (RunHooksAgain /\ left = Endless)
         \/ Leaves
<1>1. CASE command_run
  BY <1>1 DEF command_run, Leaves
<1>2. CASE command_stop
  BY <1>2 DEF command_stop, Leaves
<1>3. CASE step_over
  <2>1. CASE StepOverJump
    BY <2>1 DEF StepOverJump, Leaves
  <2>2. CASE ~StepOverJump
    BY <1>3, <2>2, Zenon DEF step_over, StepRun
  <2> QED
    BY <2>1, <2>2
<1>4. CASE Check
  BY <1>4 DEF Check, Leaves
<1>5. CASE Tick
  BY <1>5 DEF Tick, Leaves
<1>6. CASE RunHooksAgain /\ left # Endless
  BY <1>6 DEF RunHooksAgain, Leaves
<1>7. CASE Test
  BY <1>7 DEF Test, Leaves
<1>8. CASE SIGINT
  BY <1>8 DEF SIGINT, Leaves
<1>9. CASE UNCHANGED vars
  BY <1>9 DEF vars, Leaves
<1> QED
  BY <1>1, <1>2, <1>3, <1>4, <1>5, <1>6, <1>7, <1>8, <1>9 DEF Next

LEMMA DataStep ==
  ASSUME DataInv, [Next]_vars
  PROVE  DataInv'
<1>1. CASE RunHooks
  <2>1. Fire(PC) /\ ons' = ons
    BY <1>1 DEF RunHooks
  <2> QED
    BY <2>1, FiringKeeps
<1>2. CASE RunHooksAgain /\ left = Endless
  <2>1. Fire(PC) /\ ons' = ons
    BY <1>2 DEF RunHooksAgain
  <2> QED
    BY <2>1, FiringKeeps
<1> QED
  BY <1>1, <1>2, LeavesCases, BreakSets, RegisteringKeeps, StepSets, DataSame DEF Leaves

-----------------------------------------------------------------------------
(* The loops of command_run, the flip-flops and the flag. *)

LEMMA WrapIsAddress == \A n \in Int : Wrap(n) \in Addresses
<1>1. Cardinality(Addresses) \in Nat /\ Cardinality(Addresses) # 0
  BY AddressesAssumption, FS_CardinalityType, FS_EmptySet
<1>2. \A n \in Int, size \in Nat \ {0} : n % size \in 0..(size - 1)
  OBVIOUS
<1> QED
  BY <1>1, <1>2, AddressesAssumption DEF Wrap

LEMMA FiringRaises ==
  ASSUME stopped \in {0, 1}, Fire(PC)
  PROVE  stopped' \in {0, 1} /\ (stopped = 1 => stopped' = 1)
BY DEF Fire, FlagAfter

LEMMA StartControls ==
  ASSUME ControlInv, NEW instructions \in Nat \cup {Endless}, StartRun(instructions),
         UNCHANGED guestVars, at = "prompt"
  PROVE  ControlInv'
<1>1. /\ stopped' = 0 /\ left' = instructions /\ first' = TRUE /\ ran' = FALSE
      /\ since' = -1 /\ saved' = saved
      /\ PC' = PC /\ iff' = iff /\ guest_iff' = guest_iff /\ undone' = undone
  BY DEF StartRun, guestVars
<1>2. hiding' \in BOOLEAN
  BY DEF StartRun
<1>3. at' = "prompt" \/ (at' = "before" /\ left' # 0)
  BY DEF StartRun
<1>4. /\ PC \in Addresses /\ iff \in BOOLEAN /\ guest_iff \in BOOLEAN /\ saved \in BOOLEAN
      /\ undone \in BOOLEAN /\ (undone \/ iff = guest_iff)
  BY DEF ControlInv, ControlTyped, FlipInv
<1>5. at' \in Looping \cup {"prompt", "exited", "crashed"}
  BY <1>3 DEF Looping
<1>6. stopped' \in {0, 1} /\ since' \in Int /\ left' \in Nat \cup {Endless}
  BY <1>1
<1>7. first' \in BOOLEAN /\ ran' \in BOOLEAN /\ first' = ~ran'
  BY <1>1, Zenon
<1>8. ControlTyped'
  BY <1>1, <1>2, <1>4, <1>5, <1>6, <1>7, Zenon DEF ControlTyped
<1>9. LoopInv'
  <2>1. at' \in Looping => left' # 0
    BY <1>3 DEF Looping
  <2>2. at' \notin {"tick", "after", "test"} /\ at' \notin {"after", "test"}
    BY <1>3
  <2> QED
    BY <2>1, <2>2, <1>7, Zenon DEF LoopInv
<1>10. SinceInv'
  BY <1>1 DEF SinceInv
<1>11. FlipInv'
  BY <1>1, <1>3, <1>4 DEF FlipInv
<1> QED
  BY <1>8, <1>9, <1>10, <1>11, Zenon DEF ControlInv

LEMMA ControlStep ==
  ASSUME ControlInv, [Next]_vars
  PROVE  ControlInv'
<1> USE DEF ControlInv, ControlTyped, LoopInv, SinceInv, FlipInv, Looping
<1>1. CASE command_break
  BY <1>1 DEF command_break, guestVars, runVars, history
<1>2. CASE command_on
  BY <1>2 DEF command_on, guestVars, runVars, history
<1>3. CASE command_run
  <2>1. PICK instructions \in Instructions \cup {Endless} : StartRun(instructions)
    BY <1>3 DEF command_run
  <2>2. instructions \in Nat \cup {Endless}
    BY CountsAssumption
  <2> QED
    BY <1>3, <2>1, <2>2, StartControls DEF command_run
<1>4. CASE command_stop
  BY <1>4 DEF command_stop, guestVars, runVars, history
<1>5. CASE step_over
  <2>1. CASE StepOverJump
    <3>1. PC' = Wrap(PC + 2)
      BY <2>1 DEF StepOverJump
    <3>3. PC + 2 \in Int
      <4>1. \A size \in Int : \A n \in 0..(size - 1) : n + 2 \in Int
        OBVIOUS
      <4>2. Cardinality(Addresses) \in Int
        BY AddressesAssumption, FS_CardinalityType
      <4>3. PC \in 0..(Cardinality(Addresses) - 1)
        BY AddressesAssumption
      <4> QED
        BY <4>1, <4>2, <4>3
    <3>2. PC' \in Addresses
      BY <3>1, <3>3, WrapIsAddress
    <3> QED
      BY <1>5, <2>1, <3>2 DEF StepOverJump, step_over, history
  <2>2. CASE ~StepOverJump
    <3>1. StartRun(Endless) /\ UNCHANGED guestVars /\ at = "prompt"
      BY <1>5, <2>2, Zenon DEF step_over
    <3> QED
      BY <3>1, StartControls
  <2> QED
    BY <2>1, <2>2
<1>6. CASE RunHooks
  <2>1. stopped' \in {0, 1} /\ (stopped = 1 => stopped' = 1)
    BY <1>6, FiringRaises DEF RunHooks
  <2> QED
    BY <1>6, <2>1 DEF RunHooks, guestVars
<1>7. CASE Check
  <2>1. CASE LeavesAtCheck
    BY <1>7, <2>1 DEF Check, LeavesAtCheck, FlagAfterCheck, Finish
  <2>2. CASE ~LeavesAtCheck
    <3>1. /\ at = "check" /\ at' = "tick" /\ first' = FALSE /\ ran' = ran /\ left' = left
          /\ PC' = PC /\ guest_iff' = guest_iff /\ undone' = undone /\ hiding' = hiding
          /\ stopped' = IF first THEN 0 ELSE stopped
          /\ since' = IF first THEN -1 ELSE since
          /\ saved' = IF hiding THEN iff ELSE saved
          /\ iff' = IF hiding THEN FALSE ELSE iff
      BY <1>7, <2>2, Zenon DEF Check, FlagAfterCheck
    <3>2. ~first => stopped = 0
      BY <2>2 DEF LeavesAtCheck
    <3>3. stopped' = 0 /\ since' = -1
      BY <3>1, <3>2
    <3>4. /\ saved' \in BOOLEAN /\ iff' \in BOOLEAN
          /\ undone' \/ (IF hiding' THEN saved' = guest_iff' ELSE iff' = guest_iff')
      BY <3>1
    <3>5. left' # 0 /\ first' = FALSE /\ at' = "tick"
      BY <3>1
    <3>6. PC' \in Addresses /\ guest_iff' \in BOOLEAN /\ undone' \in BOOLEAN
          /\ hiding' \in BOOLEAN /\ ran' \in BOOLEAN
      BY <3>1
    <3>7. stopped' \in {0, 1} /\ left' \in Nat \cup {Endless} /\ since' \in Int
      BY <3>1, <3>3
    <3>8. ControlTyped'
      BY <3>4, <3>5, <3>6, <3>7
    <3>9. LoopInv'
      BY <3>5
    <3>10. SinceInv'
      BY <3>3
    <3>11. FlipInv'
      BY <3>4, <3>5
    <3> QED
      BY <3>8, <3>9, <3>10, <3>11
  <2> QED
    BY <2>1, <2>2
<1>8. CASE Tick
  <2>1. PICK address \in Addresses, effect \in Effects, stop \in BOOLEAN :
          /\ PC' = address
          /\ iff' = Restored(Made(effect, iff))
          /\ guest_iff' = Made(effect, guest_iff)
          /\ undone' = IF effect = "none" THEN undone ELSE hiding
          /\ stopped' = IF stop THEN 1 ELSE stopped
          /\ since' = IF since >= 0 THEN since + 1 ELSE IF stop THEN 0 ELSE -1
    <3>1. PICK address \in Addresses, effect \in Effects, access \in BOOLEAN :
            LET stop == access /\ Called(On) # {} IN
            /\ PC' = address
            /\ iff' = Restored(Made(effect, iff))
            /\ guest_iff' = Made(effect, guest_iff)
            /\ undone' = IF effect = "none" THEN undone ELSE hiding
            /\ stopped' = IF stop THEN 1 ELSE stopped
            /\ since' = IF since >= 0 THEN since + 1 ELSE IF stop THEN 0 ELSE -1
      BY <1>8 DEF Tick
    <3> DEFINE stop == access /\ Called(On) # {}
    <3>2. stop \in BOOLEAN
      OBVIOUS
    <3> QED
      BY <3>1, <3>2
  <2>2. /\ at = "tick" /\ at' = "after" /\ ran' = TRUE /\ saved' = FALSE
        /\ left' = left /\ first' = first /\ hiding' = hiding
    BY <1>8 DEF Tick
  <2>3. (undone' \/ iff' = guest_iff') /\ undone' \in BOOLEAN
    <3>1. CASE effect = "none"
      BY <3>1, <2>1, <2>2 DEF Restored, Made
    <3>2. CASE effect # "none" /\ hiding
      BY <3>2, <2>1, <2>2
    <3>3. CASE effect # "none" /\ ~hiding
      BY <3>3, <2>1, <2>2 DEF Restored, Made
    <3> QED
      BY <3>1, <3>2, <3>3
  <2>5. iff' \in BOOLEAN /\ guest_iff' \in BOOLEAN
    BY <2>1, <2>2 DEF Restored, Made
  <2>4. /\ stopped' \in {0, 1} /\ since' \in Int /\ since' >= -1 /\ since' <= 1
        /\ since' >= 0 => stopped' = 1
    BY <2>1, <2>2
  <2> QED
    BY <2>1, <2>2, <2>3, <2>4, <2>5
<1>9. CASE RunHooksAgain
  <2>1. stopped' \in {0, 1} /\ (stopped = 1 => stopped' = 1)
    <3>1. CASE left = Endless
      BY <1>9, <3>1, FiringRaises DEF RunHooksAgain
    <3>2. CASE left # Endless
      BY <1>9, <3>2 DEF RunHooksAgain
    <3> QED
      BY <3>1, <3>2
  <2> QED
    BY <1>9, <2>1 DEF RunHooksAgain, guestVars
<1>10. CASE Test
  <2>1. CASE Finish
    <3>1. /\ at = "test" /\ at' = "prompt" /\ hiding' = FALSE
          /\ PC' = PC /\ iff' = iff /\ guest_iff' = guest_iff /\ undone' = undone
          /\ first' = first /\ saved' = saved /\ ran' = ran /\ since' = since
      BY <1>10, <2>1 DEF Test, Finish, guestVars, history
    <3>2. stopped' \in {0, 1} /\ left' \in Nat \cup {Endless}
      BY <1>10, <2>1 DEF Test, Finish
    <3> QED
      BY <3>1, <3>2
  <2>2. CASE stopped = 0 /\ left # 1 /\ ~Finish
    <3>1. left' = IF left = Endless THEN Endless ELSE left - 1
      BY <1>10, <2>2 DEF Test
    <3>2. left' \in Nat \cup {Endless} /\ left' # 0
      BY <1>10, <2>2, <3>1 DEF Test, Endless
    <3> QED
      BY <1>10, <2>2, <3>2 DEF Test, guestVars, history
  <2> QED
    BY <1>10, <2>1, <2>2 DEF Test
<1>11. CASE SIGINT
  BY <1>11 DEF SIGINT, guestVars
<1>12. CASE UNCHANGED vars
  BY <1>12 DEF vars, guestVars, runVars, history
<1> QED
  BY <1>1, <1>2, <1>3, <1>4, <1>5, <1>6, <1>7, <1>8, <1>9, <1>10, <1>11, <1>12 DEF Next

-----------------------------------------------------------------------------
(* Breakpoints stop runs, and nothing else does. *)

(* Where Leaves holds, so do the two facts about breakpoints. *)
LEMMA BreaksSame ==
  ASSUME Leaves, PC' = PC
  PROVE  (BreakAtPC <=> BreakAtPC') /\ (Grew <=> Grew') /\ Active' = Active
BY DEF Leaves, hookVars, BreakAtPC, Grew, Active

LEMMA StartMeets ==
  ASSUME NEW instructions \in Nat \cup {Endless}, StartRun(instructions)
  PROVE  MeetInv'
<1>1. at' = "prompt" => left' # Endless
  BY DEF StartRun, Endless
<1>2. at' \in {"prompt", "before"} /\ stopped' = 0
  BY DEF StartRun
<1> QED
  BY <1>1, <1>2 DEF MeetInv, StopsWhereAsked

LEMMA FiringMeets ==
  ASSUME IInv, Fire(PC), ons' = ons, PC' = PC, since' = since,
         since = -1 => stopped = 0
  PROVE  /\ ~Grew' /\ PC' \in Active' => stopped' = 1
         /\ since' = -1 /\ stopped' = 1 => BreakAtPC'
<1>1. /\ stopped' = stopped \/ (stopped' = 1 /\ BreakAtPC)
      /\ \A i \in DOMAIN breaks :
              i \in DOMAIN breaks' /\ breaks'[i].address = breaks[i].address
      /\ ~Grew' => \A i \in DOMAIN breaks' :
              breaks'[i].address = PC /\ breaks'[i].count # 0 => stopped' = 1
  BY FiringKeeps DEF IInv
<1>2. BreakAtPC => BreakAtPC'
  BY <1>1 DEF BreakAtPC
<1>3. ASSUME ~Grew', PC' \in Active'
      PROVE  stopped' = 1
  <2>1. PICK i \in DOMAIN breaks' : breaks'[i].count # 0 /\ PC' = breaks'[i].address
    BY <1>3 DEF Active
  <2> QED
    BY <1>1, <1>3, <2>1
<1> QED
  BY <1>1, <1>2, <1>3

LEMMA MeetStep ==
  ASSUME IInv, [Next]_vars
  PROVE  MeetInv'
<1> USE DEF MeetInv, StopsWhereAsked
<1>1. CASE command_break
  <2>1. \A i \in DOMAIN breaks : i \in DOMAIN breaks' /\ breaks'[i] = breaks[i]
    BY <1>1, BreakSets DEF IInv
  <2>2. at' = "prompt" /\ at = "prompt" /\ left' = left /\ since' = since /\ PC' = PC
    BY <1>1 DEF command_break, guestVars, runVars, history
  <2> QED
    BY <2>1, <2>2 DEF IInv
<1>2. CASE command_on
  BY <1>2 DEF command_on, guestVars, runVars, history, IInv
<1>3. CASE command_run
  <2>1. PICK instructions \in Instructions \cup {Endless} : StartRun(instructions)
    BY <1>3 DEF command_run
  <2> QED
    BY <2>1, StartMeets, CountsAssumption
<1>4. CASE command_stop
  BY <1>4 DEF command_stop, guestVars, runVars, history, IInv
<1>5. CASE step_over
  <2>1. CASE StepOverJump
    <3>1. at' = "prompt" /\ left' = 0
      BY <1>5, <2>1 DEF step_over, StepOverJump
    <3> QED
      BY <3>1 DEF Endless
  <2>2. CASE ~StepOverJump
    BY <1>5, <2>2, StartMeets DEF step_over
  <2> QED
    BY <2>1, <2>2
<1>6. CASE RunHooks
  <2>1. Fire(PC) /\ ons' = ons /\ PC' = PC /\ since' = since /\ at = "before"
        /\ at' \in {"check", "crashed"}
    BY <1>6 DEF RunHooks, guestVars
  <2>2. since = -1 => stopped = 0
    BY <2>1 DEF IInv
  <2>3. /\ ~Grew' /\ PC' \in Active' => stopped' = 1
        /\ since' = -1 /\ stopped' = 1 => BreakAtPC'
    BY <2>1, <2>2, FiringMeets
  <2> QED
    BY <2>1, <2>3
<1>7. CASE Check
  <2>1. Leaves /\ PC' = PC /\ left' = left /\ ran' = ran /\ at = "check"
    BY <1>7 DEF Check, Leaves
  <2>2. CASE LeavesAtCheck
    <3>1. at' = "prompt" /\ since' = since /\ stopped = 1
      BY <1>7, <2>2 DEF Check, LeavesAtCheck, Finish
    <3> QED
      BY <2>1, <3>1, BreaksSame DEF IInv, BreakAtPC
  <2>3. CASE ~LeavesAtCheck
    <3>1. /\ at' = "tick"
          /\ stopped' = IF first THEN 0 ELSE stopped
      BY <1>7, <2>3, Zenon DEF Check, FlagAfterCheck
    <3>2. ~first => stopped = 0
      BY <2>3 DEF LeavesAtCheck, IInv, ControlInv, ControlTyped
    <3>3. ran => ~first
      BY <2>1 DEF IInv, ControlInv, LoopInv
    <3>4. ran /\ ~Grew => PC \notin Active
      BY <2>1, <3>2, <3>3 DEF IInv
    <3>5. stopped' = 0
      BY <3>1, <3>2
    <3> QED
      BY <2>1, <3>1, <3>4, <3>5, BreaksSame
  <2> QED
    BY <2>2, <2>3
<1>8. CASE Tick
  <2>1. at = "tick" /\ at' = "after"
    BY <1>8 DEF Tick
  <2>2. since' = -1 => since = -1 /\ stopped' = stopped
    <3>1. since \in Int /\ since >= -1
      BY DEF IInv, ControlInv, ControlTyped, SinceInv
    <3>2. PICK address \in Addresses, effect \in Effects, access \in BOOLEAN :
            LET stop == access /\ Called(On) # {} IN
            /\ stopped' = IF stop THEN 1 ELSE stopped
            /\ since' = IF since >= 0 THEN since + 1 ELSE IF stop THEN 0 ELSE -1
      BY <1>8 DEF Tick
    <3> QED
      BY <3>1, <3>2
  <2> QED
    BY <2>1, <2>2 DEF IInv
<1>9. CASE RunHooksAgain
  <2>1. /\ ons' = ons /\ PC' = PC /\ since' = since /\ at = "after"
        /\ at' \in {"test", "crashed"}
    BY <1>9 DEF RunHooksAgain, guestVars
  <2>2. since = -1 => stopped = 0
    BY <2>1 DEF IInv
  <2>3. since' = -1 /\ stopped' = 1 => BreakAtPC'
    <3>1. CASE left = Endless
      <4>1. Fire(PC)
        BY <1>9, <3>1 DEF RunHooksAgain
      <4> QED
        BY <2>1, <2>2, <4>1, FiringMeets
    <3>2. CASE left # Endless
      BY <1>9, <2>1, <2>2, <3>2 DEF RunHooksAgain
    <3> QED
      BY <3>1, <3>2
  <2> QED
    BY <2>1, <2>3
<1>10. CASE Test
  <2>1. Leaves /\ PC' = PC /\ since' = since /\ at = "test"
    BY <1>10 DEF Test, Leaves, guestVars, history
  <2>2. CASE stopped = 1
    <3>1. at' = "prompt" /\ left' = left
      BY <1>10, <2>2 DEF Test, Finish
    <3> QED
      BY <2>1, <2>2, <3>1, BreaksSame DEF IInv, BreakAtPC
  <2>3. CASE stopped = 0 /\ left = 1
    <3>1. at' = "prompt" /\ left' = 0
      BY <1>10, <2>3 DEF Test, Finish
    <3> QED
      BY <3>1 DEF Endless
  <2>4. CASE stopped = 0 /\ left # 1
    <3>1. at' = "before" /\ stopped' = 0
      BY <1>10, <2>4 DEF Test
    <3> QED
      BY <3>1
  <2> QED
    BY <1>10, <2>2, <2>3, <2>4 DEF Test
<1>11. CASE SIGINT
  <2>1. CASE at = "prompt"
    <3>1. at' = "exited"
      BY <1>11, <2>1 DEF SIGINT
    <3> QED
      BY <3>1
  <2>2. CASE at # "prompt"
    <3>1. Leaves /\ PC' = PC /\ at' = at /\ ran' = ran /\ stopped' = 1 /\ since' # -1
      BY <1>11, <2>2 DEF SIGINT, Leaves, guestVars
    <3> QED
      BY <3>1, <2>2, BreaksSame DEF IInv
  <2> QED
    BY <2>1, <2>2
<1>12. CASE UNCHANGED vars
  <2>1. /\ Leaves /\ PC' = PC /\ at' = at /\ ran' = ran /\ stopped' = stopped
        /\ since' = since /\ left' = left
    BY <1>12 DEF vars, Leaves, guestVars, runVars, history
  <2> QED
    BY <2>1, BreaksSame DEF IInv, BreakAtPC
<1> QED
  BY <1>1, <1>2, <1>3, <1>4, <1>5, <1>6, <1>7, <1>8, <1>9, <1>10, <1>11, <1>12 DEF Next

-----------------------------------------------------------------------------
LEMMA Initially ==
  ASSUME Init
  PROVE  IInv
<1>1. chunk \in Chunks /\ chunk \in Nat \ {0}
  BY ChunksAssumption DEF Init, InitHooks
<1>2. callbacks = [kind \in Kinds |-> Empty(chunk)] /\ breaks = <<>> /\ ons = 0
  BY DEF Init, InitHooks
<1>3. /\ Empty(chunk) \in Seq(Slot) /\ Len(Empty(chunk)) = chunk
      /\ \A j \in DOMAIN Empty(chunk) : Empty(chunk)[j] = Free
  BY <1>1 DEF Empty, Slot
<1>4. callbacks \in [Kinds -> Seq(Slot)] /\ callbacks[Before] = Empty(chunk)
  BY <1>2, <1>3, KindsAssumption, ArraysAssumption
<1>5. breaks \in Seq(BreakData) /\ DOMAIN breaks = {}
  BY <1>2, EmptySeq
<1>6. DataTyped
  BY <1>1, <1>2, <1>4, <1>5 DEF DataTyped
<1>7. SlotsInv /\ KeptInv /\ OnsInv /\ Len(callbacks[Before]) >= chunk
  BY <1>1, <1>2, <1>3, <1>4, <1>5 DEF SlotsInv, KeptInv, OnsInv, Called, InUse
<1>8. ControlInv
  <2>1. 0 \in Addresses
    <3>1. Cardinality(Addresses) \in Nat /\ Cardinality(Addresses) # 0
      BY AddressesAssumption, FS_CardinalityType, FS_EmptySet
    <3>2. \A size \in Nat \ {0} : 0 \in 0..(size - 1)
      OBVIOUS
    <3> QED
      BY <3>1, <3>2, AddressesAssumption
  <2>2. at = "prompt" /\ since = -1 /\ iff = guest_iff
    BY Zenon DEF Init
  <2>3. /\ iff \in BOOLEAN /\ guest_iff \in BOOLEAN /\ undone \in BOOLEAN /\ first \in BOOLEAN
        /\ hiding \in BOOLEAN /\ saved \in BOOLEAN /\ ran \in BOOLEAN
    BY Zenon DEF Init
  <2>4. PC \in Addresses /\ stopped \in {0, 1} /\ left \in Nat \cup {Endless}
    BY <2>1 DEF Init
  <2>5. ControlTyped
    BY <2>2, <2>3, <2>4 DEF ControlTyped
  <2> QED
    BY <2>2, <2>5 DEF ControlInv, LoopInv, SinceInv, FlipInv, Looping
<1>9. MeetInv
  BY DEF Init, MeetInv, StopsWhereAsked, Endless
<1> QED
  BY <1>6, <1>7, <1>8, <1>9 DEF IInv, DataInv

LEMMA Invariance == Spec => []IInv
<1>1. Init => IInv
  BY Initially
<1>2. IInv /\ [Next]_vars => IInv'
  <2> SUFFICES ASSUME IInv, [Next]_vars PROVE IInv'
    OBVIOUS
  <2>1. DataInv' /\ ControlInv' /\ MeetInv'
    BY DataStep, ControlStep, MeetStep DEF IInv
  <2> QED
    BY <2>1 DEF IInv
<1> QED
  BY <1>1, <1>2, PTL DEF Spec

(* Types. *)
THEOREM TypeCorrect == Spec => []TypeOK
<1>1. IInv => TypeOK
  BY DEF IInv, DataInv, DataTyped, ControlInv, ControlTyped, TypeOK, Slot, Looping
<1> QED
  BY <1>1, Invariance, PTL

(* A used-up breakpoint takes its own slot along, and whoever is registered   *)
(* stays, for every number and size of the arrays.                           *)
THEOREM HooksCorrect == Spec => []HooksInv
<1>1. IInv => HooksInv
  BY DEF IInv, DataInv, SlotsInv, KeptInv, OnsInv, Registered, HooksInv
<1> QED
  BY <1>1, Invariance, PTL

(* Breakpoints that are there for ever are never run over. *)
THEOREM BreakpointsCorrect == Spec => []BreakpointsHold
<1>1. Unlimited \subseteq Active
  BY DEF Unlimited, Active
<1>2. IInv => BreakpointsHold
  BY <1>1 DEF IInv, MeetInv, BreakpointsHold
<1> QED
  BY <1>2, Invariance, PTL

(* ^C and `stop' end the run after one more slice at most. *)
THEOREM InterruptCorrect == Spec => []InterruptHeeded
<1>1. IInv => InterruptHeeded
  BY DEF IInv, ControlInv, SinceInv, InterruptHeeded
<1> QED
  BY <1>1, Invariance, PTL

(* A run nobody asked to stop ends at a breakpoint. *)
THEOREM StopsCorrect == Spec => []StopsWhereAsked
<1>1. IInv => StopsWhereAsked
  BY DEF IInv, MeetInv
<1> QED
  BY <1>1, Invariance, PTL

(* Steps with interrupts hidden leave the flip-flops as the guest last made    *)
(* them before: they lose nothing but what is done in the hidden slices.      *)
THEOREM HidingCorrect == Spec => []HidingKeepsTheRest
<1>1. IInv => HidingKeepsTheRest
  BY DEF IInv, ControlInv, FlipInv, HidingKeepsTheRest
<1> QED
  BY <1>1, Invariance, PTL

(* No command that has something to run returns without running it. *)
THEOREM ProgressCorrect == Spec => RunMakesProgress
<1>1. IInv /\ [Next]_vars => [at # "prompt" /\ at' = "prompt" => ran]_vars
  <2> SUFFICES ASSUME IInv, Next, at # "prompt", at' = "prompt"
               PROVE  ran
    OBVIOUS
  <2>1. CASE Check
    BY <2>1 DEF Check, LeavesAtCheck, IInv, ControlInv, ControlTyped, LoopInv
  <2>2. CASE Test
    BY <2>2 DEF Test, IInv, ControlInv, LoopInv
  <2>3. CASE SIGINT
    BY <2>3 DEF SIGINT
  <2>4. CASE RunHooks \/ RunHooksAgain \/ Tick
    BY <2>4 DEF RunHooks, RunHooksAgain, Tick
  <2> QED
    BY <2>1, <2>2, <2>3, <2>4
    DEF Next, command_break, command_on, command_run, command_stop, step_over
<1> QED
  BY <1>1, Invariance, PTL DEF Spec, RunMakesProgress

-----------------------------------------------------------------------------
(* What step_over goes by. *)

(* Induction, in a form that needs no operator: for a set of numbers. *)
LEMMA SetInduction ==
  ASSUME NEW S, 0 \in S, \A n \in S : n \in Nat => n + 1 \in S
  PROVE  Nat \subseteq S
<1> DEFINE T == Nat \ S
<1>1. SUFFICES ASSUME T # {} PROVE FALSE
  OBVIOUS
<1>2. \E a \in T : \A b \in T : ~ (<<b, a>> \in OpToRel(<, Nat))
  <2>1. T \subseteq Nat
    OBVIOUS
  <2> HIDE DEF T
  <2> QED
    BY <1>1, <2>1, WFMin, NatLessThanWellFounded
<1>3. PICK a \in T : \A b \in T : ~ (<<b, a>> \in OpToRel(<, Nat))
  BY <1>2
<1>4. \A b \in T : ~ (b < a)
  BY <1>3 DEF OpToRel
<1>5. a # 0 /\ a - 1 \in Nat /\ a - 1 < a /\ (a - 1) + 1 = a
  OBVIOUS
<1> QED
  BY <1>4, <1>5

(* How far the processor goes. Ends(code) is a recursive function: what is     *)
(* known of it is its definition, once there is a function that meets it.     *)
LEMMA NextPrefixTyped ==
  ASSUME NEW pfx \in Prefixes, NEW op, IsPrefixByte(pfx, op)
  PROVE  NextPrefix(pfx, op) \in Prefixes
BY DEF Prefixes, NextPrefix, IsPrefixByte, InMainTable, InEDTable, InBitTable, CB, DD, ED, FD

(* f and g say the same of all bytes later than i. *)
AgreeAfter(code, i, f, g) ==
  \A j \in (i + 1)..Len(code), pfx \in Prefixes : f[<<j, pfx>>] = g[<<j, pfx>>]

LEMMA EndLooksAhead ==
  ASSUME NEW code \in Seq(Byte), NEW i \in Nat, NEW pfx \in Prefixes, NEW f, NEW g,
         AgreeAfter(code, i, f, g)
  PROVE  EndFrom(code, f, i, pfx) = EndFrom(code, g, i, pfx)
<1>1. CASE i < Len(code) /\ IsPrefixByte(pfx, ByteAt(code, i))
  <2>1. NextPrefix(pfx, ByteAt(code, i)) \in Prefixes
    BY <1>1, NextPrefixTyped
  <2>2. i + 1 \in (i + 1)..Len(code)
    BY <1>1, LenProperties
  <2>3. f[<<i + 1, NextPrefix(pfx, ByteAt(code, i))>>] = g[<<i + 1, NextPrefix(pfx, ByteAt(code, i))>>]
    BY <2>1, <2>2 DEF AgreeAfter
  <2> QED
    BY <2>3 DEF EndFrom
<1>2. CASE ~(i < Len(code))
  <2>1. i >= Len(code)
    BY <1>2, LenProperties
  <2> QED
    BY <2>1 DEF EndFrom
<1>3. CASE ~IsPrefixByte(pfx, ByteAt(code, i))
  BY <1>3 DEF EndFrom
<1> QED
  BY <1>1, <1>2, <1>3

(* f is right about the bytes from k on. *)
TurnsFrom(code, k) == (k..Len(code)) \X Prefixes

EndsFrom(code, k, f) ==
  f = [turn \in TurnsFrom(code, k) |-> EndFrom(code, f, turn[1], turn[2])]

LEMMA EndsBack ==
  ASSUME NEW code \in Seq(Byte), NEW k \in Nat, NEW f, EndsFrom(code, k + 1, f)
  PROVE  \E g : EndsFrom(code, k, g)
<1> DEFINE g == [turn \in TurnsFrom(code, k) |-> EndFrom(code, f, turn[1], turn[2])]
<1>1. ASSUME NEW turn \in TurnsFrom(code, k)
      PROVE  EndFrom(code, f, turn[1], turn[2]) = EndFrom(code, g, turn[1], turn[2])
  <2>1. turn[1] \in k..Len(code) /\ turn[2] \in Prefixes
    BY <1>1 DEF TurnsFrom
  <2>2. ASSUME NEW j \in (turn[1] + 1)..Len(code), NEW pfx \in Prefixes
        PROVE  f[<<j, pfx>>] = g[<<j, pfx>>]
    <3>1. j \in (k + 1)..Len(code) /\ j \in k..Len(code)
      BY <2>1, LenProperties
    <3>2. <<j, pfx>> \in TurnsFrom(code, k + 1) /\ <<j, pfx>> \in TurnsFrom(code, k)
      BY <3>1 DEF TurnsFrom
    <3>3. f[<<j, pfx>>] = EndFrom(code, f, <<j, pfx>>[1], <<j, pfx>>[2])
      BY <3>2 DEF EndsFrom
    <3>4. g[<<j, pfx>>] = EndFrom(code, f, <<j, pfx>>[1], <<j, pfx>>[2])
      BY <3>2
    <3> QED
      BY <3>3, <3>4
  <2>3. AgreeAfter(code, turn[1], f, g)
    BY <2>2 DEF AgreeAfter
  <2>4. turn[1] \in Nat
    BY <2>1, LenProperties
  <2> HIDE DEF g
  <2> QED
    BY <2>1, <2>3, <2>4, EndLooksAhead
<1>2. g = [turn \in TurnsFrom(code, k) |-> EndFrom(code, g, turn[1], turn[2])]
  BY <1>1
<1> QED
  BY <1>2 DEF EndsFrom

LEMMA EndsExist ==
  ASSUME NEW code \in Seq(Byte)
  PROVE  \E f : EndsFrom(code, 0, f)
<1> DEFINE last == Len(code) + 1
           S == {n \in Nat : n <= last => \E f : EndsFrom(code, last - n, f)}
<1>1. last \in Nat
  BY LenProperties
<1>2. 0 \in S
  <2> DEFINE f == [turn \in TurnsFrom(code, last) |-> 0]
  <2>1. TurnsFrom(code, last) = {}
    BY LenProperties DEF TurnsFrom
  <2>2. f = [turn \in TurnsFrom(code, last) |-> EndFrom(code, f, turn[1], turn[2])]
    BY <2>1
  <2>3. \E h : EndsFrom(code, last - 0, h)
    BY <2>2, <1>1 DEF EndsFrom
  <2> QED
    BY <2>3, <1>1
<1>3. ASSUME NEW n \in S, n \in Nat
      PROVE  n + 1 \in S
  <2>1. CASE n + 1 <= last
    <3>1. PICK f : EndsFrom(code, last - n, f)
      BY <2>1, <1>1, <1>3
    <3>2. last - (n + 1) \in Nat /\ last - n = (last - (n + 1)) + 1
      BY <2>1, <1>1, <1>3
    <3> HIDE DEF last
    <3>3. \E g : EndsFrom(code, last - (n + 1), g)
      BY <3>1, <3>2, EndsBack
    <3> QED
      BY <3>3, <1>3
  <2> QED
    BY <2>1, <1>1, <1>3
<1>4. last \in S
  <2>1. Nat \subseteq S
    <3> HIDE DEF S
    <3> QED
      BY <1>2, <1>3, SetInduction
  <2> QED
    BY <2>1, <1>1
<1>5. \E f : EndsFrom(code, last - last, f)
  BY <1>4, <1>1
<1> QED
  BY <1>5, <1>1

LEMMA EndsIs ==
  ASSUME NEW code \in Seq(Byte), NEW i \in 0..Len(code), NEW pfx \in Prefixes
  PROVE  Ends(code)[<<i, pfx>>] = EndFrom(code, Ends(code), i, pfx)
<1>1. TurnsFrom(code, 0) = Turns(code)
  BY DEF TurnsFrom, Turns
<1>2. PICK g : g = [turn \in Turns(code) |-> EndFrom(code, g, turn[1], turn[2])]
  BY <1>1, EndsExist DEF EndsFrom
<1>3. Ends(code) = CHOOSE f : f = [turn \in Turns(code) |-> EndFrom(code, f, turn[1], turn[2])]
  BY DEF Ends
<1>4. Ends(code) = [turn \in Turns(code) |-> EndFrom(code, Ends(code), turn[1], turn[2])]
  BY <1>2, <1>3, Zenon
<1>5. <<i, pfx>> \in Turns(code)
  BY DEF Turns
<1>6. Ends(code)[<<i, pfx>>] = EndFrom(code, Ends(code), <<i, pfx>>[1], <<i, pfx>>[2])
  BY <1>4, <1>5
<1> QED
  BY <1>6

LEMMA ByteAtTyped ==
  ASSUME NEW code \in Seq(Byte), NEW i \in Nat
  PROVE  ByteAt(code, i) \in Byte
<1>1. CASE i < Len(code)
  <2>1. i + 1 \in 1..Len(code)
    BY <1>1, LenProperties
  <2> QED
    BY <2>1, <1>1, ElementOfSeq DEF ByteAt
<1> QED
  BY <1>1 DEF ByteAt, Byte

(* How far the disassembler goes, in the same way. *)
ParsedFromOn(code, knightos, k, f) ==
  f = [i \in k..Len(code) |-> ParsedFrom(code, knightos, f, i)]

LEMMA ParseLooksAhead ==
  ASSUME NEW code \in Seq(Byte), NEW knightos \in BOOLEAN, NEW i \in Nat, NEW f, NEW g,
         \A j \in (i + 1)..Len(code) : f[j] = g[j]
  PROVE  ParsedFrom(code, knightos, f, i) = ParsedFrom(code, knightos, g, i)
<1> DEFINE high == High(ByteAt(code, i))
           low_at == IF high # 0 THEN i + 1 ELSE i
           low == Low(ByteAt(code, low_at))
           op_at == IF low # 0 THEN low_at + 1 ELSE low_at
           op == ByteAt(code, op_at)
<1>1. Len(code) \in Nat
  BY LenProperties
<1>2. op_at \in Nat /\ op_at >= i
  OBVIOUS
<1>3. CASE op = KPrefix
  <2>1. op_at < Len(code)
    BY <1>3 DEF ByteAt, KPrefix
  <2>2. op_at + 1 \in (i + 1)..Len(code)
    <3> HIDE DEF op_at
    <3> QED
      BY <2>1, <1>1, <1>2
  <2>3. f[op_at + 1] = g[op_at + 1]
    BY <2>2
  <2> QED
    BY <2>3 DEF ParsedFrom
<1>4. CASE op # KPrefix
  BY <1>4 DEF ParsedFrom
<1> QED
  BY <1>3, <1>4

LEMMA ParsedBack ==
  ASSUME NEW code \in Seq(Byte), NEW knightos \in BOOLEAN, NEW k \in Nat, NEW f,
         ParsedFromOn(code, knightos, k + 1, f)
  PROVE  \E g : ParsedFromOn(code, knightos, k, g)
<1> DEFINE g == [i \in k..Len(code) |-> ParsedFrom(code, knightos, f, i)]
<1>1. ASSUME NEW i \in k..Len(code)
      PROVE  ParsedFrom(code, knightos, f, i) = ParsedFrom(code, knightos, g, i)
  <2>1. ASSUME NEW j \in (i + 1)..Len(code)
        PROVE  f[j] = g[j]
    <3>1. j \in (k + 1)..Len(code) /\ j \in k..Len(code)
      BY LenProperties
    <3>2. f[j] = ParsedFrom(code, knightos, f, j)
      BY <3>1 DEF ParsedFromOn
    <3> QED
      BY <3>1, <3>2
  <2>2. i \in Nat
    BY LenProperties
  <2> HIDE DEF g
  <2> QED
    BY <2>1, <2>2, ParseLooksAhead
<1>2. g = [i \in k..Len(code) |-> ParsedFrom(code, knightos, g, i)]
  BY <1>1
<1> QED
  BY <1>2 DEF ParsedFromOn

LEMMA ParsedExist ==
  ASSUME NEW code \in Seq(Byte), NEW knightos \in BOOLEAN
  PROVE  \E f : ParsedFromOn(code, knightos, 0, f)
<1> DEFINE last == Len(code) + 1
           S == {n \in Nat : n <= last => \E f : ParsedFromOn(code, knightos, last - n, f)}
<1>1. last \in Nat
  BY LenProperties
<1>2. 0 \in S
  <2> DEFINE f == [i \in last..Len(code) |-> 0]
  <2>1. last..Len(code) = {}
    BY LenProperties
  <2>2. f = [i \in last..Len(code) |-> ParsedFrom(code, knightos, f, i)]
    BY <2>1
  <2>3. \E h : ParsedFromOn(code, knightos, last - 0, h)
    BY <2>2, <1>1 DEF ParsedFromOn
  <2> QED
    BY <2>3, <1>1
<1>3. ASSUME NEW n \in S, n \in Nat
      PROVE  n + 1 \in S
  <2>1. CASE n + 1 <= last
    <3>1. PICK f : ParsedFromOn(code, knightos, last - n, f)
      BY <2>1, <1>1, <1>3
    <3>2. last - (n + 1) \in Nat /\ last - n = (last - (n + 1)) + 1
      BY <2>1, <1>1, <1>3
    <3> HIDE DEF last
    <3>3. \E g : ParsedFromOn(code, knightos, last - (n + 1), g)
      BY <3>1, <3>2, ParsedBack
    <3> QED
      BY <3>3, <1>3
  <2> QED
    BY <2>1, <1>1, <1>3
<1>4. last \in S
  <2>1. Nat \subseteq S
    <3> HIDE DEF S
    <3> QED
      BY <1>2, <1>3, SetInduction
  <2> QED
    BY <2>1, <1>1
<1>5. \E f : ParsedFromOn(code, knightos, last - last, f)
  BY <1>4, <1>1
<1> QED
  BY <1>5, <1>1

LEMMA ParsedIs ==
  ASSUME NEW code \in Seq(Byte), NEW knightos \in BOOLEAN, NEW i \in 0..Len(code)
  PROVE  ParsedEnds(code, knightos)[i]
           = ParsedFrom(code, knightos, ParsedEnds(code, knightos), i)
<1>1. PICK g : g = [j \in 0..Len(code) |-> ParsedFrom(code, knightos, g, j)]
  BY ParsedExist DEF ParsedFromOn
<1>2. ParsedEnds(code, knightos)
        = CHOOSE f : f = [j \in 0..Len(code) |-> ParsedFrom(code, knightos, f, j)]
  BY DEF ParsedEnds
<1>3. ParsedEnds(code, knightos)
        = [j \in 0..Len(code) |-> ParsedFrom(code, knightos, ParsedEnds(code, knightos), j)]
  BY <1>1, <1>2, Zenon
<1> QED
  BY <1>3

(* The two readings of the opcode tables. *)
LEMMA FieldsTyped ==
  ASSUME NEW op \in Byte
  PROVE  /\ x(op) \in 0..3 /\ y(op) \in 0..7 /\ z(op) \in 0..7
         /\ p(op) \in 0..3 /\ q(op) \in 0..1
         /\ op = 64 * x(op) + 8 * y(op) + z(op)
         /\ y(op) = 2 * p(op) + q(op)
BY DEF Byte, x, y, z, p, q

LEMMA FetchedTyped ==
  ASSUME NEW high \in {0, DD, FD}, NEW op \in Byte
  PROVE  /\ FetchedMain(<<high, 0>>, op) \in Nat
         /\ FetchedED(op) \in Nat
         /\ parse_r(high, z(op)) \in Nat
<1>1. \A r \in 0..7 : Fetched(<<high, 0>>, r) \in Nat /\ parse_r(high, r) \in Nat
  BY DEF Fetched, parse_r
<1>2. CASE x(op) = 0
  BY <1>1, <1>2, FieldsTyped DEF FetchedMain, FetchedQuadrantZero, FetchedED
<1>3. CASE x(op) = 1
  BY <1>1, <1>3, FieldsTyped DEF FetchedMain, FetchedLoad, FetchedED
<1>4. CASE x(op) = 2
  BY <1>1, <1>4, FieldsTyped DEF FetchedMain, FetchedED
<1>5. CASE x(op) = 3
  <2>1. <<2, 0, 1, 1, 0, 0, 0, 0>>[y(op) + 1] \in Nat
    BY FieldsTyped
  <2>2. FetchedQuadrantThree(op) \in Nat
    BY <2>1, FieldsTyped DEF FetchedQuadrantThree
  <2> QED
    BY <1>1, <1>5, <2>2, FieldsTyped DEF FetchedMain, FetchedED
<1> QED
  BY <1>2, <1>3, <1>4, <1>5, FieldsTyped

LEMMA QuadrantZeroAgrees ==
  ASSUME NEW high \in {0, DD, FD}, NEW op \in Byte
  PROVE  FetchedQuadrantZero(<<high, 0>>, op) = ParsedQuadrantZero(high, op)
BY FieldsTyped DEF FetchedQuadrantZero, ParsedQuadrantZero, Fetched, parse_r, Indexed, DD, FD

LEMMA QuadrantThreeAgrees ==
  ASSUME NEW op \in Byte, x(op) = 3
  PROVE  FetchedQuadrantThree(op) = ParsedQuadrantThree(op)
<1>1. CASE z(op) = 3
  BY <1>1, FieldsTyped DEF FetchedQuadrantThree, ParsedQuadrantThree
<1>2. CASE z(op) = 5
  <2>1. op = 205 <=> q(op) = 1 /\ p(op) = 0
    BY <1>2, FieldsTyped
  <2> QED
    BY <1>2, <2>1 DEF FetchedQuadrantThree, ParsedQuadrantThree
<1>3. CASE z(op) \notin {3, 5}
  BY <1>3, FieldsTyped DEF FetchedQuadrantThree, ParsedQuadrantThree
<1> QED
  BY <1>1, <1>2, <1>3

LEMMA LoadAgrees ==
  ASSUME NEW high \in {0, DD, FD}, NEW op \in Byte, x(op) = 1
  PROVE  FetchedLoad(<<high, 0>>, op)
           = IF op = 118 THEN 0 ELSE parse_rw_r(high, y(op), z(op))
<1>1. InMainTable(<<high, 0>>)
  BY DEF InMainTable, InBitTable, InEDTable, CB, DD, ED, FD
<1> QED
  BY <1>1, FieldsTyped DEF FetchedLoad, IsHalt, parse_rw_r, parse_r, Fetched, Indexed, DD, FD

LEMMA MainAgrees ==
  ASSUME NEW high \in {0, DD, FD}, NEW op \in Byte
  PROVE  FetchedMain(<<high, 0>>, op) = ParsedMain(high, op)
<1>1. CASE x(op) = 0
  BY <1>1, QuadrantZeroAgrees DEF FetchedMain, ParsedMain
<1>2. CASE x(op) = 1
  BY <1>2, LoadAgrees DEF FetchedMain, ParsedMain
<1>3. CASE x(op) = 2
  BY <1>3, FieldsTyped DEF FetchedMain, ParsedMain, Fetched, parse_r, Indexed, DD, FD
<1>4. CASE x(op) = 3
  BY <1>4, QuadrantThreeAgrees DEF FetchedMain, ParsedMain
<1> QED
  BY <1>1, <1>2, <1>3, <1>4, FieldsTyped

(* The processor's turns, from byte i on, table by table. *)
LEMMA PlainTurn ==
  ASSUME NEW code \in Seq(Byte), NEW i \in Nat, i < Len(code),
         NEW high \in {0, DD, FD}, ByteAt(code, i) \notin {CB, DD, ED, FD}
  PROVE  Ends(code)[<<i, <<high, 0>> >>] = i + 1 + FetchedMain(<<high, 0>>, ByteAt(code, i))
<1>1. i \in 0..Len(code) /\ ~(i >= Len(code)) /\ <<high, 0>> \in Prefixes
  BY LenProperties DEF Prefixes
<1>2. ~InBitTable(<<high, 0>>) /\ ~InEDTable(<<high, 0>>)
  BY DEF InBitTable, InEDTable, CB, DD, ED, FD
<1>3. ~IsPrefixByte(<<high, 0>>, ByteAt(code, i))
  BY DEF IsPrefixByte
<1>4. EndFrom(code, Ends(code), i, <<high, 0>>) = i + 1 + FetchedMain(<<high, 0>>, ByteAt(code, i))
  BY <1>1, <1>2, <1>3 DEF EndFrom
<1> QED
  BY <1>1, <1>4, EndsIs

LEMMA PrefixTurn ==
  ASSUME NEW code \in Seq(Byte), NEW i \in Nat, i < Len(code),
         NEW high \in {0, DD, FD}, ByteAt(code, i) \in {DD, ED, FD}
  PROVE  Ends(code)[<<i, <<high, 0>> >>] = Ends(code)[<<i + 1, <<ByteAt(code, i), 0>> >>]
<1>1. i \in 0..Len(code) /\ ~(i >= Len(code)) /\ <<high, 0>> \in Prefixes
  BY LenProperties DEF Prefixes
<1>2. ~InBitTable(<<high, 0>>) /\ ~InEDTable(<<high, 0>>)
  BY DEF InBitTable, InEDTable, CB, DD, ED, FD
<1>3. IsPrefixByte(<<high, 0>>, ByteAt(code, i)) /\ ByteAt(code, i) # CB
  BY <1>2 DEF IsPrefixByte, InMainTable, CB, DD, ED, FD
<1>4. NextPrefix(<<high, 0>>, ByteAt(code, i)) = <<ByteAt(code, i), 0>>
  BY <1>3 DEF NextPrefix
<1>5. EndFrom(code, Ends(code), i, <<high, 0>>) = Ends(code)[<<i + 1, <<ByteAt(code, i), 0>> >>]
  BY <1>1, <1>2, <1>3, <1>4 DEF EndFrom
<1> QED
  BY <1>1, <1>5, EndsIs

LEMMA BitTurns ==
  ASSUME NEW code \in Seq(Byte), NEW i \in Nat, i + 1 < Len(code),
         NEW high \in {0, DD, FD}, ByteAt(code, i) = CB
  PROVE  Ends(code)[<<i, <<high, 0>> >>] = i + 2 + parse_r(high, z(ByteAt(code, i + 2)))
<1>1. /\ i \in 0..Len(code) /\ ~(i >= Len(code)) /\ <<high, 0>> \in Prefixes
      /\ i + 1 \in 0..Len(code) /\ ~(i + 1 >= Len(code)) /\ <<high, CB>> \in Prefixes
      /\ i + 2 \in Nat
  BY LenProperties DEF Prefixes
<1>2. ~InBitTable(<<high, 0>>) /\ ~InEDTable(<<high, 0>>)
  BY DEF InBitTable, InEDTable, CB, DD, ED, FD
<1>3. IsPrefixByte(<<high, 0>>, ByteAt(code, i))
  BY <1>2 DEF IsPrefixByte, InMainTable, CB, DD, ED, FD
<1>4. NextPrefix(<<high, 0>>, ByteAt(code, i)) = <<high, CB>>
  BY <1>3 DEF NextPrefix
<1>5. EndFrom(code, Ends(code), i, <<high, 0>>) = Ends(code)[<<i + 1, <<high, CB>> >>]
  BY <1>1, <1>2, <1>3, <1>4 DEF EndFrom
<1>6. /\ InBitTable(<<high, CB>>) /\ ~InEDTable(<<high, CB>>)
      /\ ~IsPrefixByte(<<high, CB>>, ByteAt(code, i + 1))
  BY DEF InBitTable, InEDTable, IsPrefixByte, InMainTable
<1>7. Indexed(<<high, CB>>) <=> high # 0
  BY DEF Indexed, DD, FD
<1>8. z(ByteAt(code, i + 2)) \in 0..7
  BY <1>1, ByteAtTyped, FieldsTyped
<1>9. (i + 1) + 1 = i + 2
  OBVIOUS
<1>10. EndFrom(code, Ends(code), i + 1, <<high, CB>>)
         = i + 2 + parse_r(high, z(ByteAt(code, i + 2)))
  <2>1. CASE high = 0
    BY <1>1, <1>6, <1>7, <1>9, <2>1 DEF EndFrom, parse_r
  <2>2. CASE high # 0
    <3>1. FetchedIndexedBit(<<high, CB>>, ByteAt(code, i + 2))
            = 1 + parse_r(high, z(ByteAt(code, i + 2)))
      BY <1>7, <1>8, <2>2 DEF FetchedIndexedBit, Fetched, parse_r
    <3>2. EndFrom(code, Ends(code), i + 1, <<high, CB>>)
            = i + 1 + FetchedIndexedBit(<<high, CB>>, ByteAt(code, i + 2))
      BY <1>1, <1>6, <1>7, <1>9, <2>2 DEF EndFrom
    <3> QED
      BY <3>1, <3>2, <1>8 DEF parse_r
  <2> QED
    BY <2>1, <2>2
<1> QED
  BY <1>1, <1>5, <1>10, EndsIs

LEMMA EDTurn ==
  ASSUME NEW code \in Seq(Byte), NEW i \in Nat, i < Len(code)
  PROVE  Ends(code)[<<i, <<ED, 0>> >>] = i + 1 + FetchedED(ByteAt(code, i))
<1>1. i \in 0..Len(code) /\ ~(i >= Len(code)) /\ <<ED, 0>> \in Prefixes
  BY LenProperties DEF Prefixes
<1>2. /\ ~InBitTable(<<ED, 0>>) /\ InEDTable(<<ED, 0>>)
      /\ ~IsPrefixByte(<<ED, 0>>, ByteAt(code, i))
  BY DEF InBitTable, InEDTable, IsPrefixByte, InMainTable, CB, ED
<1>3. EndFrom(code, Ends(code), i, <<ED, 0>>) = i + 1 + FetchedED(ByteAt(code, i))
  BY <1>1, <1>2 DEF EndFrom
<1> QED
  BY <1>1, <1>3, EndsIs

(* The disassembler and the processor agree on where the instruction at byte   *)
(* i ends, if there are four bytes from there on: unless a DD or FD stands in *)
(* front of another prefix than CB, or RST 8 extends what is behind it.       *)
LEMMA PartAgrees ==
  ASSUME NEW code \in Seq(Byte), NEW knightos \in BOOLEAN, NEW i \in Nat, i + 4 <= Len(code),
         ~Chained(code, i), ~(knightos /\ Opcode(code, i) = KPrefix)
  PROVE  /\ ParsedEnds(code, knightos)[i] = CallEnd(code, knightos, i)
         /\ CallEnd(code, knightos, i) \in Nat
<1> DEFINE byte(j) == ByteAt(code, j)
           end(j, high) == Ends(code)[<<j, <<high, 0>> >>]
           parsed == ParsedEnds(code, knightos)
<1>1. /\ Len(code) \in Nat /\ i < Len(code) /\ i + 1 < Len(code) /\ i + 2 < Len(code)
      /\ 0 \in {0, DD, FD} /\ i \in 0..Len(code) /\ ~(i >= Len(code))
      /\ i + 1 \in Nat /\ i + 2 \in Nat /\ i + 3 \in Nat
  BY LenProperties
<1>2. /\ (i + 1) + 1 = i + 2 /\ (i + 1) + 2 = i + 3 /\ (i + 2) + 1 = i + 3
      /\ (i + 1) + 1 < Len(code)
  BY <1>1
<1>3. byte(i) \in Byte /\ byte(i + 1) \in Byte /\ byte(i + 2) \in Byte /\ byte(i + 3) \in Byte
  BY <1>1, ByteAtTyped
<1>4. parsed[i] = ParsedFrom(code, knightos, parsed, i)
  BY <1>1, ParsedIs
<1> HIDE DEF parsed
<1>5. CASE knightos /\ Opcode(code, i) = PCall
  <2>1. CallEnd(code, knightos, i) = OpcodeAt(code, i) + 3
    BY <1>5 DEF CallEnd
  <2>2. CASE byte(i) \in {DD, FD}
    <3>1. OpcodeAt(code, i) = i + 1 /\ byte(i + 1) = PCall
      BY <1>5, <2>2 DEF OpcodeAt, Opcode
    <3>2. ParsedFrom(code, knightos, parsed, i) = (i + 1) + 3
      BY <1>1, <1>5, <2>2, <3>1 DEF ParsedFrom, High, Low, PCall, KPrefix, CB, ED, DD, FD
    <3> QED
      BY <1>1, <1>4, <2>1, <3>1, <3>2 DEF parsed
  <2>3. CASE byte(i) \notin {DD, FD}
    <3>1. OpcodeAt(code, i) = i /\ byte(i) = PCall
      BY <1>5, <2>3 DEF OpcodeAt, Opcode
    <3>2. ParsedFrom(code, knightos, parsed, i) = i + 3
      BY <1>1, <1>5, <3>1 DEF ParsedFrom, High, Low, PCall, KPrefix, CB, ED, DD, FD
    <3> QED
      BY <1>1, <1>4, <2>1, <3>1, <3>2 DEF parsed
  <2> QED
    BY <2>2, <2>3
<1>6. CASE ~(knightos /\ Opcode(code, i) = PCall)
  <2> SUFFICES ParsedFrom(code, knightos, parsed, i) = end(i, 0) /\ end(i, 0) \in Nat
    BY <1>4, <1>6 DEF CallEnd, NoPrefix, parsed
  <2>6. CASE byte(i) = CB
    <3>1. end(i, 0) = i + 2 + parse_r(0, z(byte(i + 2)))
      BY <1>1, <2>6, BitTurns
    <3>2. ParsedFrom(code, knightos, parsed, i) = (i + 1) + 1
      BY <1>1, <2>6 DEF ParsedFrom, High, Low, ParsedBit, parse_r, CB, ED, DD, FD
    <3> QED
      BY <1>1, <1>2, <3>1, <3>2 DEF parse_r
  <2>7. CASE byte(i) = ED
    <3>1. end(i, 0) = end(i + 1, ED)
      BY <1>1, <2>7, PrefixTurn
    <3>2. end(i + 1, ED) = (i + 1) + 1 + FetchedED(byte(i + 1))
      BY <1>1, EDTurn
    <3>3. ParsedFrom(code, knightos, parsed, i) = (i + 1) + 1 + ParsedED(byte(i + 1))
      BY <1>1, <2>7 DEF ParsedFrom, High, Low, CB, ED, DD, FD
    <3>4. FetchedED(byte(i + 1)) \in Nat /\ FetchedED(byte(i + 1)) = ParsedED(byte(i + 1))
      BY DEF FetchedED, ParsedED
    <3> QED
      BY <1>1, <3>1, <3>2, <3>3, <3>4
  <2>8. CASE byte(i) \in {DD, FD}
    <3>1. byte(i + 1) \notin {DD, ED, FD}
      BY <2>8 DEF Chained
    <3>6. knightos => byte(i + 1) \notin {PCall, KPrefix}
      BY <1>6, <2>8 DEF Opcode, OpcodeAt
    <3>2. end(i, 0) = end(i + 1, byte(i))
      <4>1. byte(i) \in {DD, ED, FD}
        BY <2>8
      <4> QED
        BY <1>1, <4>1, PrefixTurn
    <3>3. byte(i) \in {0, DD, FD} /\ byte(i) # 0
      BY <2>8 DEF DD, FD
    <3>4. CASE byte(i + 1) = CB
      <4>1. end(i + 1, byte(i)) = (i + 1) + 2 + parse_r(byte(i), z(byte((i + 1) + 2)))
        BY <1>1, <1>2, <3>3, <3>4, BitTurns
      <4>2. ParsedFrom(code, knightos, parsed, i) = (i + 2) + 1 + parse_r(byte(i), z(byte(i + 3)))
        BY <1>1, <1>2, <2>8, <3>4 DEF ParsedFrom, High, Low, ParsedBit, CB, ED, DD, FD
      <4>3. parse_r(byte(i), z(byte(i + 3))) \in Nat
        BY <1>3, <3>3, FetchedTyped
      <4> QED
        BY <1>1, <1>2, <3>2, <4>1, <4>2, <4>3
    <3>5. CASE byte(i + 1) # CB
      <4>1. end(i + 1, byte(i)) = (i + 1) + 1 + FetchedMain(<<byte(i), 0>>, byte(i + 1))
        <5>1. byte(i + 1) \notin {CB, DD, ED, FD}
          BY <3>1, <3>5
        <5> QED
          BY <1>1, <5>1, <3>3, PlainTurn
      <4>2. ParsedFrom(code, knightos, parsed, i) = (i + 1) + 1 + ParsedMain(byte(i), byte(i + 1))
        BY <1>1, <2>8, <3>1, <3>5, <3>6 DEF ParsedFrom, High, Low, CB, ED, DD, FD
      <4>3. FetchedMain(<<byte(i), 0>>, byte(i + 1)) = ParsedMain(byte(i), byte(i + 1))
        BY <1>3, <3>3, MainAgrees
      <4>4. FetchedMain(<<byte(i), 0>>, byte(i + 1)) \in Nat
        BY <1>3, <3>3, FetchedTyped
      <4> QED
        BY <1>1, <3>2, <4>1, <4>2, <4>3, <4>4
    <3> QED
      BY <3>4, <3>5
  <2>9. CASE byte(i) \notin {CB, DD, ED, FD}
    <3>1. end(i, 0) = i + 1 + FetchedMain(<<0, 0>>, byte(i))
      BY <1>1, <2>9, PlainTurn
    <3>2. knightos => byte(i) \notin {PCall, KPrefix}
      BY <1>6, <2>9 DEF Opcode, OpcodeAt
    <3>3. ParsedFrom(code, knightos, parsed, i) = i + 1 + ParsedMain(0, byte(i))
      BY <1>1, <2>9, <3>2 DEF ParsedFrom, High, Low, CB, ED, DD, FD
    <3>4. FetchedMain(<<0, 0>>, byte(i)) = ParsedMain(0, byte(i))
      BY <1>1, <1>3, MainAgrees
    <3>5. FetchedMain(<<0, 0>>, byte(i)) \in Nat
      BY <1>1, <1>3, FetchedTyped
    <3> QED
      BY <1>1, <3>1, <3>3, <3>4, <3>5
  <2> QED
    BY <2>6, <2>7, <2>8, <2>9
<1> QED
  BY <1>5, <1>6

LEMMA OpcodeNear ==
  ASSUME NEW code \in Seq(Byte), Len(code) >= 6
  PROVE  /\ OpcodeAt(code, 0) \in {0, 1} /\ ByteAt(code, 0) = code[1]
         /\ code[1] = PCall => Opcode(code, 0) = PCall
<1>1. ByteAt(code, 0) = code[1]
  <2>1. 0 < Len(code)
    BY LenProperties
  <2> QED
    BY <2>1 DEF ByteAt
<1> QED
  BY <1>1 DEF OpcodeAt, Opcode, PCall, DD, FD

(* The disassembler finds an instruction extended by RST 8 where that ends. *)
LEMMA ExtensionParsed ==
  ASSUME NEW code \in Seq(Byte), Len(code) >= 6, NEW knightos \in BOOLEAN,
         IsExtended(code, knightos)
  PROVE  parse_instruction(code, knightos) = ParsedEnds(code, knightos)[OpcodeAt(code, 0) + 1]
<1> DEFINE parsed == ParsedEnds(code, knightos)
<1>1. Len(code) \in Nat /\ 0 \in 0..Len(code) /\ ~(0 >= Len(code))
  BY LenProperties
<1>2. parse_instruction(code, knightos) = ParsedFrom(code, knightos, parsed, 0)
  BY <1>1, ParsedIs DEF parse_instruction
<1>3. knightos /\ Opcode(code, 0) = KPrefix
  BY DEF IsExtended
<1> HIDE DEF parsed
<1>4. CASE ByteAt(code, 0) \in {DD, FD}
  <2>1. OpcodeAt(code, 0) = 1 /\ ByteAt(code, 1) = KPrefix
    BY <1>3, <1>4 DEF OpcodeAt, Opcode
  <2>2. ParsedFrom(code, knightos, parsed, 0) = parsed[1 + 1]
    BY <1>1, <1>3, <1>4, <2>1 DEF ParsedFrom, High, Low, KPrefix, PCall, CB, ED, DD, FD
  <2> QED
    BY <1>2, <2>1, <2>2 DEF parsed
<1>5. CASE ByteAt(code, 0) \notin {DD, FD}
  <2>1. OpcodeAt(code, 0) = 0 /\ ByteAt(code, 0) = KPrefix
    BY <1>3, <1>5 DEF OpcodeAt, Opcode
  <2>2. ParsedFrom(code, knightos, parsed, 0) = parsed[0 + 1]
    BY <1>1, <1>3, <2>1 DEF ParsedFrom, High, Low, KPrefix, PCall, CB, ED, DD, FD
  <2> QED
    BY <1>2, <2>1, <2>2 DEF parsed
<1> QED
  BY <1>4, <1>5

(* What step_over takes for the end of the instruction at PC is the end, for   *)
(* all bytes that can be there and with and without `knightos', RST 8 and     *)
(* what it extends and RST 20h behind a prefix included, but for Misjudged.   *)
THEOREM LengthsAgree ==
  ASSUME NEW code \in Seq(Byte), Len(code) >= 6, NEW knightos \in BOOLEAN,
         ~Misjudged(code, knightos)
  PROVE  SizeOver(code, knightos) = EndOver(code, knightos)
<1>1. Len(code) \in Nat /\ OpcodeAt(code, 0) \in {0, 1}
  BY OpcodeNear, LenProperties
<1>2. ~Chained(code, 0) /\ ~(knightos /\ code[1] = PCall)
  BY DEF Misjudged
<1>3. CASE IsExtended(code, knightos)
  <2> DEFINE behind == OpcodeAt(code, 0) + 1
  <2>1. behind \in Nat /\ behind + 4 <= Len(code)
    BY <1>1
  <2>2. ~Chained(code, behind) /\ Opcode(code, behind) # KPrefix
    BY <1>3 DEF Misjudged
  <2>3. EndOver(code, knightos) = CallEnd(code, knightos, behind)
    BY <1>3 DEF EndOver
  <2>4. parse_instruction(code, knightos) = ParsedEnds(code, knightos)[behind]
    BY <1>3, ExtensionParsed
  <2> HIDE DEF behind
  <2>5. /\ ParsedEnds(code, knightos)[behind] = CallEnd(code, knightos, behind)
        /\ CallEnd(code, knightos, behind) \in Nat
    BY <2>1, <2>2, PartAgrees
  <2> QED
    BY <1>2, <2>3, <2>4, <2>5 DEF SizeOver
<1>4. CASE ~IsExtended(code, knightos)
  <2>1. 0 \in Nat /\ 0 + 4 <= Len(code) /\ ~(knightos /\ Opcode(code, 0) = KPrefix)
    BY <1>1, <1>4 DEF IsExtended
  <2>2. /\ ParsedEnds(code, knightos)[0] = CallEnd(code, knightos, 0)
        /\ CallEnd(code, knightos, 0) \in Nat
    BY <1>2, <2>1, PartAgrees
  <2>3. EndOver(code, knightos) = CallEnd(code, knightos, 0)
    BY <1>4 DEF EndOver
  <2> QED
    BY <1>2, <2>2, <2>3 DEF SizeOver, parse_instruction
<1> QED
  BY <1>3, <1>4

(* A system call of KnightOS is three bytes, and step_over goes by five: the   *)
(* word that names the call is counted by parse_instruction and once more.    *)
THEOREM SystemCallOvershoots ==
  ASSUME NEW code \in Seq(Byte), Len(code) >= 6, code[1] = PCall
  PROVE  EndOver(code, TRUE) = 3 /\ SizeOver(code, TRUE) = 5
<1>1. Opcode(code, 0) = PCall /\ ByteAt(code, 0) = PCall
  BY OpcodeNear
<1>2. OpcodeAt(code, 0) = 0 /\ ~Chained(code, 0) /\ PCall # KPrefix
  BY <1>1 DEF OpcodeAt, Chained, PCall, KPrefix, DD, FD
<1>3. ~IsExtended(code, TRUE) /\ CallEnd(code, TRUE, 0) = 3
  BY <1>1, <1>2 DEF IsExtended, CallEnd
<1>4. EndOver(code, TRUE) = 3
  BY <1>3 DEF EndOver
<1>5. 0 \in Nat /\ 0 + 4 <= Len(code)
  BY LenProperties
<1>6. ParsedEnds(code, TRUE)[0] = CallEnd(code, TRUE, 0)
  BY <1>1, <1>2, <1>5, PartAgrees
<1>7. SizeOver(code, TRUE) = 5
  <2>1. parse_instruction(code, TRUE) = 3
    BY <1>3, <1>6 DEF parse_instruction
  <2>2. SizeOver(code, TRUE) = parse_instruction(code, TRUE) + 2
    BY Zenon DEF SizeOver
  <2>3. 3 + 2 = 5
    OBVIOUS
  <2> QED
    BY <2>1, <2>2, <2>3, Zenon
<1> QED
  BY <1>4, <1>7

(* The breakpoints step_over leaves are where the instruction ends. *)
StepOverLands == \A i \in DOMAIN breaks : breaks[i].misjudged \/ breaks[i].address = breaks[i].after

LEMMA StepsLand ==
  ASSUME NEW step \in Steps
  PROVE  step.misjudged \/ step.size = step.length
<1>1. PICK code \in Codes, knightos \in BOOLEAN :
        step = [size |-> SizeOver(code, knightos), length |-> EndOver(code, knightos),
                misjudged |-> Misjudged(code, knightos)]
  BY DEF Steps
<1>2. code \in Seq(Byte) /\ Len(code) >= 6
  BY CodesAssumption
<1> QED
  BY <1>1, <1>2, LengthsAgree

LEMMA SettingLands ==
  ASSUME DataTyped, StepOverLands, NEW address \in Addresses, NEW count \in Int,
         NEW after \in Addresses, NEW misjudged \in BOOLEAN, misjudged \/ address = after,
         SetBreak(address, count, after, misjudged)
  PROVE  StepOverLands'
<1>1. PICK i \in 1..(Len(callbacks[Before]) + chunk) :
        breaks' = Append(breaks, [address |-> address, count |-> count,
                                  hook_id |-> i, after |-> after, misjudged |-> misjudged])
  BY DEF SetBreak
<1> DEFINE new == [address |-> address, count |-> count, hook_id |-> i, after |-> after,
                   misjudged |-> misjudged]
<1>2. breaks \in Seq(BreakData) /\ Len(breaks) \in Nat /\ DOMAIN breaks = 1..Len(breaks)
  BY LenProperties DEF DataTyped
<1>3. new.misjudged \/ new.address = new.after
  OBVIOUS
<1>4. i \in Nat \ {0}
  <2>1. 1..(Len(callbacks[Before]) + chunk) \subseteq Nat \ {0}
    OBVIOUS
  <2> QED
    BY <2>1
<1>5. new \in BreakData
  BY <1>4 DEF BreakData
<1> HIDE DEF new
<1>6. /\ DOMAIN breaks' = 1..(Len(breaks) + 1)
      /\ \A j \in 1..(Len(breaks) + 1) : breaks'[j] = IF j <= Len(breaks) THEN breaks[j] ELSE new
  <2>1. breaks' = Append(breaks, new)
    BY <1>1 DEF new
  <2> QED
    BY <2>1, <1>2, <1>5, AppendProperties
<1> QED
  BY <1>2, <1>3, <1>6 DEF StepOverLands

LEMMA FiringLands ==
  ASSUME DataTyped, StepOverLands, Fire(PC)
  PROVE  StepOverLands'
<1>1. PICK ids : breaks' = [i \in DOMAIN breaks |->
            IF i \in ids THEN [breaks[i] EXCEPT !.count = CountedDown(i)] ELSE breaks[i]]
  BY DEF Fire
<1>2. \A i \in DOMAIN breaks : breaks[i] \in BreakData
  BY LenProperties, ElementOfSeq DEF DataTyped
<1>3. ASSUME NEW i \in DOMAIN breaks
      PROVE  breaks'[i].misjudged \/ breaks'[i].address = breaks'[i].after
  <2> DEFINE record == breaks[i]
             count == CountedDown(i)
  <2>1. record \in BreakData /\ (record.misjudged \/ record.address = record.after)
    BY <1>2 DEF StepOverLands
  <2>2. breaks'[i] = IF i \in ids THEN [record EXCEPT !.count = count] ELSE record
    BY <1>1
  <2> HIDE DEF record, count
  <2> QED
    BY <2>1, <2>2 DEF BreakData
<1> QED
  BY <1>1, <1>3 DEF StepOverLands

LEMMA LandStep ==
  ASSUME DataInv, StepOverLands, [Next]_vars
  PROVE  StepOverLands'
<1>1. DataTyped
  BY DEF DataInv
<1>2. CASE command_break
  <2>1. PICK address \in BreakAddresses, count \in Counts :
          SetBreak(address, count, address, FALSE)
    BY <1>2 DEF command_break
  <2>2. address \in Addresses /\ count \in Int /\ FALSE \in BOOLEAN
    BY AddressesAssumption, CountsAssumption
  <2> QED
    BY <1>1, <2>1, <2>2, SettingLands
<1>3. CASE step_over
  <2>1. CASE StepOverJump
    BY <2>1 DEF StepOverJump, StepOverLands
  <2>2. CASE ~StepOverJump
    <3>1. PICK step \in Steps, address \in Addresses, end \in Addresses :
            /\ address = Wrap(PC + step.size)
            /\ end = Wrap(PC + step.length)
            /\ SetBreak(address, 1, end, step.misjudged)
      BY <1>3, <2>2 DEF step_over
    <3>2. step.misjudged \/ address = end
      BY <3>1, StepsLand
    <3>3. step.misjudged \in BOOLEAN /\ 1 \in Int
      BY StepsTyped
    <3> QED
      BY <1>1, <3>1, <3>2, <3>3, SettingLands
  <2> QED
    BY <2>1, <2>2
<1>4. CASE RunHooks
  BY <1>1, <1>4, FiringLands DEF RunHooks
<1>5. CASE RunHooksAgain
  <2>1. CASE left = Endless
    BY <1>1, <1>5, <2>1, FiringLands DEF RunHooksAgain
  <2>2. CASE left # Endless
    BY <1>5, <2>2 DEF RunHooksAgain, StepOverLands
  <2> QED
    BY <2>1, <2>2
<1>6. CASE command_on \/ command_run \/ command_stop
  BY <1>6 DEF command_on, command_run, command_stop, StepOverLands
<1>7. CASE Check \/ Tick \/ Test \/ SIGINT \/ UNCHANGED vars
  BY <1>7 DEF Check, Tick, Test, SIGINT, vars, StepOverLands
<1> QED
  BY <1>2, <1>3, <1>4, <1>5, <1>6, <1>7 DEF Next

LEMMA Lands == Spec => []StepOverLands
<1>1. Init => StepOverLands
  BY DEF Init, StepOverLands
<1>2. IInv /\ StepOverLands /\ [Next]_vars => StepOverLands'
  BY LandStep DEF IInv
<1> QED
  BY <1>1, <1>2, Invariance, PTL DEF Spec

(* A step over stops at the end of the instruction stepped over: the guest     *)
(* never runs on from there while the temporary breakpoint is to be hit, for  *)
(* every code at PC, with and without `knightos', but that of Misjudged.      *)
THEOREM StepOverCorrect == Spec => []StepOverStops
<1>1. IInv /\ StepOverLands => StepOverStops
  <2> SUFFICES ASSUME IInv, StepOverLands, NEW i \in DOMAIN breaks, RunsOnFrom(i),
                      ~breaks[i].misjudged
               PROVE  FALSE
    BY DEF StepOverStops
  <2>1. breaks[i].address = PC /\ breaks[i].count # 0
    BY DEF StepOverLands, RunsOnFrom
  <2>2. PC \in Active
    BY <2>1 DEF Active
  <2> QED
    BY <2>2 DEF IInv, MeetInv, RunsOnFrom
<1> QED
  BY <1>1, Lands, Invariance, PTL

(* And where an endless run that nobody asked to stop has ended is the address *)
(* a breakpoint was asked for, or the end of the instruction stepped over.    *)
EndsAtTheEnd ==
  at = "prompt" /\ left = Endless /\ since = -1
    => \E i \in DOMAIN breaks :
         breaks[i].address = PC /\ (breaks[i].after = PC \/ breaks[i].misjudged)

THEOREM StepEndsCorrect == Spec => []EndsAtTheEnd
<1>1. IInv /\ StepOverLands => EndsAtTheEnd
  BY DEF IInv, MeetInv, StopsWhereAsked, StepOverLands, EndsAtTheEnd
<1> QED
  BY <1>1, Lands, Invariance, PTL
==============================================================================
