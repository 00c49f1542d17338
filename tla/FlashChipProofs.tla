--------------------------- MODULE FlashChipProofs ---------------------------
(***************************************************************************)
(* The Flash chip, for every size it is built with, every set of addresses *)
(* and every set of bytes.                                                 *)
(***************************************************************************)
EXTENDS FlashChip, SequenceTheorems, TLAPS

Entry == (0..4095) \X SUBSET Ones

SA0 == <<2730, xA0>>
S80 == <<2730, x80>>

(* An address of the chip and a byte make an entry. *)
LEMMA CellFacts ==
  ASSUME NEW c \in Cells, NEW v \in Bytes
  PROVE  /\ c \in 0 .. FlashPages * 16384 - 1 /\ c \in Nat
         /\ <<c % 4096, v>> \in Entry
<1>1. FlashPages \in Nat
  BY PagesAssumption
<1>2. c \in 0 .. FlashPages * 16384 - 1
  BY CellsAssumption
<1>3. c \in Nat
  BY <1>1, <1>2
<1>4. c % 4096 \in 0..4095
  BY <1>3
<1>5. v \in SUBSET Ones
  BY BytesAssumption
<1>6. <<c % 4096, v>> \in Entry
  BY <1>4, <1>5 DEF Entry
<1> QED
  BY <1>2, <1>3, <1>6

(* Arithmetic on the length of a record. *)
LEMMA Lengths ==
  ASSUME NEW n \in Nat
  PROVE  /\ n <= 5 => n \in 0..5
         /\ n <= 5 /\ n + 1 >= 6 => n = 5
         /\ n + 1 >= 4 /\ ~(n >= 4) => n = 3
         /\ n <= 2 \/ n = 3 \/ n >= 4
OBVIOUS

(* The command bytes differ. *)
LEMMA BytesDiffer ==
  /\ xA0 # x80 /\ xAA # xA0 /\ xAA # x80 /\ xAA # x55
  /\ SA0 # S80 /\ Unlock1 # SA0 /\ Unlock1 # S80 /\ Unlock1 # Unlock2
<1>1. /\ 5 \in xA0 /\ 5 \notin x80 /\ 1 \in xAA /\ 1 \notin xA0 /\ 1 \notin x80
      /\ 1 \notin x55
  BY DEF xA0, x80, xAA, x55
<1> QED
  BY <1>1 DEF SA0, S80, Unlock1, Unlock2

(* No write is mistaken for the wild card of the table. *)
LEMMA WildCard ==
  ASSUME NEW w \in Entry
  PROVE  w # Any /\ Fits(w, Any) /\ \A e \in Entry : Fits(w, e) <=> w = e
<1>1. \A e \in Entry : e # Any
  <2> SUFFICES ASSUME NEW e \in Entry, e = Any
               PROVE  FALSE
    OBVIOUS
  <2>1. e[1] \in 0..4095
    BY DEF Entry
  <2>2. e[1] = -1
    BY DEF Any
  <2> QED
    BY <2>1, <2>2
<1> QED
  BY <1>1 DEF Fits

LEMMA EntryTypes == /\ Unlock1 \in Entry /\ Unlock2 \in Entry /\ SA0 \in Entry /\ S80 \in Entry
                    /\ <<2730, x10>> \in Entry
BY DEF Unlock1, Unlock2, SA0, S80, Entry, Ones, xAA, x55, xA0, x80, x10

(* What a proper beginning of one of the three commands looks like. *)
Shape(ws) ==
  /\ Len(ws) <= 5
  /\ Len(ws) >= 1 => ws[1] = Unlock1
  /\ Len(ws) >= 2 => ws[2] = Unlock2
  /\ Len(ws) = 3 => ws[3] \in {SA0, S80}
  /\ Len(ws) >= 4 => ws[3] = S80 /\ ws[4] = Unlock1
  /\ Len(ws) >= 5 => ws[5] = Unlock2

LEMMA PatternLengths ==
  Len(WritePattern) = 4 /\ Len(SectorPattern) = 6 /\ Len(ChipPattern) = 6
BY DEF WritePattern, SectorPattern, ChipPattern

LEMMA PatternEntries ==
  /\ WritePattern[1] = Unlock1 /\ WritePattern[2] = Unlock2
  /\ WritePattern[3] = SA0 /\ WritePattern[4] = Any
  /\ SectorPattern[1] = Unlock1 /\ SectorPattern[2] = Unlock2 /\ SectorPattern[3] = S80
  /\ SectorPattern[4] = Unlock1 /\ SectorPattern[5] = Unlock2 /\ SectorPattern[6] = Any
  /\ ChipPattern[1] = Unlock1 /\ ChipPattern[2] = Unlock2 /\ ChipPattern[3] = S80
  /\ ChipPattern[4] = Unlock1 /\ ChipPattern[5] = Unlock2
  /\ ChipPattern[6] = <<2730, x10>>
BY DEF WritePattern, SectorPattern, ChipPattern, SA0, S80

(* The table's search for a partial match accepts exactly those beginnings. *)
LEMMA PartialIsShape ==
  ASSUME NEW ws \in Seq(Entry)
  PROVE  AnyPartial(ws) <=> Shape(ws)
<1>0. Len(ws) \in Nat /\ \A i \in 1 .. Len(ws) : ws[i] \in Entry
  BY ElementOfSeq, LenProperties
<1>1. ASSUME Partial(ws, WritePattern)
      PROVE  Shape(ws)
  <2>1. Len(ws) <= 3 /\ \A i \in 1 .. Len(ws) : Fits(ws[i], WritePattern[i])
    BY <1>0, <1>1, PatternLengths DEF Partial, Matches
  <2>2. /\ Len(ws) >= 1 => ws[1] = Unlock1
        /\ Len(ws) >= 2 => ws[2] = Unlock2
        /\ Len(ws) >= 3 => ws[3] = SA0
    BY <1>0, <2>1, PatternEntries, WildCard, EntryTypes
  <2> QED
    BY <1>0, <2>1, <2>2 DEF Shape
<1>2. ASSUME NEW pattern \in {SectorPattern, ChipPattern}, Partial(ws, pattern)
      PROVE  Shape(ws)
  <2>0. Len(pattern) = 6
    BY PatternLengths
  <2>1. Len(ws) <= 5 /\ \A i \in 1 .. Len(ws) : Fits(ws[i], pattern[i])
    BY <1>0, <1>2, <2>0 DEF Partial, Matches
  <2>2. /\ pattern[1] = Unlock1 /\ pattern[2] = Unlock2 /\ pattern[3] = S80
        /\ pattern[4] = Unlock1 /\ pattern[5] = Unlock2
    BY PatternEntries
  <2>3. /\ Len(ws) >= 1 => ws[1] = Unlock1
        /\ Len(ws) >= 2 => ws[2] = Unlock2
        /\ Len(ws) >= 3 => ws[3] = S80
        /\ Len(ws) >= 4 => ws[4] = Unlock1
        /\ Len(ws) >= 5 => ws[5] = Unlock2
    BY <1>0, <2>1, <2>2, WildCard, EntryTypes
  <2> QED
    BY <1>0, <2>1, <2>3 DEF Shape
<1>3. ASSUME Shape(ws)
      PROVE  AnyPartial(ws)
  <2>1. CASE Len(ws) <= 2 \/ (Len(ws) = 3 /\ ws[3] = SA0)
    <3>1. \A i \in 1 .. Len(ws) : Fits(ws[i], WritePattern[i])
      BY <1>0, <1>3, <2>1, PatternEntries DEF Shape, Fits
    <3>2. Partial(ws, WritePattern)
      BY <1>0, <2>1, <3>1, PatternLengths DEF Partial, Matches
    <3> QED
      BY <3>2 DEF AnyPartial, patterns
  <2>2. CASE Len(ws) >= 3 /\ ws[3] = S80
    <3>1. \A i \in 1 .. Len(ws) : Fits(ws[i], SectorPattern[i])
      BY <1>0, <1>3, <2>2, PatternEntries DEF Shape, Fits
    <3>2. Partial(ws, SectorPattern)
      BY <1>0, <1>3, <3>1, PatternLengths DEF Partial, Matches, Shape
    <3> QED
      BY <3>2 DEF AnyPartial, patterns
  <2>3. Len(ws) <= 2 \/ Len(ws) = 3 \/ (Len(ws) >= 4 /\ ws[3] = S80)
    <3>1. Len(ws) <= 2 \/ Len(ws) = 3 \/ Len(ws) >= 4
      BY <1>0, Lengths
    <3>2. Len(ws) >= 4 => ws[3] = S80
      BY <1>3 DEF Shape
    <3> QED
      BY <3>1, <3>2
  <2>4. Len(ws) = 3 => ws[3] = SA0 \/ ws[3] = S80
    BY <1>3 DEF Shape
  <2> QED
    BY <1>0, <2>1, <2>2, <2>3, <2>4
<1> QED
  BY <1>1, <1>2, <1>3 DEF AnyPartial, patterns

(* One more write: which of the beginnings it completes, and which longer    *)
(* beginning it makes of the others.                                         *)
LEMMA AppendFacts ==
  ASSUME NEW ws \in Seq(Entry), NEW w \in Entry
  PROVE  /\ Append(ws, w) \in Seq(Entry)
         /\ Len(Append(ws, w)) = Len(ws) + 1
         /\ Append(ws, w)[Len(ws) + 1] = w
         /\ \A i \in 1 .. Len(ws) : Append(ws, w)[i] = ws[i]
BY AppendProperties

LEMMA Completion ==
  ASSUME NEW ws \in Seq(Entry), Shape(ws), NEW w \in Entry
  PROVE  /\ Complete(Append(ws, w), WritePattern) <=> Len(ws) = 3 /\ ws[3] = SA0
         /\ Complete(Append(ws, w), SectorPattern) <=> Len(ws) = 5
         /\ Complete(Append(ws, w), ChipPattern) => Len(ws) = 5
<1> DEFINE new == Append(ws, w)
<1>1. /\ Len(ws) \in Nat /\ Len(ws) <= 5 /\ Len(new) = Len(ws) + 1
      /\ new[Len(ws) + 1] = w /\ \A i \in 1 .. Len(ws) : new[i] = ws[i]
  BY AppendFacts, LenProperties DEF Shape
<1>2. \A i \in 1 .. Len(new) : new[i] \in Entry
  BY AppendFacts, ElementOfSeq, LenProperties
<1> HIDE DEF new
<1>3. ASSUME Complete(new, WritePattern)
      PROVE  Len(ws) = 3 /\ ws[3] = SA0
  <2>1. Len(new) >= 4 /\ \A i \in 1..4 : Fits(new[i], WritePattern[i])
    BY <1>3, PatternLengths DEF Complete, Matches
  <2>2. new[3] = SA0
    BY <1>1, <1>2, <2>1, PatternEntries, WildCard, EntryTypes
  <2>3. ws[3] = SA0
    BY <1>1, <2>1, <2>2
  <2>4. ~(Len(ws) >= 4)
    BY <2>3, BytesDiffer DEF Shape
  <2> QED
    BY <1>1, <2>1, <2>3, <2>4, Lengths
<1>4. ASSUME Len(ws) = 3, ws[3] = SA0
      PROVE  Complete(new, WritePattern)
  <2>1. new[1] = Unlock1 /\ new[2] = Unlock2 /\ new[3] = SA0 /\ Len(new) = 4
    BY <1>1, <1>4 DEF Shape
  <2>2. \A i \in 1..4 : Fits(new[i], WritePattern[i])
    BY <2>1, PatternEntries DEF Fits
  <2> QED
    BY <2>1, <2>2, PatternLengths DEF Complete, Matches
<1>5. ASSUME Complete(new, SectorPattern) \/ Complete(new, ChipPattern)
      PROVE  Len(ws) = 5
  <2>1. Len(new) >= 6
    BY <1>5, PatternLengths DEF Complete
  <2> QED
    BY <1>1, <2>1, Lengths
<1>6. ASSUME Len(ws) = 5
      PROVE  Complete(new, SectorPattern)
  <2>1. /\ new[1] = Unlock1 /\ new[2] = Unlock2 /\ new[3] = S80
        /\ new[4] = Unlock1 /\ new[5] = Unlock2 /\ Len(new) = 6
    BY <1>1, <1>6 DEF Shape
  <2>2. \A i \in 1..6 : Fits(new[i], SectorPattern[i])
    BY <2>1, PatternEntries DEF Fits
  <2> QED
    BY <2>1, <2>2, PatternLengths DEF Complete, Matches
<1> QED
  BY <1>3, <1>4, <1>5, <1>6 DEF new

LEMMA Growth ==
  ASSUME NEW ws \in Seq(Entry), Shape(ws), NEW w \in Entry
  PROVE  Shape(Append(ws, w)) <=>
           \/ Len(ws) = 0 /\ w = Unlock1
           \/ Len(ws) = 1 /\ w = Unlock2
           \/ Len(ws) = 2 /\ w \in {SA0, S80}
           \/ Len(ws) = 3 /\ ws[3] = S80 /\ w = Unlock1
           \/ Len(ws) = 4 /\ w = Unlock2
<1> DEFINE new == Append(ws, w)
<1>1. /\ Len(ws) \in Nat /\ Len(ws) <= 5 /\ Len(new) = Len(ws) + 1
      /\ new[Len(ws) + 1] = w /\ \A i \in 1 .. Len(ws) : new[i] = ws[i]
  BY AppendFacts, LenProperties DEF Shape
<1>2. Len(ws) \in 0..5
  BY <1>1, Lengths
<1> HIDE DEF new
<1>3. Len(ws) = 0 => (Shape(new) <=> w = Unlock1)
  BY <1>1 DEF Shape
<1>4. Len(ws) = 1 => (Shape(new) <=> w = Unlock2)
  BY <1>1 DEF Shape
<1>5. Len(ws) = 2 => (Shape(new) <=> w \in {SA0, S80})
  BY <1>1 DEF Shape
<1>6. Len(ws) = 3 => (Shape(new) <=> ws[3] = S80 /\ w = Unlock1)
  <2> SUFFICES ASSUME Len(ws) = 3
               PROVE  Shape(new) <=> ws[3] = S80 /\ w = Unlock1
    OBVIOUS
  <2>1. /\ Len(new) = 4 /\ new[4] = w
        /\ new[1] = ws[1] /\ new[2] = ws[2] /\ new[3] = ws[3]
        /\ ws[1] = Unlock1 /\ ws[2] = Unlock2
    BY <1>1 DEF Shape
  <2> QED
    BY <2>1 DEF Shape
<1>7. Len(ws) = 4 => (Shape(new) <=> w = Unlock2)
  <2> SUFFICES ASSUME Len(ws) = 4
               PROVE  Shape(new) <=> w = Unlock2
    OBVIOUS
  <2>1. /\ Len(new) = 5 /\ new[5] = w
        /\ new[1] = ws[1] /\ new[2] = ws[2] /\ new[3] = ws[3] /\ new[4] = ws[4]
        /\ ws[1] = Unlock1 /\ ws[2] = Unlock2 /\ ws[3] = S80 /\ ws[4] = Unlock1
    BY <1>1 DEF Shape
  <2> QED
    BY <2>1 DEF Shape
<1>8. Len(ws) = 5 => ~Shape(new)
  BY <1>1 DEF Shape
<1>9. Shape(new) <=>
        \/ Len(ws) = 0 /\ w = Unlock1
        \/ Len(ws) = 1 /\ w = Unlock2
        \/ Len(ws) = 2 /\ w \in {SA0, S80}
        \/ Len(ws) = 3 /\ ws[3] = S80 /\ w = Unlock1
        \/ Len(ws) = 4 /\ w = Unlock2
  BY <1>2, <1>3, <1>4, <1>5, <1>6, <1>7, <1>8
<1> QED
  BY <1>9 DEF new

-----------------------------------------------------------------------------
(* The invariant *)

RecordType == flash_writes \in Seq(Entry) /\ Shape(flash_writes)

LEMMA RecordTypeHolds == Spec => []RecordType
<1>0. <<>> \in Seq(Entry) /\ Len(<<>>) = 0 /\ Shape(<<>>)
  BY EmptySeq DEF Shape
<1>1. Init => RecordType
  BY <1>0 DEF Init, RecordType
<1>2. RecordType /\ [Next]_vars => RecordType'
  <2> SUFFICES ASSUME RecordType, [Next]_vars
               PROVE  RecordType'
    OBVIOUS
  <2>1. CASE ti_read_byte
    BY <1>0, <2>1 DEF ti_read_byte, chip_reset, RecordType
  <2>2. ASSUME NEW c \in Cells, NEW v \in Bytes, ti_write_byte(c, v)
        PROVE  RecordType'
    <3> DEFINE writes == Append(flash_writes, <<c % 4096, v>>)
    <3>1. <<c % 4096, v>> \in Entry
      BY CellFacts
    <3>2. writes \in Seq(Entry)
      BY <3>1, AppendFacts DEF RecordType
    <3>3. CASE flash_writes' = <<>>
      BY <1>0, <3>3 DEF RecordType
    <3>4. CASE flash_writes' = writes /\ AnyPartial(writes)
      <4> HIDE DEF writes
      <4>1. Shape(writes)
        BY <3>2, <3>4, PartialIsShape
      <4> QED
        BY <3>2, <3>4, <4>1 DEF RecordType
    <3> QED
      BY <2>2, <3>3, <3>4 DEF ti_write_byte, chip_reset
  <2>3. CASE UNCHANGED flash_writes
    BY <2>3 DEF RecordType
  <2> QED
    BY <2>1, <2>2, <2>3 DEF Next, WriteLocked, mmu_force_write, write_control_port, vars
<1> QED
  BY <1>1, <1>2, PTL DEF Spec

(* The table of six recorded writes never overflows, and between two         *)
(* accesses what it holds is a proper beginning of a command.                *)
THEOREM RecordFits == Spec => []RecordInv
<1>1. RecordType => RecordInv
  BY PartialIsShape DEF RecordType, Shape, RecordInv
<1> QED
  BY <1>1, RecordTypeHolds, PTL

-----------------------------------------------------------------------------
(* The masks and shifts of chip_erase_sector *)

(* Two addresses lie in the same 64 KiB iff no multiple of 64 KiB parts them. *)
LEMMA BlocksBetweenMultiples ==
  ASSUME NEW N \in Nat, NEW c \in Nat, NEW d \in Nat, c < 65536 * N, d < 65536 * N
  PROVE  (\A n \in 0..N : 65536 * n <= c <=> 65536 * n <= d)
           <=> c \div 65536 = d \div 65536
<1> DEFINE k == c \div 65536
           m == d \div 65536
<1>1. /\ k \in Nat /\ m \in Nat /\ k < N /\ m < N
      /\ 65536 * k <= c /\ c < 65536 * k + 65536
      /\ 65536 * m <= d /\ d < 65536 * m + 65536
  OBVIOUS
<1> HIDE DEF k, m
<1>2. \A n \in Nat : (65536 * n <= c <=> n <= k) /\ (65536 * n <= d <=> n <= m)
  BY <1>1
<1>3. k = m => \A n \in 0..N : 65536 * n <= c <=> 65536 * n <= d
  <2> SUFFICES ASSUME k = m, NEW n \in 0..N
               PROVE  65536 * n <= c <=> 65536 * n <= d
    OBVIOUS
  <2>1. n \in Nat
    OBVIOUS
  <2>2. (65536 * n <= c <=> n <= k) /\ (65536 * n <= d <=> n <= k)
    BY <1>2, <2>1
  <2> QED
    BY <2>2
<1>4. ASSUME \A n \in 0..N : 65536 * n <= c <=> 65536 * n <= d
      PROVE  k = m
  <2>1. k \in 0..N /\ m \in 0..N
    BY <1>1
  <2>2. (k <= k <=> k <= m) /\ (m <= k <=> m <= m)
    BY <1>1, <1>2, <1>4, <2>1
  <2> QED
    BY <1>1, <2>2
<1> QED
  BY <1>3, <1>4 DEF k, m

(* Inside the topmost 64 KiB: 32 + 8 + 8 + 16, counted from its start. *)
LEMMA TopSectors ==
  ASSUME NEW k \in Nat, NEW c \in Nat, NEW d \in Nat,
         65536 * k <= c, c < 65536 * k + 65536,
         65536 * k <= d, d < 65536 * k + 65536
  PROVE  LET t == 65536 * k
             length == IF (c \div 8192) % 8 \in 0..3 THEN 32768
                       ELSE IF (c \div 8192) % 8 \in 4..5 THEN 8192 ELSE 16384
             base == c - (c % length)
         IN d \in base .. base + length - 1
              <=> \A s \in {t + 32768, t + 40960, t + 49152} : s <= c <=> s <= d
<1> DEFINE t == 65536 * k
<1>1. CASE c < t + 32768
  <2>1. (c \div 8192) % 8 \in 0..3 /\ c - (c % 32768) = t
    BY <1>1
  <2> QED
    BY <1>1, <2>1
<1>2. CASE t + 32768 <= c /\ c < t + 40960
  <2>1. (c \div 8192) % 8 = 4 /\ c - (c % 8192) = t + 32768
    BY <1>2
  <2> QED
    BY <1>2, <2>1
<1>3. CASE t + 40960 <= c /\ c < t + 49152
  <2>1. (c \div 8192) % 8 = 5 /\ c - (c % 8192) = t + 40960
    BY <1>3
  <2> QED
    BY <1>3, <2>1
<1>4. CASE t + 49152 <= c
  <2>1. (c \div 8192) % 8 \in 6..7 /\ c - (c % 16384) = t + 49152
    BY <1>4
  <2> QED
    BY <1>4, <2>1
<1> QED
  BY <1>1, <1>2, <1>3, <1>4

(* What chip_erase_sector's masks select is what lies between two starts. *)
LEMMA SectorIsBetweenStarts ==
  ASSUME NEW c \in Cells, NEW d \in Cells
  PROVE  d \in Sector(c) <=> Commands!SameSector(c, d)
<1> DEFINE N == FlashPages \div 4
           k == c \div 65536
           m == d \div 65536
           Inner == {TopStart + 32768, TopStart + 40960, TopStart + 49152}
<1>1. N \in Nat /\ N > 0 /\ FlashPages * 16384 = 65536 * N
  BY PagesAssumption
<1>2. /\ c \in Nat /\ d \in Nat /\ c < 65536 * N /\ d < 65536 * N
  <2>1. \A a \in Nat, b \in Nat : a \in 0 .. b - 1 => a < b
    OBVIOUS
  <2>2. 65536 * N \in Nat
    BY <1>1
  <2>3. /\ c \in Nat /\ c \in 0 .. 65536 * N - 1
        /\ d \in Nat /\ d \in 0 .. 65536 * N - 1
    BY <1>1, CellsAssumption
  <2> HIDE DEF N
  <2> QED
    BY <2>1, <2>2, <2>3
<1>3. TopStart = 65536 * (N - 1)
  BY <1>1 DEF TopStart
<1>4. /\ k \in Nat /\ 65536 * k <= c /\ c < 65536 * k + 65536 /\ k < N
      /\ m \in Nat /\ 65536 * m <= d /\ d < 65536 * m + 65536 /\ m < N
  BY <1>1, <1>2
<1>5. (\A n \in 0..N : 65536 * n <= c <=> 65536 * n <= d) <=> k = m
  BY <1>1, <1>2, BlocksBetweenMultiples
<1>6. Commands!SameSector(c, d) <=> k = m /\ \A s \in Inner : s <= c <=> s <= d
  BY <1>5 DEF Commands!SameSector, SectorStarts
<1>7. CASE k + 1 # N
  <2>1. Sector(c) = 65536 * k .. 65536 * k + 65535
    <3>1. SectorLength(c) = 65536
      BY <1>7 DEF SectorLength
    <3>2. c - (c % 65536) = 65536 * k
      BY <1>2
    <3> QED
      BY <1>4, <3>1, <3>2 DEF Sector
  <2>2. d \in Sector(c) <=> k = m
    BY <1>2, <1>4, <2>1
  <2>3. k = m => \A s \in Inner : ~(s <= c) /\ ~(s <= d)
    BY <1>1, <1>2, <1>3, <1>4, <1>7
  <2> QED
    BY <1>6, <2>2, <2>3
<1>8. CASE k + 1 = N
  <2>0. TopStart = 65536 * k
    BY <1>1, <1>3, <1>4, <1>8
  <2>1. SectorLength(c) = IF (c \div 8192) % 8 \in 0..3 THEN 32768
                          ELSE IF (c \div 8192) % 8 \in 4..5 THEN 8192 ELSE 16384
    BY <1>8 DEF SectorLength
  <2>2. CASE k = m
    <3>1. d \in Sector(c) <=> \A s \in Inner : s <= c <=> s <= d
      BY <1>2, <1>4, <2>0, <2>1, <2>2, TopSectors DEF Sector
    <3> QED
      BY <1>6, <2>2, <3>1
  <2>3. CASE k # m
    <3>1. d < 65536 * k
      BY <1>1, <1>2, <1>4, <1>8, <2>3
    <3>2. c - (c % SectorLength(c)) >= 65536 * k
      <4>1. /\ c % 32768 <= c - 65536 * k
            /\ c % 16384 <= c - 65536 * k
            /\ c % 8192 <= c - 65536 * k
        BY <1>2, <1>4
      <4> QED
        BY <1>2, <1>4, <2>1, <4>1
    <3>3. d \notin Sector(c)
      BY <1>2, <1>4, <2>1, <3>1, <3>2 DEF Sector
    <3> QED
      BY <1>6, <2>3, <3>3
  <2> QED
    BY <2>2, <2>3
<1> QED
  BY <1>7, <1>8

-----------------------------------------------------------------------------
(* The refinement *)

LEMMA ShapeLength ==
  ASSUME NEW ws \in Seq(Entry), Shape(ws)
  PROVE  Len(ws) \in 0..5
<1>1. Len(ws) \in Nat
  BY LenProperties
<1>2. Len(ws) <= 5
  BY DEF Shape
<1> QED
  BY <1>1, <1>2, Lengths

LEMMA CycleOfLength ==
  ASSUME NEW ws, Len(ws) \in 0..5
  PROVE  /\ Cycle(ws) = "program" <=> Len(ws) = 3 /\ ws[3] = SA0
         /\ Cycle(ws) = "erase2" <=> Len(ws) = 5
<1>1. CASE Len(ws) \in {0, 1, 2}
  BY <1>1 DEF Cycle
<1>2. CASE Len(ws) = 3
  BY <1>2 DEF Cycle, SA0
<1>3. CASE Len(ws) = 4
  BY <1>3 DEF Cycle
<1>4. CASE Len(ws) = 5
  BY <1>4 DEF Cycle
<1>5. \A n \in 0..5 : n \in {0, 1, 2} \/ n = 3 \/ n = 4 \/ n = 5
  OBVIOUS
<1> QED
  BY <1>1, <1>2, <1>3, <1>4, <1>5

LEMMA CycleOfAppend ==
  ASSUME RecordType, NEW c \in Cells, NEW v \in Bytes
  PROVE  LET writes == Append(flash_writes, <<c % 4096, v>>) IN
         /\ Complete(writes, WritePattern) <=> Cycle(flash_writes) = "program"
         /\ Complete(writes, SectorPattern) <=> Cycle(flash_writes) = "erase2"
         /\ Complete(writes, ChipPattern) => Cycle(flash_writes) = "erase2"
<1> DEFINE writes == Append(flash_writes, <<c % 4096, v>>)
<1>1. <<c % 4096, v>> \in Entry /\ flash_writes \in Seq(Entry) /\ Shape(flash_writes)
  BY CellFacts DEF RecordType
<1>2. /\ Complete(writes, WritePattern) <=> Len(flash_writes) = 3 /\ flash_writes[3] = SA0
      /\ Complete(writes, SectorPattern) <=> Len(flash_writes) = 5
      /\ Complete(writes, ChipPattern) => Len(flash_writes) = 5
  BY <1>1, Completion
<1>3. Len(flash_writes) \in 0..5
  BY <1>1, ShapeLength
<1>4. /\ Cycle(flash_writes) = "program" <=> Len(flash_writes) = 3 /\ flash_writes[3] = SA0
      /\ Cycle(flash_writes) = "erase2" <=> Len(flash_writes) = 5
  BY <1>3, CycleOfLength
<1> QED
  BY <1>2, <1>4

(* A write that completes nothing moves the automaton as Commands!Step says. *)
LEMMA StepOfAppend ==
  ASSUME RecordType, NEW c \in Cells, NEW v \in Bytes,
         Cycle(flash_writes) \notin {"program", "erase2"}
  PROVE  LET writes == Append(flash_writes, <<c % 4096, v>>) IN
         Cycle(IF AnyPartial(writes) THEN writes ELSE <<>>) = Commands!Step(c, v)
<1> DEFINE w == <<c % 4096, v>>
           n == Len(flash_writes)
           writes == Append(flash_writes, w)
<1>1. w \in Entry /\ flash_writes \in Seq(Entry) /\ Shape(flash_writes)
  BY CellFacts DEF RecordType
<1>2. n \in 0..5
  BY <1>1, ShapeLength
<1>3. /\ writes \in Seq(Entry) /\ Len(writes) = n + 1 /\ writes[n + 1] = w
      /\ \A i \in 1..n : writes[i] = flash_writes[i]
  BY <1>1, AppendFacts
<1>4. AnyPartial(writes) <=>
        \/ n = 0 /\ w = Unlock1
        \/ n = 1 /\ w = Unlock2
        \/ n = 2 /\ w \in {SA0, S80}
        \/ n = 3 /\ flash_writes[3] = S80 /\ w = Unlock1
        \/ n = 4 /\ w = Unlock2
  <2> HIDE DEF w
  <2>1. Shape(writes) <=>
          \/ n = 0 /\ w = Unlock1
          \/ n = 1 /\ w = Unlock2
          \/ n = 2 /\ w \in {SA0, S80}
          \/ n = 3 /\ flash_writes[3] = S80 /\ w = Unlock1
          \/ n = 4 /\ w = Unlock2
    BY <1>1, Growth, Zenon
  <2> HIDE DEF writes
  <2>2. AnyPartial(writes) <=> Shape(writes)
    BY <1>3, PartialIsShape, Zenon
  <2> QED
    BY <2>1, <2>2, Zenon
<1>5. /\ w = Unlock1 <=> Commands!At(c, v, 2730, Commands!xAA)
      /\ w = Unlock2 <=> Commands!At(c, v, 1365, Commands!x55)
      /\ w = SA0 <=> Commands!At(c, v, 2730, Commands!xA0)
      /\ w = S80 <=> Commands!At(c, v, 2730, Commands!x80)
  BY DEF Unlock1, Unlock2, SA0, S80, Commands!At, Commands!Low, xAA, x55, xA0, x80,
         Commands!xAA, Commands!x55, Commands!xA0, Commands!x80
<1>6. Cycle(<<>>) = "idle"
  BY EmptySeq DEF Cycle
<1> HIDE DEF w, writes
<1>7. Cycle(IF AnyPartial(writes) THEN writes ELSE <<>>) = Commands!Step(c, v)
  <2>1. CASE n = 0
    <3>1. Cycle(flash_writes) = "idle"
      BY <2>1 DEF Cycle
    <3>2. Len(writes) = 1 /\ writes[1] = w
      BY <1>3, <2>1
    <3>3. Cycle(writes) = "unlock1"
      BY <3>2 DEF Cycle, SA0
    <3> QED
      BY <1>4, <1>5, <1>6, <2>1, <3>1, <3>3, BytesDiffer DEF Commands!Step
  <2>2. CASE n = 1
    <3>1. Cycle(flash_writes) = "unlock1"
      BY <2>2 DEF Cycle
    <3>2. Len(writes) = 2 /\ writes[2] = w
      BY <1>3, <2>2
    <3>3. Cycle(writes) = "unlock2"
      BY <3>2 DEF Cycle, SA0
    <3> QED
      BY <1>4, <1>5, <1>6, <2>2, <3>1, <3>3, BytesDiffer DEF Commands!Step
  <2>3. CASE n = 2
    <3>1. Cycle(flash_writes) = "unlock2"
      BY <2>3 DEF Cycle
    <3>2. Len(writes) = 3 /\ writes[3] = w
      BY <1>3, <2>3
    <3>3. Cycle(writes) = IF w = SA0 THEN "program" ELSE "erase"
      BY <3>2 DEF Cycle, SA0
    <3> QED
      BY <1>4, <1>5, <1>6, <2>3, <3>1, <3>3, BytesDiffer DEF Commands!Step
  <2>4. CASE n = 3
    <3>1. Cycle(flash_writes) = "erase" /\ flash_writes[3] = S80
      BY <1>1, <2>4, BytesDiffer DEF Cycle, SA0, Shape
    <3>2. Len(writes) = 4 /\ writes[4] = w
      BY <1>3, <2>4
    <3>3. Cycle(writes) = "erase1"
      BY <3>2 DEF Cycle, SA0
    <3> QED
      BY <1>4, <1>5, <1>6, <2>4, <3>1, <3>3, BytesDiffer DEF Commands!Step
  <2>5. CASE n = 4
    <3>1. Cycle(flash_writes) = "erase1"
      BY <2>5 DEF Cycle
    <3>2. Len(writes) = 5 /\ writes[5] = w
      BY <1>3, <2>5
    <3>3. Cycle(writes) = "erase2"
      BY <3>2 DEF Cycle, SA0
    <3> QED
      BY <1>4, <1>5, <1>6, <2>5, <3>1, <3>3, BytesDiffer DEF Commands!Step
  <2>6. n # 5
    BY <1>2, CycleOfLength
  <2> QED
    BY <1>2, <2>1, <2>2, <2>3, <2>4, <2>5, <2>6
<1> QED
  BY <1>7 DEF w, writes

LEMMA EraseIsErase ==
  ASSUME NEW c \in Cells, chip_erase_sector(c)
  PROVE  flash' = [d \in Cells |-> IF Commands!SameSector(c, d) THEN Ones ELSE flash[d]]
<1>1. \A d \in Cells : d \in Sector(c) <=> Commands!SameSector(c, d)
  BY SectorIsBetweenStarts
<1> QED
  BY <1>1 DEF chip_erase_sector

(* One write of the guest is one step of the automaton. *)
LEMMA WriteIsWrite ==
  ASSUME RecordType, NEW c \in Cells, NEW v \in Bytes, ti_write_byte(c, v)
  PROVE  Commands!Write(c, v)
<1> DEFINE writes == Append(flash_writes, <<c % 4096, v>>)
<1>1. /\ flash_unlocked /\ last' = "write" /\ flash_unlocked' = flash_unlocked
      /\ RunHandler(writes, c, v)
      /\ flash_writes' = IF ~AnyComplete(writes) /\ AnyPartial(writes) THEN writes ELSE <<>>
  BY DEF ti_write_byte, chip_reset
<1>2. /\ Complete(writes, WritePattern) <=> Cycle(flash_writes) = "program"
      /\ Complete(writes, SectorPattern) <=> Cycle(flash_writes) = "erase2"
      /\ Complete(writes, ChipPattern) => Cycle(flash_writes) = "erase2"
  BY CycleOfAppend
<1>3. Cycle(flash_writes) \notin {"program", "erase2"} =>
        Cycle(IF AnyPartial(writes) THEN writes ELSE <<>>) = Commands!Step(c, v)
  BY StepOfAppend
<1>4. Cycle(<<>>) = "idle"
  BY EmptySeq DEF Cycle
<1> HIDE DEF writes
<1>5. AnyComplete(writes) <=> Cycle(flash_writes) \in {"program", "erase2"}
  BY <1>2 DEF AnyComplete, patterns
<1>6. CASE Cycle(flash_writes) = "program"
  <2>1. flash' = [flash EXCEPT ![c] = @ \cap v]
    BY <1>1, <1>2, <1>6 DEF RunHandler, chip_write
  <2>2. flash_writes' = <<>>
    BY <1>1, <1>5, <1>6
  <2>3. Commands!Program(c, v)
    BY <1>4, <1>6, <2>1, <2>2 DEF Commands!Program
  <2> QED
    BY <1>1, <2>3 DEF Commands!Write
<1>7. CASE Cycle(flash_writes) = "erase2"
  <2>1. chip_erase_sector(c)
    BY <1>1, <1>2, <1>7 DEF RunHandler
  <2>2. flash_writes' = <<>>
    BY <1>1, <1>5, <1>7
  <2>3. Commands!EraseSector(c)
    BY <1>4, <1>7, <2>1, <2>2, EraseIsErase DEF Commands!EraseSector, Commands!Ones, Ones
  <2> QED
    BY <1>1, <2>3 DEF Commands!Write
<1>8. CASE Cycle(flash_writes) \notin {"program", "erase2"}
  <2>1. UNCHANGED flash
    BY <1>1, <1>2, <1>8 DEF RunHandler
  <2>2. Cycle(flash_writes') = Commands!Step(c, v)
    BY <1>1, <1>3, <1>5, <1>8
  <2>3. Commands!Command(c, v)
    BY <1>8, <2>1, <2>2 DEF Commands!Command
  <2> QED
    BY <1>1, <2>3 DEF Commands!Write
<1> QED
  BY <1>6, <1>7, <1>8

(* Recording writes and matching them against the table of patterns is the   *)
(* command automaton of a NOR Flash part, whatever the chip's size and       *)
(* whatever the guest reads, writes, locks and unlocks.                      *)
THEOREM CommandsImplemented == Spec => ImplementsCommands
<1>1. Init => Commands!Init
  BY EmptySeq DEF Init, Commands!Init, Cycle, Ones, Commands!Ones
<1>2. RecordType /\ [Next]_vars => [Commands!Next]_(Commands!vars)
  <2> SUFFICES ASSUME RecordType, [Next]_vars
               PROVE  [Commands!Next]_(Commands!vars)
    OBVIOUS
  <2>1. CASE ti_read_byte
    <3>1. Cycle(flash_writes') = "idle"
      BY <2>1, EmptySeq DEF ti_read_byte, chip_reset, Cycle
    <3>2. Commands!Read
      BY <2>1, <3>1 DEF ti_read_byte, Commands!Read
    <3> QED
      BY <3>2 DEF Commands!Next
  <2>2. ASSUME NEW c \in Cells, NEW v \in Bytes, ti_write_byte(c, v)
        PROVE  Commands!Next
    <3>1. Commands!Write(c, v)
      BY <2>2, WriteIsWrite
    <3> QED
      BY <3>1 DEF Commands!Next
  <2>3. ASSUME NEW c \in Cells, NEW v \in Bytes, mmu_force_write(c, v)
        PROVE  Commands!Next
    <3>1. Commands!Poke(c, v)
      BY <2>3 DEF mmu_force_write, Commands!Poke
    <3> QED
      BY <3>1 DEF Commands!Next
  <2>4. CASE WriteLocked
    <3>1. Commands!WriteLocked
      BY <2>4 DEF WriteLocked, Commands!WriteLocked
    <3> QED
      BY <3>1 DEF Commands!Next
  <2>5. ASSUME NEW data \in BOOLEAN, write_control_port(data)
        PROVE  Commands!Next
    <3>1. Commands!Lock
      BY <2>5 DEF write_control_port, Commands!Lock
    <3> QED
      BY <3>1 DEF Commands!Next
  <2>6. CASE UNCHANGED vars
    BY <2>6 DEF vars, Commands!vars
  <2> QED
    BY <2>1, <2>2, <2>3, <2>4, <2>5, <2>6 DEF Next
<1> QED
  BY <1>1, <1>2, RecordTypeHolds, PTL DEF Spec, ImplementsCommands, Commands!Spec

-----------------------------------------------------------------------------
(* What the commands can do to the array                                     *)

(* The sector pattern, whose last entry is a wild card, stands before the    *)
(* chip pattern in the table and completes whenever that one does: the       *)
(* handler that would erase the whole chip is never run, for any record.     *)
THEOREM ChipEraseShadowed ==
  ASSUME NEW writes, NEW c, NEW v, RunHandler(writes, c, v)
  PROVE  \/ Complete(writes, WritePattern) /\ chip_write(c, v)
         \/ Complete(writes, SectorPattern) /\ chip_erase_sector(c)
         \/ ~AnyComplete(writes) /\ UNCHANGED flash
<1>1. Complete(writes, ChipPattern) => Complete(writes, SectorPattern)
  <2> SUFFICES ASSUME Complete(writes, ChipPattern)
               PROVE  Complete(writes, SectorPattern)
    OBVIOUS
  <2>1. Len(writes) >= 6 /\ \A i \in 1..6 : Fits(writes[i], ChipPattern[i])
    BY PatternLengths DEF Complete, Matches
  <2>2. \A i \in 1..5 : i \in 1..6 /\ SectorPattern[i] = ChipPattern[i]
    <3>1. \A i \in 1..5 : i = 1 \/ i = 2 \/ i = 3 \/ i = 4 \/ i = 5
      OBVIOUS
    <3>2. /\ ChipPattern[3] = S80 /\ \A i \in {1, 2, 3, 4, 5} : i \in 1..6
      BY PatternEntries
    <3> QED
      BY <3>1, <3>2, PatternEntries
  <2>3. SectorPattern[6] = Any /\ Fits(writes[6], Any)
    BY PatternEntries DEF Fits
  <2>4. \A i \in 1..6 : i \in 1..5 \/ i = 6
    OBVIOUS
  <2>5. \A i \in 1..6 : Fits(writes[i], SectorPattern[i])
    BY <2>1, <2>2, <2>3, <2>4
  <2> QED
    BY <2>1, <2>5, PatternLengths DEF Complete, Matches
<1> QED
  BY <1>1 DEF RunHandler, AnyComplete, patterns

ArrayType == flash \in [Cells -> SUBSET Ones]

LEMMA ArrayTypeHolds == Spec => []ArrayType
<1>1. Init => ArrayType
  BY DEF Init, ArrayType
<1>2. ArrayType /\ [Next]_vars => ArrayType'
  <2> SUFFICES ASSUME ArrayType, [Next]_vars
               PROVE  ArrayType'
    OBVIOUS
  <2>1. ASSUME NEW c \in Cells, NEW v \in Bytes, ti_write_byte(c, v)
        PROVE  ArrayType'
    <3>1. CASE chip_write(c, v)
      BY <3>1 DEF chip_write, ArrayType
    <3>2. CASE chip_erase_sector(c)
      BY <3>2 DEF chip_erase_sector, ArrayType
    <3>3. CASE UNCHANGED flash
      BY <3>3 DEF ArrayType
    <3> QED
      BY <2>1, <3>1, <3>2, <3>3, ChipEraseShadowed DEF ti_write_byte
  <2>2. ASSUME NEW c \in Cells, NEW v \in Bytes, mmu_force_write(c, v)
        PROVE  ArrayType'
    BY <2>2, BytesAssumption DEF mmu_force_write, ArrayType
  <2>3. CASE UNCHANGED flash
    BY <2>3 DEF ArrayType
  <2> QED
    BY <2>1, <2>2, <2>3 DEF Next, ti_read_byte, WriteLocked, write_control_port, vars
<1> QED
  BY <1>1, <1>2, PTL DEF Spec

(* Every variable of the chip keeps its type, for any size, cells and bytes. *)
THEOREM TypeCorrect == Spec => []TypeOK
<1> DEFINE Rest == flash_unlocked \in BOOLEAN /\ last \in {"none", "read", "write"}
<1>1. Init => Rest
  BY DEF Init
<1>2. Rest /\ [Next]_vars => Rest'
  <2> SUFFICES ASSUME Rest, [Next]_vars
               PROVE  Rest'
    OBVIOUS
  <2>1. CASE ti_read_byte
    BY <2>1 DEF ti_read_byte
  <2>2. ASSUME NEW c \in Cells, NEW v \in Bytes, ti_write_byte(c, v)
        PROVE  Rest'
    BY <2>2 DEF ti_write_byte
  <2>3. ASSUME NEW c \in Cells, NEW v \in Bytes, mmu_force_write(c, v)
        PROVE  Rest'
    BY <2>3 DEF mmu_force_write
  <2>4. CASE WriteLocked
    BY <2>4 DEF WriteLocked
  <2>5. ASSUME NEW data \in BOOLEAN, write_control_port(data)
        PROVE  Rest'
    BY <2>5 DEF write_control_port
  <2>6. CASE UNCHANGED vars
    BY <2>6 DEF vars
  <2> QED
    BY <2>1, <2>2, <2>3, <2>4, <2>5, <2>6 DEF Next
<1>3. ArrayType /\ RecordType /\ Rest => TypeOK
  BY DEF ArrayType, RecordType, Entry, TypeOK
<1> HIDE DEF Rest
<1> QED
  BY <1>1, <1>2, <1>3, ArrayTypeHolds, RecordTypeHolds, PTL DEF Spec

(* A cell of Flash changes only when the guest completes a command on an     *)
(* unlocked chip, or when the debugger or a loader stores past the chip: the *)
(* byte programmed is the cell written last and can only lose ones, and an   *)
(* erase reaches the sector of the cell written last and no other.           *)
Programmed(d) ==
  \E v \in Bytes : ti_write_byte(d, v) /\ Cycle(flash_writes) = "program"
                   /\ flash'[d] = flash[d] \cap v
Erased(d) ==
  \E c \in Cells, v \in Bytes :
     ti_write_byte(c, v) /\ Cycle(flash_writes) = "erase2"
     /\ Commands!SameSector(c, d) /\ flash'[d] = Ones
Stored(d) == \E v \in Bytes : mmu_force_write(d, v)

OnlyCommandsChange ==
  [][\A d \in Cells : flash'[d] # flash[d] =>
       \/ flash_unlocked /\ (Programmed(d) \/ Erased(d))
       \/ Stored(d)]_vars

THEOREM OnlyCommandsChangeCorrect == Spec => OnlyCommandsChange
<1> DEFINE Explained ==
      \A d \in Cells : flash'[d] # flash[d] =>
        \/ flash_unlocked /\ (Programmed(d) \/ Erased(d))
        \/ Stored(d)
<1>1. RecordType /\ ArrayType /\ [Next]_vars => [Explained]_vars
  <2> SUFFICES ASSUME RecordType, ArrayType, Next,
                      NEW d \in Cells, flash'[d] # flash[d]
               PROVE  \/ flash_unlocked /\ (Programmed(d) \/ Erased(d))
                      \/ Stored(d)
    OBVIOUS
  <2>1. ASSUME NEW c \in Cells, NEW v \in Bytes, ti_write_byte(c, v)
        PROVE  flash_unlocked /\ (Programmed(d) \/ Erased(d))
    <3> DEFINE writes == Append(flash_writes, <<c % 4096, v>>)
    <3>1. flash_unlocked /\ RunHandler(writes, c, v)
      BY <2>1 DEF ti_write_byte
    <3>2. /\ Complete(writes, WritePattern) <=> Cycle(flash_writes) = "program"
          /\ Complete(writes, SectorPattern) <=> Cycle(flash_writes) = "erase2"
      BY CycleOfAppend
    <3> HIDE DEF writes
    <3>3. CASE Complete(writes, WritePattern) /\ chip_write(c, v)
      <4>1. flash' = [flash EXCEPT ![c] = flash[c] \cap v]
        BY <3>3 DEF chip_write
      <4>2. c = d /\ flash'[d] = flash[d] \cap v
        BY <4>1 DEF ArrayType
      <4> QED
        BY <2>1, <3>1, <3>2, <3>3, <4>2 DEF Programmed
    <3>4. CASE Complete(writes, SectorPattern) /\ chip_erase_sector(c)
      <4>1. Commands!SameSector(c, d) /\ flash'[d] = Ones
        BY <3>4, EraseIsErase
      <4> QED
        BY <2>1, <3>1, <3>2, <3>4, <4>1 DEF Erased
    <3> QED
      BY <3>1, <3>3, <3>4, ChipEraseShadowed
  <2>2. ASSUME NEW c \in Cells, NEW v \in Bytes, mmu_force_write(c, v)
        PROVE  Stored(d)
    <3>1. c = d
      BY <2>2 DEF mmu_force_write, ArrayType
    <3> QED
      BY <2>2, <3>1 DEF Stored
  <2> QED
    BY <2>1, <2>2 DEF Next, ti_read_byte, WriteLocked, write_control_port
<1> QED
  BY <1>1, RecordTypeHolds, ArrayTypeHolds, PTL DEF Spec, OnlyCommandsChange
==============================================================================
