------------------------- MODULE MemoryMappingProofs -------------------------
(***************************************************************************)
(* The bank table is always the one its registers select, and what follows *)
(* from that: every property of the run, for every set of calculators and  *)
(* every set of bytes a guest writes.                                      *)
(***************************************************************************)
EXTENDS MemoryMapping, TLAPS

(* The registers hold pages the ports can select. *)
Fits(d, bank) == bank \in Place /\ bank.page < PageMask(d)

(* What mode 0 shows in bank 3, and mode 1 in bank 2. *)
RamBank(d, ram) == [page |-> IF d = "TI83p" THEN 0 ELSE ram, flash |-> FALSE]
SecondHalf(d, bank) == IF d = "TI83p" THEN bank ELSE Odd(bank)

Registers ==
  /\ device \in Devices
  /\ map_mode \in 0..1
  /\ Fits(device, bank_a) /\ Fits(device, bank_b)
  /\ ram_bank_page \in 0..7
  /\ timer_speed \subseteq 0..3

(* What a write to port 6 or 7 stores is a page and a kind of memory. *)
LEMMA WrittenFits ==
  ASSUME NEW d, NEW data \in Data
  PROVE  Fits(d, Written(d, data))
<1>1. data \in 0..255
  BY DataAssumption
<1>2. PageMask(d) \in {32, 128}
  BY DEF PageMask
<1>3. data % PageMask(d) \in 0..127 /\ data % PageMask(d) < PageMask(d)
  BY <1>1, <1>2
<1> QED
  BY <1>3 DEF Fits, Written, Place

(* Masking a page with a count of pages gives a page number again. *)
LEMMA ExistingIsPlace ==
  ASSUME NEW d \in AllDevices, NEW bank \in Place
  PROVE  Existing(d, bank) \in Place
<1>1. pages(d, bank.flash) \in {3, 8, 32, 64, 128, 256}
  BY DEF pages, ram_pages, flash_pages, AllDevices
<1>2. bank.page \in 0..127 /\ bank.flash \in BOOLEAN
  BY DEF Place
<1>3. CASE bank.page > pages(d, bank.flash)
  <2>1. AndCount(bank.page, pages(d, bank.flash)) \in 0..127
    <3>1. \A page \in 0..127 : page % 4 \in 0..127
      OBVIOUS
    <3>2. \A count \in {8, 32, 64} : \A page \in 0..127 :
             count * ((page \div count) % 2) \in 0..127
      OBVIOUS
    <3>3. pages(d, bank.flash) \in {3, 8, 32, 64}
      BY <1>1, <1>2, <1>3
    <3> QED
      BY <3>1, <3>2, <3>3, <1>2 DEF AndCount
  <2> QED
    BY <2>1, <1>2, <1>3 DEF Existing, Place
<1>4. CASE ~(bank.page > pages(d, bank.flash))
  BY <1>4 DEF Existing
<1> QED
  BY <1>3, <1>4

LEMMA HalvesArePlaces ==
  ASSUME NEW bank \in Place
  PROVE  /\ Even(bank) \in Place /\ Odd(bank) \in Place
         /\ Even(bank).flash = bank.flash /\ Odd(bank).flash = bank.flash
         /\ Even(bank).page % 2 = 0 /\ Odd(bank).page = Even(bank).page + 1
         /\ Odd(bank).page <= bank.page + 1
<1>1. bank.page \in 0..127 /\ bank.flash \in BOOLEAN
  BY DEF Place
<1>2. \A n \in 0..127 : /\ n - (n % 2) \in 0..127 /\ n - (n % 2) + 1 \in 0..127
                        /\ (n - (n % 2)) % 2 = 0
                        /\ n - (n % 2) + 1 <= n + 1
  OBVIOUS
<1>3. Even(bank) = [page |-> bank.page - (bank.page % 2), flash |-> bank.flash]
  BY DEF Even, Place
<1>4. Odd(bank) = [page |-> bank.page - (bank.page % 2) + 1, flash |-> bank.flash]
  BY DEF Odd, Place
<1> QED
  BY <1>1, <1>2, <1>3, <1>4 DEF Place

(* The four banks that a state of the registers selects, one by one. *)
LEMMA FourBanks ==
  ASSUME NEW d, NEW mode, NEW a, NEW b, NEW ram
  PROVE  /\ Mapping(d, mode, a, b, ram)[0] = Existing(d, [page |-> 0, flash |-> TRUE])
         /\ mode = 0 =>
              /\ Mapping(d, mode, a, b, ram)[1] = Existing(d, a)
              /\ Mapping(d, mode, a, b, ram)[2] = Existing(d, b)
              /\ Mapping(d, mode, a, b, ram)[3] = Existing(d, RamBank(d, ram))
         /\ mode # 0 =>
              /\ Mapping(d, mode, a, b, ram)[1] = Existing(d, Even(a))
              /\ Mapping(d, mode, a, b, ram)[2] = Existing(d, SecondHalf(d, a))
              /\ Mapping(d, mode, a, b, ram)[3] = Existing(d, b)
<1> DEFINE S == Selected(d, mode, a, b, ram)
           M == Mapping(d, mode, a, b, ram)
<1>1. M = [i \in 0..3 |-> Existing(d, S[i + 1])]
  BY DEF Mapping
<1>2. S[1] = [page |-> 0, flash |-> TRUE]
  BY DEF Selected
<1>3. ASSUME mode = 0 PROVE S[2] = a /\ S[3] = b /\ S[4] = RamBank(d, ram)
  BY <1>3 DEF Selected, RamBank
<1>4. ASSUME mode # 0 PROVE S[2] = Even(a) /\ S[3] = SecondHalf(d, a) /\ S[4] = b
  BY <1>4 DEF Selected, SecondHalf
<1> HIDE DEF S, M
<1>5. M[0] = Existing(d, S[1]) /\ M[1] = Existing(d, S[2])
      /\ M[2] = Existing(d, S[3]) /\ M[3] = Existing(d, S[4])
  BY <1>1
<1> QED
  BY <1>2, <1>3, <1>4, <1>5 DEF M

LEMMA RegistersKept == Spec => []Registers
<1>1. Init => Registers
  BY DEF Init, Registers, Fits, Place, PageMask
<1>2. Registers /\ [Next]_vars => Registers'
  <2> SUFFICES ASSUME Registers, [Next]_vars PROVE Registers'
    OBVIOUS
  <2>1. CASE UNCHANGED vars
    BY <2>1 DEF vars, Registers, Fits
  <2>2. ASSUME NEW data \in Data PROVE data \in 0..255
    BY DataAssumption
  <2>3. ASSUME NEW data \in Data, write_device_status_port(data) PROVE Registers'
    <3>1. data % 2 \in 0..1 /\ (data \div 2) % 4 \in 0..3
      BY <2>2
    <3> QED
      BY <3>1, <2>3 DEF Registers, write_device_status_port, reload_mapping, Fits
  <2>4. ASSUME NEW data \in Data, write_ram_paging_port(data) PROVE Registers'
    <3>1. data % 8 \in 0..7
      BY <2>2
    <3> QED
      BY <3>1, <2>4 DEF Registers, write_ram_paging_port, reload_mapping, Fits
  <2>5. ASSUME NEW data \in Data, write_bank_a_paging_port(data) PROVE Registers'
    BY <2>5, WrittenFits DEF Registers, write_bank_a_paging_port, reload_mapping, Fits
  <2>6. ASSUME NEW data \in Data, write_bank_b_paging_port(data) PROVE Registers'
    BY <2>6, WrittenFits DEF Registers, write_bank_b_paging_port, reload_mapping, Fits
  <2> QED
    BY <2>1, <2>3, <2>4, <2>5, <2>6 DEF Next
<1> QED
  BY <1>1, <1>2, PTL DEF Spec

(* The cache of memory.c is never stale: after any sequence of port writes   *)
(* the four banks are those the paging registers select.                     *)
THEOREM TableCurrent == Spec => []BanksCurrent
<1>1. Init => BanksCurrent
  BY DEF Init, BanksCurrent
<1>2. BanksCurrent /\ [Next]_vars => BanksCurrent'
  <2>1. ASSUME BanksCurrent, UNCHANGED vars PROVE BanksCurrent'
    BY <2>1 DEF BanksCurrent, vars
  <2>2. ASSUME reload_mapping PROVE BanksCurrent'
    BY <2>2 DEF reload_mapping, BanksCurrent
  <2>3. Next => reload_mapping
    BY DEF Next, write_device_status_port, write_ram_paging_port,
           write_bank_a_paging_port, write_bank_b_paging_port
  <2> QED
    BY <2>1, <2>2, <2>3
<1> QED
  BY <1>1, <1>2, PTL DEF Spec

-----------------------------------------------------------------------------

LEMMA BothKept == Spec => [](Registers /\ BanksCurrent)
BY RegistersKept, TableCurrent, PTL

(* Every bank holds a page number and a kind of memory, on every calculator  *)
(* and after any sequence of port writes.                                    *)
THEOREM TypeCorrect == Spec => []TypeOK
<1>1. Registers /\ BanksCurrent => TypeOK
  <2> SUFFICES ASSUME Registers, BanksCurrent PROVE TypeOK
    OBVIOUS
  <2>1. /\ device \in AllDevices /\ bank_a \in Place /\ bank_b \in Place
        /\ banks = Mapping(device, map_mode, bank_a, bank_b, ram_bank_page)
    BY DevicesAssumption DEF Registers, Fits, BanksCurrent
  <2>2. [page |-> 0, flash |-> TRUE] \in Place /\ RamBank(device, ram_bank_page) \in Place
    BY DEF Registers, Place, RamBank
  <2>3. Even(bank_a) \in Place /\ SecondHalf(device, bank_a) \in Place
    BY <2>1, HalvesArePlaces DEF SecondHalf
  <2>4. \A i \in 0..3 : banks[i] \in Place
    <3>1. banks[0] \in Place
      BY <2>1, <2>2, ExistingIsPlace, FourBanks
    <3>2. CASE map_mode = 0
      <4>1. banks[1] \in Place /\ banks[2] \in Place /\ banks[3] \in Place
        BY <2>1, <2>2, <3>2, ExistingIsPlace, FourBanks
      <4> QED
        BY <3>1, <4>1
    <3>3. CASE map_mode # 0
      <4>1. banks[1] \in Place /\ banks[2] \in Place /\ banks[3] \in Place
        BY <2>1, <2>3, <3>3, ExistingIsPlace, FourBanks
      <4> QED
        BY <3>1, <4>1
    <3> QED
      BY <3>2, <3>3
  <2>5. banks \in [0..3 -> Place]
    BY <2>1, <2>4 DEF Mapping
  <2> QED
    BY <2>1, <2>5 DEF Registers, TypeOK
<1> QED
  BY <1>1, BothKept, PTL

(* Saving a paging port, using it and writing back what was read restores    *)
(* the page and the kind of memory, on every calculator.                     *)
THEOREM RestoringCorrect == Spec => []RestoringRestores
<1>1. ASSUME NEW d, NEW bank, Fits(d, bank)
      PROVE  Written(d, read_paging_port(d, bank)) = bank
  <2>1. bank.page \in 0..127 /\ bank.flash \in BOOLEAN
        /\ bank = [page |-> bank.page, flash |-> bank.flash]
    BY <1>1 DEF Fits, Place
  <2>2. CASE d = "TI83p"
    <3>1. \A n \in 0..31 : n % 32 = n /\ (n + 64) % 32 = n
                          /\ (n \div 64) % 2 = 0 /\ ((n + 64) \div 64) % 2 = 1
      OBVIOUS
    <3>2. bank.page \in 0..31
      BY <1>1, <2>1, <2>2 DEF Fits, PageMask
    <3>3. CASE bank.flash
      <4>1. bank.flash = TRUE
        BY <2>1, <3>3
      <4>2. read_paging_port(d, bank) = bank.page
        BY <2>1, <3>3 DEF read_paging_port
      <4>3. Written(d, bank.page) = [page |-> bank.page, flash |-> TRUE]
        BY <2>1, <2>2, <3>1, <3>2 DEF Written, PageMask, RamBit
      <4> QED
        BY <2>1, <4>1, <4>2, <4>3
    <3>4. CASE ~bank.flash
      BY <2>1, <2>2, <3>1, <3>2, <3>4 DEF Written, read_paging_port, PageMask, RamBit
    <3> QED
      BY <3>3, <3>4
  <2>3. CASE d # "TI83p"
    <3>1. \A n \in 0..127 : n % 128 = n /\ (n + 128) % 128 = n
                          /\ (n \div 128) % 2 = 0 /\ ((n + 128) \div 128) % 2 = 1
      OBVIOUS
    <3>3. CASE bank.flash
      <4>1. bank.flash = TRUE
        BY <2>1, <3>3
      <4>2. read_paging_port(d, bank) = bank.page
        BY <2>1, <3>3 DEF read_paging_port
      <4>3. Written(d, bank.page) = [page |-> bank.page, flash |-> TRUE]
        BY <2>1, <2>3, <3>1 DEF Written, PageMask, RamBit
      <4> QED
        BY <2>1, <4>1, <4>2, <4>3
    <3>4. CASE ~bank.flash
      BY <2>1, <2>3, <3>1, <3>4 DEF Written, read_paging_port, PageMask, RamBit
    <3> QED
      BY <3>3, <3>4
  <2> QED
    BY <2>2, <2>3
<1>2. Registers => RestoringRestores
  BY <1>1 DEF Registers, RestoringRestores
<1> QED
  BY <1>2, RegistersKept, PTL

(* The boot page stays in bank 0, mode 0 keeps RAM in bank 3, and mode 1     *)
(* shows an even page and its odd neighbour next to each other.              *)
THEOREM WindowsCorrect == Spec => []WindowsInv
<1>1. Registers /\ BanksCurrent => WindowsInv
  <2> SUFFICES ASSUME Registers, BanksCurrent PROVE WindowsInv
    OBVIOUS
  <2>0. /\ device \in AllDevices /\ bank_a \in Place /\ map_mode \in 0..1
        /\ banks = Mapping(device, map_mode, bank_a, bank_b, ram_bank_page)
    BY DevicesAssumption DEF Registers, Fits, BanksCurrent
  <2>1. banks[0] = [page |-> 0, flash |-> TRUE]
    <3>1. pages(device, TRUE) > 0
      BY <2>0 DEF pages, flash_pages, AllDevices
    <3>2. banks[0] = Existing(device, [page |-> 0, flash |-> TRUE])
      BY <2>0, FourBanks
    <3>3. ~(0 > pages(device, TRUE))
      BY <2>0 DEF pages, flash_pages, AllDevices
    <3> QED
      BY <3>2, <3>3 DEF Existing
  <2>2. ASSUME map_mode = 0 PROVE ~banks[3].flash
    <3>1. banks[3] = Existing(device, RamBank(device, ram_bank_page))
      BY <2>0, <2>2, FourBanks
    <3>2. Existing(device, RamBank(device, ram_bank_page)).flash = FALSE
      BY DEF Existing, RamBank
    <3> QED
      BY <3>1, <3>2
  <2>3. ASSUME map_mode = 1, device # "TI83p",
               bank_a.page < pages(device, bank_a.flash) - 1
        PROVE  /\ banks[2].flash = banks[1].flash
               /\ banks[1].page % 2 = 0
               /\ banks[2].page = banks[1].page + 1
    <3>1. banks[1] = Existing(device, Even(bank_a)) /\ banks[2] = Existing(device, Odd(bank_a))
      BY <2>0, <2>3, FourBanks DEF SecondHalf
    <3>2. pages(device, bank_a.flash) \in Nat
      BY <2>0 DEF pages, flash_pages, ram_pages, AllDevices
    <3>3. /\ Even(bank_a) \in Place /\ Odd(bank_a) \in Place
          /\ Even(bank_a).flash = bank_a.flash /\ Odd(bank_a).flash = bank_a.flash
          /\ Even(bank_a).page % 2 = 0 /\ Odd(bank_a).page = Even(bank_a).page + 1
          /\ Odd(bank_a).page <= bank_a.page + 1
      BY <2>0, HalvesArePlaces
    <3>4. bank_a.page \in 0..127 /\ Even(bank_a).page \in 0..127 /\ Odd(bank_a).page \in 0..127
      BY <2>0, <3>3 DEF Place
    <3>5. /\ ~(Even(bank_a).page > pages(device, Even(bank_a).flash))
          /\ ~(Odd(bank_a).page > pages(device, Odd(bank_a).flash))
      BY <2>3, <3>2, <3>3, <3>4
    <3>6. Existing(device, Even(bank_a)) = Even(bank_a) /\ Existing(device, Odd(bank_a)) = Odd(bank_a)
      BY <3>5 DEF Existing
    <3> QED
      BY <3>1, <3>3, <3>6
  <2> QED
    BY <2>1, <2>2, <2>3 DEF WindowsInv
<1> QED
  BY <1>1, BothKept, PTL

(* In each map mode a port moves the banks that belong to it, and no other. *)
THEOREM PortsIndependent == Spec => PortsKeepToTheirBanks
<1> DEFINE Same(i) == banks'[i] = banks[i]
           Kept ==
             /\ map_mode' # map_mode => Moved \subseteq 1..3
             /\ ram_bank_page' # ram_bank_page => Moved \subseteq Owned(map_mode).ram
             /\ bank_a' # bank_a => Moved \subseteq Owned(map_mode).bank_a
             /\ bank_b' # bank_b => Moved \subseteq Owned(map_mode).bank_b
             /\ UNCHANGED <<map_mode, ram_bank_page, bank_a, bank_b>> => Moved = {}
<1>1. Registers /\ BanksCurrent /\ [Next]_vars => [Kept]_vars
  <2> SUFFICES ASSUME Registers, BanksCurrent, Next PROVE Kept
    OBVIOUS
  <2>0. /\ banks = Mapping(device, map_mode, bank_a, bank_b, ram_bank_page)
        /\ map_mode \in 0..1 /\ UNCHANGED device
    BY DEF BanksCurrent, Registers, Next, reload_mapping, write_device_status_port,
           write_ram_paging_port, write_bank_a_paging_port, write_bank_b_paging_port
  <2>1. \A i \in Moved : ~Same(i) /\ (i = 0 \/ i = 1 \/ i = 2 \/ i = 3)
    BY DEF Moved
  <2>2. banks' = Mapping(device, map_mode', bank_a', bank_b', ram_bank_page')
    BY <2>0 DEF Next, reload_mapping, write_device_status_port,
           write_ram_paging_port, write_bank_a_paging_port, write_bank_b_paging_port
  <2>3. Same(0)
    BY <2>0, <2>2, FourBanks
  <2>4. ASSUME UNCHANGED <<map_mode, ram_bank_page, bank_a, bank_b>> PROVE Moved = {}
    BY <2>0, <2>2, <2>4 DEF Moved
  <2>5. ASSUME UNCHANGED <<map_mode, bank_a, bank_b>>
        PROVE  Moved \subseteq Owned(map_mode).ram
    <3>1. Same(1) /\ Same(2) /\ (map_mode # 0 => Same(3))
      BY <2>0, <2>2, <2>5, FourBanks
    <3> QED
      BY <2>1, <2>3, <3>1 DEF Owned
  <2>6. ASSUME UNCHANGED <<map_mode, ram_bank_page, bank_b>>
        PROVE  Moved \subseteq Owned(map_mode).bank_a
    <3>1. Same(3) /\ (map_mode = 0 => Same(2))
      BY <2>0, <2>2, <2>6, FourBanks
    <3> QED
      BY <2>1, <2>3, <3>1 DEF Owned
  <2>7. ASSUME UNCHANGED <<map_mode, ram_bank_page, bank_a>>
        PROVE  Moved \subseteq Owned(map_mode).bank_b
    <3>1. Same(1) /\ (map_mode = 0 => Same(3)) /\ (map_mode # 0 => Same(2))
      BY <2>0, <2>2, <2>7, FourBanks
    <3> QED
      BY <2>1, <2>3, <3>1 DEF Owned
  <2>8. Moved \subseteq 1..3
    BY <2>1, <2>3
  <2>9. \/ UNCHANGED <<ram_bank_page, bank_a, bank_b>>
        \/ UNCHANGED <<map_mode, bank_a, bank_b>>
        \/ UNCHANGED <<map_mode, ram_bank_page, bank_b>>
        \/ UNCHANGED <<map_mode, ram_bank_page, bank_a>>
    BY DEF Next, write_device_status_port, write_ram_paging_port,
           write_bank_a_paging_port, write_bank_b_paging_port
  <2> HIDE DEF Same
  <2> QED
    BY <2>4, <2>5, <2>6, <2>7, <2>8, <2>9
<1> QED
  BY <1>1, BothKept, PTL DEF Spec, PortsKeepToTheirBanks

-----------------------------------------------------------------------------
(* How far the check of reload_mapping reaches                               *)

(* page & count of a page beyond the count is the count itself at most.      *)
LEMMA MaskedNearlyExists ==
  ASSUME NEW page \in 0..127, NEW count \in {3, 8, 32, 64, 128, 256}
  PROVE  AndCount(page, count) \in 0..count
<1>1. CASE count = 3
  <2>1. page % 4 \in 0..3
    OBVIOUS
  <2> QED
    BY <1>1, <2>1 DEF AndCount
<1>2. CASE count # 3
  <2>1. (page \div count) \in Nat
    OBVIOUS
  <2>2. (page \div count) % 2 \in {0, 1}
    BY <2>1
  <2>3. count * ((page \div count) % 2) \in {0, count}
    BY <2>2
  <2> QED
    BY <1>2, <2>3 DEF AndCount
<1> QED
  BY <1>1, <1>2

(* The calculators on which ports 6 and 7 cannot name a page beyond the flash: *)
(* all but the TI-73 and the TI-84+, whose 32 and 64 pages are fewer than the *)
(* 128 that seven bits can name.                                             *)
FullFlash == {d \in AllDevices : PageMask(d) <= flash_pages(d)}

(* A mapped page is beyond the last one by one at most. On FullFlash every    *)
(* mapped flash page exists; on the TI-73 and the TI-84+ page number `count'  *)
(* can be mapped, in flash as in RAM on all six. What MissingPages finds is   *)
(* all that can go wrong.                                                    *)
PagesNearlyExist ==
  \A i \in 0..3 :
     /\ banks[i].page <= pages(device, banks[i].flash)
     /\ banks[i].flash /\ device \in FullFlash
          => banks[i].page < pages(device, TRUE)

LEMMA ExistingNearlyExists ==
  ASSUME NEW d \in AllDevices, NEW bank \in Place, bank.page < PageMask(d)
  PROVE  /\ Existing(d, bank).flash = bank.flash
         /\ Existing(d, bank).page <= pages(d, bank.flash)
         /\ bank.flash /\ d \in FullFlash => Existing(d, bank).page < pages(d, TRUE)
<1> DEFINE n == bank.page
           count == pages(d, bank.flash)
<1>1. count \in {3, 8, 32, 64, 128, 256}
  BY DEF pages, ram_pages, flash_pages, AllDevices
<1>2. n \in 0..127 /\ bank.flash \in BOOLEAN /\ bank = [page |-> n, flash |-> bank.flash]
  BY DEF Place
<1>3. ASSUME bank.flash, d \in FullFlash
      PROVE  n < count /\ count = pages(d, TRUE)
  <2>1. CASE d = "TI83p"
    BY <1>2, <1>3, <2>1 DEF PageMask, pages, flash_pages
  <2>2. CASE d # "TI83p"
    BY <1>2, <1>3, <2>2 DEF PageMask, pages, flash_pages, FullFlash
  <2> QED
    BY <2>1, <2>2
<1> HIDE DEF n, count
<1>4. CASE n > count
  <2>1. AndCount(n, count) \in 0..count
    <3> DEFINE numbers == 0..127
               sizes == {3, 8, 32, 64, 128, 256}
    <3>1. n \in numbers /\ count \in sizes
      BY <1>1, <1>2
    <3>2. \A page \in numbers, size \in sizes : AndCount(page, size) \in 0..size
      BY MaskedNearlyExists
    <3> HIDE DEF numbers, sizes
    <3> QED
      BY <3>1, <3>2
  <2>2. Existing(d, bank) = [page |-> AndCount(n, count), flash |-> bank.flash]
    BY <1>2, <1>4 DEF Existing, n, count
  <2>3. ASSUME bank.flash, d \in FullFlash PROVE FALSE
    <3>1. n < count
      BY <1>3, <2>3
    <3> QED
      BY <1>1, <1>2, <1>4, <3>1
  <2>4. AndCount(n, count) <= count
    BY <1>1, <2>1
  <2>5. Existing(d, bank).page <= count /\ Existing(d, bank).flash = bank.flash
    BY <2>2, <2>4
  <2> QED
    BY <2>3, <2>5 DEF count
<1>5. CASE ~(n > count)
  <2>1. Existing(d, bank) = bank
    BY <1>5 DEF Existing, n, count
  <2>2. n <= count
    BY <1>1, <1>2, <1>5
  <2> QED
    BY <1>3, <2>1, <2>2 DEF n, count
<1> QED
  BY <1>4, <1>5

THEOREM PagesNearlyExistCorrect == Spec => []PagesNearlyExist
<1>1. Registers /\ BanksCurrent => PagesNearlyExist
  <2> SUFFICES ASSUME Registers, BanksCurrent PROVE PagesNearlyExist
    OBVIOUS
  <2> DEFINE Good(bank) == bank \in Place /\ bank.page < PageMask(device)
             Near(bank) ==
               /\ bank.page <= pages(device, bank.flash)
               /\ bank.flash /\ device \in FullFlash => bank.page < pages(device, TRUE)
  <2>0. /\ device \in AllDevices /\ PageMask(device) \in {32, 128}
        /\ banks = Mapping(device, map_mode, bank_a, bank_b, ram_bank_page)
    BY DevicesAssumption DEF Registers, BanksCurrent, PageMask
  <2>1. /\ bank_a \in Place /\ bank_a.page \in 0..127 /\ bank_a.page < PageMask(device)
        /\ bank_b \in Place /\ bank_b.page \in 0..127 /\ bank_b.page < PageMask(device)
    BY DEF Registers, Fits, Place
  <2>2. Good(bank_a) /\ Good(bank_b)
    BY <2>0, <2>1
  <2>3. Good([page |-> 0, flash |-> TRUE]) /\ Good(RamBank(device, ram_bank_page))
    BY <2>0 DEF Registers, Place, RamBank
  <2>4. Good(Even(bank_a)) /\ Good(SecondHalf(device, bank_a))
    <3>1. \A n \in 0..127 : n - (n % 2) <= n /\ (n < 32 => n - (n % 2) + 1 <= 31)
                          /\ n - (n % 2) + 1 <= 127 /\ n - (n % 2) \in Nat
      OBVIOUS
    <3>2. Even(bank_a) \in Place /\ Odd(bank_a) \in Place
      BY <2>1, HalvesArePlaces
    <3>3. /\ Even(bank_a).page = bank_a.page - (bank_a.page % 2)
          /\ Odd(bank_a).page = bank_a.page - (bank_a.page % 2) + 1
      BY <2>1 DEF Even, Odd, Place
    <3>4. Good(Even(bank_a)) /\ Good(Odd(bank_a))
      BY <2>0, <2>1, <3>1, <3>2, <3>3
    <3> QED
      BY <2>2, <3>4 DEF SecondHalf
  <2>5. ASSUME NEW bank, Good(bank) PROVE Near(Existing(device, bank))
    BY <2>0, <2>5, ExistingNearlyExists
  <2> HIDE DEF Good, Near
  <2>6. Near(banks[0])
    BY <2>0, <2>3, <2>5, FourBanks
  <2>7. Near(banks[1]) /\ Near(banks[2]) /\ Near(banks[3])
    <3>1. CASE map_mode = 0
      BY <2>0, <2>2, <2>3, <2>5, <3>1, FourBanks
    <3>2. CASE map_mode # 0
      BY <2>0, <2>2, <2>4, <2>5, <3>2, FourBanks
    <3> QED
      BY <3>1, <3>2
  <2>8. \A i \in 0..3 : i = 0 \/ i = 1 \/ i = 2 \/ i = 3
    OBVIOUS
  <2>9. \A i \in 0..3 : Near(banks[i])
    BY <2>6, <2>7, <2>8
  <2> QED
    BY <2>9 DEF Near, PagesNearlyExist
<1> QED
  BY <1>1, BothKept, PTL
==============================================================================
