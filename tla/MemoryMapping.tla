---------------------------- MODULE MemoryMapping ----------------------------
(***************************************************************************)
(* The paging ports, libz80e/src/ti/hardware/memorymapping.c: ports 4 (map *)
(* mode), 5 (RAM page of bank 3), 6 and 7 (pages A and B), and the table   *)
(* of four banks that memory.c translates every address with. The table is *)
(* derived from the ports' registers and stored; each port write derives   *)
(* it again.                                                               *)
(***************************************************************************)
EXTENDS Naturals

CONSTANTS Devices,   \* the calculators considered
          Data       \* what a guest writes to a port

AllDevices == {"TI73", "TI83p", "TI83pSE", "TI84p", "TI84pSE", "TI84pCSE"}

ASSUME DevicesAssumption == Devices \subseteq AllDevices
ASSUME DataAssumption == Data \subseteq 0..255

VARIABLES device,
          map_mode,
          bank_a,          \* [page, flash]: bank_a_page and bank_a_flash
          bank_b,
          ram_bank_page,
          banks,           \* mmu->banks
          timer_speed      \* the frequencies port 4 last gave the two timers, once it did

vars == <<device, map_mode, bank_a, bank_b, ram_bank_page, banks, timer_speed>>

Place == [page : 0..127, flash : BOOLEAN]

ram_pages(d) == IF d \in {"TI73", "TI83p", "TI84pCSE"} THEN 3 ELSE 8
flash_pages(d) == CASE d \in {"TI73", "TI83p"} -> 32
                    [] d = "TI84p" -> 64
                    [] d = "TI84pCSE" -> 256
                    [] OTHER -> 128

pages(d, flash) == IF flash THEN flash_pages(d) ELSE ram_pages(d)

(* page & count: the count is a power of two, or 3. *)
AndCount(page, count) ==
  IF count = 3 THEN page % 4 ELSE count * ((page \div count) % 2)

(* A page beyond the count is reported as nonexistent and masked. *)
Existing(d, bank) ==
  IF bank.page > pages(d, bank.flash)
  THEN [bank EXCEPT !.page = AndCount(@, pages(d, bank.flash))]
  ELSE bank

Even(bank) == [bank EXCEPT !.page = @ - (@ % 2)]        \* page & 0xFE

\* Mutant of Odd: both halves of the window are the same page.
OddUnset(bank) == bank

Odd(bank)  == [bank EXCEPT !.page = @ - (@ % 2) + 1]    \* page | 1

\* Mutant of Selected: in mode 1, too, bank 2 shows page B.
SelectedUnpaired(d, mode, a, b, ram) ==
  IF mode = 0
  THEN <<[page |-> 0, flash |-> TRUE], a, b,
         [page |-> IF d = "TI83p" THEN 0 ELSE ram, flash |-> FALSE]>>
  ELSE <<[page |-> 0, flash |-> TRUE], Even(a), b, b>>

(* The pages that the registers select, before those that do not exist are masked. *)
Selected(d, mode, a, b, ram) ==
  IF mode = 0
  THEN <<[page |-> 0, flash |-> TRUE], a, b,
         [page |-> IF d = "TI83p" THEN 0 ELSE ram, flash |-> FALSE]>>
  ELSE <<[page |-> 0, flash |-> TRUE], Even(a), IF d = "TI83p" THEN a ELSE Odd(a), b>>

Mapping(d, mode, a, b, ram) ==
  [i \in 0..3 |-> Existing(d, Selected(d, mode, a, b, ram)[i + 1])]

(* The end of every write *)
reload_mapping ==
  /\ banks' = Mapping(device, map_mode', bank_a', bank_b', ram_bank_page')
  /\ UNCHANGED device

(* init_mapping_ports, after asic_init has chosen the device *)
Init ==
  /\ device \in Devices
  /\ map_mode = 0
  /\ bank_a = [page |-> 0, flash |-> TRUE]
  /\ bank_b = [page |-> 0, flash |-> TRUE]
  /\ ram_bank_page = 0
  /\ banks = Mapping(device, map_mode, bank_a, bank_b, ram_bank_page)
  /\ timer_speed = {}

-----------------------------------------------------------------------------
(* The ports *)

(* Port 4 is one byte for two devices: the mode, and the speed of the timers. *)
write_device_status_port(data) ==
  /\ map_mode' = data % 2
  /\ timer_speed' = {(data \div 2) % 4}
  /\ UNCHANGED <<bank_a, bank_b, ram_bank_page>>
  /\ reload_mapping

\* Mutant of write_ram_paging_port: the table is not derived again.
WriteRamOnly(data) ==
  /\ device # "TI83p"
  /\ ram_bank_page' = data % 8
  /\ UNCHANGED <<device, map_mode, bank_a, bank_b, banks, timer_speed>>

(* Port 5 is not there on the TI-83+. *)
write_ram_paging_port(data) ==
  /\ device # "TI83p"
  /\ ram_bank_page' = data % 8
  /\ UNCHANGED <<map_mode, bank_a, bank_b, timer_speed>>
  /\ reload_mapping

(* The bit of ports 6 and 7 that selects RAM. *)
RamBit(d) == IF d = "TI83p" THEN 64 ELSE 128

PageMask(d) == IF d = "TI83p" THEN 32 ELSE 128

Written(d, data) ==
  [page |-> data % PageMask(d), flash |-> (data \div RamBit(d)) % 2 = 0]

write_bank_a_paging_port(data) ==
  /\ bank_a' = Written(device, data)
  /\ UNCHANGED <<map_mode, bank_b, ram_bank_page, timer_speed>>
  /\ reload_mapping

write_bank_b_paging_port(data) ==
  /\ bank_b' = Written(device, data)
  /\ UNCHANGED <<map_mode, bank_a, ram_bank_page, timer_speed>>
  /\ reload_mapping

\* Mutant of read_paging_port: the RAM bit is where it is on the other devices.
ReadBit7(d, bank) == bank.page + (IF bank.flash THEN 0 ELSE 128)

(* IN (6), IN (7) *)
read_paging_port(d, bank) == bank.page + (IF bank.flash THEN 0 ELSE RamBit(d))

Next ==
  \E data \in Data :
     \/ write_device_status_port(data)
     \/ write_ram_paging_port(data)
     \/ write_bank_a_paging_port(data)
     \/ write_bank_b_paging_port(data)

Spec == Init /\ [][Next]_vars

-----------------------------------------------------------------------------
(* Properties *)

TypeOK ==
  /\ device \in Devices
  /\ map_mode \in 0..1
  /\ bank_a \in Place /\ bank_b \in Place
  /\ ram_bank_page \in 0..7
  /\ banks \in [0..3 -> Place]
  /\ timer_speed \subseteq 0..3

(* The stored table is what the registers select, whatever was written to    *)
(* which port before: a guest that writes the same registers in any order,   *)
(* through any detour of modes and pages, ends up with the same four banks.  *)
BanksCurrent == banks = Mapping(device, map_mode, bank_a, bank_b, ram_bank_page)

(* A routine that saves a paging port, maps a page of its own and writes     *)
(* back what it had read leaves the mapping as it found it.                  *)
RestoringRestores ==
  /\ Written(device, read_paging_port(device, bank_a)) = bank_a
  /\ Written(device, read_paging_port(device, bank_b)) = bank_b

(* Bank 0 is the boot page whatever is written; in mode 0 bank 3 is RAM; and *)
(* in mode 1 banks 1 and 2 are the two halves of one 32 KiB window (except on *)
(* the TI-83+, and where the second half does not exist).                    *)
WindowsInv ==
  /\ banks[0] = [page |-> 0, flash |-> TRUE]
  /\ map_mode = 0 => ~banks[3].flash
  /\ (map_mode = 1 /\ device # "TI83p" /\ bank_a.page < pages(device, bank_a.flash) - 1)
       => /\ banks[2].flash = banks[1].flash
          /\ banks[1].page % 2 = 0
          /\ banks[2].page = banks[1].page + 1

(* The banks that belong to each port in a map mode: page A has banks 1 and 2 *)
(* in mode 1, where page B takes bank 3 from the RAM page. The byte of port 4 *)
(* has no bank of its own.                                                   *)
Owned(mode) ==
  IF mode = 0 THEN [ram |-> {3}, bank_a |-> {1}, bank_b |-> {2}]
              ELSE [ram |-> {}, bank_a |-> {1, 2}, bank_b |-> {3}]

Moved == {i \in 0..3 : banks'[i] # banks[i]}

(* In either map mode a write to port 5, 6 or 7 that changes its register     *)
(* moves no bank but those that belong to the port in that mode, though each  *)
(* write derives all four anew. A write that changes none, such as one to     *)
(* port 4 for the speed of the timers alone, moves nothing; a change of the   *)
(* mode may move every bank but bank 0.                                      *)
PortsKeepToTheirBanks ==
  [][/\ map_mode' # map_mode => Moved \subseteq 1..3
     /\ ram_bank_page' # ram_bank_page => Moved \subseteq Owned(map_mode).ram
     /\ bank_a' # bank_a => Moved \subseteq Owned(map_mode).bank_a
     /\ bank_b' # bank_b => Moved \subseteq Owned(map_mode).bank_b
     /\ UNCHANGED <<map_mode, ram_bank_page, bank_a, bank_b>> => Moved = {}]_vars

(* A page that does not exist is never mapped: the check of reload_mapping   *)
(* and its message "Flash page ... doesn't exist!".                          *)
MappedPagesExist == \A i \in 0..3 : banks[i].page < pages(device, banks[i].flash)
==============================================================================
