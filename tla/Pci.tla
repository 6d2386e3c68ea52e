--------------------------------- MODULE Pci --------------------------------
(***************************************************************************)
(* drivers/pci.c: initialize_pci_devices asks every function of every slot *)
(* of every bus for its vendor and device, and registers those that are    *)
(* there, in memory it never tests malloc for.                             *)
(*                                                                         *)
(* Memory is a function of cells of 4 bytes.  A pointer is the number of a *)
(* cell, NULL is cell 0, which is memory like any other.  A pci_device     *)
(* takes two cells: its vendor and device numbers, and its driver.  The    *)
(* numbers of a function are abstracted to the function itself, so that    *)
(* one can tell whose numbers a cell holds.                                *)
(***************************************************************************)
EXTENDS Naturals, FiniteSets

CONSTANTS
  Buses, Slots, Functions,   \* bounds of the three loops: 256, 32 and 8
  Kinds,                     \* what a function may be, of AllKinds
  TableCells,                \* pointers the table has room for: 64
  MemCells,                  \* cells of memory
  Blocks                     \* where malloc may find room, with TableCells each

(* No function, one with a vendor but no device number, or a proper one. *)
AllKinds == {"absent", "odd", "there"}

NULL == 0
Bus == 0 .. Buses - 1
Function == Bus \X (0 .. Slots - 1) \X (0 .. Functions - 1)
Cell == 0 .. MemCells - 1

ASSUME PciAssumption ==
  /\ Buses \in 1 .. 256 /\ Slots \in 1 .. 32 /\ Functions \in 1 .. 8
  /\ Kinds \subseteq AllKinds
  /\ TableCells \in Nat \ {0, 1}
  /\ MemCells \in Nat /\ Blocks \subseteq Nat
  /\ Buses * Slots * Functions + 1 <= MemCells
  /\ \A p \in Blocks : /\ Buses * Slots * Functions <= p
                       /\ p + Buses * Slots * Functions <= MemCells
                       /\ \A q \in Blocks : p < q => p + TableCells <= q

VARIABLES
  kind,        \* external: what every function is; never changes
  pc,          \* "table", "bus" where a bus is begun, "function", "done"
  bus, slot, function,
  devices,     \* the table
  device_count,
  pcidevice,   \* the pci_device being filled in
  mem,         \* what every cell holds
  given        \* history: the pci_device of every bus, MemCells for none yet

loopvars == <<pc, bus, slot, function>>
vars == <<kind, loopvars, devices, device_count, pcidevice, mem, given>>

(* What a cell may hold. *)
Firmware == <<"firmware">>
Pointer(p) == <<"pointer", p>>
Numbers(fn) == <<"numbers", fn[1], fn[2], fn[3]>>

Init ==
  /\ kind \in [Function -> Kinds]
  /\ pc = "table"
  /\ bus = 0 /\ slot = 0 /\ function = 0
  /\ devices = NULL /\ device_count = 0
  /\ pcidevice = NULL
  /\ mem = [c \in Cell |-> Firmware]
  /\ given = [b \in Bus |-> MemCells]

-----------------------------------------------------------------------------
(* Mutant: one bit too few for the function. *)
ConfigAddressOverlap(b, s, f, offset) ==
  b * 2^16 + s * 2^10 + f * 2^8 + 4 * (offset \div 4)

(* The configuration address, without its enable bit.  The fields do not   *)
(* overlap, so the ors are sums.                                           *)
ConfigAddress(b, s, f, offset) ==
  b * 2^16 + s * 2^11 + f * 2^8 + 4 * (offset \div 4)

(* External: the function that answers to a configuration address. *)
Answering(a) == <<(a \div 2^16) % 256, (a \div 2^11) % 32, (a \div 2^8) % 8>>

(* External: whether the word of a function's configuration space that has *)
(* its vendor (0) or its device (1) holds a number.  0xFFFF is none.       *)
HasNumber(fn, w) ==
  fn \in Function /\ kind[fn] \in (IF w = 0 THEN {"odd", "there"} ELSE {"there"})

(* pci_config_read_word: the second bit of the offset selects the word. *)
pci_config_read_word(b, s, f, offset) ==
  HasNumber(Answering(ConfigAddress(b, s, f, offset)), (offset \div 2) % 2)

pci_get_vendor(b, s, f) == pci_config_read_word(b, s, f, 0)
pci_get_device(b, s, f) == pci_config_read_word(b, s, f, 2)

-----------------------------------------------------------------------------
(* The two calls of malloc; p is what it returned. *)
TableAllocated(p) ==
  /\ pc = "table"
  /\ devices' = p
  /\ pc' = "bus"
  /\ UNCHANGED <<kind, bus, slot, function, device_count, pcidevice, mem, given>>

(* Mutant: the pci_device of the bus before is used again. *)
BusDeviceKept(p) == IF bus = 0 THEN p ELSE pcidevice

BusDevice(p) == p

DeviceAllocated(p) ==
  /\ pc = "bus"
  /\ pcidevice' = BusDevice(p)
  /\ given' = [given EXCEPT ![bus] = p]
  /\ pc' = "function"
  /\ UNCHANGED <<kind, bus, slot, function, devices, device_count, mem>>

(* The three loops go on to the next function. *)
Advance ==
  LET f == function + 1 = Functions
      s == slot + 1 = Slots
  IN /\ function' = (function + 1) % Functions
     /\ slot' = IF f THEN (slot + 1) % Slots ELSE slot
     /\ bus' = IF f /\ s THEN (bus + 1) % Buses ELSE bus
     /\ pc' = IF ~ (f /\ s) THEN "function" ELSE IF bus + 1 = Buses THEN "done" ELSE "bus"

(* A function without a vendor, or without a device number, is passed over *)
Skip ==
  /\ pc = "function"
  /\ ~ (pci_get_vendor(bus, slot, function) /\ pci_get_device(bus, slot, function))
  /\ Advance
  /\ UNCHANGED <<kind, devices, device_count, pcidevice, mem, given>>

(* Memory m once the pci_device at p holds the numbers of fn. *)
Fill(m, p, fn) == [m EXCEPT ![p] = Numbers(fn), ![p + 1] = Pointer(NULL)]

(* Mutant: the table is taken to start at 1. *)
EntryOffByOne == devices + device_count + 1

Entry == devices + device_count

(* register_pci_device *)
Register(m, p) ==
  /\ mem' = [m EXCEPT ![Entry] = Pointer(p)]
  /\ device_count' = device_count + 1

(* Any other is filled in and registered. *)
Found ==
  /\ pc = "function"
  /\ pci_get_vendor(bus, slot, function) /\ pci_get_device(bus, slot, function)
  /\ Register(Fill(mem, pcidevice, Answering(ConfigAddress(bus, slot, function, 0))), pcidevice)
  /\ Advance
  /\ UNCHANGED <<kind, devices, pcidevice, given>>

Enumerate == Skip \/ Found

(* External: malloc grants a block nobody has, or fails. *)
Malloc == {NULL} \cup (Blocks \ ({devices} \cup {given[b] : b \in Bus}))

Next ==
  \/ \E p \in Malloc : TableAllocated(p)
  \/ \E p \in Malloc : DeviceAllocated(p)
  \/ Enumerate

(* The kernel's only thread keeps running. *)
Spec == Init /\ [][Next]_vars /\ WF_vars(Next)

-----------------------------------------------------------------------------
(* The position of a function in the order of the loops. *)
Rank(fn) == (fn[1] * Slots + fn[2]) * Functions + fn[3]

There ==
  {fn \in Function :
     /\ kind[fn] = "there"
     /\ pc = "done" \/ Rank(fn) < Rank(<<bus, slot, function>>)}

(* Types, and the loop variables within their bounds. *)
TypeOK ==
  /\ kind \in [Function -> Kinds]
  /\ pc \in {"table", "bus", "function", "done"}
  /\ <<bus, slot, function>> \in Function
  /\ devices \in Cell /\ pcidevice \in Cell
  /\ device_count \in 0 .. Buses * Slots * Functions
  /\ DOMAIN mem = Cell
  /\ given \in [Bus -> 0 .. MemCells]

(* The table does not run into the blocks behind it. *)
TableSuffices == devices = NULL \/ device_count <= TableCells

(* The table and the pci_device of some bus are both at address 0. *)
Collide == devices = NULL /\ \E b \in Bus : given[b] = NULL

(* Every function that is there has one entry, in the order of the loops,  *)
(* that points to the pci_device of its bus: whichever calls of malloc     *)
(* failed, unless the table and a pci_device are both at address 0, and as *)
(* long as the table, which nobody tests for room, is large enough.        *)
OneEntryPerFunction ==
  LET found == There
  IN /\ device_count = Cardinality(found)
     /\ TableSuffices /\ ~ Collide =>
          \A fn \in found :
            mem[devices + Cardinality({g \in found : Rank(g) < Rank(fn)})]
              = Pointer(given[fn[1]])

(* The pci_device of a bus holds the numbers of the last function found on *)
(* it, and every entry of the bus shows the same.                          *)
LastOnBus ==
  LET found == There
  IN TableSuffices =>
       \A fn \in found :
         /\ given[fn[1]] # NULL
         /\ \A g \in found : g[1] = fn[1] => Rank(g) <= Rank(fn)
         => mem[given[fn[1]]] = Numbers(fn)

(* With all memory granted, and a table large enough, nothing outside the  *)
(* blocks is written.                                                      *)
NoStrayWrite ==
  devices # NULL /\ TableSuffices /\ (\A b \in Bus : given[b] # NULL) =>
    \A c \in Cell :
      \/ mem[c] = Firmware
      \/ c \in devices .. devices + device_count - 1
      \/ \E b \in Bus : c \in {given[b], given[b] + 1}

=============================================================================
