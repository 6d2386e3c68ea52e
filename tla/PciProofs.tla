----------------------------- MODULE PciProofs ------------------------------
(***************************************************************************)
(* Why the table of initialize_pci_devices is what it should be as long as *)
(* it has room, whichever calls of malloc fail: for every number of buses, *)
(* slots and functions up to the hardware's, every table and every memory. *)
(***************************************************************************)
EXTENDS Pci, FiniteSetTheorems, TLAPS

(* How many functions there are. *)
Total == Buses * Slots * Functions

Current == <<bus, slot, function>>

(* The order of the loops. *)
Before(f, g) ==
  \/ f[1] < g[1]
  \/ f[1] = g[1] /\ f[2] < g[2]
  \/ f[1] = g[1] /\ f[2] = g[2] /\ f[3] < g[3]

LEMMA Sizes == Buses \in 1 .. 256 /\ Slots \in 1 .. 32 /\ Functions \in 1 .. 8
BY PciAssumption

-----------------------------------------------------------------------------
LEMMA Digits ==
  ASSUME NEW fn \in Function
  PROVE  /\ fn[1] \in 0 .. Buses - 1 /\ fn[2] \in 0 .. Slots - 1 /\ fn[3] \in 0 .. Functions - 1
         /\ fn = <<fn[1], fn[2], fn[3]>>
BY Sizes DEF Function, Bus

(* The address a function is asked by is answered by that function.        *)
LEMMA AddressRoundTrip ==
  ASSUME NEW fn \in Function
  PROVE  Answering(ConfigAddress(fn[1], fn[2], fn[3], 0)) = fn
<1> PICK b \in 0 .. Buses - 1, s \in 0 .. Slots - 1, f \in 0 .. Functions - 1 : fn = <<b, s, f>>
  BY Digits
<1>0. b \in 0 .. 255 /\ s \in 0 .. 31 /\ f \in 0 .. 7
  BY Sizes
<1> DEFINE a == ConfigAddress(b, s, f, 0)
<1>1. a = b * 65536 + s * 2048 + f * 256
  BY <1>0 DEF ConfigAddress
<1>2. a \div 2^16 = b
  BY <1>0, <1>1
<1>3. a \div 2^11 = b * 32 + s
  BY <1>0, <1>1
<1>4. a \div 2^8 = (b * 32 + s) * 8 + f
  BY <1>0, <1>1
<1> QED
  BY <1>0, <1>2, <1>3, <1>4 DEF Answering

(* Both words asked for lie behind that address. *)
LEMMA SameAddress ==
  ASSUME NEW fn \in Function
  PROVE  ConfigAddress(fn[1], fn[2], fn[3], 2) = ConfigAddress(fn[1], fn[2], fn[3], 0)
<1> 4 * (2 \div 4) = 4 * (0 \div 4)
  OBVIOUS
<1> QED
  BY DEF ConfigAddress

(* The two tests together: is the function of the kind that is registered? *)
LEMMA AskedRight ==
  ASSUME Current \in Function, kind \in [Function -> Kinds]
  PROVE  pci_get_vendor(bus, slot, function) /\ pci_get_device(bus, slot, function)
           <=> kind[Current] = "there"
<1> DEFINE a == ConfigAddress(bus, slot, function, 0)
<1>1. Answering(a) = Current
  BY AddressRoundTrip DEF Current
<1>2. ConfigAddress(bus, slot, function, 2) = a
  BY SameAddress DEF Current
<1>3. (0 \div 2) % 2 = 0 /\ (2 \div 2) % 2 = 1
  OBVIOUS
<1> HIDE DEF a
<1>4. pci_get_vendor(bus, slot, function) <=> kind[Current] \in {"odd", "there"}
  BY <1>1, <1>3 DEF pci_get_vendor, pci_config_read_word, HasNumber, a
<1>5. pci_get_device(bus, slot, function) <=> kind[Current] = "there"
  BY <1>1, <1>2, <1>3 DEF pci_get_device, pci_config_read_word, HasNumber
<1> QED
  BY <1>4, <1>5

-----------------------------------------------------------------------------
(* Digits: the higher one decides. *)
LEMMA HigherDigit ==
  ASSUME NEW a \in Nat, NEW b \in Nat, NEW c \in Nat,
         NEW f \in 0 .. c - 1, NEW g \in 0 .. c - 1, a < b
  PROVE  a * c + f < b * c + g
<1> a * c + c <= b * c
  OBVIOUS
<1> QED
  OBVIOUS

LEMMA LowerDigit ==
  ASSUME NEW a \in Nat, NEW c \in Nat, NEW f \in Nat, NEW g \in Nat, f < g
  PROVE  a * c + f < a * c + g
OBVIOUS

LEMMA BeforeIsLess ==
  ASSUME NEW f \in Function, NEW g \in Function, Before(f, g)
  PROVE  Rank(f) < Rank(g)
<1> DEFINE u == f[1] * Slots + f[2]
           v == g[1] * Slots + g[2]
<1>1. /\ f[1] \in Nat /\ f[2] \in 0 .. Slots - 1 /\ f[3] \in 0 .. Functions - 1
      /\ g[1] \in Nat /\ g[2] \in 0 .. Slots - 1 /\ g[3] \in 0 .. Functions - 1
      /\ Slots \in Nat /\ Functions \in Nat
  BY Digits, Sizes
<1>2. u \in Nat /\ v \in Nat
  BY <1>1
<1>3. f[1] < g[1] => u < v
  BY <1>1, HigherDigit
<1>4. f[1] = g[1] /\ f[2] < g[2] => u < v
  BY <1>1, LowerDigit
<1>5. f[1] = g[1] /\ f[2] = g[2] => u = v
  OBVIOUS
<1> HIDE DEF u, v
<1>6. u < v => u * Functions + f[3] < v * Functions + g[3]
  BY <1>1, <1>2, HigherDigit
<1>7. u = v /\ f[3] < g[3] => u * Functions + f[3] < v * Functions + g[3]
  BY <1>1, <1>2, LowerDigit
<1> QED
  BY <1>3, <1>4, <1>5, <1>6, <1>7 DEF Before, Rank, u, v

(* Rank counts the functions off in that order, up to Total. *)
LEMMA RankOrder ==
  ASSUME NEW f \in Function, NEW g \in Function
  PROVE  /\ Rank(f) \in 0 .. Total - 1
         /\ Rank(f) < Rank(g) <=> Before(f, g)
         /\ Rank(f) = Rank(g) <=> f = g
<1>1. \A h \in Function : Rank(h) \in Nat
  BY Digits, Sizes DEF Rank
<1>2. Before(f, g) => Rank(f) < Rank(g)
  BY BeforeIsLess
<1>3. Before(g, f) => Rank(g) < Rank(f)
  BY BeforeIsLess
<1>4. Before(f, g) \/ Before(g, f) \/ f = g
  BY Digits, Sizes DEF Before
<1>5. Rank(f) < Total
  <2> PICK f1 \in 0 .. Buses - 1, f2 \in 0 .. Slots - 1, f3 \in 0 .. Functions - 1 : f = <<f1, f2, f3>>
    BY Digits
  <2> DEFINE u == f1 * Slots + f2
  <2>1. u \in Nat /\ u < Buses * Slots + 0
    BY HigherDigit, Sizes
  <2>2. Rank(f) = u * Functions + f3
    BY DEF Rank
  <2> DEFINE w == Buses * Slots
  <2>3. w \in Nat /\ u < w
    BY <2>1, Sizes
  <2> HIDE DEF u, w
  <2>4. u * Functions + f3 < w * Functions + 0
    BY <2>1, <2>3, HigherDigit, Sizes
  <2>5. w * Functions \in Nat
    BY <2>3, Sizes
  <2> QED
    BY <2>2, <2>4, <2>5 DEF Total, w
<1> QED
  <2> Total \in Nat
    BY Sizes DEF Total
  <2> Rank(f) \in Nat /\ Rank(g) \in Nat
    BY <1>1
  <2> QED
    BY <1>2, <1>3, <1>4, <1>5

-----------------------------------------------------------------------------
LEMMA FunctionsCounted ==
  /\ IsFiniteSet(Function)
  /\ Cardinality(Function) <= Total
  /\ Total \in Nat
<1> DEFINE number == [fn \in Function |-> Rank(fn)]
<1>1. Total \in Nat
  BY Sizes DEF Total
<1>2. number \in [Function -> 0 .. Total - 1]
  BY RankOrder
<1>3. \A f, g \in Function : number[f] = number[g] => f = g
  BY RankOrder
<1>4. number \in Injection(Function, 0 .. Total - 1)
  BY <1>2, <1>3 DEF Injection, IsInjective
<1>5. IsFiniteSet(0 .. Total - 1) /\ Cardinality(0 .. Total - 1) = Total
  BY <1>1, FS_Interval
<1> QED
  BY <1>1, <1>4, <1>5, FS_Injection

(* The functions the loops are past. *)
Passed(fn) == pc = "done" \/ Before(fn, Current)

LEMMA ThereIsPassed ==
  ASSUME Current \in Function
  PROVE  There = {fn \in Function : kind[fn] = "there" /\ Passed(fn)}
<1> \A fn \in Function : Rank(fn) < Rank(Current) <=> Before(fn, Current)
  BY RankOrder
<1> QED
  BY DEF There, Passed, Current

LEMMA Modulo ==
  ASSUME NEW n \in Nat \ {0}, NEW i \in 0 .. n - 1
  PROVE  (i + 1) % n = IF i + 1 = n THEN 0 ELSE i + 1
<1>1. \A r \in 0 .. n - 1 : (0 * n + r) % n = r /\ (1 * n + r) % n = r
  OBVIOUS
<1> QED
  BY <1>1

(* The loops go on: exactly the function they were at is passed. *)
LEMMA AdvancePasses ==
  ASSUME Current \in Function, pc = "function", Advance
  PROVE  /\ Current' \in Function
         /\ pc' \in {"bus", "function", "done"}
         /\ \A fn \in Function : Passed(fn)' <=> Passed(fn) \/ fn = Current
         /\ pc' = "bus" => bus + 1 < Buses /\ bus' = bus + 1 /\ slot' = 0 /\ function' = 0
         /\ pc' = "function" => bus' = bus
         /\ pc' = "done" => bus + 1 = Buses
<1> USE Sizes
<1>1. /\ bus \in 0 .. Buses - 1 /\ slot \in 0 .. Slots - 1 /\ function \in 0 .. Functions - 1
      /\ Current[1] = bus /\ Current[2] = slot /\ Current[3] = function
      /\ Current'[1] = bus' /\ Current'[2] = slot' /\ Current'[3] = function'
  BY Digits DEF Current
<1>2. /\ function' = IF function + 1 = Functions THEN 0 ELSE function + 1
      /\ slot' = IF function + 1 = Functions
                 THEN (IF slot + 1 = Slots THEN 0 ELSE slot + 1) ELSE slot
      /\ bus' = IF function + 1 = Functions /\ slot + 1 = Slots
                THEN (IF bus + 1 = Buses THEN 0 ELSE bus + 1) ELSE bus
  <2>0. Functions \in Nat \ {0} /\ Slots \in Nat \ {0} /\ Buses \in Nat \ {0}
    OBVIOUS
  <2>1. (function + 1) % Functions = IF function + 1 = Functions THEN 0 ELSE function + 1
    BY <1>1, <2>0, Modulo, Zenon
  <2>2. (slot + 1) % Slots = IF slot + 1 = Slots THEN 0 ELSE slot + 1
    BY <1>1, <2>0, Modulo, Zenon
  <2>3. (bus + 1) % Buses = IF bus + 1 = Buses THEN 0 ELSE bus + 1
    BY <1>1, <2>0, Modulo, Zenon
  <2> QED
    BY <2>1, <2>2, <2>3, Zenon DEF Advance
<1>3. pc' = IF ~ (function + 1 = Functions /\ slot + 1 = Slots) THEN "function"
            ELSE IF bus + 1 = Buses THEN "done" ELSE "bus"
  BY DEF Advance
<1>4. Current' \in Function
  BY <1>1, <1>2 DEF Current, Function, Bus
<1>5. ASSUME NEW fn \in Function
      PROVE  Passed(fn)' <=> Passed(fn) \/ fn = Current
  <2>1. fn[1] \in 0 .. Buses - 1 /\ fn[2] \in 0 .. Slots - 1 /\ fn[3] \in 0 .. Functions - 1
    BY Digits
  <2>2. fn = Current <=> fn[1] = bus /\ fn[2] = slot /\ fn[3] = function
    BY <1>1, Digits DEF Current
  <2>3. Passed(fn) <=> Before(fn, Current)
    BY DEF Passed
  <2>4. Passed(fn)' <=> pc' = "done" \/ Before(fn, Current')
    BY DEF Passed, Before
  <2>5. CASE ~ (function + 1 = Functions)
    BY <2>5, <2>1, <2>2, <2>3, <2>4, <1>1, <1>2, <1>3 DEF Before
  <2>6. CASE function + 1 = Functions /\ ~ (slot + 1 = Slots)
    BY <2>6, <2>1, <2>2, <2>3, <2>4, <1>1, <1>2, <1>3 DEF Before
  <2>7. CASE function + 1 = Functions /\ slot + 1 = Slots
    BY <2>7, <2>1, <2>2, <2>3, <2>4, <1>1, <1>2, <1>3 DEF Before
  <2> QED
    BY <2>5, <2>6, <2>7
<1> QED
  BY <1>1, <1>2, <1>3, <1>4, <1>5

-----------------------------------------------------------------------------
(* The pci_device of bus b has been asked for. *)
Begun(b) == pc = "done" \/ b < bus \/ (b = bus /\ pc = "function")

(* Types, but for the bound of the counter. *)
LoopType ==
  /\ kind \in [Function -> Kinds]
  /\ pc \in {"table", "bus", "function", "done"}
  /\ Current \in Function
  /\ device_count \in Nat
  /\ DOMAIN mem = Cell

(* Whom malloc gave what: distinct blocks, but for the null pointers.      *)
Granted ==
  /\ devices \in {NULL} \cup Blocks
  /\ pcidevice \in {NULL} \cup Blocks
  /\ given \in [Bus -> {NULL, MemCells} \cup Blocks]
  /\ \A b \in Bus : given[b] = MemCells <=> ~ Begun(b)
  /\ \A b, c \in Bus : b # c /\ given[b] = given[c] => given[b] \in {NULL, MemCells}
  /\ devices # NULL => \A b \in Bus : given[b] # devices
  /\ pc = "function" => pcidevice = given[bus]

(* Where the loops begin. *)
Beginning ==
  /\ pc = "table" => bus = 0 /\ device_count = 0 /\ mem = [c \in Cell |-> Firmware]
  /\ pc \in {"table", "bus"} => slot = 0 /\ function = 0

(* All that is ever written, wherever the null pointers lead. *)
Written ==
  \A c \in Cell :
    \/ mem[c] = Firmware
    \/ c \in devices .. devices + device_count - 1
    \/ \E b \in Bus : c \in {given[b], given[b] + 1}

(* The inductive invariant. *)
PciInv ==
  /\ LoopType
  /\ Granted
  /\ Beginning
  /\ Written
  /\ OneEntryPerFunction
  /\ LastOnBus

LEMMA InitPciInv == Init => PciInv
<1> SUFFICES ASSUME Init PROVE PciInv
  OBVIOUS
<1> USE Sizes
<1>1. Current \in Function
  BY DEF Init, Current, Function, Bus
<1>2. LoopType
  BY <1>1 DEF Init, LoopType, NULL
<1>3. Granted
  <2> MemCells \in Nat /\ MemCells # NULL
    <3> Total \in Nat /\ Total + 1 <= MemCells
      BY FunctionsCounted, PciAssumption DEF Total
    <3> QED
      BY PciAssumption DEF NULL
  <2> QED
    BY DEF Init, Granted, Begun, Bus, NULL
<1>4. Beginning
  BY DEF Init, Beginning
<1>5. Written
  BY DEF Init, Written
<1>6. There = {}
  <2> SUFFICES ASSUME NEW fn \in Function, Passed(fn) PROVE FALSE
    BY <1>1, ThereIsPassed
  <2>1. Current[1] = 0 /\ Current[2] = 0 /\ Current[3] = 0
    BY DEF Init, Current
  <2> QED
    BY <2>1, Digits DEF Init, Passed, Before
<1>7. OneEntryPerFunction
  BY <1>6, FS_EmptySet DEF Init, OneEntryPerFunction
<1>8. LastOnBus
  BY <1>6 DEF LastOnBus
<1> QED
  BY <1>2, <1>3, <1>4, <1>5, <1>7, <1>8 DEF PciInv

-----------------------------------------------------------------------------
(* The blocks lie behind what the null pointers reach, and apart. *)
LEMMA Memory ==
  /\ MemCells \in Nat /\ Total \in Nat \ {0} /\ Total < MemCells
  /\ TableCells \in Nat /\ TableCells >= 2
  /\ \A p \in Blocks : p \in Nat /\ Total <= p /\ p + Total <= MemCells
  /\ \A p, q \in Blocks : p # q => p + TableCells <= q \/ q + TableCells <= p
<1>1. Total \in Nat \ {0}
  <2> Buses * Slots \in Nat \ {0}
    BY Sizes
  <2> QED
    BY Sizes DEF Total
<1> QED
  BY <1>1, PciAssumption DEF Total

LEMMA BusIsOne ==
  ASSUME LoopType
  PROVE  bus \in Bus /\ \A fn \in Function : fn[1] \in Bus
BY Digits DEF LoopType, Current, Bus

LEMMA ThereFinite ==
  /\ There \subseteq Function
  /\ IsFiniteSet(There) /\ Cardinality(There) <= Total
  /\ \A S \in SUBSET There : IsFiniteSet(S) /\ Cardinality(S) \in Nat
<1>1. There \subseteq Function
  BY DEF There
<1>2. Cardinality(There) \in Nat /\ Cardinality(Function) \in Nat
  BY <1>1, FunctionsCounted, FS_Subset, FS_CardinalityType
<1> QED
  BY <1>1, <1>2, FunctionsCounted, FS_Subset, FS_CardinalityType

(* Where the functions passed stay the same, so do those found. *)
LEMMA ThereKept ==
  ASSUME UNCHANGED <<kind, bus, slot, function>>, pc # "done", pc' # "done"
  PROVE  There' = There
BY DEF There, Rank

LEMMA TableAllocatedInv ==
  ASSUME PciInv, NEW p \in Malloc, TableAllocated(p)
  PROVE  PciInv'
<1> USE DEF TableAllocated, PciInv
<1>1. p \in {NULL} \cup Blocks /\ \A b \in Bus : given[b] # p \/ p = NULL
  BY DEF Malloc
<1>2. LoopType'
  BY DEF LoopType, Current
<1>3. Granted'
  BY <1>1 DEF Granted, Begun
<1>4. Beginning'
  BY DEF Beginning
<1>5. Written'
  BY DEF Beginning, Written
<1>6. There' = There
  BY ThereKept
<1>7. There = {}
  BY ThereFinite, FS_EmptySet DEF OneEntryPerFunction, Beginning
<1>8. OneEntryPerFunction'
  BY <1>6, <1>7 DEF OneEntryPerFunction
<1>9. LastOnBus'
  BY <1>6, <1>7 DEF LastOnBus
<1> QED
  BY <1>2, <1>3, <1>4, <1>5, <1>8, <1>9

LEMMA DeviceAllocatedInv ==
  ASSUME PciInv, NEW p \in Malloc, DeviceAllocated(p)
  PROVE  PciInv'
<1> USE DEF DeviceAllocated, PciInv, BusDevice
<1>0. /\ bus \in Bus /\ Bus \subseteq Nat
      /\ p \in {NULL} \cup Blocks /\ p # MemCells
      /\ \A b \in Bus : given[b] # p \/ p = NULL
      /\ p # devices \/ p = NULL
  BY BusIsOne, Memory DEF Malloc, NULL, Bus
<1>1. /\ given' = [given EXCEPT ![bus] = p]
      /\ given \in [Bus -> {NULL, MemCells} \cup Blocks]
      /\ given[bus] = MemCells
  BY <1>0 DEF Granted, Begun
<1>2. LoopType'
  BY DEF LoopType, Current
<1>3. Granted'
  <2>1. \A b \in Bus : given'[b] = IF b = bus THEN p ELSE given[b]
    BY <1>0, <1>1
  <2>2. given' \in [Bus -> {NULL, MemCells} \cup Blocks]
    BY <1>0, <1>1
  <2>3. \A b \in Bus : given'[b] = MemCells <=> ~ Begun(b)'
    <3>1. \A b \in Bus : Begun(b)' <=> Begun(b) \/ b = bus
      BY DEF Begun
    <3>2. \A b \in Bus : given[b] = MemCells <=> ~ Begun(b)
      BY DEF Granted
    <3> QED
      BY <1>0, <2>1, <3>1, <3>2
  <2>4. \A b, c \in Bus : b # c /\ given'[b] = given'[c] => given'[b] \in {NULL, MemCells}
    BY <1>0, <2>1 DEF Granted
  <2>5. devices' # NULL => \A b \in Bus : given'[b] # devices'
    BY <1>0, <2>1 DEF Granted
  <2> QED
    BY <1>0, <2>1, <2>2, <2>3, <2>4, <2>5 DEF Granted
<1>4. Beginning'
  BY DEF Beginning
<1>5. Written'
  <2> SUFFICES ASSUME NEW c \in Cell, NEW b \in Bus, c \in {given[b], given[b] + 1}
               PROVE  b # bus
    <3>1. \A b \in Bus : b # bus => given'[b] = given[b]
      BY <1>0, <1>1
    <3> QED
      BY <3>1 DEF Written
  <2> QED
    <3>1. MemCells \in Nat /\ MemCells \notin Cell /\ MemCells + 1 \notin Cell
      BY Memory DEF Cell
    <3> QED
      BY <1>1, <3>1
<1>6. There' = There
  BY ThereKept
<1>7. \A fn \in There : fn \in Function /\ given'[fn[1]] = given[fn[1]]
  <2> SUFFICES ASSUME NEW fn \in Function, Passed(fn) PROVE given'[fn[1]] = given[fn[1]]
    BY ThereIsPassed DEF LoopType
  <2>1. fn[1] < bus
    <3> Current[1] = bus /\ Current[2] = 0 /\ Current[3] = 0
      BY DEF Current, Beginning
    <3> QED
      BY Digits, Sizes DEF Passed, Before
  <2> QED
    BY <1>0, <1>1, <2>1, BusIsOne
<1>8. Collide => Collide'
  <2> SUFFICES ASSUME NEW b \in Bus, given[b] = NULL PROVE given'[b] = NULL
    BY DEF Collide
  <2> QED
    BY <1>0, <1>1, Memory DEF NULL
<1>9. OneEntryPerFunction'
  BY <1>6, <1>7, <1>8 DEF OneEntryPerFunction, TableSuffices, Rank
<1>10. LastOnBus'
  BY <1>6, <1>7 DEF LastOnBus, TableSuffices, Rank
<1> QED
  BY <1>2, <1>3, <1>4, <1>5, <1>9, <1>10

-----------------------------------------------------------------------------
(* What going on to the next function leaves as it was. *)
LEMMA AdvanceKeeps ==
  ASSUME PciInv, pc = "function", Advance, UNCHANGED <<kind, devices, pcidevice, given>>
  PROVE  /\ Current' \in Function /\ pc' \in {"bus", "function", "done"}
         /\ Granted'
         /\ Beginning'
         /\ There' = There \cup (IF kind[Current] = "there" THEN {Current} ELSE {})
         /\ Current \in Function /\ Current \notin There
         /\ \A fn \in There : Rank(fn) < Rank(Current)
<1>0. Current \in Function /\ bus \in Bus
  BY BusIsOne DEF PciInv, LoopType
<1>1. /\ Current' \in Function /\ pc' \in {"bus", "function", "done"}
      /\ \A fn \in Function : Passed(fn)' <=> Passed(fn) \/ fn = Current
      /\ pc' = "bus" => bus + 1 < Buses /\ bus' = bus + 1 /\ slot' = 0 /\ function' = 0
      /\ pc' = "function" => bus' = bus
      /\ pc' = "done" => bus + 1 = Buses
  BY <1>0, AdvancePasses
<1>2. Granted'
  <2>1. \A b \in Bus : Begun(b)' <=> Begun(b)
    BY <1>0, <1>1, Sizes DEF Begun, Bus
  <2> QED
    BY <1>1, <2>1 DEF PciInv, Granted
<1>3. Beginning'
  BY <1>1 DEF Beginning
<1>4. There = {fn \in Function : kind[fn] = "there" /\ Passed(fn)}
  BY <1>0, ThereIsPassed
<1>5. There' = {fn \in Function : kind[fn] = "there" /\ Passed(fn)'}
  <2>1. \A fn \in Function : Rank(fn) < Rank(Current') <=> Before(fn, Current')
    BY <1>1, RankOrder
  <2> QED
    BY <2>1 DEF There, Passed, Current, Rank, Before
<1>6. \A fn \in There : Rank(fn) < Rank(Current)
  BY <1>0, RankOrder DEF There, Current
<1>7. Current \notin There
  BY <1>0, <1>6, RankOrder
<1> QED
  BY <1>0, <1>1, <1>2, <1>3, <1>4, <1>5, <1>6, <1>7

LEMMA SkipInv ==
  ASSUME PciInv, Skip
  PROVE  PciInv'
<1> USE DEF Skip
<1>1. kind[Current] # "there"
  BY AskedRight DEF PciInv, LoopType
<1>2. There' = There
  BY <1>1, AdvanceKeeps
<1>3. LoopType'
  BY AdvanceKeeps DEF PciInv, LoopType
<1>4. Granted' /\ Beginning'
  BY AdvanceKeeps
<1>5. Written'
  BY DEF PciInv, Written
<1>6. OneEntryPerFunction'
  BY <1>2 DEF PciInv, OneEntryPerFunction, TableSuffices, Collide, Rank
<1>7. LastOnBus'
  BY <1>2 DEF PciInv, LastOnBus, TableSuffices, Rank
<1> QED
  BY <1>3, <1>4, <1>5, <1>6, <1>7 DEF PciInv

(* What Found does to memory, with every address it writes to in memory.   *)
LEMMA FoundWrites ==
  ASSUME PciInv, Found
  PROVE  /\ pc = "function" /\ kind[Current] = "there" /\ Advance
         /\ UNCHANGED <<kind, devices, pcidevice, given>>
         /\ pcidevice = given[bus] /\ bus \in Bus /\ pcidevice \in Nat
         /\ device_count' = device_count + 1 /\ device_count < Total
         /\ Entry \in Cell
         /\ DOMAIN mem' = Cell
         /\ \A c \in Cell :
              mem'[c] = IF c = Entry THEN Pointer(pcidevice)
                        ELSE IF c = pcidevice + 1 THEN Pointer(NULL)
                        ELSE IF c = pcidevice THEN Numbers(Current)
                        ELSE mem[c]
         /\ There' = There \cup {Current}
<1>1. /\ pc = "function" /\ Advance /\ UNCHANGED <<kind, devices, pcidevice, given>>
      /\ device_count' = device_count + 1
  BY DEF Found, Register
<1>2. kind[Current] = "there"
  BY AskedRight DEF Found, PciInv, LoopType
<1>3. pcidevice = given[bus] /\ bus \in Bus /\ pcidevice \in Nat
  BY <1>1, BusIsOne, Memory DEF PciInv, Granted, NULL
<1>4. There' = There \cup {Current} /\ Current \notin There
  BY <1>1, <1>2, AdvanceKeeps
<1>5. device_count < Total
  <2>1. IsFiniteSet(There) /\ Cardinality(There) \in Nat /\ There' \in SUBSET Function
    BY <1>4, ThereFinite, AdvanceKeeps, <1>1
  <2>2. Cardinality(There') = Cardinality(There) + 1
    BY <1>4, <2>1, FS_AddElement
  <2>3. Cardinality(There') <= Cardinality(Function) /\ Cardinality(Function) \in Nat
    BY <2>1, FunctionsCounted, FS_Subset, FS_CardinalityType
  <2>4. device_count = Cardinality(There)
    BY DEF PciInv, OneEntryPerFunction
  <2> QED
    BY <2>1, <2>2, <2>3, <2>4, FunctionsCounted
<1>6. Entry \in Cell
  BY <1>5, Memory DEF Entry, PciInv, Granted, LoopType, NULL, Cell
<1>7. Answering(ConfigAddress(bus, slot, function, 0)) = Current
  BY AddressRoundTrip DEF PciInv, LoopType, Current
<1>8. mem' = [[mem EXCEPT ![pcidevice] = Numbers(Current), ![pcidevice + 1] = Pointer(NULL)]
                EXCEPT ![Entry] = Pointer(pcidevice)]
  BY <1>7 DEF Found, Register, Fill
<1>9. DOMAIN mem' = Cell
  BY <1>8 DEF PciInv, LoopType
<1>10. ASSUME NEW c \in Cell
       PROVE  mem'[c] = IF c = Entry THEN Pointer(pcidevice)
                        ELSE IF c = pcidevice + 1 THEN Pointer(NULL)
                        ELSE IF c = pcidevice THEN Numbers(Current)
                        ELSE mem[c]
  BY <1>3, <1>8 DEF PciInv, LoopType
<1> QED
  BY <1>1, <1>2, <1>3, <1>4, <1>5, <1>6, <1>9, <1>10

-----------------------------------------------------------------------------
(* The place of a function among those found: how many come before it.     *)
LEMMA Places ==
  ASSUME PciInv, Found, NEW fn \in There'
  PROVE  LET before == {g \in There' : Rank(g) < Rank(fn)}
         IN  IF fn = Current
             THEN before = There
             ELSE /\ fn \in There
                  /\ before = {g \in There : Rank(g) < Rank(fn)}
                  /\ Cardinality(before) \in 0 .. device_count - 1
<1>1. There' = There \cup {Current} /\ Current \in Function /\ Current \notin There
  BY FoundWrites, AdvanceKeeps
<1>2. \A g \in There : g \in Function /\ Rank(g) < Rank(Current)
  BY FoundWrites, AdvanceKeeps, ThereFinite
<1>3. \A f \in Function : Rank(f) \in Nat
  <2> Total \in Nat
    BY Memory
  <2> QED
    BY RankOrder
<1>4. CASE fn = Current
  BY <1>1, <1>2, <1>3, <1>4
<1>5. CASE fn # Current
  <2> DEFINE old == {g \in There : Rank(g) < Rank(fn)}
  <2>1. fn \in There
    BY <1>1, <1>5
  <2>2. {g \in There' : Rank(g) < Rank(fn)} = old
    <3>1. Rank(fn) < Rank(Current) /\ Rank(fn) \in Nat /\ Rank(Current) \in Nat
      BY <1>1, <1>2, <1>3, <2>1
    <3>2. ~ (Rank(Current) < Rank(fn))
      BY <3>1
    <3> QED
      BY <1>1, <3>2
  <2>3. old \in SUBSET There /\ old # There
    BY <1>2, <1>3, <2>1
  <2>4. /\ Cardinality(old) \in Nat /\ Cardinality(There) \in Nat
        /\ Cardinality(old) <= Cardinality(There)
        /\ Cardinality(old) # Cardinality(There)
    BY <2>3, ThereFinite, FS_Subset
  <2>5. Cardinality(There) = device_count
    BY DEF PciInv, OneEntryPerFunction
  <2> HIDE DEF old
  <2>6. Cardinality(old) \in 0 .. device_count - 1
    BY <2>4, <2>5
  <2> QED
    BY <1>5, <2>1, <2>2, <2>6 DEF old
<1> QED
  BY <1>4, <1>5

LEMMA FoundCounts ==
  ASSUME PciInv, Found
  PROVE  device_count' = Cardinality(There')
<1>1. IsFiniteSet(There) /\ There' = There \cup {Current} /\ Current \notin There
  BY FoundWrites, AdvanceKeeps, ThereFinite
<1>2. Cardinality(There') = Cardinality(There) + 1
  BY <1>1, FS_AddElement
<1> QED
  BY <1>2, FoundWrites DEF PciInv, OneEntryPerFunction

LEMMA FoundEntries ==
  ASSUME PciInv, Found
  PROVE  OneEntryPerFunction'
<1> USE FoundWrites
<1>1. SUFFICES ASSUME TableSuffices', ~ Collide', NEW fn \in There'
               PROVE  mem'[devices + Cardinality({g \in There' : Rank(g) < Rank(fn)})]
                        = Pointer(given[fn[1]])
  BY FoundCounts DEF OneEntryPerFunction, Rank
<1>2. /\ device_count \in Nat /\ device_count = Cardinality(There)
      /\ devices \in {NULL} \cup Blocks /\ pcidevice \in {NULL} \cup Blocks
      /\ devices = pcidevice => devices = NULL
  BY DEF PciInv, LoopType, Granted, OneEntryPerFunction
<1>3. devices = NULL \/ device_count + 1 <= TableCells
  BY <1>1 DEF TableSuffices
<1>4. ~ (devices = NULL /\ pcidevice = NULL)
  BY <1>1 DEF Collide
<1>5. CASE fn = Current
  <2>1. {g \in There' : Rank(g) < Rank(fn)} = There
    BY <1>5, Places
  <2>2. fn[1] = bus
    BY <1>5 DEF Current
  <2> QED
    BY <1>2, <2>1, <2>2 DEF Entry
<1>6. CASE fn # Current
  <2> DEFINE before == {g \in There : Rank(g) < Rank(fn)}
  <2>1. /\ {g \in There' : Rank(g) < Rank(fn)} = before
        /\ fn \in There /\ Cardinality(before) \in 0 .. device_count - 1
    BY <1>6, Places
  <2>2. mem[devices + Cardinality(before)] = Pointer(given[fn[1]])
    <3>1. TableSuffices /\ ~ Collide
      BY <1>1, <1>2, Memory DEF TableSuffices, Collide
    <3> QED
      BY <2>1, <3>1 DEF PciInv, OneEntryPerFunction
  <2> HIDE DEF before
  <2> PICK k \in 0 .. device_count - 1 : k = Cardinality(before)
    BY <2>1
  <2>3. devices + k \in Cell /\ devices + k # Entry
    <3>1. devices \in Nat /\ devices + Total <= MemCells
      BY <1>2, Memory DEF NULL
    <3>2. device_count < Total /\ Total \in Nat /\ MemCells \in Nat
      BY Memory
    <3> QED
      BY <1>2, <3>1, <3>2 DEF Entry, Cell
  <2>4. devices + k # pcidevice /\ devices + k # pcidevice + 1
    BY <1>2, <1>3, <1>4, Memory DEF NULL
  <2> QED
    BY <2>1, <2>2, <2>3, <2>4
<1> QED
  BY <1>5, <1>6

LEMMA FoundLast ==
  ASSUME PciInv, Found
  PROVE  LastOnBus'
<1> USE FoundWrites
<1>1. SUFFICES ASSUME TableSuffices', NEW fn \in There', given[fn[1]] # NULL,
                      \A g \in There' : g[1] = fn[1] => Rank(g) <= Rank(fn)
               PROVE  mem'[given[fn[1]]] = Numbers(fn)
  BY DEF LastOnBus, Rank, Numbers
<1>2. /\ device_count \in Nat
      /\ devices \in {NULL} \cup Blocks /\ pcidevice \in {NULL} \cup Blocks
      /\ \A b \in Bus : b # bus /\ given[b] \in Blocks => given[b] # pcidevice
      /\ devices # NULL => \A b \in Bus : given[b] # devices
  <2> \A q \in Blocks : q # NULL /\ q # MemCells
    BY Memory DEF NULL
  <2> QED
    BY DEF PciInv, LoopType, Granted
<1>3. devices = NULL \/ device_count + 1 <= TableCells
  BY <1>1 DEF TableSuffices
<1>4. /\ There \subseteq Function /\ Current \in Function /\ Current[1] = bus
      /\ \A g \in There : g[1] <= bus /\ Rank(g) < Rank(Current)
      /\ \A g \in Function : Rank(g) \in Nat
  <2>1. Total \in Nat
    BY Memory
  <2>2. /\ There \subseteq Function /\ Current \in Function /\ Current[1] = bus
        /\ \A g \in There : Rank(g) < Rank(Current)
    BY AdvanceKeeps, ThereFinite DEF Current
  <2>3. \A g \in There : Before(g, Current)
    BY <2>2, RankOrder
  <2> QED
    BY <2>1, <2>2, <2>3, RankOrder, Digits, Sizes DEF Before
<1> DEFINE t == given[fn[1]]
<1>5. fn[1] \in Bus /\ t \in Blocks
  <2>1. fn \in Function /\ fn[1] \in Bus
    BY <1>4, BusIsOne DEF PciInv
  <2>2. Begun(fn[1])
    <3> bus \in Nat /\ fn[1] \in Nat
      BY <2>1 DEF Bus
    <3> fn[1] <= bus
      BY <1>4
    <3> QED
      BY DEF Begun
  <2> QED
    BY <1>1, <2>1, <2>2 DEF PciInv, Granted
<1>6. t \in Cell /\ t # Entry
  <2>1. t # devices /\ t \in Nat
    BY <1>2, <1>5, Memory DEF NULL
  <2> HIDE DEF t
  <2> QED
    BY <1>2, <1>3, <1>5, <2>1, Memory DEF Entry, Cell, NULL
<1>7. CASE fn = Current
  <2> t = pcidevice /\ t # pcidevice + 1
    BY <1>4, <1>7
  <2> QED
    BY <1>6, <1>7
<1>8. CASE fn # Current
  <2>1. fn \in There /\ Current \in There'
    BY <1>8
  <2>2. fn[1] # bus
    BY <1>1, <1>4, <2>1
  <2>3. mem[t] = Numbers(fn)
    <3>1. TableSuffices
      BY <1>2, <1>3, Memory DEF TableSuffices
    <3> QED
      BY <1>1, <2>1, <3>1 DEF PciInv, LastOnBus
  <2>4. t # pcidevice
    BY <1>2, <1>5, <2>2
  <2>5. device_count >= 1
    <3>1. device_count = Cardinality(There) /\ IsFiniteSet(There)
      BY ThereFinite DEF PciInv, OneEntryPerFunction
    <3>2. device_count # 0
      BY <2>1, <3>1, FS_EmptySet
    <3> QED
      BY <1>2, <3>2
  <2> HIDE DEF t
  <2>6. t # pcidevice + 1
    BY <1>2, <1>5, <2>4, <2>5, Memory DEF NULL
  <2> QED
    BY <1>6, <2>3, <2>4, <2>6 DEF t
<1> QED
  BY <1>7, <1>8

LEMMA FoundInv ==
  ASSUME PciInv, Found
  PROVE  PciInv'
<1> USE FoundWrites
<1>1. LoopType' /\ Granted' /\ Beginning'
  BY AdvanceKeeps DEF PciInv, LoopType
<1>2. Written'
  <2> SUFFICES ASSUME NEW c \in Cell, mem'[c] # Firmware
               PROVE  \/ c \in devices .. devices + device_count' - 1
                      \/ \E b \in Bus : c \in {given[b], given[b] + 1}
    BY DEF Written
  <2>1. devices \in Nat /\ device_count \in Nat
    BY Memory DEF PciInv, LoopType, Granted, NULL
  <2>2. CASE c = Entry
    BY <2>1, <2>2 DEF Entry
  <2>3. CASE c \in {pcidevice, pcidevice + 1}
    BY <2>3
  <2>4. CASE c # Entry /\ c \notin {pcidevice, pcidevice + 1}
    <3>1. mem[c] # Firmware
      BY <2>4
    <3> QED
      BY <2>1, <3>1 DEF PciInv, Written
  <2> QED
    BY <2>2, <2>3, <2>4
<1> QED
  BY <1>1, <1>2, FoundEntries, FoundLast DEF PciInv

-----------------------------------------------------------------------------
LEMMA NextPciInv == PciInv /\ [Next]_vars => PciInv'
<1> SUFFICES ASSUME PciInv, [Next]_vars PROVE PciInv'
  OBVIOUS
<1>1. CASE \E p \in Malloc : TableAllocated(p)
  BY <1>1, TableAllocatedInv
<1>2. CASE \E p \in Malloc : DeviceAllocated(p)
  BY <1>2, DeviceAllocatedInv
<1>3. CASE Skip
  BY <1>3, SkipInv
<1>4. CASE Found
  BY <1>4, FoundInv
<1>5. CASE UNCHANGED vars
  <2> USE <1>5 DEF vars, loopvars
  <2>1. There' = There
    BY DEF There, Rank
  <2>2. LoopType' /\ Granted' /\ Beginning' /\ Written'
    BY DEF PciInv, LoopType, Granted, Beginning, Written, Begun, Current
  <2>3. OneEntryPerFunction'
    BY <2>1 DEF PciInv, OneEntryPerFunction, TableSuffices, Collide, Rank
  <2>4. LastOnBus'
    BY <2>1 DEF PciInv, LastOnBus, TableSuffices, Rank
  <2> QED
    BY <2>2, <2>3, <2>4 DEF PciInv
<1> QED
  BY <1>1, <1>2, <1>3, <1>4, <1>5 DEF Next, Enumerate

(* The inductive invariant holds throughout the enumeration: whom malloc   *)
(* gave what, which cells were written, and what the table holds.          *)
THEOREM PciInvariant == Spec => []PciInv
BY InitPciInv, NextPciInv, PTL DEF Spec

(* Every variable of initialize_pci_devices stays in its type, the loop    *)
(* variables within their bounds, and the counter within the number of     *)
(* functions there can be.                                                 *)
THEOREM PciTypeOK == Spec => []TypeOK
<1>1. PciInv => TypeOK
  <2> SUFFICES ASSUME PciInv PROVE TypeOK
    OBVIOUS
  <2>1. device_count \in 0 .. Buses * Slots * Functions
    <3>1. device_count = Cardinality(There)
      BY DEF PciInv, OneEntryPerFunction
    <3> QED
      BY <3>1, ThereFinite, Memory DEF PciInv, LoopType, Total
  <2>2. devices \in Cell /\ pcidevice \in Cell
    BY Memory DEF PciInv, Granted, Cell, NULL
  <2>3. given \in [Bus -> 0 .. MemCells]
    BY Memory DEF PciInv, Granted, NULL
  <2> QED
    BY <2>1, <2>2, <2>3 DEF PciInv, LoopType, TypeOK, Current
<1> QED
  BY <1>1, PciInvariant, PTL

(* Every function that is there has one entry, in the order of the loops,  *)
(* that points to the pci_device of its bus, whichever calls of malloc     *)
(* failed, unless the table and a pci_device are both at address 0 or the  *)
(* table that register_pci_device never tests for room is too small.       *)
THEOREM PciOneEntryPerFunction == Spec => []OneEntryPerFunction
<1>1. PciInv => OneEntryPerFunction
  BY DEF PciInv
<1> QED
  BY <1>1, PciInvariant, PTL

(* The one pci_device initialize_pci_devices asks for per bus ends up with *)
(* the numbers of the last function found on that bus.                     *)
THEOREM PciLastOnBus == Spec => []LastOnBus
<1>1. PciInv => LastOnBus
  BY DEF PciInv
<1> QED
  BY <1>1, PciInvariant, PTL

(* With all memory granted and a table large enough, nothing outside the   *)
(* blocks malloc gave is written.                                          *)
THEOREM PciNoStrayWrite == Spec => []NoStrayWrite
<1>1. PciInv => NoStrayWrite
  BY DEF PciInv, Written, NoStrayWrite
<1> QED
  BY <1>1, PciInvariant, PTL

=============================================================================
