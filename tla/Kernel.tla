------------------------------- MODULE Kernel -------------------------------
(***************************************************************************)
(* kernel_start (kernel/kernel.c) as a whole: the terminal is set up, then *)
(* initialize_drivers enumerates PCI, which allocates memory, and probes   *)
(* the ATA drives, and the kernel loop follows.  Heap and Pci are composed *)
(* with AtaProbe, whose variables keep their names here; the two drivers   *)
(* share memory and the terminal's row.                                    *)
(*                                                                         *)
(* A call of malloc runs all its steps while the caller waits; the heap's  *)
(* headers are where the heap's own module has them, all other memory is   *)
(* mem, in cells of 4 bytes.                                               *)
(***************************************************************************)
EXTENDS AtaProbe

CONSTANTS
  AddrUnits, StackTop, StackBottom, Freelist, BLOCK, BreakBound,   \* see Heap
  Buses, Slots, Functions, Kinds, TableCells,                      \* see Pci
  HEIGHT     \* rows of the terminal: 40 (vga.h)

VARIABLES
  g_heap, freep, link, size, heap_pc, cur, nbytes, bp, free, live,
  kind, pci_pc, pci_bus, pci_slot, function, devices, device_count, pcidevice, given,
  stage      \* "start", in "pci" or in "ata", where the kernel loop is too

heapvars == <<g_heap, freep, link, size, heap_pc, cur, nbytes, bp, free, live>>
pcivars == <<kind, pci_pc, pci_bus, pci_slot, function, devices, device_count, pcidevice, given>>
atavars == <<pc, bus, slot, word, drive_count, main, polls>>
vars == <<heapvars, pcivars, chanvars, atavars, mem, terminal_row, stage>>

PointerBytes == 4              \* sizeof a pointer, and of an int
PciDeviceBytes == 8            \* sizeof(pci_device)
Requests == {TableCells * PointerBytes, PciDeviceBytes}

H == INSTANCE Heap WITH pc <- heap_pc
P == INSTANCE Pci WITH pc <- pci_pc, bus <- pci_bus, slot <- pci_slot, Blocks <- {}

(* What the parts assume of the constants, together. *)
ASSUME KernelAssumption ==
  /\ H!LayoutAssumption /\ H!RequestsAssumption
  /\ P!PciAssumption
  /\ MemCells = 2 * AddrUnits      \* a unit of the heap is 8 bytes
  /\ HEIGHT \in Nat

Init == H!Init /\ P!Init /\ ProbeInit /\ stage = "start"

(* kernel_start up to the first driver: a clear terminal, two messages. *)
KernelStart ==
  /\ stage = "start"
  /\ stage' = "pci"
  /\ terminal_row' = 2
  /\ UNCHANGED <<heapvars, pcivars, chanvars, atavars, mem>>

(* initialize_pci_devices calls malloc, for the table and for every bus. *)
PciMalloc ==
  /\ stage = "pci"
  /\ \/ pci_pc = "table" /\ H!MallocCall(TableCells * PointerBytes)
     \/ pci_pc = "bus" /\ H!MallocCall(PciDeviceBytes)
  /\ UNCHANGED <<pcivars, chanvars, atavars, mem, terminal_row, stage>>

(* The cell behind the header of block b. *)
CellOf(b) == 2 * (b + 1)

(* What malloc has returned: 0 if no block has changed hands. *)
Returned == IF live' = live THEN P!NULL ELSE CellOf(CHOOSE b \in live' \ live : TRUE)

(* malloc takes a step; when it returns, its caller goes on. *)
HeapStep ==
  /\ H!Malloc
  /\ IF heap_pc' = "idle"
     THEN P!TableAllocated(Returned) \/ P!DeviceAllocated(Returned)
     ELSE UNCHANGED <<pcivars, mem>>
  /\ UNCHANGED <<chanvars, atavars, terminal_row, stage>>

(* The enumeration goes on; after the last function the ATA driver starts. *)
PciStep ==
  /\ P!Enumerate
  /\ stage' = IF pci_pc' = "done" THEN "ata" ELSE stage
  /\ UNCHANGED <<heapvars, chanvars, atavars, terminal_row>>

AtaStep ==
  /\ stage = "ata"
  /\ Driver
  /\ UNCHANGED <<heapvars, pcivars, stage>>

DriveStep(d) == Device(d) /\ UNCHANGED <<heapvars, pcivars, stage>>

KernelThread == KernelStart \/ PciMalloc \/ HeapStep \/ PciStep \/ AtaStep

Next == KernelThread \/ \E d \in Drive : DriveStep(d)

(* The kernel's only thread keeps running, and a busy drive comes to an    *)
(* end.                                                                    *)
Spec == Init /\ [][Next]_vars /\ WF_vars(KernelThread) /\ \A d \in Drive : WF_vars(DriveStep(d))

-----------------------------------------------------------------------------
(* Every malloc of the boot fails: in the layout of boot.asm the heap ends *)
(* before it begins.                                                       *)
NothingHandedOut == H!NothingHandedOut /\ devices = P!NULL /\ pcidevice = P!NULL

(* A drive that was identified: it has handed over all its words. *)
Identified == {d \in attached : pc = "main" /\ st[d] = {}}

(* ata.c line 239: "Return the first drive"; ata.h line 118: "Get the main *)
(* drive (at 0)".  If a drive was identified, what get_main_drive returns  *)
(* to the kernel loop is one that add_drive has put into the list.         *)
MainDriveIsADrive == main # None /\ Identified # {} => main = DrivePointer

(* The messages of the boot fit on the screen, if the drives together are  *)
(* looked at HEIGHT - 15 times at most before they answer: two lines from  *)
(* the kernel, three from every drive, one from every look.                *)
BootOnScreen == polls <= HEIGHT - 15 => terminal_row < HEIGHT

(* The kernel reaches its loop: malloc, the enumeration and the probe of   *)
(* the four drives come to an end, unless a drive fails.  One that fails   *)
(* its IDENTIFY late is polled for ever.  The break, which every malloc    *)
(* moves, does not reach its bound on the way.                             *)
KernelLoopReached ==
  [](\A d \in Drive : st[d] \cap {"ERR", "DF"} = {}) => <>(pc = "main")

=============================================================================
