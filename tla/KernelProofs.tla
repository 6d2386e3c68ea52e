---------------------------- MODULE KernelProofs ----------------------------
(***************************************************************************)
(* What the boot can rely on, for every size of memory, of the PCI bus and *)
(* of the screen: in the layout boot.asm gives the heap no malloc succeeds *)
(* and both drivers work at address 0; and the messages of the boot fit on *)
(* the screen as long as the drives answer in time.                        *)
(***************************************************************************)
EXTENDS Kernel, AtaProbeProofs

(* What is proved of the enumeration alone. *)
PP == INSTANCE PciProofs WITH pc <- pci_pc, bus <- pci_bus, slot <- pci_slot, Blocks <- {}

(* boot.asm puts stack_bottom below stack_top; and the break stays within  *)
(* the address space.                                                      *)
BootLayout == StackBottom <= StackTop /\ BreakBound < AddrUnits

-----------------------------------------------------------------------------
(* malloc during the boot: the list holds freelist alone, a search passes  *)
(* over it once, and sbrk has nothing to give.                             *)
BootHeap ==
  /\ live = {} /\ free = {Freelist}
  /\ freep = Freelist /\ link[Freelist] = Freelist /\ size[Freelist] = 0
  /\ H!Break \in Nat /\ StackTop <= H!Break
  /\ nbytes \in Nat
  /\ heap_pc \in {"idle", "search", "grow"}
  /\ heap_pc = "search" => cur = Freelist
  /\ heap_pc # "idle" => H!Break + H!Growth <= BreakBound

BootPointers == devices = P!NULL /\ pcidevice = P!NULL

LEMMA Layout ==
  /\ AddrUnits \in Nat /\ StackTop \in Nat /\ StackBottom \in Nat /\ BreakBound \in Nat
  /\ Freelist \in 1 .. StackTop - 1 /\ Freelist \in H!Addr
  /\ BLOCK \in Nat \ {0}
  /\ TableCells * PointerBytes \in Nat /\ PciDeviceBytes \in Nat
BY KernelAssumption DEF H!LayoutAssumption, H!Addr, P!PciAssumption, PointerBytes, PciDeviceBytes

(* A request is at least a unit, and a growth at least that. *)
LEMMA UnitsOf ==
  ASSUME NEW n \in Nat
  PROVE  H!Units(n) \in Nat \ {0}
BY DEF H!Units, H!HeaderSize

LEMMA GrowthOf ==
  ASSUME nbytes \in Nat
  PROVE  H!Growth \in Nat \ {0} /\ (H!Growth = H!Units(nbytes) \/ H!Growth = BLOCK)
BY UnitsOf, Layout DEF H!Growth

LEMMA InitBootHeap == Init => BootHeap /\ BootPointers
BY Layout DEF Init, H!Init, P!Init, BootHeap, BootPointers, H!Break, H!NULL

(* A call enters the search with room below the bound. *)
LEMMA CallBootHeap ==
  ASSUME BootHeap, NEW n \in Nat, H!MallocCall(n)
  PROVE  BootHeap'
<1>1. /\ heap_pc' = "search" /\ cur' = Freelist /\ nbytes' = n
      /\ UNCHANGED <<g_heap, freep, link, size, bp, free, live>>
  BY DEF H!MallocCall, H!listvars, BootHeap
<1>2. H!Break' = H!Break
  BY <1>1 DEF H!Break
<1>3. H!Growth' = H!Units(n) \/ H!Growth' = BLOCK
  BY <1>1 DEF H!Growth, H!Units
<1>4. H!Break + H!Units(n) <= BreakBound /\ H!Break + BLOCK <= BreakBound
  BY DEF H!MallocCall
<1> QED
  BY <1>1, <1>2, <1>3, <1>4 DEF BootHeap

(* Every step of malloc passes over freelist or fails: no block is handed  *)
(* out, whatever was asked for.                                            *)
LEMMA MallocBootHeap ==
  ASSUME BootLayout, BootHeap, H!Malloc
  PROVE  BootHeap' /\ live' = live
<1>1. H!Units(nbytes) \in Nat \ {0} /\ H!Growth \in Nat \ {0}
  BY UnitsOf, GrowthOf DEF BootHeap
<1>2. CASE H!MallocSplit
  BY <1>1, <1>2 DEF H!MallocSplit, BootHeap
<1>3. CASE H!MallocExact
  BY <1>1, <1>3 DEF H!MallocExact, BootHeap
<1>4. CASE H!MallocPass
  <2>1. /\ heap_pc = "search" /\ heap_pc' = "grow"
        /\ UNCHANGED <<g_heap, freep, link, size, nbytes, bp, free, live>>
    BY <1>4 DEF H!MallocPass, H!listvars, BootHeap
  <2>2. H!Break' = H!Break /\ H!Growth' = H!Growth
    BY <2>1 DEF H!Break, H!Growth, H!Units
  <2> QED
    BY <2>1, <2>2 DEF BootHeap
<1>5. heap_pc = "grow" => H!Plus(H!Break, H!Growth) = H!Break + H!Growth
                          /\ H!SbrkRefused(H!Growth)
  BY <1>1, Layout DEF BootLayout, BootHeap, H!Plus, H!SbrkRefused
<1>6. CASE H!MallocGrow
  BY <1>5, <1>6 DEF H!MallocGrow
<1>7. CASE H!MallocFail
  <2>1. /\ heap_pc = "grow" /\ heap_pc' = "idle" /\ nbytes' = 0
        /\ g_heap' = H!Break + H!Growth
        /\ UNCHANGED <<freep, link, size, free, live>>
    BY <1>5, <1>7 DEF H!MallocFail, H!Sbrk, H!Return, H!listvars
  <2>2. H!Break' = H!Break + H!Growth
    BY <1>1, <2>1 DEF H!Break, H!NULL, BootHeap
  <2> QED
    BY <1>1, <2>1, <2>2, Layout DEF BootHeap
<1> QED
  BY <1>2, <1>3, <1>4, <1>6, <1>7 DEF H!Malloc

LEMMA NextBootHeap ==
  ASSUME BootLayout, BootHeap, BootPointers, [Next]_vars
  PROVE  BootHeap' /\ BootPointers'
<1>1. ASSUME UNCHANGED heapvars PROVE BootHeap'
  BY <1>1 DEF heapvars, BootHeap, H!Break, H!Growth, H!Units
<1>2. CASE KernelStart
  BY <1>1, <1>2 DEF KernelStart, BootPointers, pcivars
<1>3. CASE PciMalloc
  <2>1. PICK n \in Nat : H!MallocCall(n)
    BY <1>3, Layout DEF PciMalloc
  <2> QED
    BY <1>3, <2>1, CallBootHeap DEF PciMalloc, BootPointers, pcivars
<1>4. CASE HeapStep
  <2>1. BootHeap' /\ live' = live
    BY <1>4, MallocBootHeap DEF HeapStep
  <2>2. Returned = P!NULL
    BY <2>1 DEF Returned
  <2>3. BootPointers'
    <3>1. CASE P!TableAllocated(Returned)
      BY <2>2, <3>1 DEF P!TableAllocated, BootPointers
    <3>2. CASE P!DeviceAllocated(Returned)
      BY <2>2, <3>2 DEF P!DeviceAllocated, P!BusDevice, BootPointers
    <3>3. CASE UNCHANGED <<pcivars, mem>>
      BY <3>3 DEF BootPointers, pcivars
    <3> QED
      BY <1>4, <3>1, <3>2, <3>3 DEF HeapStep
  <2> QED
    BY <2>1, <2>3
<1>5. CASE PciStep
  BY <1>1, <1>5 DEF PciStep, P!Enumerate, P!Skip, P!Found, BootPointers
<1>6. CASE AtaStep
  BY <1>1, <1>6 DEF AtaStep, BootPointers, pcivars
<1>7. CASE \E d \in Drive : DriveStep(d)
  BY <1>1, <1>7 DEF DriveStep, BootPointers, pcivars
<1>8. CASE UNCHANGED vars
  BY <1>1, <1>8 DEF vars, BootPointers, pcivars
<1> QED
  BY <1>2, <1>3, <1>4, <1>5, <1>6, <1>7, <1>8 DEF Next, KernelThread

(* In the layout of boot.asm every malloc of the boot fails, and both the  *)
(* table and every pci_device of initialize_pci_devices are at address 0.  *)
THEOREM KernelNothingHandedOut ==
  ASSUME BootLayout
  PROVE  Spec => []NothingHandedOut
<1>1. BootHeap /\ BootPointers /\ [Next]_vars => (BootHeap /\ BootPointers)'
  BY NextBootHeap
<1>2. BootHeap /\ BootPointers => NothingHandedOut
  BY DEF BootHeap, BootPointers, NothingHandedOut, H!NothingHandedOut
<1> QED
  BY <1>1, <1>2, InitBootHeap, PTL DEF Spec

-----------------------------------------------------------------------------
(* How many lines there may be: the two of kernel_start, three for every   *)
(* drive that was probed, those of the drive being probed, and one for     *)
(* every look at a status without DRQ.                                     *)
Probes == IF pc = "main" THEN 4 ELSE 2 * bus + slot

LinesOfProbe ==
  CASE pc \in {"busy", "drq"} -> 1
    [] pc = "data" -> 3
    [] OTHER -> 0

Screen ==
  /\ pc \in {"probe", "status", "busy", "drq", "data", "main"}
  /\ bus \in {0, 1} /\ slot \in {0, 1}
  /\ stage = "start" => pc = "probe" /\ terminal_row = 0
  /\ polls \in Nat /\ terminal_row \in Nat
  /\ terminal_row <= 2 + 3 * Probes + LinesOfProbe + polls

LEMMA ProbeReturns ==
  ASSUME Screen, pc # "main", NEW found, NEW m, IdentifyReturn(found, m)
  PROVE  /\ bus' \in {0, 1} /\ slot' \in {0, 1} /\ pc' \in {"probe", "main"}
         /\ Probes' = Probes + 1 /\ LinesOfProbe' = 0
<1>1. /\ bus \in {0, 1} /\ slot \in {0, 1}
      /\ slot' = 1 - slot /\ bus' = IF slot = 1 THEN 1 - bus ELSE bus
      /\ pc' = IF bus = 1 /\ slot = 1 THEN "main" ELSE "probe"
  BY DEF IdentifyReturn, NextBus, Screen
<1> QED
  BY <1>1 DEF Probes, LinesOfProbe

LEMMA AtaScreen ==
  ASSUME Screen, stage # "start", Driver, UNCHANGED stage
  PROVE  Screen'
<1> USE DEF Screen
<1>0. Probes \in Nat /\ LinesOfProbe \in Nat
  BY DEF Probes, LinesOfProbe
<1>1. CASE IdentifyCommand
  BY <1>1 DEF IdentifyCommand, loopvars, Probes, LinesOfProbe
<1>2. CASE NoDrive
  <2>1. IdentifyReturn(FALSE, mem) /\ pc = "status" /\ polls' = polls /\ LinesOfProbe = 0
    BY <1>2 DEF NoDrive, LinesOfProbe
  <2>2. terminal_row' \in Nat /\ terminal_row' <= terminal_row + 1
    BY <1>2 DEF NoDrive, Lines
  <2>3. /\ bus' \in {0, 1} /\ slot' \in {0, 1} /\ pc' \in {"probe", "main"}
        /\ Probes' = Probes + 1 /\ LinesOfProbe' = 0
    BY <2>1, ProbeReturns
  <2> QED
    BY <1>0, <2>1, <2>2, <2>3
<1>3. CASE SomeDrive
  BY <1>3 DEF SomeDrive, Lines, loopvars, Probes, LinesOfProbe
<1>4. CASE WaitBusy
  BY <1>4 DEF WaitBusy, loopvars, Probes, LinesOfProbe
<1>5. CASE PollDrq
  BY <1>5 DEF PollDrq, Lines, loopvars, Probes, LinesOfProbe
<1>6. CASE WaitDrq
  BY <1>6 DEF WaitDrq, Lines, loopvars, Probes, LinesOfProbe
<1>7. CASE IdentifyWord
  <2>1. pc = "data" /\ LinesOfProbe = 3 /\ UNCHANGED <<terminal_row, polls>>
    BY <1>7 DEF IdentifyWord, LinesOfProbe
  <2>2. CASE LastWord
    <3>1. PICK m : IdentifyReturn(TRUE, m)
      BY <1>7, <2>2 DEF IdentifyWord
    <3>2. /\ bus' \in {0, 1} /\ slot' \in {0, 1} /\ pc' \in {"probe", "main"}
          /\ Probes' = Probes + 1 /\ LinesOfProbe' = 0
      BY <2>1, <3>1, ProbeReturns
    <3> QED
      BY <1>0, <2>1, <3>2
  <2>3. CASE ~ LastWord
    BY <1>7, <2>1, <2>3 DEF IdentifyWord, Probes, LinesOfProbe
  <2> QED
    BY <2>2, <2>3
<1>8. CASE GetMainDrive
  BY <1>8 DEF GetMainDrive, loopvars, Probes, LinesOfProbe
<1> QED
  BY <1>1, <1>2, <1>3, <1>4, <1>5, <1>6, <1>7, <1>8 DEF Driver

LEMMA NextScreen ==
  ASSUME Screen, [Next]_vars
  PROVE  Screen'
<1>1. ASSUME UNCHANGED <<atavars, terminal_row>>, stage' # "start" \/ stage' = stage
      PROVE  Screen'
  BY <1>1 DEF atavars, Screen, Probes, LinesOfProbe
<1>2. CASE KernelStart
  <2>1. pc = "probe" /\ terminal_row' = 2 /\ stage' = "pci" /\ UNCHANGED atavars
    BY <1>2 DEF KernelStart, Screen
  <2> QED
    BY <2>1 DEF atavars, Screen, Probes, LinesOfProbe
<1>3. CASE PciMalloc
  BY <1>1, <1>3 DEF PciMalloc
<1>4. CASE HeapStep
  BY <1>1, <1>4 DEF HeapStep
<1>5. CASE PciStep
  BY <1>1, <1>5 DEF PciStep
<1>6. CASE AtaStep
  BY <1>6, AtaScreen DEF AtaStep
<1>7. CASE \E d \in Drive : DriveStep(d)
  BY <1>1, <1>7 DEF DriveStep, Device, loopvars, atavars
<1>8. CASE UNCHANGED vars
  BY <1>1, <1>8 DEF vars
<1> QED
  BY <1>2, <1>3, <1>4, <1>5, <1>6, <1>7, <1>8 DEF Next, KernelThread

(* The messages of the boot fit on the screen, of any height, if the       *)
(* drives together are looked at no more than HEIGHT - 15 times before     *)
(* they answer: nobody tests the row before putch writes to it.            *)
THEOREM KernelBootOnScreen == Spec => []BootOnScreen
<1>1. Init => Screen
  BY DEF Init, ProbeInit, Screen, Probes, LinesOfProbe
<1>2. Screen /\ [Next]_vars => Screen'
  BY NextScreen
<1>3. Screen => BootOnScreen
  <2> SUFFICES ASSUME Screen, polls <= HEIGHT - 15 PROVE terminal_row < HEIGHT
    BY DEF BootOnScreen
  <2>1. Probes \in 0 .. 4 /\ LinesOfProbe \in 0 .. 3 /\ (Probes = 4 => LinesOfProbe = 0)
    BY DEF Screen, Probes, LinesOfProbe
  <2>2. HEIGHT \in Nat
    BY KernelAssumption
  <2> QED
    BY <2>1, <2>2 DEF Screen
<1> QED
  BY <1>1, <1>2, <1>3, PTL DEF Spec

-----------------------------------------------------------------------------
(* What the kernel takes for its main drive: which of the two drivers that *)
(* work at address 0 has written there last.                               *)

(* The functions found, in the end. *)
FoundAll == {fn \in P!Function : kind[fn] = "there"}

(* No drive was ever added, so what the kernel loop gets in place of its   *)
(* main drive is what the drivers left at address 0: the last word of an   *)
(* identification, if any drive answered.  Without one it is PCI's: the    *)
(* first function found is overwritten with its own entry, a null pointer; *)
(* with two or more it is the numbers of the last one.                     *)
MainDriveIsStale ==
  main # None =>
    main = IF Identified # {} THEN Identification
           ELSE IF FoundAll = {} THEN Firmware
           ELSE IF Cardinality(FoundAll) = 1 THEN P!Pointer(P!NULL)
           ELSE P!Numbers(CHOOSE x \in FoundAll : \A y \in FoundAll : P!Rank(y) <= P!Rank(x))

(* The functions the enumeration has passed and found. *)
FoundSoFar == {fn \in PP!Function : kind[fn] = "there" /\ PP!Passed(fn)}

LastOf(S) == CHOOSE x \in S : \A y \in S : PP!Rank(y) <= PP!Rank(x)

(* What the enumeration leaves at address 0 when it has found S. *)
AtZero(S) ==
  IF S = {} THEN PP!Firmware
  ELSE IF Cardinality(S) = 1 THEN PP!Pointer(0)
  ELSE PP!Numbers(LastOf(S))

Enumerating ==
  /\ kind \in [PP!Function -> Kinds]
  /\ pci_pc \in {"table", "bus", "function", "done"}
  /\ PP!Current \in PP!Function
  /\ DOMAIN mem = PP!Cell
  /\ pci_pc # "done" => device_count = Cardinality(FoundSoFar) /\ mem[0] = AtZero(FoundSoFar)

(* One driver after the other. *)
Stages ==
  /\ stage \in {"start", "pci", "ata"}
  /\ stage = "start" => pci_pc = "table" /\ heap_pc = "idle"
  /\ stage = "ata" <=> pci_pc = "done"
  /\ stage # "ata" => pc = "probe" /\ bus = 0 /\ slot = 0 /\ main = None

(* The drives that have been probed, and those of them that answered. *)
ProbedBefore(d) == pc = "main" \/ d[1] < bus \/ (d[1] = bus /\ d[2] < slot)
Answered == {d \in attached : ProbedBefore(d) /\ st[d] = {}}

Overwriting ==
  stage = "ata" =>
    mem[0] = IF Answered # {} \/ (pc = "data" /\ word > 0)
             THEN Identification ELSE AtZero(FoundSoFar)

Stale ==
  main # None =>
    pc = "main" /\ main = IF Answered # {} THEN Identification ELSE AtZero(FoundSoFar)

BootInv == Enumerating /\ Stages /\ Overwriting /\ Stale /\ ProbeInv

(* What PCI assumes holds of the whole. *)
LEMMA Instances == PP!PciAssumption
BY KernelAssumption DEF P!PciAssumption, PP!PciAssumption, P!AllKinds, PP!AllKinds

LEMMA SomeMemory == 0 \in PP!Cell
<1>1. MemCells \in Nat /\ PP!Total \in Nat /\ PP!Total + 1 <= MemCells
  BY Instances, PP!FunctionsCounted DEF PP!PciAssumption, PP!Total
<1> QED
  BY <1>1 DEF PP!Cell

LEMMA FoundFinite ==
  /\ FoundSoFar \subseteq PP!Function
  /\ IsFiniteSet(FoundSoFar) /\ Cardinality(FoundSoFar) \in Nat
<1>1. IsFiniteSet(PP!Function)
  BY Instances, PP!FunctionsCounted DEF PP!PciAssumption, PP!IsFiniteSet, IsFiniteSet
<1>2. FoundSoFar \subseteq PP!Function
  BY DEF FoundSoFar
<1> QED
  BY <1>1, <1>2, FS_Subset, FS_CardinalityType

(* The rank is an order. *)
LEMMA Ranks ==
  ASSUME NEW f \in PP!Function, NEW g \in PP!Function
  PROVE  /\ PP!Rank(f) \in Nat
         /\ PP!Rank(f) < PP!Rank(g) <=> PP!Before(f, g)
         /\ PP!Rank(f) = PP!Rank(g) <=> f = g
<1>1. PP!Rank(f) \in 0 .. PP!Total - 1
  BY Instances, PP!RankOrder DEF PP!PciAssumption
<1>2. /\ PP!Rank(f) < PP!Rank(g) <=> PP!Before(f, g)
      /\ PP!Rank(f) = PP!Rank(g) <=> f = g
  BY Instances, PP!RankOrder DEF PP!PciAssumption
<1> QED
  BY <1>1, <1>2

-----------------------------------------------------------------------------
(* The enumeration *)
LEMMA SkipKeeps ==
  ASSUME Enumerating, PP!Skip
  PROVE  /\ FoundSoFar' = FoundSoFar /\ PP!Current' \in PP!Function
         /\ pci_pc = "function" /\ pci_pc' \in {"bus", "function", "done"}
         /\ UNCHANGED <<kind, device_count, mem>>
<1>1. /\ pci_pc = "function" /\ PP!Advance /\ UNCHANGED <<kind, device_count, mem>>
      /\ PP!Current \in PP!Function /\ kind \in [PP!Function -> Kinds]
  BY DEF PP!Skip, Enumerating
<1>2. kind[PP!Current] # "there"
  BY <1>1, Instances, PP!AskedRight DEF PP!PciAssumption, PP!Skip
<1>3. /\ PP!Current' \in PP!Function /\ pci_pc' \in {"bus", "function", "done"}
      /\ \A fn \in PP!Function : PP!Passed(fn)' <=> PP!Passed(fn) \/ fn = PP!Current
  BY <1>1, Instances, PP!AdvancePasses DEF PP!PciAssumption
<1>4. FoundSoFar' = FoundSoFar
  BY <1>1, <1>2, <1>3 DEF FoundSoFar
<1> QED
  BY <1>1, <1>3, <1>4

(* A function is found: it is the last one, and its numbers are overwritten *)
(* with its entry if it is the first one too.                              *)
LEMMA FoundAdds ==
  ASSUME Enumerating, BootPointers, PP!Found
  PROVE  /\ device_count' = Cardinality(FoundSoFar') /\ mem'[0] = AtZero(FoundSoFar')
         /\ PP!Current' \in PP!Function /\ DOMAIN mem' = PP!Cell
         /\ pci_pc = "function" /\ pci_pc' \in {"bus", "function", "done"}
         /\ UNCHANGED kind
<1>1. /\ pci_pc = "function" /\ PP!Advance /\ UNCHANGED kind
      /\ PP!Current \in PP!Function /\ kind \in [PP!Function -> Kinds]
      /\ devices = 0 /\ pcidevice = 0
      /\ DOMAIN mem = PP!Cell /\ device_count = Cardinality(FoundSoFar)
  BY DEF PP!Found, Enumerating, BootPointers, P!NULL
<1>2. kind[PP!Current] = "there"
  BY <1>1, Instances, PP!AskedRight DEF PP!PciAssumption, PP!Found
<1>3. /\ PP!Current' \in PP!Function /\ pci_pc' \in {"bus", "function", "done"}
      /\ \A fn \in PP!Function : PP!Passed(fn)' <=> PP!Passed(fn) \/ fn = PP!Current
  BY <1>1, Instances, PP!AdvancePasses DEF PP!PciAssumption
<1>4. PICK here \in PP!Function : here = PP!Current
  BY <1>1
<1>5. PICK S : S = FoundSoFar
  OBVIOUS
<1>6. FoundSoFar' = S \cup {here}
  BY <1>1, <1>2, <1>3, <1>4, <1>5 DEF FoundSoFar
<1>7. /\ S \subseteq PP!Function /\ IsFiniteSet(S) /\ Cardinality(S) \in Nat
      /\ \A fn \in S : PP!Rank(fn) < PP!Rank(here)
  <2>1. \A fn \in S : PP!Before(fn, here)
    BY <1>1, <1>4, <1>5 DEF FoundSoFar, PP!Passed
  <2> QED
    BY <1>4, <1>5, <2>1, FoundFinite, Ranks
<1>8. here \notin S
  BY <1>7, Ranks
<1>9. Cardinality(S \cup {here}) = Cardinality(S) + 1
  BY <1>7, <1>8, FS_AddElement
<1>10. PP!Answering(PP!ConfigAddress(pci_bus, pci_slot, function, 0)) = here
  <2>1. PP!Answering(PP!ConfigAddress(here[1], here[2], here[3], 0)) = here
    BY Instances, PP!AddressRoundTrip DEF PP!PciAssumption
  <2>2. here[1] = pci_bus /\ here[2] = pci_slot /\ here[3] = function
    BY <1>4 DEF PP!Current
  <2> QED
    BY <2>1, <2>2
<1>11. PICK c \in Nat : c = device_count
  BY <1>1, <1>5, <1>7
<1>12. PICK x : x = PP!Numbers(here)
  OBVIOUS
<1>13. /\ mem' = [[mem EXCEPT ![0] = x, ![0 + 1] = PP!Pointer(0)] EXCEPT ![0 + c] = PP!Pointer(0)]
       /\ device_count' = c + 1
  BY <1>1, <1>10, <1>11, <1>12 DEF PP!Found, PP!Register, PP!Fill, PP!Entry, PP!NULL
<1>14. DOMAIN mem' = PP!Cell
  BY <1>1, <1>13
<1>15. mem'[0] = IF c = 0 THEN PP!Pointer(0) ELSE x
  BY <1>1, <1>13, SomeMemory
<1>16. CASE c = 0
  <2>1. Cardinality(S \cup {here}) = 1
    BY <1>1, <1>5, <1>9, <1>11, <1>16
  <2> QED
    BY <1>1, <1>3, <1>6, <1>11, <1>13, <1>14, <1>15, <1>16, <2>1 DEF AtZero
<1>17. CASE c # 0
  <2>1. Cardinality(S \cup {here}) = c + 1 /\ c + 1 # 1
    BY <1>1, <1>5, <1>9, <1>11, <1>17
  <2>2. LastOf(S \cup {here}) = here
    <3>1. \A y \in S \cup {here} : PP!Rank(y) <= PP!Rank(here)
      BY <1>4, <1>7, Ranks
    <3>2. ASSUME NEW z \in S \cup {here}, \A y \in S \cup {here} : PP!Rank(y) <= PP!Rank(z)
          PROVE  z = here
      BY <1>4, <1>7, <3>2, Ranks
    <3> QED
      BY <3>1, <3>2 DEF LastOf
  <2> QED
    BY <1>1, <1>3, <1>6, <1>11, <1>12, <1>13, <1>14, <1>15, <1>17, <2>1, <2>2 DEF AtZero
<1> QED
  BY <1>16, <1>17

-----------------------------------------------------------------------------
(* The probe *)
(* Steps of the rest of the kernel leave the probe where it is. *)
LEMMA ProbeKept ==
  ASSUME ProbeInv, UNCHANGED <<chanvars, atavars>>, terminal_row' \in Nat
  PROVE  ProbeInv'
BY DEF chanvars, atavars, ProbeInv, ProbeTypes, ChanTypeOK, OthersQuiet, Probed,
       Identifying, IdentifyWhenReady, Ready, Selected

LEMMA ProbeSteps ==
  ASSUME QuietWhileBusy, ProbeInv, Driver \/ \E d \in Drive : Device(d)
  PROVE  ProbeInv'
<1>1. [ProbeNext]_probevars
  BY DEF ProbeNext
<1> QED
  BY <1>1, NextProbeInv

(* The drive that was probed is one of those probed before. *)
LEMMA ReturnProbed ==
  ASSUME ProbeInv, pc # "main", NEW found, NEW m, IdentifyReturn(found, m)
  PROVE  /\ \A d \in Drive : ProbedBefore(d)' <=> ProbedBefore(d) \/ d = Probed
         /\ mem' = m /\ pc' \in {"probe", "main"}
<1>1. /\ bus \in {0, 1} /\ slot \in {0, 1}
      /\ slot' = 1 - slot /\ bus' = IF slot = 1 THEN 1 - bus ELSE bus
      /\ pc' = IF bus = 1 /\ slot = 1 THEN "main" ELSE "probe"
      /\ mem' = m
  BY DEF IdentifyReturn, IdentifyResult, NextBus, ProbeInv, ProbeTypes, Bus, Slot
<1>2. ASSUME NEW d \in Drive PROVE ProbedBefore(d)' <=> ProbedBefore(d) \/ d = Probed
  <2>1. PICK a \in {0, 1}, b \in {0, 1} : d = <<a, b>>
    BY DEF Drive, Bus, Slot
  <2>2. d = Probed <=> a = bus /\ b = slot
    BY <2>1 DEF Probed
  <2> QED
    BY <1>1, <2>1, <2>2 DEF ProbedBefore
<1> QED
  BY <1>1, <1>2

(* A drive that is at work was not probed before. *)
LEMMA NotBefore ==
  ASSUME ProbeInv, pc # "main"
  PROVE  /\ ~ ProbedBefore(Probed) /\ Probed \in Drive
         /\ attached \subseteq Drive
<1>1. bus \in {0, 1} /\ slot \in {0, 1} /\ attached \subseteq MayAttach
  BY DEF ProbeInv, ProbeTypes, ChanTypeOK, Bus, Slot
<1> QED
  BY <1>1, ChannelAssumption DEF ProbedBefore, Probed, Drive, Bus, Slot

(* A drive answers, or works: those that have answered stay the same. *)
LEMMA DriveKeeps ==
  ASSUME ProbeInv, NEW d \in Drive, Device(d)
  PROVE  /\ Answered' = Answered
         /\ UNCHANGED <<mem, main, pc, bus, slot, word>>
<1>1. /\ UNCHANGED <<attached, mem, main, pc, bus, slot, word>>
      /\ "BSY" \in st[d] /\ \E v : st' = [st EXCEPT ![d] = v]
  BY DEF Device, Finish, loopvars
<1>2. d = Probed /\ pc # "main"
  BY <1>1 DEF ProbeInv, OthersQuiet
<1>3. \A e \in attached : ProbedBefore(e) => e # d /\ st'[e] = st[e]
  <2>1. attached \subseteq Drive /\ ~ ProbedBefore(d)
    BY <1>2, NotBefore
  <2>2. DOMAIN st = Drive
    BY DEF ProbeInv, ProbeTypes, ChanTypeOK
  <2> QED
    BY <1>1, <2>1, <2>2
<1>4. \A e : ProbedBefore(e)' <=> ProbedBefore(e)
  BY <1>1 DEF ProbedBefore
<1>5. Answered' = Answered
  BY <1>1, <1>3, <1>4 DEF Answered
<1> QED
  BY <1>1, <1>5

(* The probe, step by step: address 0 is overwritten with the first word   *)
(* of an identification, and from then on with nothing else.               *)
LEMMA ProbeOverwrites ==
  ASSUME BootInv, stage = "ata", Driver, FoundSoFar' = FoundSoFar, UNCHANGED stage
  PROVE  Overwriting' /\ Stale' /\ DOMAIN mem' = DOMAIN mem
<1>1. /\ ProbeInv /\ DOMAIN mem = PP!Cell
      /\ mem[0] = IF Answered # {} \/ (pc = "data" /\ word > 0)
                  THEN Identification ELSE AtZero(FoundSoFar)
      /\ pc # "main" => main = None
  BY DEF BootInv, Overwriting, Stale, Enumerating
<1>2. ASSUME UNCHANGED <<mem, main>>, Answered' = Answered, pc # "main",
             pc # "data", pc' = "data" => word' = 0
      PROVE  Overwriting' /\ Stale' /\ DOMAIN mem' = DOMAIN mem
  BY <1>1, <1>2 DEF Overwriting, Stale
<1>3. CASE IdentifyCommand
  <2>1. /\ pc = "probe" /\ pc' = "status"
        /\ UNCHANGED <<attached, bus, slot, word, mem, main>>
        /\ st' = IF Probed \in attached THEN [st EXCEPT ![Probed] = {"BSY"}] ELSE st
    BY <1>3 DEF IdentifyCommand, Command, loopvars, Probed
  <2>2. /\ ~ ProbedBefore(Probed) /\ attached \subseteq Drive /\ DOMAIN st = Drive
    BY <1>1, <2>1, NotBefore DEF ProbeInv, ProbeTypes, ChanTypeOK
  <2>3. \A e \in attached : ProbedBefore(e) => st'[e] = st[e]
    BY <2>1, <2>2
  <2>4. \A e : ProbedBefore(e)' <=> ProbedBefore(e)
    BY <2>1 DEF ProbedBefore
  <2>5. Answered' = Answered
    BY <2>1, <2>3, <2>4 DEF Answered
  <2> QED
    BY <1>2, <2>1, <2>5
<1>4. CASE NoDrive
  <2>1. /\ pc = "status" /\ UNCHANGED <<attached, st, main>> /\ IdentifyReturn(FALSE, mem)
    BY <1>4 DEF NoDrive, chanvars
  <2>2. /\ \A d \in Drive : ProbedBefore(d)' <=> ProbedBefore(d) \/ d = Probed
        /\ mem' = mem /\ pc' \in {"probe", "main"}
    BY <1>1, <2>1, ReturnProbed
  <2>3. Probed \in attached => st[Probed] # {}
    BY <1>1, <2>1 DEF ProbeInv, Identifying
  <2>4. attached \subseteq Drive
    BY <1>1, <2>1, NotBefore
  <2>5. Answered' = Answered
    BY <2>1, <2>2, <2>3, <2>4 DEF Answered
  <2> QED
    BY <1>2, <2>1, <2>2, <2>5
<1>5. CASE SomeDrive \/ WaitBusy \/ PollDrq \/ WaitDrq
  <2>1. /\ pc \in {"status", "busy", "drq"} /\ pc' \in {"busy", "drq", "data"}
        /\ UNCHANGED <<attached, st, bus, slot, word, mem, main>>
        /\ pc' = "data" => pc = "drq"
    BY <1>5 DEF SomeDrive, WaitBusy, PollDrq, WaitDrq, chanvars, loopvars
  <2>2. pc' = "data" => word' = 0
    BY <1>1, <2>1 DEF ProbeInv
  <2>3. \A e : ProbedBefore(e)' <=> ProbedBefore(e)
    BY <2>1 DEF ProbedBefore
  <2>4. Answered' = Answered
    BY <2>1, <2>3 DEF Answered
  <2> QED
    BY <1>2, <2>1, <2>2, <2>4
<1>6. CASE IdentifyWord
  <2>1. /\ pc = "data" /\ main' = main /\ UNCHANGED <<attached, sel>>
        /\ main = None /\ word \in Nat
    BY <1>1, <1>6 DEF IdentifyWord, TakeWord, ProbeInv, ProbeTypes
  <2>2. PICK m : m = [mem EXCEPT ![word \div 2] = Identification]
    OBVIOUS
  <2>3. /\ DOMAIN m = DOMAIN mem
        /\ m[0] = IF word \div 2 = 0 THEN Identification ELSE mem[0]
    BY <1>1, <2>2, SomeMemory
  <2>4. m[0] = Identification
    <3>1. word = 0 => word \div 2 = 0
      OBVIOUS
    <3> QED
      BY <1>1, <2>1, <2>3, <3>1
  <2>5. CASE LastWord
    <3>1. IdentifyReturn(TRUE, m)
      BY <1>6, <2>2, <2>5 DEF IdentifyWord
    <3>2. /\ \A d \in Drive : ProbedBefore(d)' <=> ProbedBefore(d) \/ d = Probed
          /\ mem' = m /\ pc' \in {"probe", "main"}
      BY <1>1, <2>1, <3>1, ReturnProbed
    <3>3. /\ Selected(bus) = Probed /\ Probed \in Drive
          /\ st[Probed] = {"DRQ"} /\ left[Probed] = Words - word /\ Words \in Nat
      BY <1>1, <2>1, NotBefore, ChannelAssumption
      DEF ProbeInv, IdentifyWhenReady, Ready, Selected, Probed
    <3>4. Probed \in attached
      BY <1>1, <3>3 DEF ProbeInv, OthersQuiet
    <3>5. left[Probed] = 1
      BY <2>1, <2>5, <3>3 DEF LastWord
    <3>6. st' = [st EXCEPT ![Probed] = {}]
      BY <1>6, <3>3, <3>5 DEF IdentifyWord, TakeWord, Ready
    <3>7. st'[Probed] = {}
      BY <1>1, <3>3, <3>6 DEF ProbeInv, ProbeTypes, ChanTypeOK
    <3>8. PICK d \in attached : d = Probed /\ d \in Drive
      BY <3>3, <3>4
    <3>9. d \in Answered'
      BY <2>1, <3>2, <3>7, <3>8 DEF Answered
    <3> QED
      BY <1>1, <2>1, <2>3, <2>4, <3>2, <3>9 DEF Overwriting, Stale
  <2>6. CASE ~ LastWord
    <3>1. word' = word + 1 /\ mem' = m /\ pc' = "data"
      BY <1>6, <2>1, <2>2, <2>6 DEF IdentifyWord
    <3>2. word' > 0
      BY <2>1, <3>1
    <3> QED
      BY <2>1, <2>3, <2>4, <3>1, <3>2 DEF Overwriting, Stale
  <2> QED
    BY <2>5, <2>6
<1>7. CASE GetMainDrive
  <2>1. /\ pc = "main" /\ main' = mem[0]
        /\ UNCHANGED <<attached, st, pc, bus, slot, word, mem>>
    BY <1>7 DEF GetMainDrive, chanvars, loopvars
  <2>2. \A e : ProbedBefore(e)' <=> ProbedBefore(e)
    BY <2>1 DEF ProbedBefore
  <2>3. Answered' = Answered
    BY <2>1, <2>2 DEF Answered
  <2> QED
    BY <1>1, <2>1, <2>3 DEF Overwriting, Stale
<1> QED
  BY <1>3, <1>4, <1>5, <1>6, <1>7 DEF Driver

-----------------------------------------------------------------------------
(* The boot as a whole *)
LEMMA SameEnumeration == P!Enumerate => PP!Skip \/ PP!Found
BY DEF P!Enumerate, P!Skip, PP!Skip, P!Found, PP!Found, P!Advance, PP!Advance,
       P!pci_get_vendor, PP!pci_get_vendor, P!pci_get_device, PP!pci_get_device,
       P!pci_config_read_word, PP!pci_config_read_word, P!HasNumber, PP!HasNumber,
       P!Answering, PP!Answering, P!ConfigAddress, PP!ConfigAddress,
       P!Function, PP!Function, P!Bus, PP!Bus, P!Register, PP!Register, P!Fill, PP!Fill,
       P!Entry, PP!Entry, P!Pointer, PP!Pointer, P!Numbers, PP!Numbers, P!NULL, PP!NULL

(* Nothing has been probed before the first drive. *)
LEMMA FirstDrive ==
  ASSUME ProbeInv, pc = "probe", bus = 0, slot = 0
  PROVE  Answered = {}
<1>1. \A d \in Drive : ~ ProbedBefore(d)
  BY DEF ProbedBefore, Drive, Bus, Slot
<1>2. attached \subseteq Drive
  BY NotBefore
<1> QED
  BY <1>1, <1>2 DEF Answered

LEMMA InitBootInv == Init => BootInv
<1> SUFFICES ASSUME Init PROVE BootInv
  OBVIOUS
<1>1. /\ kind \in [PP!Function -> Kinds] /\ pci_pc = "table"
      /\ pci_bus = 0 /\ pci_slot = 0 /\ function = 0 /\ device_count = 0
      /\ mem = [c \in PP!Cell |-> PP!Firmware]
  BY DEF Init, P!Init, P!Function, PP!Function, P!Bus, PP!Bus, P!Cell, PP!Cell, P!Firmware, PP!Firmware
<1>2. PP!Current \in PP!Function
  <2>1. Buses \in 1 .. 256 /\ Slots \in 1 .. 32 /\ Functions \in 1 .. 8
    BY Instances DEF PP!PciAssumption
  <2> QED
    BY <1>1, <2>1 DEF PP!Current, PP!Function, PP!Bus
<1>3. FoundSoFar = {}
  <2> SUFFICES ASSUME NEW fn \in PP!Function, PP!Before(fn, PP!Current) PROVE FALSE
    BY <1>1 DEF FoundSoFar, PP!Passed
  <2>1. PP!Current[1] = 0 /\ PP!Current[2] = 0 /\ PP!Current[3] = 0
    BY <1>1 DEF PP!Current
  <2>2. fn[1] >= 0 /\ fn[2] >= 0 /\ fn[3] >= 0 /\ fn[1] \in Int /\ fn[2] \in Int /\ fn[3] \in Int
    BY DEF PP!Function, PP!Bus
  <2> QED
    BY <2>1, <2>2 DEF PP!Before
<1>4. Enumerating
  BY <1>1, <1>2, <1>3, SomeMemory, FS_EmptySet DEF Enumerating, AtZero
<1>5. /\ pc = "probe" /\ bus = 0 /\ slot = 0 /\ main = None /\ stage = "start"
      /\ heap_pc = "idle"
  BY DEF Init, ProbeInit, H!Init
<1>6. ProbeInv
  BY InitProbeInv DEF Init
<1> QED
  BY <1>1, <1>4, <1>5, <1>6 DEF BootInv, Stages, Overwriting, Stale

(* A step that leaves PCI's variables and address 0 alone. *)
LEMMA FoundKept ==
  ASSUME UNCHANGED <<kind, pci_bus, pci_slot, function>>, pci_pc' = "done" <=> pci_pc = "done"
  PROVE  FoundSoFar' = FoundSoFar /\ PP!Current' = PP!Current
<1>1. PP!Current' = PP!Current
  BY DEF PP!Current
<1>2. \A fn \in PP!Function : PP!Passed(fn)' <=> PP!Passed(fn)
  BY <1>1 DEF PP!Passed, PP!Before
<1> QED
  BY <1>1, <1>2 DEF FoundSoFar

(* Steps of everything but the ATA driver and the drives. *)
LEMMA AnsweredKept ==
  ASSUME UNCHANGED <<chanvars, atavars>>
  PROVE  Answered' = Answered
<1>1. \A e : ProbedBefore(e)' <=> ProbedBefore(e)
  BY DEF ProbedBefore, atavars
<1> QED
  BY <1>1 DEF Answered, chanvars

LEMMA ElsewhereBoot ==
  ASSUME BootInv, UNCHANGED <<chanvars, atavars, mem, kind, pci_bus, pci_slot, function, device_count>>,
         terminal_row' \in Nat, Stages', pci_pc' \in {"table", "bus", "function", "done"},
         pci_pc' = "done" <=> pci_pc = "done", stage' = "ata" <=> stage = "ata"
  PROVE  BootInv'
<1>1. FoundSoFar' = FoundSoFar /\ PP!Current' = PP!Current
  BY FoundKept
<1>2. Answered' = Answered
  BY AnsweredKept
<1>3. ProbeInv'
  BY ProbeKept DEF BootInv
<1>4. Enumerating'
  BY <1>1 DEF BootInv, Enumerating
<1>5. Overwriting' /\ Stale'
  BY <1>1, <1>2 DEF BootInv, Overwriting, Stale, atavars
<1> QED
  BY <1>3, <1>4, <1>5 DEF BootInv

LEMMA PciStepBoot ==
  ASSUME BootInv, BootPointers, PciStep
  PROVE  BootInv'
<1>1. /\ UNCHANGED <<chanvars, atavars, terminal_row>>
      /\ stage' = IF pci_pc' = "done" THEN "ata" ELSE stage
      /\ PP!Skip \/ PP!Found
  BY SameEnumeration DEF PciStep
<1>2. /\ device_count' = Cardinality(FoundSoFar') /\ mem'[0] = AtZero(FoundSoFar')
      /\ PP!Current' \in PP!Function /\ DOMAIN mem' = PP!Cell
      /\ pci_pc = "function" /\ pci_pc' \in {"bus", "function", "done"}
      /\ UNCHANGED kind
  <2>1. CASE PP!Skip
    BY <2>1, SkipKeeps DEF BootInv, Enumerating
  <2>2. CASE PP!Found
    BY <2>2, FoundAdds DEF BootInv
  <2> QED
    BY <1>1, <2>1, <2>2
<1>3. Enumerating'
  BY <1>2 DEF BootInv, Enumerating
<1>4. /\ stage = "pci" /\ pc = "probe" /\ bus = 0 /\ slot = 0 /\ main = None
      /\ ProbeInv /\ terminal_row \in Nat
  BY <1>2 DEF BootInv, Stages, ProbeInv, ProbeTypes
<1>5. Stages'
  BY <1>1, <1>2, <1>4 DEF Stages, atavars
<1>6. Answered' = {}
  BY <1>1, <1>4, FirstDrive, AnsweredKept
<1>7. ProbeInv'
  BY <1>1, <1>4, ProbeKept
<1>8. Overwriting' /\ Stale'
  BY <1>1, <1>2, <1>4, <1>6 DEF Overwriting, Stale, atavars
<1> QED
  BY <1>3, <1>5, <1>7, <1>8 DEF BootInv

LEMMA NextBootInv ==
  ASSUME QuietWhileBusy, BootInv, BootPointers, [Next]_vars
  PROVE  BootInv'
<1>0. terminal_row \in Nat /\ pci_pc \in {"table", "bus", "function", "done"}
  BY DEF BootInv, ProbeInv, ProbeTypes, Enumerating
<1>1. CASE KernelStart
  <2>1. /\ stage = "start" /\ stage' = "pci" /\ terminal_row' = 2
        /\ UNCHANGED <<heapvars, pcivars, chanvars, atavars, mem>>
    BY <1>1 DEF KernelStart
  <2>2. Stages'
    BY <2>1 DEF BootInv, Stages, pcivars, atavars
  <2> QED
    BY <1>0, <2>1, <2>2, ElsewhereBoot DEF pcivars
<1>2. CASE PciMalloc
  <2>1. stage = "pci" /\ UNCHANGED <<pcivars, chanvars, atavars, mem, terminal_row, stage>>
    BY <1>2 DEF PciMalloc
  <2>2. Stages'
    BY <2>1 DEF BootInv, Stages, pcivars, atavars
  <2> QED
    BY <1>0, <2>1, <2>2, ElsewhereBoot DEF pcivars
<1>3. CASE HeapStep
  <2>1. heap_pc # "idle" /\ UNCHANGED <<chanvars, atavars, terminal_row, stage>>
    BY <1>3 DEF HeapStep, H!Malloc, H!MallocSplit, H!MallocExact, H!MallocPass, H!MallocGrow, H!MallocFail
  <2>2. /\ UNCHANGED <<kind, pci_bus, pci_slot, function, device_count, mem>>
        /\ \/ pci_pc' = pci_pc
           \/ pci_pc \in {"table", "bus"} /\ pci_pc' \in {"bus", "function"}
    BY <1>3 DEF HeapStep, P!TableAllocated, P!DeviceAllocated, pcivars
  <2>3. stage # "start"
    BY <2>1 DEF BootInv, Stages
  <2>4. Stages'
    BY <2>1, <2>2, <2>3 DEF BootInv, Stages, atavars
  <2> QED
    BY <1>0, <2>1, <2>2, <2>4, ElsewhereBoot
<1>4. CASE PciStep
  BY <1>4, PciStepBoot
<1>5. CASE AtaStep
  <2>1. stage = "ata" /\ Driver /\ UNCHANGED <<heapvars, pcivars, stage>>
    BY <1>5 DEF AtaStep
  <2>2. FoundSoFar' = FoundSoFar /\ PP!Current' = PP!Current
    BY <2>1, FoundKept DEF pcivars
  <2>3. Overwriting' /\ Stale' /\ DOMAIN mem' = DOMAIN mem
    BY <2>1, <2>2, ProbeOverwrites
  <2>4. ProbeInv'
    BY <2>1, ProbeSteps DEF BootInv
  <2>5. Enumerating' /\ Stages'
    BY <2>1, <2>2, <2>3 DEF BootInv, Enumerating, Stages, pcivars
  <2> QED
    BY <2>3, <2>4, <2>5 DEF BootInv
<1>6. CASE \E d \in Drive : DriveStep(d)
  <2>1. PICK d \in Drive : Device(d) /\ UNCHANGED <<heapvars, pcivars, stage>>
    BY <1>6 DEF DriveStep
  <2>2. FoundSoFar' = FoundSoFar /\ PP!Current' = PP!Current
    BY <2>1, FoundKept DEF pcivars
  <2>3. Answered' = Answered /\ UNCHANGED <<mem, main, pc, bus, slot, word>>
    BY <2>1, DriveKeeps DEF BootInv
  <2>4. ProbeInv'
    BY <2>1, ProbeSteps DEF BootInv
  <2>5. Enumerating'
    BY <2>1, <2>2, <2>3 DEF BootInv, Enumerating, pcivars
  <2>6. Stages'
    BY <2>1, <2>3 DEF BootInv, Stages, pcivars, heapvars
  <2>7. Overwriting' /\ Stale'
    BY <2>1, <2>2, <2>3 DEF BootInv, Overwriting, Stale
  <2> QED
    BY <2>4, <2>5, <2>6, <2>7 DEF BootInv
<1>7. CASE UNCHANGED vars
  <2>1. UNCHANGED <<heapvars, pcivars, chanvars, atavars, mem, terminal_row, stage>>
    BY <1>7 DEF vars
  <2>2. Stages'
    BY <2>1 DEF BootInv, Stages, heapvars, pcivars, atavars
  <2> QED
    BY <1>0, <2>1, <2>2, ElsewhereBoot DEF pcivars
<1> QED
  BY <1>1, <1>2, <1>3, <1>4, <1>5, <1>6, <1>7 DEF Next, KernelThread

(* What the kernel loop takes for its main drive, for every PCI bus, every *)
(* set of drives and every length of the identification: the words of an   *)
(* identification if any drive answered, else what the enumeration left.   *)
(* No drive was ever added.                                                *)
THEOREM KernelMainDriveIsStale ==
  ASSUME BootLayout, QuietWhileBusy
  PROVE  Spec => []MainDriveIsStale
<1>1. BootHeap /\ BootPointers /\ BootInv /\ [Next]_vars => (BootHeap /\ BootPointers /\ BootInv)'
  BY NextBootHeap, NextBootInv
<1>2. ASSUME BootInv PROVE MainDriveIsStale
  <2> SUFFICES ASSUME main # None
               PROVE  main = IF Identified # {} THEN Identification
                             ELSE IF FoundAll = {} THEN Firmware
                             ELSE IF Cardinality(FoundAll) = 1 THEN P!Pointer(P!NULL)
                             ELSE P!Numbers(CHOOSE x \in FoundAll : \A y \in FoundAll : P!Rank(y) <= P!Rank(x))
    BY DEF MainDriveIsStale
  <2>1. /\ pc = "main"
        /\ main = IF Answered # {} THEN Identification ELSE AtZero(FoundSoFar)
    BY <1>2 DEF BootInv, Stale
  <2>2. pci_pc = "done"
    BY <1>2, <2>1 DEF BootInv, Stages
  <2>3. FoundAll = FoundSoFar
    BY <2>2 DEF FoundAll, FoundSoFar, PP!Passed, P!Function, PP!Function, P!Bus, PP!Bus
  <2>4. Identified = Answered
    BY <2>1 DEF Identified, Answered, ProbedBefore
  <2>5. AtZero(FoundAll) =
          IF FoundAll = {} THEN Firmware
          ELSE IF Cardinality(FoundAll) = 1 THEN P!Pointer(P!NULL)
          ELSE P!Numbers(CHOOSE x \in FoundAll : \A y \in FoundAll : P!Rank(y) <= P!Rank(x))
    BY DEF AtZero, LastOf, PP!Firmware, Firmware, PP!Pointer, P!Pointer, P!NULL,
           PP!Numbers, P!Numbers, PP!Rank, P!Rank
  <2> QED
    BY <2>1, <2>3, <2>4, <2>5
<1> QED
  BY <1>1, <1>2, InitBootHeap, InitBootInv, PTL DEF Spec

(* In the boot as a whole, whatever PCI has done before, the probe keeps   *)
(* to the protocol: identify_drive takes words only from a drive that      *)
(* offers them, and sends IDENTIFY only to one at rest.                    *)
THEOREM KernelProbeProtocol ==
  ASSUME BootLayout, QuietWhileBusy
  PROVE  Spec => [](IdentifyWhenReady /\ ProbeToIdleDrive)
<1>1. BootHeap /\ BootPointers /\ BootInv /\ [Next]_vars => (BootHeap /\ BootPointers /\ BootInv)'
  BY NextBootHeap, NextBootInv
<1>2. BootInv => IdentifyWhenReady /\ ProbeToIdleDrive
  BY DEF BootInv, ProbeInv, OthersQuiet, ProbeToIdleDrive
<1> QED
  BY <1>1, <1>2, InitBootHeap, InitBootInv, PTL DEF Spec

=============================================================================
