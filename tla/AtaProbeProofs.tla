--------------------------- MODULE AtaProbeProofs ---------------------------
(***************************************************************************)
(* Why the probe reads an identification only while a drive offers it, and *)
(* gives IDENTIFY only to a drive that is at rest, for every set of drives *)
(* and every length of the identification.                                 *)
(*                                                                         *)
(* identify_drive does not wait for BSY to go (its loop tests ERR), so     *)
(* this rests on what a busy drive shows: QuietWhileBusy.                  *)
(***************************************************************************)
EXTENDS AtaProbe, TLAPS, FiniteSetTheorems

(* A busy drive shows neither ERR nor DRQ. *)
QuietWhileBusy == BusyNoise \cap {"ERR", "DRQ"} = {}

(* The drive being probed. *)
Probed == <<bus, slot>>

(* All drives but the one being probed have neither a command under way    *)
(* nor words to hand over; and that one if it is not there.                *)
OthersQuiet ==
  \A d \in Drive :
    pc \in {"probe", "main"} \/ d # Probed \/ d \notin attached
      => st[d] \cap {"BSY", "DRQ"} = {}

(* IDENTIFY is under way, has succeeded or has failed. *)
Identifying ==
  \/ st[Probed] = {"BSY"}
  \/ st[Probed] = {"DRQ"} /\ left[Probed] = Words
  \/ \E f \in Faults : st[Probed] = {f}

(* Types, but for what the memory holds: it plays no part in the probe. *)
ProbeTypes ==
  /\ ChanTypeOK
  /\ pc \in {"probe", "status", "busy", "drq", "data", "main"}
  /\ bus \in Bus /\ slot \in Slot
  /\ word \in 0 .. Words - 1
  /\ terminal_row \in Nat
  /\ polls \in 0 .. PollBound

(* The inductive invariant: how identify_drive's place in its loops goes   *)
(* with the state of the drive.                                            *)
ProbeInv ==
  /\ ProbeTypes
  /\ drive_count = 0
  /\ OthersQuiet
  /\ pc \in {"status", "busy", "drq", "data"} => sel[bus] = slot
  /\ pc \in {"probe", "status", "busy", "drq"} => word = 0
  /\ pc = "status" /\ Probed \in attached => Identifying
  /\ pc \in {"busy", "drq"} => Probed \in attached /\ Identifying
  /\ IdentifyWhenReady

USE ChannelAssumption, ProbeAssumption DEF Bus, Slot, Drive, Bits

LEMMA FourDrives == Cardinality(Drive) \in Nat
<1>1. IsFiniteSet(0 .. 1)
  <2>1. 0 \in Int /\ 1 \in Int
    OBVIOUS
  <2> QED
    BY <2>1, FS_Interval, Zenon
<1>2. IsFiniteSet((0 .. 1) \X (0 .. 1))
  BY <1>1, FS_Product
<1>3. Drive = (0 .. 1) \X (0 .. 1)
  <2>1. Bus = 0 .. 1 /\ Slot = 0 .. 1
    OBVIOUS
  <2> QED
    BY <2>1, Zenon
<1>4. Cardinality((0 .. 1) \X (0 .. 1)) \in Nat
  BY <1>2, FS_CardinalityType
<1> QED
  BY <1>3, <1>4, Zenon

LEMMA InitProbeInv == ProbeInit => ProbeInv
<1> SUFFICES ASSUME ProbeInit PROVE ProbeInv
  OBVIOUS
<1>1. ChanTypeOK
  BY DEF ProbeInit, ChanInit, ChanTypeOK, Address
<1>2. ProbeTypes
  BY <1>1 DEF ProbeInit, ProbeTypes
<1>3. OthersQuiet
  BY DEF ProbeInit, ChanInit, OthersQuiet
<1> QED
  BY <1>2, <1>3 DEF ProbeInit, ProbeInv, IdentifyWhenReady

(* What a status register may show, by what is on the bus.                 *)
LEMMA SeenCases ==
  ASSUME ProbeTypes, sel[bus] = slot, NEW s \in Seen(bus)
  PROVE  /\ Probed \notin attached => s = {} \/ s = Bits
         /\ Probed \in attached =>
              /\ st[Probed] \subseteq s
              /\ s \subseteq st[Probed] \cup BusyNoise
              /\ "BSY" \notin st[Probed] => s = st[Probed]
<1>1. Selected(bus) = Probed /\ slot \in Slot
  BY DEF Selected, Probed, ProbeTypes
<1>2. CASE Probed \notin attached
  BY <1>1, <1>2, Zenon DEF Seen
<1>3. CASE Probed \in attached
  <2>1. ~ (\A x \in Slot : <<bus, x>> \notin attached)
    BY <1>1, <1>3 DEF Probed
  <2> QED
    BY <1>1, <1>3, <2>1 DEF Seen
<1> QED
  BY <1>2, <1>3

-----------------------------------------------------------------------------
LEMMA IdentifyCommandInv ==
  ASSUME ProbeInv, IdentifyCommand
  PROVE  ProbeInv'
<1> DEFINE r == [low |-> 0, mid |-> 0, high |-> 0, top |-> 0]
<1>1. /\ ProbeTypes /\ pc = "probe" /\ pc' = "status" /\ drive_count = 0
      /\ UNCHANGED <<attached, bus, slot, word, mem, drive_count, main, terminal_row, polls>>
      /\ \A d \in Drive : st[d] \cap {"BSY", "DRQ"} = {}
  BY DEF ProbeInv, OthersQuiet, IdentifyCommand, Command, loopvars
<1>2. bus \in Bus /\ slot \in Slot /\ Probed \in Drive /\ Probed' = Probed
  BY <1>1 DEF ProbeTypes, Probed
<1>3. /\ sel' = [sel EXCEPT ![bus] = slot]
      /\ reg' = [reg EXCEPT ![bus] = r]
      /\ st' = IF Probed \in attached THEN [st EXCEPT ![Probed] = {"BSY"}] ELSE st
      /\ left' = [left EXCEPT ![Probed] = 0]
  BY DEF IdentifyCommand, Command, Probed
<1>4. r \in Address
  BY DEF Address
<1>5. ProbeTypes'
  BY <1>1, <1>2, <1>3, <1>4 DEF ProbeTypes, ChanTypeOK
<1>6. OthersQuiet'
  BY <1>1, <1>2, <1>3 DEF OthersQuiet, ProbeTypes, ChanTypeOK
<1>7. Probed \in attached => st'[Probed] = {"BSY"}
  BY <1>1, <1>2, <1>3 DEF ProbeTypes, ChanTypeOK
<1>8. sel'[bus] = slot
  BY <1>1, <1>2, <1>3 DEF ProbeTypes, ChanTypeOK
<1>9. word' = 0
  BY <1>1 DEF ProbeInv, ProbeTypes
<1> QED
  BY <1>1, <1>2, <1>5, <1>6, <1>7, <1>8, <1>9
  DEF ProbeInv, Identifying, IdentifyWhenReady

(* Where identify_drive returns the drive has no command under way and no  *)
(* words left; then it is the next drive's turn.                           *)
LEMMA IdentifyReturnInv ==
  ASSUME ProbeInv, NEW found, NEW m,
         IdentifyReturn(found, m), ChanTypeOK', UNCHANGED <<attached, sel, main, polls>>,
         terminal_row' \in Nat,
         \A d \in Drive : st'[d] \cap {"BSY", "DRQ"} = {}
  PROVE  ProbeInv'
<1>1. /\ mem' = m /\ drive_count' = 0 /\ slot' = 1 - slot /\ bus' \in {bus, 1 - bus}
      /\ pc' \in {"main", "probe"} /\ word' = 0
  BY DEF IdentifyReturn, IdentifyResult, NextBus, ProbeInv
<1>2. ProbeTypes'
  BY <1>1 DEF ProbeInv, ProbeTypes
<1>3. OthersQuiet'
  BY DEF OthersQuiet
<1> QED
  BY <1>1, <1>2, <1>3 DEF ProbeInv, IdentifyWhenReady

LEMMA NoDriveInv ==
  ASSUME QuietWhileBusy, ProbeInv, NoDrive
  PROVE  ProbeInv'
<1>1. /\ ProbeTypes /\ pc = "status" /\ sel[bus] = slot /\ UNCHANGED <<chanvars, main, polls>>
      /\ IdentifyReturn(FALSE, mem)
  BY DEF ProbeInv, NoDrive
<1>2. PICK s \in Seen(bus) :
        \/ s = {} /\ terminal_row' = terminal_row + 0
        \/ "ERR" \in s /\ terminal_row' = terminal_row + 1
  BY DEF NoDrive, Lines
<1>3. terminal_row' \in Nat /\ (s = {} \/ "ERR" \in s)
  BY <1>1, <1>2 DEF ProbeTypes
<1>4. \A d \in Drive : st[d] \cap {"BSY", "DRQ"} = {}
  <2>1. CASE Probed \notin attached
    BY <2>1 DEF ProbeInv, OthersQuiet
  <2>2. CASE Probed \in attached
    <3>1. /\ st[Probed] \subseteq s /\ s \subseteq st[Probed] \cup BusyNoise
          /\ "BSY" \notin st[Probed] => s = st[Probed]
      BY <1>1, <2>2, SeenCases
    <3>2. st[Probed] # {"BSY"} /\ st[Probed] # {"DRQ"}
      BY <1>3, <3>1 DEF QuietWhileBusy
    <3>3. \E f \in Faults : st[Probed] = {f}
      BY <1>1, <2>2, <3>2 DEF ProbeInv, Identifying
    <3>4. st[Probed] \cap {"BSY", "DRQ"} = {}
      BY <3>3
    <3> QED
      BY <3>4 DEF ProbeInv, OthersQuiet
  <2> QED
    BY <2>1, <2>2
<1>5. ChanTypeOK' /\ \A d \in Drive : st'[d] \cap {"BSY", "DRQ"} = {}
  BY <1>1, <1>4 DEF chanvars, ChanTypeOK, ProbeTypes
<1> QED
  BY <1>1, <1>3, <1>5, IdentifyReturnInv DEF chanvars

(* identify_drive's loops leave the drives alone.                          *)
LEMMA WaitKeeps ==
  ASSUME ProbeInv, SomeDrive \/ WaitBusy \/ PollDrq \/ WaitDrq
  PROVE  /\ ProbeTypes' /\ OthersQuiet' /\ drive_count' = 0
         /\ UNCHANGED <<chanvars, loopvars>>
         /\ sel'[bus'] = slot' /\ word' = 0
<1>1. /\ UNCHANGED <<chanvars, loopvars, mem, drive_count, main>>
      /\ terminal_row' \in Nat /\ polls' \in 0 .. PollBound
      /\ pc \in {"status", "busy", "drq"} /\ pc' \in {"busy", "drq", "data"}
  BY DEF ProbeInv, ProbeTypes, SomeDrive, WaitBusy, PollDrq, WaitDrq, Lines, loopvars
<1>2. ProbeTypes'
  BY <1>1 DEF ProbeInv, ProbeTypes, chanvars, loopvars, ChanTypeOK
<1>3. OthersQuiet'
  BY <1>1 DEF ProbeInv, OthersQuiet, Probed, chanvars, loopvars
<1> QED
  BY <1>1, <1>2, <1>3 DEF ProbeInv, chanvars, loopvars

LEMMA SomeDriveInv ==
  ASSUME ProbeInv, SomeDrive
  PROVE  ProbeInv'
<1>1. PICK s \in Seen(bus) : s # {} /\ "ERR" \notin s
  BY DEF SomeDrive
<1>2. pc = "status" /\ pc' = "busy" /\ sel[bus] = slot /\ ProbeTypes
  BY DEF SomeDrive, ProbeInv
<1>3. Probed \in attached
  BY <1>1, <1>2, SeenCases
<1>4. Identifying
  BY <1>2, <1>3 DEF ProbeInv
<1>5. Probed' \in attached' /\ Identifying'
  BY <1>3, <1>4, WaitKeeps DEF Probed, Identifying, chanvars, loopvars
<1> QED
  BY <1>2, <1>5, WaitKeeps DEF ProbeInv, IdentifyWhenReady

LEMMA BusyInv ==
  ASSUME ProbeInv, WaitBusy \/ PollDrq
  PROVE  ProbeInv'
<1>1. pc \in {"busy", "drq"} /\ pc' = "drq"
  BY DEF WaitBusy, PollDrq
<1>2. Probed' \in attached' /\ Identifying'
  BY <1>1, WaitKeeps DEF ProbeInv, Probed, Identifying, chanvars, loopvars
<1> QED
  BY <1>1, <1>2, WaitKeeps DEF ProbeInv, IdentifyWhenReady

(* A DRQ is the drive's own, so all words are there.                       *)
LEMMA WaitDrqInv ==
  ASSUME QuietWhileBusy, ProbeInv, WaitDrq
  PROVE  ProbeInv'
<1>1. PICK s \in Seen(bus) : "DRQ" \in s
  BY DEF WaitDrq, DrqSet
<1>2. /\ pc = "drq" /\ pc' = "data" /\ sel[bus] = slot /\ ProbeTypes /\ word = 0
      /\ Probed \in attached /\ Identifying
  BY DEF WaitDrq, ProbeInv
<1>3. s \subseteq st[Probed] \cup BusyNoise
  BY <1>1, <1>2, SeenCases
<1>4. "DRQ" \in st[Probed]
  BY <1>1, <1>3 DEF QuietWhileBusy
<1>5. st[Probed] = {"DRQ"} /\ left[Probed] = Words
  BY <1>2, <1>4 DEF Identifying
<1>6. IdentifyWhenReady'
  BY <1>2, <1>5, WaitKeeps
  DEF IdentifyWhenReady, Ready, Selected, Probed, chanvars, loopvars
<1> QED
  BY <1>2, <1>6, WaitKeeps DEF ProbeInv

(* With the last word of the identification the drive is at rest.          *)
LEMMA IdentifyWordInv ==
  ASSUME ProbeInv, IdentifyWord
  PROVE  ProbeInv'
<1> DEFINE c == Probed
           m == [mem EXCEPT ![word \div 2] = Identification]
<1>1. /\ ProbeTypes /\ OthersQuiet /\ pc = "data" /\ sel[bus] = slot /\ drive_count = 0
      /\ Ready(bus) /\ left[Selected(bus)] = Words - word
      /\ UNCHANGED <<attached, sel, reg, main, terminal_row, polls>>
  BY DEF ProbeInv, IdentifyWhenReady, IdentifyWord, TakeWord
<1>2. Selected(bus) = c /\ c \in Drive /\ word \in 0 .. Words - 1
  BY <1>1 DEF Selected, Probed, ProbeTypes
<1>3. /\ st[c] = {"DRQ"} /\ left[c] = Words - word
      /\ left' = [left EXCEPT ![c] = @ - 1]
      /\ st' = [st EXCEPT ![c] = IF left[c] = 1 THEN {} ELSE {"DRQ"}]
  BY <1>1, <1>2 DEF IdentifyWord, TakeWord, Ready
<1>5. ChanTypeOK'
  <2>1. left[c] - 1 \in 0 .. Words
    BY <1>2, <1>3
  <2>2. left' \in [Drive -> 0 .. Words] /\ st' \in [Drive -> SUBSET Bits]
    BY <1>1, <1>2, <1>3, <2>1 DEF ProbeTypes, ChanTypeOK
  <2> QED
    BY <1>1, <2>2 DEF ProbeTypes, ChanTypeOK
<1>6. \A d \in Drive : d # c => st'[d] = st[d] /\ st[d] \cap {"BSY", "DRQ"} = {}
  BY <1>1, <1>3 DEF OthersQuiet, ProbeTypes, ChanTypeOK
<1>7. CASE LastWord
  <2>1. IdentifyReturn(TRUE, m)
    BY <1>7 DEF IdentifyWord
  <2>2. left[c] = 1
    BY <1>2, <1>3, <1>7 DEF LastWord
  <2>3. st'[c] = {}
    BY <1>1, <1>2, <1>3, <2>2 DEF ProbeTypes, ChanTypeOK
  <2>4. \A d \in Drive : st'[d] \cap {"BSY", "DRQ"} = {}
    BY <1>6, <2>3
  <2>5. terminal_row' \in Nat
    BY <1>1 DEF ProbeTypes
  <2> HIDE DEF m
  <2> QED
    BY <1>1, <1>5, <2>1, <2>4, <2>5, IdentifyReturnInv
<1>8. CASE ~ LastWord
  <2>1. word' = word + 1 /\ mem' = m /\ UNCHANGED <<pc, bus, slot, drive_count>>
    BY <1>8 DEF IdentifyWord
  <2>2. word' \in 0 .. Words - 1 /\ left[c] # 1
    BY <1>2, <1>3, <1>8, <2>1 DEF LastWord
  <2>3. st'[c] = {"DRQ"} /\ left'[c] = Words - word'
    BY <1>1, <1>2, <1>3, <2>1, <2>2 DEF ProbeTypes, ChanTypeOK
  <2>4. c \in attached
    BY <1>1, <1>2, <1>3 DEF OthersQuiet
  <2>5. ProbeTypes'
    BY <1>1, <1>5, <2>1, <2>2 DEF ProbeTypes
  <2>6. OthersQuiet'
    BY <1>1, <1>6, <2>1, <2>4 DEF OthersQuiet, Probed
  <2>7. IdentifyWhenReady'
    BY <1>1, <1>2, <2>1, <2>3 DEF IdentifyWhenReady, Ready, Selected
  <2> QED
    BY <1>1, <2>1, <2>5, <2>6, <2>7 DEF ProbeInv
<1> QED
  BY <1>7, <1>8

LEMMA GetMainDriveInv ==
  ASSUME ProbeInv, GetMainDrive
  PROVE  ProbeInv'
<1> USE DEF ProbeInv, GetMainDrive, chanvars, loopvars
<1>2. ProbeTypes'
  BY DEF ProbeTypes, ChanTypeOK
<1>3. OthersQuiet'
  BY DEF OthersQuiet, Probed
<1> QED
  BY <1>2, <1>3 DEF IdentifyWhenReady

(* Only the drive being probed can be at work, and only before its words   *)
(* are read.                                                               *)
LEMMA DeviceInv ==
  ASSUME ProbeInv, NEW d \in Drive, Device(d)
  PROVE  ProbeInv'
<1>1. /\ ProbeTypes /\ OthersQuiet /\ "BSY" \in st[d] /\ drive_count = 0
      /\ UNCHANGED <<attached, sel, reg, pc, bus, slot, word, mem, drive_count>>
      /\ UNCHANGED <<main, terminal_row, polls>>
  BY DEF ProbeInv, Device, Finish, loopvars
<1>2. /\ d = Probed /\ d \in attached /\ pc \notin {"probe", "main"} /\ Probed' = Probed
  BY <1>1 DEF OthersQuiet, Probed
<1>3. pc # "data"
  BY <1>1, <1>2 DEF ProbeInv, IdentifyWhenReady, Ready, Selected, Probed
<1>4. \/ st' = [st EXCEPT ![d] = {"DRQ"}] /\ left' = [left EXCEPT ![d] = Words]
      \/ (\E f \in Faults : st' = [st EXCEPT ![d] = {f}]) /\ left' = left
  BY DEF Device, Finish
<1>5. ProbeTypes'
  <2>1. /\ st \in [Drive -> SUBSET Bits] /\ left \in [Drive -> 0 .. Words]
        /\ Words \in 0 .. Words
    BY <1>1 DEF ProbeTypes, ChanTypeOK
  <2>2. PICK v \in SUBSET Bits : st' = [st EXCEPT ![d] = v]
    BY <1>4
  <2>3. st' \in [Drive -> SUBSET Bits] /\ left' \in [Drive -> 0 .. Words]
    BY <1>4, <2>1, <2>2
  <2> QED
    BY <1>1, <2>3 DEF ProbeTypes, ChanTypeOK
<1>6. OthersQuiet'
  BY <1>1, <1>2, <1>4 DEF OthersQuiet, ProbeTypes, ChanTypeOK
<1>7. Identifying'
  BY <1>1, <1>2, <1>4 DEF Identifying, ProbeTypes, ChanTypeOK
<1> QED
  BY <1>1, <1>2, <1>3, <1>5, <1>6, <1>7 DEF ProbeInv, IdentifyWhenReady

LEMMA NextProbeInv ==
  ASSUME QuietWhileBusy
  PROVE  ProbeInv /\ [ProbeNext]_probevars => ProbeInv'
<1> SUFFICES ASSUME ProbeInv, [ProbeNext]_probevars
             PROVE  ProbeInv'
  OBVIOUS
<1>1. CASE Driver
  BY <1>1, IdentifyCommandInv, NoDriveInv, SomeDriveInv, BusyInv, WaitDrqInv,
     IdentifyWordInv, GetMainDriveInv DEF Driver
<1>2. CASE \E d \in Drive : Device(d)
  BY <1>2, DeviceInv
<1>3. CASE UNCHANGED probevars
  BY <1>3 DEF probevars, chanvars, loopvars, ProbeInv, ProbeTypes, ChanTypeOK, OthersQuiet,
              Probed, Identifying, IdentifyWhenReady, Ready, Selected
<1> QED
  BY <1>1, <1>2, <1>3 DEF ProbeNext

(* The probe's place in its loops and the state of the drives go together  *)
(* as ProbeInv says.                                                       *)
THEOREM ProbeInvariant ==
  ASSUME QuietWhileBusy
  PROVE  ProbeSpec => []ProbeInv
BY InitProbeInv, NextProbeInv, PTL DEF ProbeSpec

(* All variables have their types: no drive is ever added, and memory      *)
(* holds what was there or words of an identification.                     *)
THEOREM ProbeTypeOK ==
  ASSUME QuietWhileBusy
  PROVE  ProbeSpec => []TypeOK
<1> DEFINE Held == {Firmware, Identification, DrivePointer}
           MemTypes == mem \in [0 .. MemCells - 1 -> Held] /\ main \in {None} \cup Held
<1>1. ProbeInit => MemTypes
  BY DEF ProbeInit
<1>2. ASSUME ProbeInv, MemTypes, [ProbeNext]_probevars PROVE MemTypes'
  <2>1. CASE IdentifyWord
    <3>1. mem' = [mem EXCEPT ![word \div 2] = Identification] /\ main' = main
      BY <2>1 DEF IdentifyWord, IdentifyReturn, IdentifyResult
    <3> QED
      BY <1>2, <3>1
  <2>2. CASE NoDrive
    BY <1>2, <2>2 DEF NoDrive, IdentifyReturn, IdentifyResult
  <2>3. CASE GetMainDrive
    BY <1>2, <2>3 DEF GetMainDrive
  <2>4. CASE UNCHANGED <<mem, main>>
    BY <1>2, <2>4
  <2> QED
    BY <1>2, <2>1, <2>2, <2>3, <2>4
    DEF ProbeNext, Driver, IdentifyCommand, SomeDrive, WaitBusy, PollDrq, WaitDrq, Device, probevars
<1>3. ProbeInv /\ MemTypes => TypeOK
  BY FourDrives DEF ProbeInv, ProbeTypes, TypeOK
<1> HIDE DEF MemTypes
<1> QED
  BY <1>1, <1>2, <1>3, ProbeInvariant, PTL DEF ProbeSpec

(* identify_drive stores a word only while the drive offers it, although   *)
(* its first loop does not wait for the drive to be ready.                 *)
THEOREM ProbeIdentifyWhenReady ==
  ASSUME QuietWhileBusy
  PROVE  ProbeSpec => []IdentifyWhenReady
<1>1. ProbeInv => IdentifyWhenReady
  BY DEF ProbeInv
<1> QED
  BY <1>1, ProbeInvariant, PTL

(* IDENTIFY goes only to a drive without a command under way and without   *)
(* words left over, whatever the drives before it did.                     *)
THEOREM ProbeIdleDrive ==
  ASSUME QuietWhileBusy
  PROVE  ProbeSpec => []ProbeToIdleDrive
<1>1. ProbeInv => ProbeToIdleDrive
  BY DEF ProbeInv, OthersQuiet, ProbeToIdleDrive
<1> QED
  BY <1>1, ProbeInvariant, PTL
=============================================================================
