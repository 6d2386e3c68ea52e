------------------------------ MODULE AtaProbe ------------------------------
(***************************************************************************)
(* initiliaze_ata_driver, get_drive_name, identify_drive, select_drive,    *)
(* add_drive and get_main_drive of drivers/ata.c: the four drives are      *)
(* probed in turn, then the kernel asks for the main drive for ever.       *)
(*                                                                         *)
(* ata.c is checked in with unresolved merge conflicts; modelled is the    *)
(* side of 1dae7caf, the one that has the functions kernel.c calls.        *)
(*                                                                         *)
(* ata_buffer and drives are null pointers that nothing ever sets, so what *)
(* identify_drive stores and what get_main_drive loads is the memory from  *)
(* address 0 on, which is kept in cells of 4 bytes.                        *)
(*                                                                         *)
(* Every message of the driver is shorter than a line and ends it, so all  *)
(* that is left of a message is that the terminal is one row further down: *)
(* a new line does not wrap at the end of the screen (see Terminal).       *)
(***************************************************************************)
EXTENDS AtaChannel

CONSTANTS
  MemCells,    \* cells of memory
  PollBound    \* bound: looks at a status without DRQ in all probes together

ASSUME ProbeAssumption ==
  /\ MemCells \in Nat /\ Cardinality(Drive) <= MemCells /\ Words <= 2 * MemCells
  /\ PollBound \in Nat

VARIABLES
  pc,             \* "probe", "status", "busy", "drq", "data" or "main"
  bus, slot,      \* the drive being probed
  word,           \* identify_drive's i
  mem,            \* what every cell of memory holds
  drive_count,
  main,           \* what get_main_drive returned last
  terminal_row,
  polls           \* history: looks at a status without DRQ

loopvars == <<bus, slot, word>>
probevars == <<chanvars, pc, loopvars, mem, drive_count, main, terminal_row, polls>>

(* What a cell may hold: what was there, words of an identification, or a  *)
(* pointer add_drive stored.                                               *)
Firmware == <<"firmware">>
Identification == <<"identification">>
DrivePointer == <<"drive">>
None == <<"none">>

ProbeInit ==
  /\ ChanInit
  /\ pc = "probe"
  /\ bus = 0 /\ slot = 0 /\ word = 0
  /\ mem = [c \in 0 .. MemCells - 1 |-> Firmware]
  /\ drive_count = 0
  /\ main = None
  /\ terminal_row = 0
  /\ polls = 0

(* Mutant: an empty line after every message. *)
LinesSpaced(n) == terminal_row' = terminal_row + 2 * n

(* n messages are written to the terminal; printf and cprintf end the line *)
(* of each.                                                                *)
Lines(n) == terminal_row' = terminal_row + n

(* select_drive, four cleared registers and the IDENTIFY command. *)
IdentifyCommand ==
  /\ pc = "probe"
  /\ Command(bus, slot, [low |-> 0, mid |-> 0, high |-> 0, top |-> 0])
  /\ pc' = "status"
  /\ UNCHANGED <<loopvars, mem, drive_count, main, terminal_row, polls>>

(* The value identify_drive returns, whether it saw a drive or not. *)
IdentifyResult(found) == 0

(* add_drive stores a pointer in the list at address 0.  No drive is ever  *)
(* added: what get_drive_name and initiliaze_ata_driver do with one that   *)
(* is found, before they add it, is left out.                              *)
AddDrive(m) ==
  /\ drive_count' = drive_count + 1
  /\ mem' = [m EXCEPT ![drive_count] = DrivePointer]

(* Primary master and slave, then secondary master and slave. *)
NextBus == IF slot = 1 THEN 1 - bus ELSE bus

(* With memory m, identify_drive returns to get_drive_name, and that to    *)
(* initiliaze_ata_driver, which adds the drive if there is one and goes on *)
(* to the next.                                                            *)
IdentifyReturn(found, m) ==
  /\ IF IdentifyResult(found) # 0 THEN AddDrive(m) ELSE mem' = m /\ UNCHANGED drive_count
  /\ slot' = 1 - slot
  /\ bus' = NextBus
  /\ pc' = IF bus = 1 /\ slot = 1 THEN "main" ELSE "probe"
  /\ word' = 0

(* The first look at the status: zero or an error means no drive; only the *)
(* error is reported.                                                      *)
NoDrive ==
  /\ pc = "status"
  /\ \E s \in Seen(bus) : \/ s = {} /\ Lines(0)
                          \/ "ERR" \in s /\ Lines(1)
  /\ IdentifyReturn(FALSE, mem)
  /\ UNCHANGED <<chanvars, main, polls>>

SomeDrive ==
  /\ pc = "status"
  /\ \E s \in Seen(bus) : s # {} /\ "ERR" \notin s
  /\ Lines(1)
  /\ pc' = "busy"
  /\ UNCHANGED <<chanvars, loopvars, mem, drive_count, main, polls>>

(* status & (ATA_BSY != 0) is the lowest bit of the status, which is ERR. *)
LoopBit == "ERR"

WaitBusy ==
  /\ pc = "busy"
  /\ \E s \in Seen(bus) : LoopBit \notin s
  /\ pc' = "drq"
  /\ UNCHANGED <<chanvars, loopvars, mem, drive_count, main, terminal_row, polls>>

(* Mutants: does not wait for data; waits for the wrong bit. *)
DrqUnchecked(s) == TRUE
DrqFault(s) == "DF" \in s

DrqSet(s) == "DRQ" \in s

(* The second loop prints a line every time round. *)
PollDrq ==
  /\ pc = "drq"
  /\ polls < PollBound
  /\ \E s \in Seen(bus) : ~ DrqSet(s)
  /\ Lines(1)
  /\ polls' = polls + 1
  /\ UNCHANGED <<chanvars, pc, loopvars, mem, drive_count, main>>

WaitDrq ==
  /\ pc = "drq"
  /\ \E s \in Seen(bus) : DrqSet(s)
  /\ Lines(2)
  /\ pc' = "data"
  /\ UNCHANGED <<chanvars, loopvars, mem, drive_count, main, polls>>

(* Mutant: one word short. *)
LastWordShort == word + 2 = Words

LastWord == word + 1 = Words

(* A word of the identification goes to memory, from address 0 on. *)
IdentifyWord ==
  LET m == [mem EXCEPT ![word \div 2] = Identification]
  IN /\ pc = "data"
     /\ TakeWord(bus)
     /\ IF LastWord
        THEN IdentifyReturn(TRUE, m)
        ELSE /\ word' = word + 1
             /\ mem' = m
             /\ UNCHANGED <<pc, bus, slot, drive_count>>
     /\ UNCHANGED <<main, terminal_row, polls>>

(* What the kernel loop does, for ever: the first entry of the list. *)
GetMainDrive ==
  /\ pc = "main"
  /\ main' = mem[0]
  /\ UNCHANGED <<chanvars, pc, loopvars, mem, drive_count, terminal_row, polls>>

Driver ==
  \/ IdentifyCommand \/ NoDrive \/ SomeDrive
  \/ WaitBusy \/ PollDrq \/ WaitDrq \/ IdentifyWord \/ GetMainDrive

Device(d) ==
  /\ Finish(d)
  /\ UNCHANGED <<pc, loopvars, mem, drive_count, main, terminal_row, polls>>

ProbeNext == Driver \/ \E d \in Drive : Device(d)

(* The kernel's only thread keeps running, and a busy drive comes to an    *)
(* end.                                                                    *)
ProbeSpec ==
  /\ ProbeInit /\ [][ProbeNext]_probevars
  /\ WF_probevars(Driver) /\ \A d \in Drive : WF_probevars(Device(d))

-----------------------------------------------------------------------------
(* The types of the driver's variables. *)
TypeOK ==
  /\ ChanTypeOK
  /\ pc \in {"probe", "status", "busy", "drq", "data", "main"}
  /\ bus \in Bus /\ slot \in Slot
  /\ word \in 0 .. Words - 1
  /\ mem \in [0 .. MemCells - 1 -> {Firmware, Identification, DrivePointer}]
  /\ drive_count \in 0 .. Cardinality(Drive)
  /\ main \in {None, Firmware, Identification, DrivePointer}
  /\ terminal_row \in Nat
  /\ polls \in 0 .. PollBound

(* identify_drive reads the identification only while the drive offers it. *)
IdentifyWhenReady ==
  pc = "data" => Ready(bus) /\ left[Selected(bus)] = Words - word

(* Every drive gets its IDENTIFY while it is idle, and the one probed      *)
(* before it has handed over all its words or reported an error.           *)
ProbeToIdleDrive ==
  pc = "probe" => \A d \in Drive : st[d] \cap {"BSY", "DRQ"} = {}

(* Line 179: "Loop until BSY bit is free".  Past that loop no drive is     *)
(* busy any more.                                                          *)
BusyIsOver == pc \in {"drq", "data"} => "BSY" \notin st[Selected(bus)]

=============================================================================
