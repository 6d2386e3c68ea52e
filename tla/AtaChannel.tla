----------------------------- MODULE AtaChannel -----------------------------
(***************************************************************************)
(* External: the two ATA channels and the drives on them, as drivers/ata.c *)
(* uses them through inb, inw and outb.  Nothing here is code of the       *)
(* kernel; a drive is taken to do what the driver's port accesses presume. *)
(*                                                                         *)
(* The status register is abstracted to the four bits the driver's control *)
(* depends on.  A drive that is busy may show anything in the others.      *)
(***************************************************************************)
EXTENDS Naturals, FiniteSets

CONSTANTS
  MayAttach,  \* the drives there may be, pairs of bus and slot
  Words,      \* words in a sector and in the identification: 256
  Byte,       \* values of an 8-bit register: 256
  Nibble,     \* values of the four address bits beside the drive select: 16
  Faults,     \* how a command may fail: the bits of {"ERR", "DF"} a drive sets
  BusyNoise   \* bits a drive may show while it is busy

Bus == {0, 1}        \* PRIMARY_BUS, SECONDARY_BUS
Slot == {0, 1}       \* MASTER_DRIVE, SLAVE_DRIVE
Drive == Bus \X Slot
Bits == {"BSY", "DRQ", "ERR", "DF"}

ASSUME ChannelAssumption ==
  /\ MayAttach \subseteq Drive
  /\ Words \in Nat \ {0, 1}
  /\ Byte \in Nat \ {0} /\ Nibble \in Nat \ {0}
  /\ Faults \subseteq {"ERR", "DF"}
  /\ BusyNoise \subseteq Bits

VARIABLES
  attached,   \* the drives that are there: chosen at first, never changed
  sel,    \* the slot selected on each bus
  reg,    \* the address registers of each bus
  st,     \* the status of every drive
  left    \* words a drive still has to hand over

chanvars == <<attached, sel, reg, st, left>>

Address == [low : 0 .. Byte - 1, mid : 0 .. Byte - 1,
            high : 0 .. Byte - 1, top : 0 .. Nibble - 1]

ChanInit ==
  /\ attached \in SUBSET MayAttach
  /\ sel = [b \in Bus |-> 0]
  /\ reg = [b \in Bus |-> [low |-> 0, mid |-> 0, high |-> 0, top |-> 0]]
  /\ st = [d \in Drive |-> {}]
  /\ left = [d \in Drive |-> 0]

Selected(b) == <<b, sel[b]>>

(* The drive and sector that the registers of bus b designate. *)
Target(b) ==
  <<Selected(b), reg[b].low + Byte * (reg[b].mid + Byte * (reg[b].high + Byte * reg[b].top))>>

(* What a read of the status register of bus b may return.  A bus without  *)
(* drives floats high; a missing slave leaves the register at zero.        *)
Seen(b) ==
  IF \A s \in Slot : <<b, s>> \notin attached THEN {Bits}
  ELSE IF Selected(b) \notin attached THEN {{}}
  ELSE IF "BSY" \in st[Selected(b)] THEN {st[Selected(b)] \cup N : N \in SUBSET BusyNoise}
  ELSE {st[Selected(b)]}

(* Slot s is selected, r put into the address registers, a command given.  *)
Command(b, s, r) ==
  /\ sel' = [sel EXCEPT ![b] = s]
  /\ reg' = [reg EXCEPT ![b] = r]
  /\ st' = IF <<b, s>> \in attached THEN [st EXCEPT ![<<b, s>>] = {"BSY"}] ELSE st
  /\ left' = [left EXCEPT ![<<b, s>>] = 0]
  /\ UNCHANGED attached

(* A drive ends a command: it has data to hand over, or has failed. *)
Finish(d) ==
  /\ "BSY" \in st[d]
  /\ \/ st' = [st EXCEPT ![d] = {"DRQ"}] /\ left' = [left EXCEPT ![d] = Words]
     \/ /\ \E f \in Faults : st' = [st EXCEPT ![d] = {f}]
        /\ UNCHANGED left
  /\ UNCHANGED <<attached, sel, reg>>

Ready(b) == st[Selected(b)] = {"DRQ"}

(* A read of the data register.  With the last word DRQ is cleared. *)
TakeWord(b) ==
  /\ IF Ready(b)
     THEN /\ left' = [left EXCEPT ![Selected(b)] = @ - 1]
          /\ st' = [st EXCEPT ![Selected(b)] =
                      IF left[Selected(b)] = 1 THEN {} ELSE {"DRQ"}]
     ELSE UNCHANGED <<left, st>>
  /\ UNCHANGED <<attached, sel, reg>>

ChanTypeOK ==
  /\ attached \subseteq MayAttach
  /\ sel \in [Bus -> Slot]
  /\ reg \in [Bus -> Address]
  /\ st \in [Drive -> SUBSET Bits]
  /\ left \in [Drive -> 0 .. Words]

=============================================================================
