------------------------------- MODULE AtaRead ------------------------------
(***************************************************************************)
(* ata_read, ata_read_once and poll_ata_drive of drivers/ata.c, against    *)
(* drives that work on their own.  A caller holds an ata_drive as          *)
(* initiliaze_ata_driver fills it in: its id is the bus, shifted, or the   *)
(* slot, so the default case of ata_read_once never arises.                *)
(*                                                                         *)
(* A loop iteration that leaves the driver where it was is a stuttering    *)
(* step: only the read that ends a polling loop is an action.  The delays  *)
(* (four reads of a port that nobody looks at) change nothing either.      *)
(* Callers read from drives that are there.                                *)
(***************************************************************************)
EXTENDS AtaChannel, Sequences

CONSTANTS
  Lbas,       \* the lba arguments
  Counts,     \* the sector_count arguments
  CountMod    \* values of sector_count: 2^32

ASSUME ReadAssumption ==
  /\ Lbas \subseteq Nat
  /\ CountMod \in Nat \ {0}
  /\ Counts \subseteq 0 .. CountMod - 1

VARIABLES
  pc,             \* "idle", "loop", "busy", "drq", "data" or "panic"
  drive,          \* the argument drive
  lba,            \* the argument lba
  sector,         \* ata_read's loop variable
  sector_count,   \* ata_read's argument, which the loop changes
  word,           \* ata_read_once's i
  asked,          \* history: the sector_count the caller gave
  got             \* history: the sectors put into the buffer, in order

callvars == <<drive, lba, asked>>
vars == <<chanvars, pc, drive, lba, sector, sector_count, word, asked, got>>

Init ==
  /\ ChanInit
  /\ pc = "idle"
  /\ drive = <<0, 0>>
  /\ lba = 0
  /\ sector = 0
  /\ sector_count = 0
  /\ word = 0
  /\ asked = 0
  /\ got = <<>>

ReadCall(d, l, n) ==
  /\ pc = "idle"
  /\ pc' = "loop"
  /\ drive' = d
  /\ lba' = l
  /\ sector' = 0
  /\ sector_count' = n
  /\ word' = 0
  /\ asked' = n
  /\ got' = <<>>
  /\ UNCHANGED chanvars

(* Mutant: masters only. *)
SlotOfMaster(d) == 0

(* The slot ata_read_once selects: the slave of the secondary bus is taken *)
(* for its master.                                                         *)
SlotOf(d) == IF d = <<0, 1>> THEN 1 ELSE 0

(* What it puts into the address registers for sector l.  Bits 8 to 15 are *)
(* dropped and the high register is left as it was.                        *)
Registers(l, old) ==
  [low  |-> l % Byte,
   mid  |-> (l \div (Byte * Byte)) % Byte,
   high |-> old.high,
   top  |-> (l \div (Byte * Byte * Byte)) % Nibble]

(* The loop of ata_read enters ata_read_once, which gives the command. *)
ReadCommand ==
  /\ pc = "loop"
  /\ sector < sector_count
  /\ Command(drive[1], SlotOf(drive), Registers(lba + sector, reg[drive[1]]))
  /\ pc' = "busy"
  /\ word' = 0
  /\ UNCHANGED <<callvars, sector, sector_count, got>>

ReadReturn ==
  /\ pc = "loop"
  /\ ~ sector < sector_count
  /\ pc' = "idle"
  /\ UNCHANGED <<chanvars, callvars, sector, sector_count, word, got>>

(* Mutant: does not wait for BSY to go. *)
PollBusyUnchecked ==
  /\ pc = "busy"
  /\ pc' = "drq"
  /\ UNCHANGED <<chanvars, callvars, sector, sector_count, word, got>>

(* retry_poll: the first loop ends at a status without BSY. *)
PollBusy ==
  /\ pc = "busy"
  /\ \E s \in Seen(drive[1]) : "BSY" \notin s
  /\ pc' = "drq"
  /\ UNCHANGED <<chanvars, callvars, sector, sector_count, word, got>>

(* Mutant: only data is waited for. *)
PollPanicNever == FALSE

(* retry_poll_again: the second ends at a status with ERR or DRQ.  The     *)
(* panic is an endless loop.                                               *)
PollPanic ==
  /\ pc = "drq"
  /\ \E s \in Seen(drive[1]) : "ERR" \in s
  /\ pc' = "panic"
  /\ UNCHANGED <<chanvars, callvars, sector, sector_count, word, got>>

PollData ==
  /\ pc = "drq"
  /\ \E s \in Seen(drive[1]) : "ERR" \notin s /\ "DRQ" \in s
  /\ pc' = "data"
  /\ UNCHANGED <<chanvars, callvars, sector, sector_count, word, got>>

(* How the loop of ata_read goes on: it counts up sector_count, not sector *)
NextSector ==
  /\ sector_count' = (sector_count + 1) % CountMod
  /\ UNCHANGED sector

(* Mutant: stops one word short. *)
ReadWordShort ==
  /\ pc = "data"
  /\ TakeWord(drive[1])
  /\ IF word + 2 < Words
     THEN word' = word + 1 /\ UNCHANGED <<pc, sector, sector_count, got>>
     ELSE /\ word' = 0
          /\ pc' = "loop"
          /\ got' = Append(got, Target(drive[1]))
          /\ NextSector
  /\ UNCHANGED callvars

(* A word is read into the buffer.  After the last one ata_read_once       *)
(* returns and ata_read goes on behind the 512 bytes just filled.          *)
ReadWord ==
  /\ pc = "data"
  /\ TakeWord(drive[1])
  /\ IF word + 1 < Words
     THEN word' = word + 1 /\ UNCHANGED <<pc, sector, sector_count, got>>
     ELSE /\ word' = 0
          /\ pc' = "loop"
          /\ got' = Append(got, Target(drive[1]))
          /\ NextSector
  /\ UNCHANGED callvars

ReadSteps ==
  ReadCommand \/ ReadReturn \/ PollBusy \/ PollPanic \/ PollData \/ ReadWord

Next ==
  \/ \E d \in attached, l \in Lbas, n \in Counts : ReadCall(d, l, n)
  \/ ReadSteps
  \/ \E d \in Drive : Finish(d) /\ UNCHANGED <<pc, callvars, sector, sector_count, word, got>>

(* The kernel's only thread keeps running, and a busy drive comes to an    *)
(* end.                                                                    *)
Spec ==
  /\ Init
  /\ [][Next]_vars
  /\ WF_vars(ReadSteps)
  /\ \A d \in Drive :
       WF_vars(Finish(d) /\ UNCHANGED <<pc, callvars, sector, sector_count, word, got>>)

-----------------------------------------------------------------------------
(* The types of the driver's variables, and of the registers it writes. *)
TypeOK ==
  /\ ChanTypeOK
  /\ pc \in {"idle", "loop", "busy", "drq", "data", "panic"}
  /\ drive \in Drive
  /\ lba \in Nat
  /\ sector \in Nat
  /\ sector_count \in 0 .. CountMod - 1
  /\ word \in 0 .. Words - 1
  /\ asked \in 0 .. CountMod - 1
  /\ got \in Seq(Drive \X Nat)

(* Words are read from the data register only while the drive offers them, *)
(* even if a busy drive shows DRQ: a word read earlier would be garbage in *)
(* the caller's buffer.                                                    *)
DataOnlyWhenReady ==
  pc = "data" => Ready(drive[1]) /\ left[Selected(drive[1])] = Words - word

(* The kernel panics over a drive that reported an error, never over a bit *)
(* that a busy drive happened to show.                                     *)
PanicOnlyOnError ==
  pc = "panic" => st[Selected(drive[1])] \cap {"BSY", "ERR"} = {"ERR"}

(* No command is given to a drive that is busy or has data left over from  *)
(* the one before, although the driver never looks before it writes one.   *)
CommandToIdleDrive ==
  pc \in {"idle", "loop"} => \A d \in Drive : st[d] = {} /\ left[d] = 0

(* Every sector that reaches the buffer is the one ata_read_once was asked *)
(* for.  Holds of sector numbers with zero bits 8 to 23, and of all drives *)
(* but the secondary slave (see Registers and SlotOf).                     *)
RightSector ==
  \A i \in DOMAIN got : got[i] = <<drive, lba + sector>>

(* ata_read fills the buffer with the sectors from lba on, one after the   *)
(* other, and no more than it was asked for.                               *)
ReadsEachSector ==
  /\ Len(got) <= asked
  /\ \A i \in DOMAIN got : got[i] = <<drive, lba + i - 1>>

(* poll_ata_drive comes to an end, with data or in the panic for a device  *)
(* failure, unless the drive reports a device fault by DF, which it does   *)
(* not look at.                                                            *)
PollEnds ==
  pc \in {"busy", "drq"} ~>
    pc \in {"data", "panic"} \/ "DF" \in st[Selected(drive[1])]

=============================================================================
