--------------------------- MODULE AtaReadProofs ----------------------------
(***************************************************************************)
(* Why ata_read never reads a word a drive does not offer, never panics    *)
(* over a drive that did not fail and never disturbs a drive at work, for  *)
(* every set of drives, every sector size, every fault and everything a    *)
(* busy drive may show.                                                    *)
(***************************************************************************)
EXTENDS AtaRead, TLAPS

(* The drive ata_read_once talks to. *)
Current == Selected(drive[1])

(* The drives at rest: all of them between two commands, and at any time   *)
(* all but the one the driver talks to, if it is there.                    *)
AtRest ==
  \A d \in Drive :
    pc \in {"idle", "loop"} \/ d # Current \/ d \notin attached
      => st[d] = {} /\ left[d] = 0

(* The command has ended: with a whole sector to hand over, with an error, *)
(* or without having begun, for want of a drive.                           *)
Ended ==
  \/ st[Current] = {"DRQ"} /\ left[Current] = Words
  \/ \E f \in Faults : st[Current] = {f}
  \/ st[Current] = {} /\ Current \notin attached

(* The inductive invariant: how the driver's place in its two polling      *)
(* loops and its word loop goes with the state of the drives.              *)
ReadInv ==
  /\ TypeOK
  /\ AtRest
  /\ pc # "idle" => drive \in attached
  /\ pc \in {"busy", "drq"} => word = 0
  /\ pc = "busy" => st[Current] = {"BSY"} \/ Ended
  /\ pc = "drq" => Ended
  /\ DataOnlyWhenReady
  /\ PanicOnlyOnError

USE ChannelAssumption, ReadAssumption DEF Bus, Slot, Drive, Bits

LEMMA CurrentIsDrive ==
  ASSUME TypeOK
  PROVE  Current \in Drive /\ drive[1] \in Bus /\ Current[1] = drive[1]
BY DEF TypeOK, ChanTypeOK, Current, Selected

LEMMA InitReadInv == Init => ReadInv
<1> SUFFICES ASSUME Init PROVE ReadInv
  OBVIOUS
<1>1. ChanTypeOK
  BY DEF Init, ChanInit, ChanTypeOK, Address
<1>2. TypeOK
  BY <1>1 DEF Init, TypeOK
<1>3. AtRest
  BY DEF Init, ChanInit, AtRest
<1> QED
  BY <1>2, <1>3 DEF Init, ReadInv, DataOnlyWhenReady, PanicOnlyOnError

(* What the driver sees of a status without BSY is the drive's status.     *)
LEMMA SeenWithoutBSY ==
  ASSUME ReadInv, pc \in {"busy", "drq"}, NEW s \in Seen(drive[1]),
         "BSY" \notin s \/ st[Current] # {"BSY"}
  PROVE  s = st[Current] /\ Ended
<1>1. drive \in attached /\ drive = <<drive[1], drive[2]>> /\ drive[2] \in Slot
  BY DEF ReadInv, TypeOK
<1>2. ~ (\A x \in Slot : <<drive[1], x>> \notin attached)
  BY <1>1
<1>3. st[Current] = {"BSY"} \/ Ended
  BY DEF ReadInv
<1>4. Ended => "BSY" \notin st[Current]
  BY DEF Ended
<1>5. CASE Current \notin attached
  <2>1. s = {}
    BY <1>2, <1>5 DEF Seen, Current
  <2>2. st[Current] = {}
    BY <1>5, CurrentIsDrive DEF ReadInv, AtRest
  <2> QED
    BY <1>3, <2>1, <2>2
<1>6. CASE Current \in attached
  BY <1>2, <1>3, <1>4, <1>6 DEF Seen, Current
<1> QED
  BY <1>5, <1>6

-----------------------------------------------------------------------------
LEMMA ReadCallInv ==
  ASSUME ReadInv, NEW d \in attached, NEW l \in Lbas, NEW n \in Counts,
         ReadCall(d, l, n)
  PROVE  ReadInv'
<1> USE DEF ReadInv, ReadCall, chanvars
<1>1. TypeOK'
  BY DEF TypeOK, ChanTypeOK
<1>2. AtRest'
  BY DEF AtRest
<1> QED
  BY <1>1, <1>2 DEF DataOnlyWhenReady, PanicOnlyOnError

(* ata_read_once selects the drive, which is at rest, and sets it to work. *)
LEMMA ReadCommandInv ==
  ASSUME ReadInv, ReadCommand
  PROVE  ReadInv'
<1> DEFINE b == drive[1]
           c == <<b, SlotOf(drive)>>
<1>1. /\ TypeOK /\ pc = "loop" /\ drive \in attached /\ drive \in Drive
      /\ pc' = "busy" /\ word' = 0 /\ attached' = attached
      /\ UNCHANGED <<drive, lba, asked, sector, sector_count, got>>
      /\ \A d \in Drive : st[d] = {} /\ left[d] = 0
  BY DEF ReadInv, AtRest, TypeOK, ReadCommand, callvars, Command
<1>2. b \in Bus /\ SlotOf(drive) \in Slot /\ c \in Drive
  BY <1>1 DEF SlotOf
<1>3. /\ sel' = [sel EXCEPT ![b] = SlotOf(drive)]
      /\ reg' = [reg EXCEPT ![b] = Registers(lba + sector, reg[b])]
      /\ st' = IF c \in attached THEN [st EXCEPT ![c] = {"BSY"}] ELSE st
      /\ left' = [left EXCEPT ![c] = 0]
  BY DEF ReadCommand, Command
<1>4. Registers(lba + sector, reg[b]) \in Address
  <2>1. lba + sector \in Nat /\ reg[b] \in Address
    BY <1>1, <1>2 DEF TypeOK, ChanTypeOK
  <2>2. \A n \in Nat : n % Byte \in 0 .. Byte - 1 /\ n % Nibble \in 0 .. Nibble - 1
    OBVIOUS
  <2>3. Byte * Byte \in Nat \ {0} /\ Byte * Byte * Byte \in Nat \ {0}
    OBVIOUS
  <2>4. \A n \in Nat, k \in Nat \ {0} : n \div k \in Nat
    OBVIOUS
  <2> HIDE ChannelAssumption
  <2> QED
    BY <2>1, <2>2, <2>3, <2>4 DEF Registers, Address
<1>5. TypeOK'
  BY <1>1, <1>2, <1>3, <1>4 DEF TypeOK, ChanTypeOK
<1>6. Current' = c
  BY <1>1, <1>2, <1>3 DEF Current, Selected, TypeOK, ChanTypeOK
<1>7. AtRest'
  BY <1>1, <1>2, <1>3, <1>6 DEF AtRest, TypeOK, ChanTypeOK
<1>8. st'[c] = {"BSY"} \/ (st'[c] = {} /\ c \notin attached)
  BY <1>1, <1>2, <1>3 DEF TypeOK, ChanTypeOK
<1> QED
  BY <1>1, <1>5, <1>6, <1>7, <1>8
  DEF ReadInv, Ended, DataOnlyWhenReady, PanicOnlyOnError

LEMMA ReadReturnInv ==
  ASSUME ReadInv, ReadReturn
  PROVE  ReadInv'
<1> USE DEF ReadInv, ReadReturn, chanvars, callvars
<1>1. TypeOK'
  BY DEF TypeOK, ChanTypeOK
<1>2. AtRest'
  BY DEF AtRest
<1> QED
  BY <1>1, <1>2 DEF DataOnlyWhenReady, PanicOnlyOnError

(* The polling loops leave the drives alone.                               *)
LEMMA PollKeeps ==
  ASSUME ReadInv, PollBusy \/ PollPanic \/ PollData
  PROVE  /\ TypeOK' /\ AtRest' /\ drive' \in attached'
         /\ UNCHANGED <<chanvars, drive, word>> /\ Current' = Current
<1> USE DEF ReadInv, PollBusy, PollPanic, PollData, chanvars, callvars
<1>1. UNCHANGED <<chanvars, drive, word>> /\ Current' = Current
  BY DEF Current, Selected
<1>2. TypeOK'
  BY DEF TypeOK, ChanTypeOK
<1>3. AtRest'
  BY <1>1 DEF AtRest
<1> QED
  BY <1>1, <1>2, <1>3

LEMMA PollBusyInv ==
  ASSUME ReadInv, PollBusy
  PROVE  ReadInv'
<1>1. PICK s \in Seen(drive[1]) : "BSY" \notin s
  BY DEF PollBusy
<1>2. pc = "busy" /\ pc' = "drq"
  BY DEF PollBusy
<1>3. Ended
  BY <1>1, <1>2, SeenWithoutBSY
<1>4. Ended'
  BY <1>3, PollKeeps DEF Ended, chanvars
<1> QED
  BY <1>2, <1>4, PollKeeps DEF ReadInv, DataOnlyWhenReady, PanicOnlyOnError

(* An ERR that ends the second loop is the drive's, not a busy one's.      *)
LEMMA PollPanicInv ==
  ASSUME ReadInv, PollPanic
  PROVE  ReadInv'
<1>1. PICK s \in Seen(drive[1]) : "ERR" \in s
  BY DEF PollPanic
<1>2. pc = "drq" /\ pc' = "panic"
  BY DEF PollPanic
<1>3. Ended
  BY <1>2 DEF ReadInv
<1>4. s = st[Current]
  BY <1>2, <1>3, SeenWithoutBSY DEF Ended
<1>5. st[Current] = {"ERR"}
  BY <1>1, <1>3, <1>4 DEF Ended
<1>6. PanicOnlyOnError'
  BY <1>5, PollKeeps DEF PanicOnlyOnError, Current, chanvars
<1> QED
  BY <1>2, <1>6, PollKeeps DEF ReadInv, DataOnlyWhenReady

LEMMA PollDataInv ==
  ASSUME ReadInv, PollData
  PROVE  ReadInv'
<1>1. PICK s \in Seen(drive[1]) : "ERR" \notin s /\ "DRQ" \in s
  BY DEF PollData
<1>2. pc = "drq" /\ pc' = "data" /\ word = 0
  BY DEF PollData, ReadInv
<1>3. Ended
  BY <1>2 DEF ReadInv
<1>4. s = st[Current]
  BY <1>2, <1>3, SeenWithoutBSY DEF Ended
<1>5. st[Current] = {"DRQ"} /\ left[Current] = Words
  BY <1>1, <1>3, <1>4 DEF Ended
<1>6. DataOnlyWhenReady'
  BY <1>2, <1>5, PollKeeps DEF DataOnlyWhenReady, Ready, Current, chanvars
<1> QED
  BY <1>2, <1>6, PollKeeps DEF ReadInv, PanicOnlyOnError

(* After the last word of the sector the drive is at rest again.           *)
LEMMA ReadWordInv ==
  ASSUME ReadInv, ReadWord
  PROVE  ReadInv'
<1> DEFINE c == Current
<1>1. /\ TypeOK /\ AtRest /\ pc = "data" /\ drive \in attached
      /\ Ready(drive[1]) /\ left[c] = Words - word
      /\ UNCHANGED <<attached, sel, reg, drive, lba, asked>>
  BY DEF ReadInv, ReadWord, TakeWord, DataOnlyWhenReady, callvars, Current
<1>2. c \in Drive /\ Current' = c
  BY <1>1, CurrentIsDrive DEF Current, Selected
<1>3. st[c] = {"DRQ"}
  BY <1>1 DEF Ready, Current
<1>4. /\ left' = [left EXCEPT ![c] = @ - 1]
      /\ st' = [st EXCEPT ![c] = IF left[c] = 1 THEN {} ELSE {"DRQ"}]
  BY <1>1 DEF ReadWord, TakeWord, Current
<1>5. word \in 0 .. Words - 1 /\ left[c] \in 1 .. Words
  BY <1>1 DEF TypeOK
<1>6. ChanTypeOK'
  BY <1>1, <1>2, <1>4, <1>5 DEF TypeOK, ChanTypeOK
<1>7. CASE word + 1 < Words
  <2>1. word' = word + 1 /\ UNCHANGED <<pc, sector, sector_count, got>>
    BY <1>7 DEF ReadWord
  <2>2. TypeOK'
    BY <1>1, <1>5, <1>6, <1>7, <2>1 DEF TypeOK
  <2>3. AtRest'
    <3> SUFFICES ASSUME NEW d \in Drive, d # c \/ d \notin attached
                 PROVE  st'[d] = {} /\ left'[d] = 0
      BY <1>1, <1>2, <2>1 DEF AtRest
    <3>1. st[d] = {} /\ left[d] = 0
      BY <1>1 DEF AtRest
    <3>2. d # c
      BY <1>3, <3>1
    <3> QED
      BY <1>1, <1>2, <1>4, <3>1, <3>2 DEF TypeOK, ChanTypeOK
  <2>4. st'[c] = {"DRQ"} /\ left'[c] = Words - word'
    BY <1>1, <1>2, <1>4, <1>5, <1>7, <2>1 DEF TypeOK, ChanTypeOK
  <2>5. DataOnlyWhenReady'
    BY <1>2, <2>4 DEF DataOnlyWhenReady, Ready, Current
  <2> QED
    BY <1>1, <2>1, <2>2, <2>3, <2>5 DEF ReadInv, PanicOnlyOnError
<1>8. CASE ~ word + 1 < Words
  <2>1. /\ word' = 0 /\ pc' = "loop"
        /\ got' = Append(got, Target(drive[1])) /\ NextSector
    BY <1>8 DEF ReadWord
  <2>2. Target(drive[1]) \in Drive \X Nat
    <3>1. reg[drive[1]] \in Address
      BY <1>1, CurrentIsDrive DEF TypeOK, ChanTypeOK
    <3>2. /\ reg[drive[1]].low \in Nat /\ reg[drive[1]].mid \in Nat
          /\ reg[drive[1]].high \in Nat /\ reg[drive[1]].top \in Nat
      BY <3>1 DEF Address
    <3>3. \A m, n \in Nat : m + n \in Nat /\ m * n \in Nat
      OBVIOUS
    <3> QED
      BY <1>2, <3>2, <3>3 DEF Target, Current
  <2>3. TypeOK'
    BY <1>1, <1>6, <2>1, <2>2 DEF TypeOK, NextSector
  <2>4. left[c] = 1
    BY <1>1, <1>5, <1>8
  <2>5. AtRest'
    <3> SUFFICES ASSUME NEW d \in Drive
                 PROVE  st'[d] = {} /\ left'[d] = 0
      BY DEF AtRest
    <3>1. CASE d = c
      BY <1>2, <1>4, <2>4, <3>1 DEF TypeOK, ChanTypeOK, ReadInv
    <3>2. CASE d # c
      BY <1>1, <1>2, <1>4, <3>2 DEF AtRest, TypeOK, ChanTypeOK
    <3> QED
      BY <3>1, <3>2
  <2> QED
    BY <1>1, <2>1, <2>3, <2>5 DEF ReadInv, DataOnlyWhenReady, PanicOnlyOnError
<1> QED
  BY <1>7, <1>8

(* Only the current drive can be at work, and only in the first loop.      *)
LEMMA FinishInv ==
  ASSUME ReadInv, NEW d \in Drive, Finish(d),
         UNCHANGED <<pc, callvars, sector, sector_count, word, got>>
  PROVE  ReadInv'
<1>1. /\ TypeOK /\ AtRest /\ "BSY" \in st[d]
      /\ UNCHANGED <<attached, sel, reg, pc, drive, lba, asked>>
      /\ UNCHANGED <<sector, sector_count, word, got>>
  BY DEF ReadInv, Finish, callvars
<1>2. d = Current /\ pc \notin {"idle", "loop"} /\ Current' = Current
  BY <1>1 DEF AtRest, Current, Selected
<1>3. pc = "busy"
  BY <1>1, <1>2
  DEF ReadInv, Ended, TypeOK, DataOnlyWhenReady, Ready, PanicOnlyOnError, Current
<1>4. \/ st' = [st EXCEPT ![d] = {"DRQ"}] /\ left' = [left EXCEPT ![d] = Words]
      \/ (\E f \in Faults : st' = [st EXCEPT ![d] = {f}]) /\ left' = left
  BY DEF Finish
<1>5. TypeOK'
  <2>1. /\ st \in [Drive -> SUBSET Bits] /\ left \in [Drive -> 0 .. Words]
        /\ Words \in 0 .. Words
    BY <1>1 DEF TypeOK, ChanTypeOK
  <2>2. PICK v \in SUBSET Bits : st' = [st EXCEPT ![d] = v]
    BY <1>4
  <2>3. st' \in [Drive -> SUBSET Bits]
    BY <2>1, <2>2
  <2>4. left' \in [Drive -> 0 .. Words]
    BY <1>4, <2>1
  <2> QED
    BY <1>1, <2>3, <2>4 DEF TypeOK, ChanTypeOK
<1>6. AtRest'
  <2> SUFFICES ASSUME NEW x \in Drive, x # d \/ x \notin attached
               PROVE  st'[x] = {} /\ left'[x] = 0
    BY <1>1, <1>2, <1>3 DEF AtRest
  <2>1. st[x] = {} /\ left[x] = 0
    BY <1>1, <1>2 DEF AtRest
  <2>2. x # d
    BY <1>1, <2>1
  <2> QED
    BY <1>1, <1>4, <2>1, <2>2 DEF TypeOK, ChanTypeOK
<1>7. Ended'
  BY <1>1, <1>2, <1>4 DEF Ended, TypeOK, ChanTypeOK
<1> QED
  BY <1>1, <1>3, <1>5, <1>6, <1>7 DEF ReadInv, DataOnlyWhenReady, PanicOnlyOnError

LEMMA NextReadInv == ReadInv /\ [Next]_vars => ReadInv'
<1> SUFFICES ASSUME ReadInv, [Next]_vars
             PROVE  ReadInv'
  OBVIOUS
<1>1. CASE \E d \in attached, l \in Lbas, n \in Counts : ReadCall(d, l, n)
  BY <1>1, ReadCallInv
<1>2. CASE ReadSteps
  BY <1>2, ReadCommandInv, ReadReturnInv, PollBusyInv, PollPanicInv, PollDataInv,
     ReadWordInv DEF ReadSteps
<1>3. CASE \E d \in Drive : /\ Finish(d)
                            /\ UNCHANGED <<pc, callvars, sector, sector_count, word, got>>
  BY <1>3, FinishInv
<1>4. CASE UNCHANGED vars
  BY <1>4 DEF vars, chanvars, ReadInv, TypeOK, ChanTypeOK, AtRest, Ended,
              Current, Selected, DataOnlyWhenReady, Ready, PanicOnlyOnError
<1> QED
  BY <1>1, <1>2, <1>3, <1>4 DEF Next

(* The driver's place in ata_read_once and the state of the drives go      *)
(* together as ReadInv says.                                               *)
THEOREM ReadInvariant == Spec => []ReadInv
BY InitReadInv, NextReadInv, PTL DEF Spec

(* Every word ata_read_once puts into the buffer was offered by the drive, *)
(* whatever the drive showed while it was busy.                            *)
THEOREM ReadDataOnlyWhenReady == Spec => []DataOnlyWhenReady
<1>1. ReadInv => DataOnlyWhenReady
  BY DEF ReadInv
<1> QED
  BY <1>1, ReadInvariant, PTL

(* poll_ata_drive panics only if the drive itself has reported an error.   *)
THEOREM ReadPanicOnlyOnError == Spec => []PanicOnlyOnError
<1>1. ReadInv => PanicOnlyOnError
  BY DEF ReadInv
<1> QED
  BY <1>1, ReadInvariant, PTL

(* Whenever ata_read_once writes a command all drives are at rest, with no *)
(* word left over from the command before.                                 *)
THEOREM ReadCommandToIdleDrive == Spec => []CommandToIdleDrive
<1>1. ReadInv => CommandToIdleDrive
  BY DEF ReadInv, AtRest, CommandToIdleDrive
<1> QED
  BY <1>1, ReadInvariant, PTL

-----------------------------------------------------------------------------
(* The sector numbers whose bits 8 to 23 are zero: the ones that survive   *)
(* ata_read_once's way of putting them into the address registers.         *)
SectorAt(low, top) == low + (Byte * Byte * Byte) * top

Addressable ==
  \A l \in Lbas :
    \E low \in 0 .. Byte - 1, top \in 0 .. Nibble - 1 : l = SectorAt(low, top)

(* The slave of the secondary bus, for which its master is selected, is    *)
(* not there.                                                              *)
NoSecondarySlave == <<1, 1>> \notin MayAttach

(* Quotient and remainder of a number written with radix k.                *)
LEMMA DivMod ==
  ASSUME NEW k \in Nat \ {0}, NEW q \in Nat, NEW r \in 0 .. k - 1,
         NEW l, l = k * q + r
  PROVE  l \div k = q /\ l % k = r
OBVIOUS

LEMMA TimesAssociative ==
  \A k, m, n \in Nat : (k * m) * n = k * (m * n)
OBVIOUS

LEMMA TimesGrows ==
  ASSUME NEW k \in Nat \ {0}, NEW m \in Nat \ {0}
  PROVE  k * m \in Nat \ {0} /\ k <= k * m
OBVIOUS

(* The digits of such a number, as ata_read_once takes them.               *)
LEMMA Digits ==
  ASSUME NEW low \in 0 .. Byte - 1, NEW top \in Nat
  PROVE  /\ SectorAt(low, top) % Byte = low
         /\ (SectorAt(low, top) \div (Byte * Byte)) % Byte = 0
         /\ SectorAt(low, top) \div (Byte * Byte * Byte) = top
<1>1. Byte \in Nat \ {0}
  OBVIOUS
<1> USE <1>1
<1> HIDE ChannelAssumption, ReadAssumption
<1>2. PICK B2 \in Nat \ {0} : B2 = Byte * Byte /\ Byte <= B2
  BY TimesGrows
<1>3. PICK B3 \in Nat \ {0} : B3 = B2 * Byte /\ B2 <= B3
  BY TimesGrows
<1>4. PICK m \in Nat : m = Byte * top
  OBVIOUS
<1>5. PICK n \in Nat : n = B2 * top
  OBVIOUS
<1>6. PICK l \in Nat : l = SectorAt(low, top) /\ l = B3 * top + low
  BY <1>2, <1>3 DEF SectorAt
<1>7. /\ low \in 0 .. B2 - 1 /\ low \in 0 .. B3 - 1 /\ low \in Nat
  BY <1>2, <1>3
<1>8. B3 * top = B2 * m
  BY <1>3, <1>4, TimesAssociative
<1>9. B2 * Byte = Byte * B2
  BY <1>2
<1>10. B3 * top = Byte * n
  BY <1>3, <1>5, <1>9, TimesAssociative
<1>11. l % Byte = low
  <2>1. l = Byte * n + low
    BY <1>6, <1>10
  <2> QED
    BY <2>1, DivMod
<1>12. l \div B2 = m
  <2>1. l = B2 * m + low
    BY <1>6, <1>8
  <2> QED
    BY <1>7, <2>1, DivMod
<1>13. m % Byte = 0
  <2>1. m = Byte * top + 0 /\ 0 \in 0 .. Byte - 1
    BY <1>4
  <2> QED
    BY <2>1, DivMod
<1>14. l \div B3 = top
  BY <1>6, <1>7, DivMod
<1> QED
  BY <1>2, <1>3, <1>6, <1>11, <1>12, <1>13, <1>14

(* The registers designate the sector they were computed from, if it is    *)
(* one of those numbers and the high register holds 0.                     *)
LEMMA RegistersDesignate ==
  ASSUME NEW low \in 0 .. Byte - 1, NEW top \in 0 .. Nibble - 1,
         NEW old, old.high = 0, NEW r, r = Registers(SectorAt(low, top), old)
  PROVE  /\ r.high = 0
         /\ r.low + Byte * (r.mid + Byte * (r.high + Byte * r.top)) = SectorAt(low, top)
<1>1. /\ SectorAt(low, top) % Byte = low
      /\ (SectorAt(low, top) \div (Byte * Byte)) % Byte = 0
      /\ SectorAt(low, top) \div (Byte * Byte * Byte) = top
  BY Digits
<1>2. top % Nibble = top
  OBVIOUS
<1>3. r = [low |-> low, mid |-> 0, high |-> 0, top |-> top]
  BY <1>1, <1>2, Zenon DEF Registers
<1>4. r.low + Byte * (r.mid + Byte * (r.high + Byte * r.top))
        = low + Byte * (Byte * (Byte * top))
  BY <1>3
<1>5. (Byte * Byte * Byte) * top = Byte * (Byte * (Byte * top))
  <2>1. Byte \in Nat /\ Byte * Byte \in Nat /\ Byte * top \in Nat /\ top \in Nat
    OBVIOUS
  <2> HIDE ChannelAssumption
  <2> QED
    BY <2>1, TimesAssociative
<1> QED
  BY <1>3, <1>4, <1>5 DEF SectorAt

(* While a command is under way, the registers designate the sector that   *)
(* was asked for.                                                          *)
SectorInv ==
  /\ ReadInv
  /\ sector = 0
  /\ \A b \in Bus : reg[b].high = 0
  /\ pc # "idle" => lba \in Lbas
  /\ pc \notin {"idle", "loop"} => Target(drive[1]) = <<drive, lba>>
  /\ RightSector

LEMMA InitSectorInv == Init => SectorInv
BY InitReadInv DEF Init, ChanInit, SectorInv, RightSector

LEMMA ReadCommandSector ==
  ASSUME NoSecondarySlave, Addressable, SectorInv, ReadInv', ReadCommand
  PROVE  SectorInv'
<1> DEFINE b == drive[1]
           r == Registers(lba, reg[b])
<1>1. /\ TypeOK /\ drive \in attached /\ drive \in Drive /\ lba \in Lbas /\ lba \in Nat
      /\ sector = 0 /\ pc' = "busy" /\ reg[b].high = 0
      /\ UNCHANGED <<attached, drive, lba, sector, got>>
  BY DEF SectorInv, ReadInv, TypeOK, ReadCommand, callvars, Command
<1>2. b \in Bus /\ SlotOf(drive) = drive[2]
  <2>1. drive \in MayAttach /\ drive # <<1, 1>>
    BY <1>1 DEF NoSecondarySlave, TypeOK, ChanTypeOK
  <2>2. drive \in {<<0, 0>>, <<0, 1>>, <<1, 0>>, <<1, 1>>}
    BY <1>1
  <2>3. <<0, 0>> # <<0, 1>> /\ <<1, 0>> # <<0, 1>>
    OBVIOUS
  <2> QED
    BY <2>1, <2>2, <2>3 DEF SlotOf
<1>3. lba + sector = lba
  BY <1>1
<1>4. sel' = [sel EXCEPT ![b] = drive[2]] /\ reg' = [reg EXCEPT ![b] = r]
  BY <1>2, <1>3 DEF ReadCommand, Command
<1>5. sel'[b] = drive[2] /\ reg'[b] = r /\ \A x \in Bus : x # b => reg'[x] = reg[x]
  BY <1>1, <1>2, <1>4 DEF TypeOK, ChanTypeOK
<1>6. PICK low \in 0 .. Byte - 1, top \in 0 .. Nibble - 1 : lba = SectorAt(low, top)
  BY <1>1 DEF Addressable
<1> HIDE DEF r
<1>7. /\ r.high = 0
      /\ r.low + Byte * (r.mid + Byte * (r.high + Byte * r.top)) = lba
  BY <1>1, <1>6, RegistersDesignate DEF r
<1>8. Target(b)' = <<drive, lba>>
  <2>1. drive = <<b, drive[2]>>
    BY <1>1
  <2>2. Target(b)' = <<<<b, drive[2]>>, lba>>
    BY <1>1, <1>5, <1>7, Zenon DEF Target, Selected
  <2> QED
    BY <2>1, <2>2
<1>9. RightSector'
  BY <1>1 DEF SectorInv, RightSector
<1> QED
  BY <1>1, <1>5, <1>7, <1>8, <1>9 DEF SectorInv

LEMMA ReadWordSector ==
  ASSUME SectorInv, ReadInv', ReadWord
  PROVE  SectorInv'
<1>1. /\ sector' = sector /\ sector = 0 /\ pc = "data" /\ pc' \in {"data", "loop"}
      /\ UNCHANGED <<attached, sel, reg, drive, lba>>
      /\ lba \in Nat /\ got \in Seq(Drive \X Nat)
  BY DEF SectorInv, ReadInv, TypeOK, ReadWord, TakeWord, NextSector, callvars
<1>2. Target(drive[1])' = Target(drive[1]) /\ Target(drive[1]) = <<drive, lba>>
  BY <1>1 DEF Target, Selected, SectorInv
<1>3. got' = got \/ got' = Append(got, <<drive, lba>>)
  BY <1>2 DEF ReadWord
<1>4. RightSector'
  <2>1. \A i \in DOMAIN got : got[i] = <<drive, lba>>
    BY <1>1 DEF SectorInv, RightSector
  <2>2. \A i \in DOMAIN got' : got'[i] = <<drive, lba>>
    <3>1. CASE got' = got
      BY <2>1, <3>1
    <3>2. CASE got' = Append(got, <<drive, lba>>)
      <4>1. /\ DOMAIN got' = 1 .. Len(got) + 1 /\ DOMAIN got = 1 .. Len(got)
            /\ Len(got) \in Nat /\ got'[Len(got) + 1] = <<drive, lba>>
            /\ \A i \in 1 .. Len(got) : got'[i] = got[i]
        BY <1>1, <3>2
      <4> QED
        BY <2>1, <4>1
    <3> QED
      BY <1>3, <3>1, <3>2
  <2> QED
    BY <1>1, <2>2 DEF RightSector
<1> QED
  BY <1>1, <1>2, <1>4 DEF SectorInv

LEMMA NextSectorInv ==
  ASSUME NoSecondarySlave, Addressable
  PROVE  SectorInv /\ ReadInv' /\ [Next]_vars => SectorInv'
<1> SUFFICES ASSUME SectorInv, ReadInv', [Next]_vars
             PROVE  SectorInv'
  OBVIOUS
<1>1. ASSUME NEW d \in attached, NEW l \in Lbas, NEW n \in Counts, ReadCall(d, l, n)
      PROVE  SectorInv'
  BY <1>1 DEF ReadCall, SectorInv, RightSector, chanvars
<1>2. CASE ReadCommand
  BY <1>2, ReadCommandSector
<1>3. CASE ReadReturn
  BY <1>3 DEF ReadReturn, SectorInv, RightSector, Target, Selected, chanvars, callvars
<1>4. CASE PollBusy \/ PollPanic \/ PollData
  BY <1>4 DEF PollBusy, PollPanic, PollData, SectorInv, RightSector, Target, Selected,
              chanvars, callvars
<1>5. CASE ReadWord
  BY <1>5, ReadWordSector
<1>6. ASSUME NEW d \in Drive, Finish(d),
             UNCHANGED <<pc, callvars, sector, sector_count, word, got>>
      PROVE  SectorInv'
  BY <1>6 DEF Finish, SectorInv, RightSector, Target, Selected, callvars
<1>7. CASE UNCHANGED vars
  BY <1>7 DEF vars, chanvars, SectorInv, RightSector, Target, Selected
<1> QED
  BY <1>1, <1>2, <1>3, <1>4, <1>5, <1>6, <1>7 DEF Next, ReadSteps

(* Every sector ata_read puts into the buffer is the one ata_read_once was *)
(* asked for, given sector numbers that fit its register layout and no     *)
(* secondary slave, the two limits the code has.                           *)
THEOREM ReadRightSector ==
  ASSUME NoSecondarySlave, Addressable
  PROVE  Spec => []RightSector
<1>1. SectorInv => RightSector
  BY DEF SectorInv
<1> QED
  BY <1>1, InitSectorInv, NextSectorInv, ReadInvariant, PTL DEF Spec
=============================================================================
