# TINAOS in TLA+

TINAOS is a small 32-bit kernel: a boot stub (`boot/boot.asm`) calls
`kernel_start`, which sets up a text terminal, enumerates the PCI bus, probes the
ATA drives and then asks for the main drive for ever.  It has one thread and no
interrupts; what runs beside it is hardware.  This directory holds TLA+ models of
its components, the TLC configurations that check them and TLAPS proofs about all of
them.  Source paths below are relative to `src/src/`.

## Inventory

| component | state | operations | what is hard | what makes it correct |
|---|---|---|---|---|
| heap (`sys/malloc.c`, `sys/sbrk.c`) | break `g_heap`, ring of free blocks, `freep` | `malloc`, `free`, `sbrk` | blocks out of address order, merges on both sides, a break that moves on failure, exhaustion, pointer wrap | blocks are disjoint and tile the heap, the list is one ring, calls end, a block in use is left alone |
| terminal (`display/vga.c`) | row, column, colour, screen, hardware cursor | `put_terminal_char`, `write_*`, `make_vga_terminal`, `set_terminal_color` | one global colour shared by nested calls, line and screen ends | text stays on the screen, the cursor follows, colours are restored |
| formatted output (`stdio.c`) | none of its own; the call stack | `printf`, `cprintf`, `krnl_panic`, `itoa`, `atoi`, `htoc` | recursion, formats against arguments, 8-bit lengths | calls return, every conversion finds its argument |
| ATA driver (`drivers/ata.c`) | `drives`, `drive_count`, `ata_buffer` | probe, `ata_read`, `poll_ata_drive` | the drive acts between two looks at its status; no timeouts; faults | words are read only when offered, the right sector of the right drive, polls end |
| PCI (`drivers/pci.c`) | `devices`, `device_count` | `initialize_pci_devices`, configuration reads | shared entries, a table of fixed size, unchecked `malloc` | every function found has an entry of its own |
| keyboard (`drivers/keyboard.c`) | none | `scan_code`, `key_pressed` | check before read | no key read twice |
| strings, `calloc` (`sys/string.c`, `sys/memory.c`) | none | `strlen`, `memcpy`, `memcmp`, `memset`, `strcpy`, `strcmp`, `strsep`, `strdup`, `calloc` | lengths, wrap of a product, null pointers | results equal their definitions |
| ports (`sys/system.c`) | none | `inb`, `outb`, ... | - | - |
| boot (`kernel/kernel.c`, `boot/`) | the memory layout | `kernel_start` | the layout `sbrk` relies on, drivers that get null pointers | every component's assumptions hold |

Components interact by calls and through memory: PCI and ATA call `malloc` and print;
printing calls the terminal; the terminal and the drivers read and write ports; and
since `malloc` fails during the boot, PCI and ATA both write to the memory at address 0.
`libs/` is vendored newlib and its build; the kernel is not linked with it.  Of the
repository's lines nearly all are there; the kernel proper has about 1500.

## Modules

**`Heap`** models `malloc`, `free` and `sbrk`.  Addresses are counted in headers of
8 bytes; the header fields of all addresses are the functions `link` and `size`.
A call is split into one step per loop iteration: `MallocCall`, then `MallocPass`
until `MallocSplit` or `MallocExact` returns a block, or the walk is back at
`freep` and `MallocGrow` (with the recursive call) or `MallocFail` follows;
`FreeCall`, `FreeAdvance`, and `FreeLink` for the merges.  `free` and `live` are
history variables that name the blocks; the code keeps no such sets.  Memory that
holds no header, and locals of calls that have returned, are 0 in the model; so
is the `link` of a block in use, which the code leaves behind and nothing reads.
`free(0)` changes nothing and is left out.

**`HeapAbs`** is what a caller may rely on: whoever asks gets a region that is large
enough and touches no other, or a refusal.  `Heap!ImplementsHeapAbs` is the
refinement; a block is mapped to the pair of its address and size.

**`Terminal`** models `vga.c` and the printing half of `stdio.c`, a character at a time.
The stack of active calls is explicit: each has the rest of its format, its
arguments (by type), the colour it set and the one it will restore.  The three
`write_warning/error/pass_string` differ in their colour only and are one action;
`write_current_operation` is a `printf` with two string arguments.  A format that ends
in a percent sign is read on into whatever lies behind it (`ReadBehind`);
`write_to_terminal`, which knows no conversions, prints the percent sign (`RawPercent`).
The cells of the screen are left out: no property tells them apart, only the
position does.

**`Numbers`** is `itoa`, `atoi` and `htoc`, a digit at a time, with the widths of their
variables as constants: `TbufSize` is both the size of `tbuf` and the number of bits of
a word (32 both), `LenMod` the number of values of `atoi`'s `len` (256).

**`Strings`** is `sys/string.c` and `calloc`, an iteration at a time, on a memory of few
cells.  Every memory is an initial one, so one call per behaviour is enough, except
for `strsep`, which its caller calls until it returns NULL.  A loop that leaves the
memory is `astray` and followed no further.  `strsep`'s inner loop, over the delimiter
string, is a test for membership.

**`AtaChannel`** is external: two channels, four drives, each with a status, address
registers and words to hand over, as the driver's port accesses presume.  A busy
drive may show any bits of `BusyNoise` beside BSY; a command ends with data or with
one of `Faults`; which drives are attached is chosen in the initial state.
**`AtaRead`** is `ata_read`, `ata_read_once` and `poll_ata_drive` on it; **`AtaProbe`** is
`initiliaze_ata_driver` with everything it calls, followed by the kernel loop.
Polling iterations that change nothing are stuttering steps.  `ata.c` is checked in
with unresolved merge conflicts; modelled is the side of commit 1dae7caf, the only
one that defines what `kernel.c` calls.  The kernel itself never calls `ata_read`
(no drive is ever registered, see below), so `AtaRead` takes the drives a caller
could have: every record `initiliaze_ata_driver` would fill in.

`AtaProbe` keeps the memory from address 0 on, where the null pointers `ata_buffer` and
`drives` point, and the row of the terminal: every message takes one line, and the
loop for DRQ prints one every time round (`PollDrq`, bounded by `PollBound`).

**`Pci`** is the enumeration, one step per function, on a memory of 4-byte cells in which
`devices` and every `pcidevice` are pointers; `malloc` returns any free block or NULL.
The host bridge, which decodes the configuration address, is external.  A vendor or
device number stands for the function that has it.

What `initiliaze_ata_driver` would do with a drive that is found is reduced to
`AddDrive`: that branch is never taken.

**`Kernel`** extends `AtaProbe` and composes it with `Heap`, in the layout of `boot.asm`, and `Pci`, in the
order of `kernel_start`.  A call of `malloc` by PCI is a `MallocCall` of `Heap` followed by
`Heap`'s steps; what it returns goes to `Pci`'s `TableAllocated` or `DeviceAllocated`.
The drivers share one memory and one terminal row.

**`Keyboard`** is `scan_code` and `key_pressed` beside an external keyboard and controller;
the check and the read of `scan_code` are two steps, between which keys and the
controller act.  **`KeyQueue`** is the abstract queue it implements (`ImplementsKeyQueue`):
the code in the controller and the keyboard's own queue are one sequence.

`MC...` modules instantiate these; `MCLibrary` has both `Numbers` and `Strings`, whose
functions share no state, and runs the calls of one while the other is idle.  Definitions whose comment says *Mutant* are
variants of the definition that follows them with a plausible bug; they are used by
no specification.  For every property of a passing run one such variant is known to
violate it.  `TypeOK` of `AtaRead`, `AtaProbe`, `Pci` and `Terminal`, and `KeyboardTypes`, are
what the proofs about them start from; the runs spend their properties on the rest.

`...Proofs` modules hold the theorems about the module they are named after, and
`TerminalProofs` also those about `Keyboard`, the other half of a terminal; see *Proofs*.

## Runs

| run | checks | instance |
|---|---|---|
| `heap` | types, `BlocksDisjoint`, `NoUnitLost`, `IInv`, `LiveUntouched`, `NullOnlyWhenNothingFits`, `GrowthSatisfiesCall`, `ExhaustionIsFinal`, `CallsReturn`, `ImplementsHeapAbs` | 8 units of heap, requests of 1, 2 and 3 units, BLOCK 2 |
| `heap_boot_refusal` | *violated:* `NoMoreHeap` | `stack_bottom` below `stack_top`, 40 units |
| `ata_read` | `DataOnlyWhenReady`, `PanicOnlyOnError`, `CommandToIdleDrive`, `RightSector`, `PollEnds` | 2 words, one-bit registers, any of three drives, all noise, ERR and DF faults |
| `ata_read_sectors` | *violated:* `ReadsEachSector` | one or two sectors |
| `ata_probe_busy` | *violated:* `BusyIsOver` | the probe alone, all 16 choices of drives, no faults, no noise |
| `pci` | `OneEntryPerFunction`, `LastOnBus`, `NoStrayWrite` | 2 buses, 2 slots, 2 functions, all 3^8 configurations; 3 blocks that `malloc` grants or refuses; room for 2 entries |
| `terminal` | `ColourDiscipline`, `BelowScreenForGood`, `NumberNeverReturns`, `PrintReturns` | 3 columns, 2 rows, formats with every conversion |
| `terminal_panic` | *violated:* `PanicNamesPlace` | the same, with formats and arguments that agree |
| `kernel` | `NothingHandedOut`, `IdentifyWhenReady`, `ProbeToIdleDrive`, `BootOnScreen`, `KernelLoopReached` | 2 buses with 2 functions each, all 16 choices of drives, ERR and DF faults, DF as noise, 18 rows |
| `kernel_main_drive` | *violated:* `MainDriveIsADrive` | the same |
| `library` | `WrittenNumber`, `TbufSuffices`, `AtoiMeaning` | all words of 9 bits in bases 0, 1, 2, 3, 10, 16, 17; all strings of up to 5 characters with `len` modulo 4 |
| | `MemcpyMeaning`, `ResultsMean`, `StrcpyReturnsIff`, `TokensSplit`, `AllocationsFilled`, `CallEnds` | all memories of 6 cells over 3 characters, words modulo 6 |
| `keyboard` | `ImplementsKeyQueue`, `KeyArrives` | 3 codes, a keyboard queue of 3 |

*Bounds.*  A heap of 8 units with requests of 1 to 3 lets blocks be split, freed in
every order, merged on the left, the right and both sides, grown out of address
order, and exhausted; `BreakBound` then lets the break move on beyond the end but
not around.
Two words, two functions or three columns are the least with a first, a
last and (for columns) a middle.  `CountMod` 4 lets `sector_count` wrap.  `RowBound`
stops printing at row 6, well beyond the two rows of the screen.  `StackFrames`
stands for the depth at which 16384 bytes of stack are used up.  In `pci` up to eight
functions meet a table of two, so that it overruns.  In `kernel` four functions suffice for
none, one and several found; `PollBound` and `HEIGHT` let the messages just fit and
just not.  Six cells hold two overlapping strings in every way.  Nine bits are three
decimal digits, and `len` wraps at four, so that strings are shorter, equal and longer.

*Deadlock* is not checked where the program may stop: callers need not call again,
a panic is an endless loop that changes nothing, and so is a poll nobody answers.

*Fairness.*  Weak fairness of the kernel's own steps: there is one thread and
nothing preempts it.  Weak fairness of a busy drive ending its command: an
assumption about the hardware, without which no polling loop ends; likewise of the
keyboard controller passing on a code.  None of callers: that a program goes on
calling `scan_code` is a hypothesis of `KeyArrives`.

## What the runs show

The heap algorithm is right, as long as the layout is the one `sbrk.c` reads as if it
had: between `stack_top` and a `stack_bottom` above it.  In the layout `boot.asm` gives it every
`malloc` returns 0.  Failed requests move the break too, so that exhaustion is
final, until, after half a million failed calls, the break wraps around; the
properties are about what happens before that.  The seven largest arguments of
`malloc` overflow its rounding and are left out (`RequestsAssumption`).

The PIO read is safe against every timing of the drive, because `poll_ata_drive`
reads the status afresh after it has seen BSY clear.  Three limits are part of the
properties' statements or of the instance.  `RightSector` holds for sector numbers
with zero bits 8 to 23 only, because `ata_read_once` drops
bits 8 to 15 and never writes the high address register (`Registers`), and for all drives but the secondary slave, which
`ata_read_once` cannot select (`SlotOf`): `Lbas` and `MayAttach` in `MCAtaRead.cfg` keep to
those.  `PollEnds` excepts a drive that reports its fault by DF: `poll_ata_drive` does
not look at DF and polls for ever.

`identify_drive` has no fresh second look (`ata_probe_busy`): it relies on a busy drive
showing neither DRQ nor ERR, and on a drive that has passed the first test not
failing after it.  `KernelLoopReached` is therefore about boots in which no drive fails.
`identify_drive` returns 0 whatever it finds, so no drive is ever registered, and
`get_main_drive` returns something that is not a drive (`kernel_main_drive`).

PCI gives every function found an entry, but all entries of a bus point to the one
`pci_device` allocated for it, which shows the last function (`LastOnBus`): the numbers
of all others are lost.  The table has room for 64 entries and nobody looks; `TableSuffices`
is the hypothesis under which nothing else is overwritten (`NoStrayWrite`).

In the boot as it is, nothing is ever allocated (`NothingHandedOut`), and table, devices,
drive list and identification all lie at address 0.  The theorem `KernelMainDriveIsStale` says what the
kernel loop therefore takes for its main drive: the first words of the last
identification, or else the numbers of the last PCI function, or a null pointer if
there was only one, or what the firmware left.  The messages fit on the 40 rows if the drives together are polled at most
25 times, since each look prints a line (`BootOnScreen`); after that the text goes
to the memory behind the screen and stays there (`BelowScreenForGood`).

Printing nests at most two calls deep and restores colours at every depth.  Number
conversions are the exception: `%d` and `%f` call `printf("%f")` without end and never return
(`NumberNeverReturns`), which `Runaway` names and `PrintReturns` excepts.  `krnl_panic` gives
three arguments to a format with two conversions, and the second, a string, gets the line number
(`terminal_panic`).  The hardware cursor
is set before the position moves on, so it is one character behind the text (`PutChar`).

`itoa` is right for bases 2 to 16, where `tbuf` just suffices; base 0 is a fault, base 1
overruns `tbuf` (`ItoaFault`, `TbufSuffices`).  `atoi` of what it has written in base ten is the
same word again (`NumbersRoundTrip`); of a string, `atoi` reads only as many characters as the length has modulo 256.  `htoc` shows the lower byte of its
16-bit argument.  `memcpy` into its own source repeats the source's start, `strcpy`
there never ends (`StrcpyReturnsIff`); `memcmp` answers -1 for equal and 0 for different (`NAfterLoop`);
`calloc` fills with the byte at address 0, since `memset` takes a pointer to its value.

The keyboard functions lose and repeat nothing, because only `scan_code` empties the
controller and nothing else runs in the kernel (`ImplementsKeyQueue`).

`PROJECT.json` lists under `findings` the disagreements between the code and what it says of
itself that a run shows as a violation.  Others are part of a property that describes the
code as it is, or of a model:

* `pci.c:7` calls the table "All found pci devices"; each bus has one `pci_device`, so
  only the last function found on it is there (`LastOnBus`);
* `stdio.c:98-165`: `cprintf` knows `%x` and `printf` does not, which prints the x and
  takes no argument (`Character`); nothing in the kernel uses it;
* `stdio.c:77` and `80` tell valid from invalid strings; of one with 256 characters or more `atoi` looks
  only at the first (`AtoiMeaning`);
* `%d` and `%f` print no number and do not return (`NumberNeverReturns`), and text below the screen
  does not come back (`BelowScreenForGood`);
* `calloc` fills its block with the byte at address 0 (`AllocationsFilled`), and `memcmp` answers -1 for
  equal operands, the result marked "?" at `string.c:31` (`ResultsMean`).

## Proofs

TLC checks an instance; the theorems below hold for every value of the constants
that satisfies the assumption of the module (`LayoutAssumption`, `ChannelAssumption`, ...,
which TLC evaluates in the runs) and, where the table says so, a hypothesis of the theorem.

| module | theorems | hypothesis |
|---|---|---|
| `HeapProofs` | `HeapInvariant`, `HeapTypeOK`, `HeapBlocksDisjoint`, `HeapOneRing`, `HeapNoUnitLost`, `HeapLiveUntouched`, `HeapNullOnlyWhenNothingFits`, `HeapGrowthSatisfiesCall`, `HeapExhaustionIsFinal`, `HeapRefinesAbstract`, `HeapWalksEnd` | `BreakBound < AddrUnits`: the break does not wrap |
| | `BootHeapIsEmpty` | also `StackBottom <= StackTop` |
| `AtaReadProofs` | `ReadInvariant`, `ReadDataOnlyWhenReady`, `ReadPanicOnlyOnError`, `ReadCommandToIdleDrive` | none |
| | `ReadRightSector` | `Addressable`, `NoSecondarySlave`: the limits of `ata_read_once` |
| `AtaProbeProofs` | `ProbeInvariant`, `ProbeTypeOK`, `ProbeIdentifyWhenReady`, `ProbeIdleDrive` | `QuietWhileBusy`: a busy drive shows neither ERR nor DRQ |
| `PciProofs` | `PciInvariant`, `PciTypeOK`, `PciOneEntryPerFunction`, `PciLastOnBus`, `PciNoStrayWrite` | none |
| `TerminalProofs` | `TerminalInvariant`, `TerminalColourDiscipline`, `TerminalBelowScreen`, `TerminalNumberNeverReturns` | none |
| | `KeyboardTypeOK`, `KeyboardImplementsQueue` | none |
| `NumbersProofs` | `NumbersInvariant`, `NumbersTbufSuffices`, `NumbersWrittenNumber`, `NumbersAtoiMeaning` | none |
| | `NumbersRoundTrip` | `TbufSize < LenMod`: 32 < 256 |
| `KernelProofs` | `KernelNothingHandedOut` | `BootLayout`: that of `boot.asm`, and the break does not wrap |
| | `KernelMainDriveIsStale`, `KernelProbeProtocol` | `BootLayout` and `QuietWhileBusy` |
| | `KernelBootOnScreen` | none |
| `StringsProofs` | `StringsInvariant`, `StringsMemcpyMeaning`, `StringsResultsMean`, `StringsStrcpyReturnsIff`, `StringsTokensSplit`, `StringsAllocationsFilled` | none |

A theorem named after a property states that property of the specification
(`KernelProbeProtocol` states the two of the probe for the whole boot, and `MainDriveIsStale` is
defined in `KernelProofs`).  The
hypotheses name what the code itself relies on, as *What the runs show* says of each,
and the instances of the runs satisfy them, except `TbufSize < LenMod`: the run `library`
has a small `LenMod`, so that lengths wrap; `RoundTrip` was checked with 16.  Each inductive
invariant has also been checked with TLC on the instance of the module's run
(`NumbersInv` with its witnesses computed, since it quantifies over functions to `Nat`).

*Heap.*  `BlocksDisjoint` is not inductive: a merge keeps blocks disjoint only because both
are blocks of the heap, which needs the free list to be one ring of such blocks
(`OneRing`), blocks to lie between `stack_top` and the break (`BlocksInHeap`; the list
head lies below, so it is never merged with), and the walks to stand on the list
(`CallInProgress`, which also says that a call in progress cannot push the break
around).  `IInv` is their conjunction.  The ring is stated as closure: every
nonempty set of free blocks that is closed under `link` contains the list head.
That form is preserved by linking in and unlinking one block (`RingInsert`,
`RingRemove`), and every change of the list is one of the two, or both: a merge with
the successor unlinks it and then links in the freed block.  There is one lemma
per action, and in it one step per conjunct.

`NoUnitLost` says that every block starts where another one ends, or at `stack_top`.  For
growth to keep that, the break itself must be such a place, until a refused request
has moved it beyond `stack_bottom`: `Tiled`.  A split or a merge removes no end that a
block starts at (`TilesKept`).  `NullOnlyWhenNothingFits` needs to
know what a walk in progress has seen: `SearchedSoFar` says that the blocks passed
are closed under `link` up to the one the walk stands on, so that when it is
back at `freep` the ring makes them all of the list.  `HeapRefinesAbstract` maps every
action to one of `HeapAbs` or to a stuttering step; what the abstract steps ask
of a region is `IInv`'s.

`HeapWalksEnd` is the part of `CallsReturn` that is about the list and not about scheduling.
A walk is described without counting its steps: whatever set of blocks contains the one
it stands on and is closed under `link` contains what ends it.  The list is finite and
`link` one-to-one on it, hence onto (`RingOnto`), so a closed set is the whole list
(`RingMet`).  Then `free` finds a place: if no block below its own were followed by one above,
the ring would lie below it altogether, and the block before the list head is a place.

*Keyboard.*  `KeyboardTypes` is inductive and enough: the controller's flag goes with a code it
holds, so the queue is that code followed by the keyboard's own.  `KeyQueue` has no
fairness, so `KeyboardImplementsQueue` is the whole of `ImplementsKeyQueue`.

*ATA.*  `ReadInv` ties the place of the driver in its loops to the state of the drive it
talks to: once the first look has found BSY clear, the command has ended (`Ended`), and
the second look sees the drive as it is, whatever noise it showed before; all other drives
are at rest.  `SectorInv` adds that the registers designate the sector asked for
from the command on; the arithmetic of `Registers` is inverted in lemmas of their own.
`ProbeInv` is the same for `identify_drive`, which has only `QuietWhileBusy` in place of the
second look: that is where the hypothesis is used, and nowhere else.

*PCI.*  `AddressRoundTrip` shows that the bits of a configuration address designate the function
that was meant.  `PciInv` says that the functions found so far are those before the
current one in the order of the loops, that the counter is their number and that
a function's place in the table is its rank; a write of the next entry then meets
none of the others unless the table is full.

*Terminal.*  `ColourDiscipline` is about the whole stack of calls; the invariant says that only the
outermost call can have set a colour (`OutermostColours`), which makes the step of
the innermost one local, and that a number conversion is always about to begin
another (`RunawayOnTop`).

*Numbers.*  `Value` is a recursive function, as are the powers of two; what they compute is shown with
the least element of a set of counterexamples (`LeastNumber`), without the library's
induction: there are values that satisfy the recursion (`HornerExists`) and no
others (`HornerUnique`), so `Value` is known once the values of all prefixes are given
(`ValueIs`).  `NumbersInv` gives them: the numbers that `i` has gone through in `itoa`
(`Quotients`), which read backwards are the prefixes of what is written; for `atoi` the sums
and powers of ten as they would be without overflow, which `result` and `mul` equal
modulo the word (`Sums`); that summing from the right is the same as `Value` from the
left is `SumIsValue`.  `Halving` says that after k digits 2^k times what is left is at
most the number, whence `TbufSuffices`.  `Legible` carries what was written in base ten
into `atoi`, for the round trip.

*Kernel.*  `KernelNothingHandedOut` follows from `BootHeap`: the free list never holds more than
its head, and `sbrk` refuses everything.  `BootHeapIsEmpty` says this of `Heap` alone, for
every caller.  `BootInv` says what is at address 0 after each function found and each
drive probed, and contains `ProbeInv` of the probe: for the steps of those parts the
lemmas of `AtaProbeProofs`, which it extends, and of `PciProofs`, through `INSTANCE`, are used.  `Screen` counts the
lines printed by probe and by poll.

*Strings.*  `StringsInv` has a loop invariant for every loop.  `memcpy` with its destination
inside its source reads what it wrote; the invariant says which byte of the
source that was, by the remainder.  For `strcpy` it says that no 0 is met before
the first one of the source, and none at all if the copy starts inside the string.
For the loops that write nothing it says what they have found equal (`CompareLoop`), and
for `memset` that the cell it takes its value from keeps it, even inside the destination (`Filled`).
`TokensSplit` rests on the delimiters passed being exactly the ends of the tokens returned.
Where an induction over addresses is needed it is by the least element of a set
of numbers (`LeastOf`), which needs no operator as a parameter.

Only model-checked is what needs fairness, about which this prover cannot reason:
`CallsReturn`, `PollEnds`, `PrintReturns`, `KernelLoopReached`, `CallEnds`, `KeyArrives`, and the
fairness of `HeapAbs` within `ImplementsHeapAbs`.

## Not modelled

All code of the kernel that changes state is modelled.  What is left:

* port access (`sys/system.c`) is single instructions, `boot/grub.cfg` is data;
* `libs/` is third-party code (newlib and build scripts) that the kernel is not linked
  with.  It makes up almost the whole repository by lines;
* the side of `ata.c`'s merge conflicts that `kernel.c` cannot be linked with;
* the characters on the screen, `isalpha`, `isalnum` and `get_all_devices`, which nothing reads;
* the break of the heap once it has wrapped around, and the seven largest arguments
  of `malloc`.
