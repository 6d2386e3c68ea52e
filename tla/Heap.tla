-------------------------------- MODULE Heap --------------------------------
(***************************************************************************)
(* The kernel heap: sbrk (sys/sbrk.c), malloc and free (sys/malloc.c).     *)
(*                                                                         *)
(* Addresses are counted in units of one union header (8 bytes on i686).   *)
(* Every block starts on a unit and sbrk is only ever asked for whole      *)
(* units, so nothing is lost by it; only the argument of malloc is in      *)
(* bytes.  Address 0 is the null pointer.  A block is named by the address *)
(* of its header; the pointer a caller holds is that address plus one.     *)
(*                                                                         *)
(* The kernel has one thread and takes no interrupts, so calls do not      *)
(* overlap.  They are nevertheless split into one step per loop iteration: *)
(* whether the two list walks terminate is part of what is checked.        *)
(*                                                                         *)
(* Data abstraction: memory is tracked only where it holds the header of a *)
(* block (and, for link, of a free block).  What lies elsewhere belongs to *)
(* the callers, and is 0 in the model.  So are the locals of a call that   *)
(* has returned.                                                           *)
(***************************************************************************)
EXTENDS Naturals

CONSTANTS
  AddrUnits,    \* units in the address space: 2^29 for 32-bit pointers
  StackTop,     \* &stack_top of boot.asm, where sbrk starts the heap
  StackBottom,  \* &stack_bottom of boot.asm, where sbrk ends the heap
  Freelist,     \* &freelist, the list head in .data
  BLOCK,        \* units malloc asks of sbrk at least (malloc.h)
  Requests,     \* the nbytes arguments callers pass to malloc
  BreakBound    \* bound: no malloc call may move g_heap beyond this unit

Addr == 0 .. AddrUnits - 1
NULL == 0
HeaderSize == 8

(***************************************************************************)
(* What the link map fixes whatever the sizes: .data, hence freelist, lies *)
(* below .bss, hence below the stack (linker.ld).  The order of stack_top  *)
(* and stack_bottom is left open: boot.asm has the top above the bottom,   *)
(* sbrk.c reads as if it were below.                                       *)
(***************************************************************************)
ASSUME LayoutAssumption ==
  /\ AddrUnits \in Nat
  /\ StackTop \in Addr
  /\ StackBottom \in Addr
  /\ Freelist \in 1 .. StackTop - 1
  /\ BLOCK \in 1 .. AddrUnits
  /\ BreakBound \in Nat

(* An unsigned argument; the seven largest values overflow the rounding of *)
(* malloc.c line 9 and are left out (see the README).                      *)
ASSUME RequestsAssumption ==
  Requests \subseteq 0 .. HeaderSize * (AddrUnits - 1)

VARIABLES
  g_heap,   \* the break, NULL until the first sbrk
  freep,    \* where the next search starts
  link,     \* s.link of the header at every address
  size,     \* s.size of the header at every address, in units
  pc,       \* "idle", in malloc: "search" or "grow", in free: "place"
  cur,      \* malloc's q, free's p
  nbytes,   \* malloc's argument
  bp,       \* the block free is putting back
  free,     \* history: the blocks on the free list, freelist included
  live      \* history: the blocks callers own

listvars == <<freep, link, size>>
vars == <<g_heap, freep, link, size, pc, cur, nbytes, bp, free, live>>

Init ==
  /\ g_heap = NULL
  /\ freep = Freelist
  /\ link = [a \in Addr |-> IF a = Freelist THEN Freelist ELSE NULL]
  /\ size = [a \in Addr |-> 0]
  /\ pc = "idle"
  /\ cur = NULL
  /\ nbytes = 0
  /\ bp = NULL
  /\ free = {Freelist}
  /\ live = {}

(* Pointer arithmetic modulo 2^32 bytes: a sum of two values of the        *)
(* address space wraps at most once.                                       *)
Plus(a, n) == IF a + n < AddrUnits THEN a + n ELSE a + n - AddrUnits

(* Mutant: rounds down. *)
UnitsRoundDown(n) == n \div HeaderSize + 1

(* Units for n bytes and a header. *)
Units(n) == (n + HeaderSize - 1) \div HeaderSize + 1

(* Mutant: always asks for a BLOCK. *)
GrowthAlwaysBlock == BLOCK

(* What malloc asks of sbrk when no free block fits. *)
Growth == IF Units(nbytes) < BLOCK THEN BLOCK ELSE Units(nbytes)

-----------------------------------------------------------------------------
(* Mutants: the heap never starts, or starts over when exhausted. *)
BreakNeverSet == g_heap
BreakStartsOver == IF g_heap = NULL \/ g_heap >= StackBottom THEN StackTop ELSE g_heap

(* sbrk: the break moves whether or not the request is granted. *)

Break == IF g_heap = NULL THEN StackTop ELSE g_heap

(* Mutant: moves the break one unit short. *)
SbrkShort(n) == g_heap' = Plus(Break, n) - 1

Sbrk(n) == g_heap' = Plus(Break, n)

(* Mutant: the test for a heap that grows down. *)
SbrkRefusedBelow(n) == Plus(Break, n) <= StackBottom

SbrkRefused(n) == Plus(Break, n) >= StackBottom

-----------------------------------------------------------------------------
(* malloc *)

MallocCall(n) ==
  /\ pc = "idle"
  /\ Break + Units(n) <= BreakBound /\ Break + BLOCK <= BreakBound
  /\ nbytes' = n
  /\ cur' = freep
  /\ pc' = "search"
  /\ UNCHANGED <<g_heap, listvars, bp, free, live>>

(* The end of a call: its locals are gone. *)
Return == pc' = "idle" /\ cur' = NULL /\ nbytes' = 0 /\ bp' = NULL

(* malloc returns the address behind header b. *)
MallocReturn(b) ==
  /\ freep' = cur
  /\ live' = live \cup {b}
  /\ Return

(* Mutant: splits any block of another size. *)
MallocSplitUnequal ==
  LET p    == link[cur]
      rest == size[p] - Units(nbytes)
      tail == Plus(p, rest)
  IN /\ pc = "search"
     /\ size[p] # Units(nbytes)
     /\ size' = [size EXCEPT ![p] = rest, ![tail] = Units(nbytes)]
     /\ MallocReturn(tail)
     /\ UNCHANGED <<g_heap, link, free>>

(* A larger block is split; the caller gets its tail. *)
MallocSplit ==
  LET p    == link[cur]
      rest == size[p] - Units(nbytes)
      tail == Plus(p, rest)
  IN /\ pc = "search"
     /\ size[p] > Units(nbytes)
     /\ size' = [size EXCEPT ![p] = rest, ![tail] = Units(nbytes)]
     /\ MallocReturn(tail)
     /\ UNCHANGED <<g_heap, link, free>>

(* Mutant: leaves the block on the list. *)
MallocExactStillLinked ==
  LET p == link[cur]
  IN /\ pc = "search"
     /\ size[p] = Units(nbytes)
     /\ MallocReturn(p)
     /\ free' = free \ {p}
     /\ UNCHANGED <<g_heap, link, size>>

(* A block of just the right size is unlinked. *)
MallocExact ==
  LET p == link[cur]
  IN /\ pc = "search"
     /\ size[p] = Units(nbytes)
     /\ link' = [link EXCEPT ![cur] = link[p], ![p] = NULL]
     /\ MallocReturn(p)
     /\ free' = free \ {p}
     /\ UNCHANGED <<g_heap, size>>

(* Mutant: gives up one block early. *)
MallocPassStopsEarly ==
  LET p == link[cur]
  IN /\ pc = "search"
     /\ size[p] < Units(nbytes)
     /\ cur' = p
     /\ pc' = IF link[p] = freep THEN "grow" ELSE "search"
     /\ UNCHANGED <<g_heap, listvars, nbytes, bp, free, live>>

(* A smaller block is passed over, until the walk is back at freep. *)
MallocPass ==
  LET p == link[cur]
  IN /\ pc = "search"
     /\ size[p] < Units(nbytes)
     /\ cur' = p
     /\ pc' = IF p = freep THEN "grow" ELSE "search"
     /\ UNCHANGED <<g_heap, listvars, nbytes, bp, free, live>>

(* Mutant: records the size asked for, not the one granted. *)
MallocGrowRecordsRequest ==
  LET p == Break
  IN /\ pc = "grow"
     /\ ~ SbrkRefused(Growth)
     /\ Sbrk(Growth)
     /\ size' = [size EXCEPT ![p] = Units(nbytes)]
     /\ link' = [link EXCEPT ![p] = link[freep], ![freep] = p]
     /\ free' = free \cup {p}
     /\ cur' = freep
     /\ pc' = "search"
     /\ UNCHANGED <<freep, nbytes, bp, live>>

(* New memory is linked in right behind freep, and the search starts over. *)
MallocGrow ==
  LET p == Break
  IN /\ pc = "grow"
     /\ ~ SbrkRefused(Growth)
     /\ Sbrk(Growth)
     /\ size' = [size EXCEPT ![p] = Growth]
     /\ link' = [link EXCEPT ![p] = link[freep], ![freep] = p]
     /\ free' = free \cup {p}
     /\ cur' = freep
     /\ pc' = "search"
     /\ UNCHANGED <<freep, nbytes, bp, live>>

MallocFail ==
  /\ pc = "grow"
  /\ SbrkRefused(Growth)
  /\ Sbrk(Growth)
  /\ Return
  /\ UNCHANGED <<listvars, free, live>>

-----------------------------------------------------------------------------
(* free.  free(0) returns at once and changes nothing.  Callers pass what  *)
(* malloc gave them, once.                                                 *)

FreeCall(b) ==
  /\ pc = "idle"
  /\ bp' = b
  /\ cur' = freep
  /\ pc' = "place"
  /\ live' = live \ {b}
  /\ UNCHANGED <<g_heap, listvars, nbytes, free>>

(* Mutant: forgets the end of the list. *)
BetweenInside(p, n) == bp > p /\ bp < n

(* bp belongs between p and its successor n, or at the end of the list. *)
Between(p, n) ==
  \/ bp > p /\ bp < n
  \/ p >= n /\ (bp > p \/ bp < n)

FreeAdvance ==
  /\ pc = "place"
  /\ ~ Between(cur, link[cur])
  /\ cur' = link[cur]
  /\ UNCHANGED <<g_heap, listvars, pc, nbytes, bp, free, live>>

(* bp is merged with its successor, its predecessor, both or neither.  A   *)
(* header that is merged away ceases to be one.                            *)
FreeLink ==
  LET n     == link[cur]
      right == Plus(bp, size[bp]) = n
      left  == Plus(cur, size[cur]) = bp
      len   == IF right THEN size[bp] + size[n] ELSE size[bp]
      next  == IF right THEN link[n] ELSE n
      gone  == (IF right THEN {n} ELSE {}) \cup (IF left THEN {bp} ELSE {})
      head  == IF left THEN cur ELSE bp
  IN /\ pc = "place"
     /\ Between(cur, n)
     /\ size' = [a \in Addr |->
                   IF a \in gone THEN 0
                   ELSE IF a # head THEN size[a]
                   ELSE IF left THEN size[cur] + len ELSE len]
     /\ link' = [a \in Addr |->
                   IF a \in gone THEN NULL
                   ELSE IF a = head THEN next
                   ELSE IF a = cur THEN bp ELSE link[a]]
     /\ freep' = cur
     /\ free' = (free \cup {bp}) \ gone
     /\ Return
     /\ UNCHANGED <<g_heap, live>>

-----------------------------------------------------------------------------
Malloc == MallocSplit \/ MallocExact \/ MallocPass \/ MallocGrow \/ MallocFail
Free == FreeAdvance \/ FreeLink

Next ==
  \/ \E n \in Requests : MallocCall(n)
  \/ \E b \in live : FreeCall(b)
  \/ Malloc
  \/ Free

(* A call that has begun runs on: nothing preempts the kernel.  Callers    *)
(* need not call again.                                                    *)
Spec == Init /\ [][Next]_vars /\ WF_vars(Malloc) /\ WF_vars(Free)

-----------------------------------------------------------------------------
(* Every variable holds a value of its C type, and the two lists of the    *)
(* model are sets of header addresses.                                     *)
TypeOK ==
  /\ g_heap \in Addr
  /\ freep \in Addr
  /\ link \in [Addr -> Addr]
  /\ size \in [Addr -> Nat]
  /\ pc \in {"idle", "search", "grow", "place"}
  /\ cur \in Addr
  /\ nbytes \in Requests \cup {0}
  /\ bp \in Addr
  /\ free \in SUBSET Addr
  /\ live \in SUBSET Addr

(* All blocks cut from the heap: on the list, with a caller, or in free's  *)
(* hands.                                                                  *)
Blocks == (free \ {Freelist}) \cup live
            \cup (IF pc = "place" THEN {bp} ELSE {})

Extent(b) == b .. b + size[b] - 1

(* No two blocks share a unit, whatever sequence of splits, merges and     *)
(* growths produced them, and no block is both free and owned: writing to  *)
(* one never touches another, nor its header.                              *)
BlocksDisjoint ==
  /\ free \cap live = {}
  /\ pc = "place" => bp \notin free \cup live
  /\ \A a, b \in Blocks : a # b => a + size[a] <= b \/ b + size[b] <= a

(* Nothing is lost: the blocks tile the memory sbrk granted, from          *)
(* stack_top on.  A split that drops a unit, a merge that forgets one, or  *)
(* an unlink that loses a block would leave a gap.                         *)
NoUnitLost ==
  \A b \in Blocks :
    /\ b = StackTop \/ \E a \in Blocks : a + size[a] = b
    /\ Extent(b) \subseteq StackTop .. StackBottom - 1

(* The links l form one ring through freelist and just the blocks F: no    *)
(* block of F is left out, and no part of F closes on itself.              *)
Ring(F, l) ==
  /\ Freelist \in F
  /\ \A a \in F : l[a] \in F
  /\ \A a, b \in F : l[a] = l[b] => a = b
  /\ \A S \in SUBSET F :
       S # {} /\ (\A a \in S : l[a] \in S) => Freelist \in S

(* A walk from freep meets every free block and only free blocks, although *)
(* malloc links new memory in behind freep and not in address order.       *)
OneRing == freep \in free /\ Ring(free, link)

(* No later call resizes or moves a block its owner still holds.           *)
LiveUntouched ==
  [][\A b \in live \cap live' : size'[b] = size[b]]_vars

(* malloc returns 0 only if no block on the list was large enough: the     *)
(* walk from wherever freep stood missed none.                             *)
NullOnlyWhenNothingFits ==
  [][pc = "grow" /\ pc' = "idle" => \A b \in free : size[b] < Units(nbytes)]_vars

(* The recursive call after a growth succeeds on the first block it looks  *)
(* at, so malloc never recurses twice.                                     *)
GrowthSatisfiesCall ==
  [][pc = "grow" /\ pc' = "search" => size'[link'[cur']] >= Units(nbytes)]_vars

(* "No more heap" is final: once a refused request has left the break at   *)
(* or beyond stack_bottom it stays there, and sbrk refuses every later     *)
(* request, however small.                                                 *)
ExhaustionIsFinal ==
  [][g_heap >= StackBottom => g_heap' >= StackBottom]_vars

(* In a layout with stack_bottom at or below stack_top, boot.asm's, every  *)
(* malloc fails: nothing is ever handed out.                               *)
NothingHandedOut == live = {} /\ free = {Freelist}

(* Every call of malloc and of free returns. *)
CallsReturn == pc # "idle" ~> pc = "idle"

(* malloc and free implement the abstract heap: what malloc returns has    *)
(* room for the bytes asked for, lies in the heap and overlaps no block in *)
(* use, and every malloc is answered.                                      *)
Abstract == INSTANCE HeapAbs WITH
  Arena    <- StackTop .. StackBottom - 1,
  MaxUnits <- AddrUnits,
  owned    <- {<<b, size[b]>> : b \in live},
  asking   <- IF pc \in {"search", "grow"} THEN {nbytes} ELSE {}

ImplementsHeapAbs == Abstract!Spec

-----------------------------------------------------------------------------
(* The parts of the inductive invariant that are not properties of their   *)
(* own.  They hold as long as the break does not wrap (BreakBound).        *)

BlocksInHeap ==
  /\ size[Freelist] = 0
  /\ StackTop <= Break
  /\ \A b \in Blocks :
       /\ StackTop <= b
       /\ 1 <= size[b]
       /\ b + size[b] <= Break
       /\ b + size[b] <= StackBottom

(* The walks stay on the list, and a call that still has to grow the heap  *)
(* is one the bound admitted.                                              *)
CallInProgress ==
  /\ pc \in {"search", "place"} => cur \in free
  /\ pc = "search" => \/ Break + Growth <= BreakBound
                       \/ size[link[cur]] >= Units(nbytes)
  /\ pc = "grow" => Break + Growth <= BreakBound

(* The inductive invariant behind BlocksDisjoint and OneRing: it adds      *)
(* where the blocks lie and what a call in progress may assume.            *)
IInv == TypeOK /\ OneRing /\ BlocksInHeap /\ BlocksDisjoint /\ CallInProgress

=============================================================================
