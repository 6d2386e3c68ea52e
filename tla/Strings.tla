------------------------------- MODULE Strings ------------------------------
(***************************************************************************)
(* The functions of string.c and memory.c on memory cell by memory cell,   *)
(* one step per loop iteration.                                            *)
(*                                                                         *)
(* A behaviour is one call on arbitrary memory, or, of strsep, as many as  *)
(* its caller makes.  A pointer that a loop moves is its base (dst or src) *)
(* and the number of iterations.  Cells 0 to Top are the memory the kernel *)
(* has; a loop that leaves it is astray and is followed no further.        *)
(***************************************************************************)
EXTENDS Integers, FiniteSets, Sequences

CONSTANTS
  Top,       \* the last cell
  Byte,      \* what a cell holds; 0 ends a string
  Delims,    \* the characters of strsep's delimiter string
  Counts,    \* lengths, and the factors calloc is given
  IntMod    \* values of an int: 2^32

ASSUME StringsAssumption ==
  /\ Top \in Nat /\ IntMod \in Nat \ {0}
  /\ 0 \in Byte /\ Delims \subseteq Byte \ {0}
  /\ Counts \subseteq 0 .. IntMod - 1

Addr == 0 .. Top
NULL == 0

Loops == {"strlen", "memcpy", "memcmp", "memset", "strcpy", "strcmp", "strsep"}
Functions == Loops \cup {"strdup", "calloc"}

VARIABLES
  fn,       \* the function called
  at,       \* the loop it is in, "malloc", "idle", "done" or "astray"
  mem, old, \* the memory, now and before the first call (history)
  dst, src, \* destination (or first operand) and source
  n,        \* number of bytes
  steps,    \* iterations of the loop
  ret,      \* what the call returned
  string,   \* the pointer strsep is given the address of
  tokens,   \* what strsep has returned (history)
  wanted    \* number * size of calloc, not reduced (history)

stringsvars == <<fn, at, mem, old, dst, src, n, steps, ret, string, tokens, wanted>>

StringsInit ==
  /\ fn \in Functions /\ at = "idle"
  /\ mem \in [Addr -> Byte] /\ old = mem
  /\ dst = NULL /\ src = NULL /\ n = 0 /\ steps = 0
  /\ ret = 0 /\ string = NULL /\ tokens = <<>> /\ wanted = 0

-----------------------------------------------------------------------------
(* Calls.  memcpy, memcmp, memset, strcpy, strcmp, strlen and strdup. *)
Call(to, from, num) ==
  /\ at = "idle" /\ fn \in Functions \ {"strsep", "calloc"}
  /\ fn \in {"strlen", "strdup"} => to = 1
  /\ fn \in {"strlen", "strdup", "strcpy", "strcmp"} => num = 0
  /\ dst' = to /\ src' = from /\ n' = num
  /\ at' = IF fn = "strdup" THEN "strlen" ELSE fn
  /\ UNCHANGED <<fn, mem, old, steps, ret, string, tokens, wanted>>

(* number * size, of 32 bits *)
BytesOf(number, size) == (number * size) % IntMod

Calloc(number, size) ==
  /\ at = "idle" /\ fn = "calloc"
  /\ n' = BytesOf(number, size) /\ wanted' = number * size
  /\ at' = "malloc"
  /\ UNCHANGED <<fn, mem, old, dst, src, steps, ret, string, tokens>>

(* The caller calls strsep on a string, and again until it is told NULL. *)
StrsepCall(p) ==
  /\ fn = "strsep"
  /\ \/ at = "idle" /\ p # NULL
     \/ at = "done" /\ p = string
  /\ src' = p /\ steps' = 0
  /\ IF p = NULL THEN at' = "done" /\ ret' = NULL
                 ELSE at' = "strsep" /\ UNCHANGED ret
  /\ string' = p
  /\ UNCHANGED <<fn, mem, old, dst, n, tokens, wanted>>

(* malloc gives an address with room for n bytes that nobody has, or NULL, *)
(* and its callers do not look.                                            *)
MallocGives(a) ==
  \/ a = NULL
  \/ a # NULL /\ a + n - 1 <= Top
     /\ (fn = "strdup" => a + n <= src \/ src + n <= a)

(* Mutant: memset is given a pointer to a cell that is not cell 0. *)
CallocValueAtBlock(a) == a

(* The second argument calloc gives to memset is 0, a pointer. *)
CallocValue(a) == NULL

Malloc(a) ==
  /\ at = "malloc" /\ MallocGives(a)
  /\ dst' = a /\ steps' = 0
  /\ IF fn = "strdup" THEN at' = "memcpy" /\ UNCHANGED src
                      ELSE at' = "memset" /\ src' = CallocValue(a)
  /\ UNCHANGED <<fn, mem, old, n, ret, string, tokens, wanted>>

-----------------------------------------------------------------------------
(* Mutant: one byte more. *)
LeftOneMore == steps <= n

(* while(n--) *)
Left == steps # n

(* Mutant: the copy runs from the end to the start. *)
CopyIndexDown == n - 1 - steps

CopyIndex == steps

(* The cells the next iteration reads or writes. *)
Touched ==
  CASE at \in {"strlen", "strsep"} -> {src + steps}
    [] at \in {"memcpy", "memcmp", "memset"} /\ ~ Left -> {}
    [] at = "memset" -> {src, dst + steps}
    [] at = "memcpy" -> {src + CopyIndex, dst + CopyIndex}
    [] OTHER -> {src + steps, dst + steps}

Astray ==
  /\ at \in Loops /\ ~ Touched \subseteq Addr
  /\ at' = "astray"
  /\ UNCHANGED <<fn, mem, old, dst, src, n, steps, ret, string, tokens, wanted>>

(* What every iteration has in common: it is loop's turn. *)
Iteration(loop) ==
  /\ at = loop /\ Touched \subseteq Addr
  /\ UNCHANGED <<fn, old, dst, src, wanted>>

Again == steps' = steps + 1 /\ UNCHANGED <<at, ret>>
Return(r) == at' = "done" /\ ret' = r /\ UNCHANGED steps

DupBytes == steps + 1

StrlenStep ==
  /\ Iteration("strlen")
  /\ \/ mem[src + steps] # 0 /\ Again /\ UNCHANGED n
     \/ mem[src + steps] = 0 /\ fn = "strlen" /\ Return(steps) /\ UNCHANGED n
     \/ /\ mem[src + steps] = 0 /\ fn = "strdup"
        /\ n' = DupBytes /\ at' = "malloc" /\ UNCHANGED <<steps, ret>>
  /\ UNCHANGED <<mem, string, tokens>>

MemcpyStep ==
  /\ Iteration("memcpy")
  /\ \/ Left /\ Again
        /\ mem' = [mem EXCEPT ![dst + CopyIndex] = mem[src + CopyIndex]]
     \/ ~ Left /\ Return(dst) /\ UNCHANGED mem
  /\ UNCHANGED <<n, string, tokens>>

(* memset's callers get nothing back; calloc returns the block. *)
MemsetStep ==
  /\ Iteration("memset")
  /\ \/ Left /\ Again /\ mem' = [mem EXCEPT ![dst + steps] = mem[src]]
     \/ ~ Left /\ Return(dst) /\ UNCHANGED mem
  /\ UNCHANGED <<n, string, tokens>>

(* n when while(n--) has ended *)
NAfterLoop == -1

(* Mutant: the source may end before the other operand does. *)
DifferUpToEnd == mem[src + steps] # 0 /\ mem[dst + steps] # mem[src + steps]

Differ == mem[dst + steps] # mem[src + steps]

MemcmpStep ==
  /\ Iteration("memcmp")
  /\ \/ Left /\ ~ Differ /\ Again
     \/ Left /\ Differ /\ Return(0)
     \/ ~ Left /\ Return(NAfterLoop)
  /\ UNCHANGED <<mem, n, string, tokens>>

(* Mutant: the source is tested after its cell has been left. *)
CopiedLastNext == src + steps + 1 \in Addr /\ mem[src + steps + 1] = 0

CopiedLast == mem[src + steps] = 0

StrcpyStep ==
  /\ Iteration("strcpy")
  /\ mem' = [mem EXCEPT ![dst + steps] = mem[src + steps]]
  /\ IF CopiedLast THEN Return(steps) ELSE Again
  /\ UNCHANGED <<n, string, tokens>>

StrcmpStep ==
  /\ Iteration("strcmp")
  /\ \/ Differ /\ Return(1)
     \/ ~ Differ /\ mem[src + steps] = 0 /\ Return(0)
     \/ ~ Differ /\ mem[src + steps] # 0 /\ Again
  /\ UNCHANGED <<mem, n, string, tokens>>

(* Mutant: the next token starts with the delimiter. *)
AfterDelimiterHere == src + steps

AfterDelimiter == src + steps + 1

(* The inner loop finds out whether the character is a delimiter or 0. *)
StrsepStep ==
  /\ Iteration("strsep")
  /\ \/ mem[src + steps] \notin Delims \cup {0} /\ Again
        /\ UNCHANGED <<mem, string, tokens>>
     \/ /\ mem[src + steps] \in Delims \cup {0} /\ Return(src)
        /\ mem' = [mem EXCEPT ![src + steps] = 0]
        /\ string' = IF mem[src + steps] = 0 THEN NULL ELSE AfterDelimiter
        /\ tokens' = Append(tokens, src)
  /\ UNCHANGED n

Running ==
  \/ StrlenStep \/ MemcpyStep \/ MemsetStep \/ MemcmpStep
  \/ StrcpyStep \/ StrcmpStep \/ StrsepStep \/ Astray
  \/ \E a \in Addr : Malloc(a)

StringsNext ==
  \/ \E to, from \in Addr \ {NULL}, num \in Counts : Call(to, from, num)
  \/ \E number, size \in Counts : Calloc(number, size)
  \/ \E p \in 0 .. Top + 1 : StrsepCall(p)
  \/ Running

(* A call that has begun runs on. *)
StringsSpec == StringsInit /\ [][StringsNext]_stringsvars /\ WF_stringsvars(Running)

-----------------------------------------------------------------------------
(* The string at p in the old memory: its end, if it has one. *)
Ended(p) == \E e \in p .. Top : old[e] = 0
End(p) == CHOOSE e \in p .. Top : old[e] = 0 /\ \A k \in p .. e - 1 : old[k] # 0

(* The memory is the old one but for m cells from a on. *)
OnlyChanged(a, m) == \A k \in Addr \ (a .. a + m - 1) : mem[k] = old[k]

(* memcpy copies upwards: the destination gets the source, and where it    *)
(* begins inside the source, the cells before it over and over.            *)
MemcpyMeaning ==
  at = "done" /\ fn = "memcpy" =>
    /\ OnlyChanged(dst, n) /\ ret = dst
    /\ \A k \in 0 .. n - 1 :
         mem[dst + k] = IF src < dst /\ dst < src + n
                        THEN old[src + (k % (dst - src))] ELSE old[src + k]

(* The strings at p and q are the same. *)
SameString(p, q) ==
  /\ Ended(p) /\ Ended(q) /\ End(p) - p = End(q) - q
  /\ \A k \in 0 .. End(q) - q : old[p + k] = old[q + k]

(* strlen returns the distance of the end; strcmp 0 for equal strings, of  *)
(* which none is a prefix of the other, and 1 else; memcmp -1 for equal    *)
(* operands and 0 for others, where the C standard has 0 for equal ones.   *)
(* They change nothing.  memset fills the destination, and nothing else,   *)
(* with the cell it was given, which may lie inside.                       *)
ResultsMean ==
  at = "done" =>
    /\ fn \in {"strlen", "strcmp", "memcmp"} => mem = old
    /\ fn = "strlen" => Ended(src) /\ ret = End(src) - src
    /\ fn = "strcmp" => ret = IF SameString(dst, src) THEN 0 ELSE 1
    /\ fn = "memcmp" => ret = IF \A k \in 0 .. n - 1 : old[dst + k] = old[src + k]
                                 THEN -1 ELSE 0
    /\ fn = "memset" => /\ OnlyChanged(dst, n)
                        /\ \A k \in 0 .. n - 1 : mem[dst + k] = old[src]

(* strcpy returns, with a copy of the string and its length, exactly if    *)
(* there is a string, with room for it, and the destination does not lie   *)
(* behind the start of the source and within it: there it would overwrite  *)
(* the 0 it is looking for.                                                *)
StrcpyReturnsIff ==
  fn = "strcpy" /\ at \in {"done", "astray"} =>
    LET fits == /\ Ended(src) /\ dst + End(src) - src <= Top
                /\ ~ (src < dst /\ dst <= End(src))
    IN  /\ (at = "done") <=> fits
        /\ fits => /\ ret = End(src) - src /\ OnlyChanged(dst, ret + 1)
                   /\ \A k \in 0 .. ret : mem[dst + k] = old[src + k]

(* Once strsep has said NULL it has returned every token of the string     *)
(* once, empty ones included, and in order: the first starts at the start, *)
(* the others behind a delimiter; and it has replaced the delimiters of    *)
(* the string by 0, and changed nothing else.                              *)
TokensSplit ==
  fn = "strsep" /\ at = "done" /\ string = NULL =>
    LET first == tokens[1]
        seps == {k \in first .. End(first) : old[k] \in Delims}
    IN  /\ Ended(first)
        /\ {tokens[t] : t \in DOMAIN tokens} = {first} \cup {k + 1 : k \in seps}
        /\ \A t \in 1 .. Len(tokens) - 1 : tokens[t] < tokens[t + 1]
        /\ mem = [k \in Addr |-> IF k \in seps THEN 0 ELSE old[k]]

(* Neither caller of malloc looks at what it returned, so what follows is  *)
(* true of address 0 too.  strdup writes the string, its end included, and *)
(* calloc fills the block, of the product modulo 2^32, with the byte that  *)
(* is at address 0: with zeros only if there is one.  Nothing else changes.*)
AllocationsFilled ==
  at = "done" =>
    /\ fn = "strdup" =>
         LET bytes == End(src) - src + 1
         IN  /\ OnlyChanged(ret, bytes)
             /\ \A k \in 0 .. bytes - 1 : mem[ret + k] = old[src + k]
    /\ fn = "calloc" =>
         LET bytes == wanted % IntMod
         IN  /\ OnlyChanged(ret, bytes)
             /\ \A k \in 0 .. bytes - 1 : mem[ret + k] = old[0]

(* Every call ends: it returns, or it leaves the memory, and that only if  *)
(* a range it was given does or a string in it has no end, or it is strcpy *)
(* (see StrcpyReturnsIff).                                                 *)
CallEnds ==
  at \in Loops \cup {"malloc"} ~>
    \/ at = "done"
    \/ at = "astray" /\ \/ fn = "strcpy"
                        \/ fn \in {"memcpy", "memcmp", "memset", "calloc"}
                             /\ dst + n - 1 > Top
                        \/ fn \in {"memcpy", "memcmp"} /\ src + n - 1 > Top
                        \/ fn \in {"strlen", "strdup", "strsep", "strcmp"}
                             /\ ~ Ended(src)
                        \/ fn = "strcmp" /\ ~ Ended(dst)

=============================================================================
