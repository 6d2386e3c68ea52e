---------------------------- MODULE StringsProofs ---------------------------
(***************************************************************************)
(* What the functions of string.c and calloc do to memory and return, for  *)
(* every size and content of memory, every string and every pair of        *)
(* operands, overlapping or not.                                           *)
(***************************************************************************)
EXTENDS Strings, WellFoundedInduction, TLAPS

(* The types, and which loops a function is made of. *)
Shape ==
  /\ fn \in Functions /\ at \in Loops \cup {"malloc", "idle", "done", "astray"}
  /\ mem \in [Addr -> Byte] /\ old \in [Addr -> Byte]
  /\ dst \in Addr /\ src \in 0 .. Top + 1 /\ string \in 0 .. Top + 1
  /\ n \in Nat /\ steps \in Nat /\ wanted \in Nat
  /\ fn # "strsep" => src \in Addr
  /\ at \in Loops => \/ at = fn
                     \/ fn = "strdup" /\ at \in {"strlen", "memcpy"}
                     \/ fn = "calloc" /\ at = "memset"
  /\ at = "malloc" => fn \in {"strdup", "calloc"}
  /\ at \in {"idle", "malloc", "strlen", "memcmp", "strcmp"} => mem = old
  /\ at = "done" /\ fn \in {"strlen", "memcmp", "strcmp"} => mem = old
  /\ at = "idle" => steps = 0 /\ tokens = <<>>

(* A string of n bytes, its end included, starts at src: strlen's loop is  *)
(* at its character steps, and strdup knows.                               *)
StringSeen ==
  /\ at = "strlen" => \A k \in 0 .. steps - 1 : src + k \in Addr /\ old[src + k] # 0
  /\ fn = "strdup" /\ at \in {"malloc", "memcpy", "done"} =>
       /\ n >= 1 /\ src + n - 1 \in Addr /\ old[src + n - 1] = 0
       /\ \A k \in 0 .. n - 2 : old[src + k] # 0
  /\ fn = "strdup" /\ at \in {"memcpy", "done"} => ~ (src < dst /\ dst < src + n)

(* What memcpy has copied so far. *)
Copied ==
  /\ steps <= n
  /\ OnlyChanged(dst, steps)
  /\ \A k \in 0 .. steps - 1 :
       /\ dst + k \in Addr
       /\ mem[dst + k] = IF src < dst /\ dst < src + n THEN old[src + (k % (dst - src))] ELSE old[src + k]

CopyLoop ==
  /\ at = "memcpy" => Copied
  /\ at = "done" /\ fn \in {"memcpy", "strdup"} => Copied /\ steps = n /\ ret = dst

(* What memset has filled so far: with the cell it was given, which it may *)
(* overwrite, but with itself; calloc gives it address 0.                  *)
Filled ==
  /\ steps <= n
  /\ mem[src] = old[src]
  /\ OnlyChanged(dst, steps)
  /\ \A k \in 0 .. steps - 1 : dst + k \in Addr /\ mem[dst + k] = old[src]

FillLoop ==
  /\ fn = "calloc" /\ at \in {"malloc", "memset", "done"} => n = wanted % IntMod
  /\ fn = "calloc" /\ at \in {"memset", "done"} => src = 0
  /\ at = "memset" => Filled
  /\ at = "done" /\ fn \in {"memset", "calloc"} => Filled /\ steps = n /\ ret = dst

(* The first m cells of the operands are the same, and, of strings, no 0.  *)
SameUpTo(m) == \A k \in 0 .. m - 1 : dst + k \in Addr /\ src + k \in Addr /\ old[dst + k] = old[src + k]
NoZeroUpTo(m) == \A k \in 0 .. m - 1 : src + k \in Addr /\ old[src + k] # 0

(* What the loops that write nothing have seen, and what they returned. *)
CompareLoop ==
  /\ at \in {"memcmp", "strcmp"} => SameUpTo(steps)
  /\ at = "memcmp" => steps <= n
  /\ at = "strcmp" => NoZeroUpTo(steps)
  /\ at = "done" /\ fn = "strlen" =>
       ret = steps /\ NoZeroUpTo(steps) /\ src + steps \in Addr /\ old[src + steps] = 0
  /\ at = "done" /\ fn = "memcmp" =>
       \/ ret = -1 /\ SameUpTo(n)
       \/ ret = 0 /\ steps < n /\ old[dst + steps] # old[src + steps]
  /\ at = "done" /\ fn = "strcmp" =>
       /\ SameUpTo(steps) /\ NoZeroUpTo(steps) /\ src + steps \in Addr /\ dst + steps \in Addr
       /\ \/ ret = 0 /\ old[src + steps] = 0 /\ old[dst + steps] = 0
          \/ ret = 1 /\ old[dst + steps] # old[src + steps]

(* What strcpy has copied so far.  As long as it has not read              *)
(* what it wrote it is the source; and never a 0.                          *)
StrcpyLoop ==
  /\ at = "strcpy" =>
       /\ OnlyChanged(dst, steps)
       /\ \A k \in 0 .. steps - 1 : dst + k \in Addr /\ src + k \in Addr /\ mem[dst + k] # 0
       /\ \A k \in 0 .. steps - 1 : dst <= src \/ src + k < dst => mem[dst + k] = old[src + k]
  /\ StrcpyReturnsIff

(* How strsep has split the string up to c, where the next token starts:   *)
(* tk is what it has returned, m the memory and o the old one.             *)
First(tk, c) == IF tk = <<>> THEN c ELSE tk[1]
Seps(o, f, c) == {k \in f .. c - 1 : o[k] \in Delims}
Returned(tk) == {tk[t] : t \in DOMAIN tk}
Rising(tk) == \A t \in 1 .. Len(tk) - 1 : tk[t] < tk[t + 1]
Cut(o, Q) == [k \in Addr |-> IF k \in Q THEN 0 ELSE o[k]]
NoEnd(o, f, c) == \A k \in f .. c - 1 : k \in Addr /\ o[k] # 0

SplitUpTo(m, o, tk, c) ==
  /\ First(tk, c) \in 1 .. c
  /\ NoEnd(o, First(tk, c), c)
  /\ Returned(tk) \cup {c} = {First(tk, c)} \cup {k + 1 : k \in Seps(o, First(tk, c), c)}
  /\ \A t \in DOMAIN tk : tk[t] < c
  /\ Rising(tk)
  /\ m = Cut(o, Seps(o, First(tk, c), c))

(* The whole string is split; its end is at e. *)
SplitWhole(m, o, tk, e) ==
  /\ tk[1] \in 1 .. e /\ e \in Addr /\ o[e] = 0
  /\ NoEnd(o, tk[1], e)
  /\ Returned(tk) = {tk[1]} \cup {k + 1 : k \in Seps(o, tk[1], e)}
  /\ Rising(tk)
  /\ m = Cut(o, Seps(o, tk[1], e))

SplitLoop ==
  fn = "strsep" =>
    /\ tokens \in Seq(Nat)
    /\ at = "strsep" => /\ src # 0 /\ SplitUpTo(mem, old, tokens, src)
                        /\ \A k \in 0 .. steps - 1 : src + k \in Addr /\ old[src + k] \notin Delims \cup {0}
    /\ at = "done" /\ string # NULL => SplitUpTo(mem, old, tokens, string)
    /\ at = "done" /\ string = NULL => \E e \in Addr : SplitWhole(mem, old, tokens, e)

(* The inductive invariant. *)
StringsInv ==
  /\ Shape /\ StringSeen /\ CopyLoop /\ FillLoop
  /\ CompareLoop /\ StrcpyLoop /\ SplitLoop

LEMMA Constants ==
  /\ Top \in Nat /\ IntMod \in Nat \ {0} /\ 0 \in Byte
  /\ 0 \in Addr /\ Addr \subseteq Nat
  /\ 0 \notin Delims /\ Counts \subseteq Nat
BY StringsAssumption DEF Addr

LEMMA InitStrings == StringsInit => StringsInv
<1> SUFFICES ASSUME StringsInit PROVE StringsInv
  OBVIOUS
<1>1. Shape
  BY Constants DEF StringsInit, Shape, NULL, Loops
<1>2. StringSeen /\ CopyLoop /\ FillLoop /\ CompareLoop /\ StrcpyLoop
  BY DEF StringsInit, StringSeen, CopyLoop, FillLoop, CompareLoop, StrcpyLoop, StrcpyReturnsIff
<1>3. SplitLoop
  BY DEF StringsInit, SplitLoop
<1> QED BY <1>1, <1>2, <1>3 DEF StringsInv

-----------------------------------------------------------------------------
(* Calls *)
LEMMA CallInv ==
  ASSUME StringsInv, NEW to \in Addr \ {NULL}, NEW from \in Addr \ {NULL}, NEW num \in Counts,
         Call(to, from, num)
  PROVE  StringsInv'
<1> USE DEF Call
<1>1. /\ at = "idle" /\ steps = 0 /\ mem = old /\ UNCHANGED <<fn, mem, old, steps, ret, string, tokens, wanted>>
      /\ dst' = to /\ src' = from /\ n' = num /\ num \in Nat
      /\ at' = IF fn = "strdup" THEN "strlen" ELSE fn
      /\ fn \in {"strlen", "memcpy", "memcmp", "memset", "strcpy", "strcmp", "strdup"}
  BY Constants DEF StringsInv, Shape, Functions, Loops
<1>2. Shape'
  BY <1>1, Constants DEF StringsInv, Shape, Loops, Functions, Addr
<1>3. StringSeen'
  BY <1>1 DEF StringSeen
<1>4. CopyLoop'
  BY <1>1 DEF CopyLoop, Copied, OnlyChanged
<1>5. StrcpyLoop'
  BY <1>1 DEF StrcpyLoop, StrcpyReturnsIff, OnlyChanged
<1>6. CompareLoop'
  BY <1>1 DEF CompareLoop, SameUpTo, NoZeroUpTo
<1>7. FillLoop'
  BY <1>1 DEF FillLoop, Filled, OnlyChanged
<1> QED BY <1>1, <1>2, <1>3, <1>4, <1>5, <1>6, <1>7 DEF StringsInv, SplitLoop

LEMMA CallocInv ==
  ASSUME StringsInv, NEW number \in Counts, NEW sz \in Counts, Calloc(number, sz)
  PROVE  StringsInv'
<1> USE DEF Calloc
<1>1. number \in Nat /\ sz \in Nat /\ number * sz \in Nat
  BY Constants
<1>2. PICK w \in Nat : w = number * sz
  BY <1>1
<1>3. n' = w % IntMod /\ wanted' = w /\ w % IntMod \in Nat
  BY <1>2, Constants DEF BytesOf
<1>4. Shape'
  BY <1>3 DEF StringsInv, Shape, Loops
<1>5. FillLoop'
  BY <1>3 DEF FillLoop
<1> QED BY <1>4, <1>5
    DEF StringsInv, CompareLoop, StringSeen, CopyLoop, StrcpyLoop, SplitLoop, StrcpyReturnsIff

LEMMA MallocInv ==
  ASSUME StringsInv, NEW a \in Addr, Malloc(a)
  PROVE  StringsInv'
<1> USE DEF Malloc
<1>1. /\ fn \in {"strdup", "calloc"} /\ at' = IF fn = "strdup" THEN "memcpy" ELSE "memset"
      /\ mem = old /\ steps' = 0 /\ dst' = a
      /\ src' = IF fn = "strdup" THEN src ELSE 0
  BY DEF StringsInv, Shape, CallocValue, NULL
<1>2. Shape'
  BY <1>1, Constants DEF StringsInv, Shape, Loops
<1>3. StringSeen'
  <2>1. fn = "strdup" => ~ (src < a /\ a < src + n)
    BY Constants DEF MallocGives, NULL, StringsInv, Shape, Addr
  <2> QED BY <1>1, <2>1 DEF StringsInv, StringSeen
<1>4. CopyLoop'
  BY <1>1 DEF StringsInv, Shape, CopyLoop, Copied, OnlyChanged
<1>5. FillLoop'
  BY <1>1 DEF StringsInv, Shape, FillLoop, Filled, OnlyChanged
<1> QED BY <1>1, <1>2, <1>3, <1>4, <1>5
    DEF StringsInv, CompareLoop, StrcpyLoop, SplitLoop, StrcpyReturnsIff

LEMMA AstrayShape ==
  ASSUME StringsInv, Astray
  PROVE  /\ Shape' /\ StringSeen' /\ CopyLoop' /\ FillLoop' /\ CompareLoop' /\ SplitLoop'
         /\ fn # "strcpy" => StrcpyLoop'
<1> USE DEF Astray
<1>1. Shape'
  BY DEF StringsInv, Shape, Loops
<1> QED BY <1>1
    DEF StringsInv, CompareLoop, StringSeen, CopyLoop, FillLoop, SplitLoop, StrcpyLoop, StrcpyReturnsIff

-----------------------------------------------------------------------------
(* The loops that write nothing *)
LEMMA StrlenInv ==
  ASSUME StringsInv, StrlenStep
  PROVE  StringsInv'
<1> USE DEF StrlenStep, Iteration
<1>1. /\ at = "strlen" /\ fn \in {"strlen", "strdup"} /\ mem = old /\ src + steps \in Addr
      /\ src \in Addr /\ steps \in Nat /\ src \in Nat
      /\ UNCHANGED <<fn, mem, old, dst, src, string, tokens, wanted>>
  BY Constants DEF StringsInv, Shape, Touched, Loops
<1>2. CASE old[src + steps] # 0
  <2>1. at' = at /\ steps' = steps + 1 /\ n' = n
    BY <1>1, <1>2 DEF Again
  <2>2. Shape'
    BY <1>1, <2>1 DEF StringsInv, Shape
  <2>3. StringSeen'
    BY <1>1, <1>2, <2>1 DEF StringsInv, StringSeen
  <2> QED BY <1>1, <2>1, <2>2, <2>3
      DEF StringsInv, CompareLoop, CopyLoop, FillLoop, StrcpyLoop, SplitLoop, StrcpyReturnsIff
<1>3. CASE old[src + steps] = 0 /\ fn = "strlen"
  <2>1. at' = "done" /\ steps' = steps /\ n' = n /\ ret' = steps
    BY <1>1, <1>3 DEF Return
  <2>2. Shape'
    BY <1>1, <2>1 DEF StringsInv, Shape, Loops
  <2>3. CompareLoop'
    BY <1>1, <1>3, <2>1 DEF StringsInv, StringSeen, CompareLoop, NoZeroUpTo
  <2> QED BY <1>1, <1>3, <2>1, <2>2, <2>3
      DEF StringsInv, StringSeen, CopyLoop, FillLoop, StrcpyLoop, SplitLoop, StrcpyReturnsIff
<1>4. CASE old[src + steps] = 0 /\ fn = "strdup"
  <2>1. at' = "malloc" /\ steps' = steps /\ n' = steps + 1
    BY <1>1, <1>4 DEF DupBytes
  <2>2. Shape'
    BY <1>1, <1>4, <2>1 DEF StringsInv, Shape, Loops
  <2>3. StringSeen'
    BY <1>1, <1>4, <2>1 DEF StringsInv, StringSeen
  <2> QED BY <1>1, <1>4, <2>1, <2>2, <2>3
      DEF StringsInv, CompareLoop, CopyLoop, FillLoop, StrcpyLoop, SplitLoop, StrcpyReturnsIff
<1> QED BY <1>1, <1>2, <1>3, <1>4

LEMMA CompareInv ==
  ASSUME StringsInv, MemcmpStep \/ StrcmpStep
  PROVE  StringsInv'
<1>1. /\ at \in {"memcmp", "strcmp"} /\ fn = at /\ mem = old /\ Touched \subseteq Addr
      /\ dst \in Nat /\ src \in Nat /\ steps \in Nat /\ n \in Nat
      /\ UNCHANGED <<fn, mem, old, dst, src, n, string, tokens, wanted>>
      /\ at' \in {at, "done"} /\ steps' \in {steps, steps + 1}
      /\ SameUpTo(steps)
  BY Constants
      DEF MemcmpStep, StrcmpStep, Iteration, Again, Return, StringsInv, Shape, Loops, CompareLoop
<1>2. Shape'
  BY <1>1 DEF StringsInv, Shape, Loops
<1>3. ASSUME ~ Differ, dst + steps \in Addr, src + steps \in Addr
      PROVE  SameUpTo(steps + 1)
  <2> SUFFICES ASSUME NEW k \in 0 .. steps
               PROVE  dst + k \in Addr /\ src + k \in Addr /\ old[dst + k] = old[src + k]
    BY <1>1 DEF SameUpTo
  <2>1. k = steps \/ k \in 0 .. steps - 1
    BY <1>1
  <2> QED BY <1>1, <1>3, <2>1 DEF SameUpTo, Differ
<1>4. CompareLoop'
  <2>1. CASE MemcmpStep
    <3>1. at = "memcmp" /\ fn = "memcmp" /\ steps <= n
      BY <1>1, <2>1 DEF MemcmpStep, Iteration, StringsInv, CompareLoop
    <3>2. CASE ~ Left
      <4>1. at' = "done" /\ ret' = -1 /\ steps = n
        BY <2>1, <3>1, <3>2 DEF MemcmpStep, Return, NAfterLoop, Left
      <4> QED BY <1>1, <3>1, <4>1 DEF CompareLoop, SameUpTo
    <3>3. CASE Left
      <4>1. dst + steps \in Addr /\ src + steps \in Addr /\ steps < n
        BY <1>1, <3>1, <3>3 DEF Touched, Left
      <4>2. CASE Differ
        <5>1. at' = "done" /\ ret' = 0 /\ steps' = steps /\ old[dst + steps] # old[src + steps]
          BY <1>1, <2>1, <3>3, <4>2 DEF MemcmpStep, Return, Differ
        <5> QED BY <1>1, <3>1, <4>1, <5>1 DEF CompareLoop
      <4>3. CASE ~ Differ
        <5>1. at' = at /\ steps' = steps + 1
          BY <2>1, <3>3, <4>3 DEF MemcmpStep, Again
        <5>2. SameUpTo(steps + 1)
          BY <1>3, <4>1, <4>3
        <5> QED BY <1>1, <3>1, <4>1, <5>1, <5>2 DEF CompareLoop, SameUpTo
      <4> QED BY <4>2, <4>3
    <3> QED BY <3>2, <3>3
  <2>2. CASE StrcmpStep
    <3>1. /\ at = "strcmp" /\ fn = "strcmp" /\ NoZeroUpTo(steps)
          /\ dst + steps \in Addr /\ src + steps \in Addr
      BY <1>1, <2>2 DEF StrcmpStep, Iteration, StringsInv, CompareLoop, Touched
    <3>2. CASE Differ
      <4>1. at' = "done" /\ ret' = 1 /\ steps' = steps /\ old[dst + steps] # old[src + steps]
        BY <1>1, <2>2, <3>2 DEF StrcmpStep, Return, Differ
      <4> QED BY <1>1, <3>1, <4>1 DEF CompareLoop, SameUpTo, NoZeroUpTo
    <3>3. CASE ~ Differ /\ mem[src + steps] = 0
      <4>1. at' = "done" /\ ret' = 0 /\ steps' = steps /\ old[src + steps] = 0 /\ old[dst + steps] = 0
        BY <1>1, <2>2, <3>3 DEF StrcmpStep, Return, Differ
      <4> QED BY <1>1, <3>1, <4>1 DEF CompareLoop, SameUpTo, NoZeroUpTo
    <3>4. CASE ~ Differ /\ mem[src + steps] # 0
      <4>1. at' = at /\ steps' = steps + 1
        BY <2>2, <3>4 DEF StrcmpStep, Again
      <4>2. SameUpTo(steps + 1)
        BY <1>3, <3>1, <3>4
      <4>3. NoZeroUpTo(steps + 1)
        <5> SUFFICES ASSUME NEW k \in 0 .. steps PROVE src + k \in Addr /\ old[src + k] # 0
          BY <1>1 DEF NoZeroUpTo
        <5>1. k = steps \/ k \in 0 .. steps - 1
          BY <1>1
        <5> QED BY <1>1, <3>1, <3>4, <5>1 DEF NoZeroUpTo
      <4> QED BY <1>1, <3>1, <4>1, <4>2, <4>3 DEF CompareLoop, SameUpTo, NoZeroUpTo
    <3> QED BY <3>2, <3>3, <3>4
  <2> QED BY <2>1, <2>2
<1> QED BY <1>1, <1>2, <1>4
    DEF StringsInv, StringSeen, CopyLoop, FillLoop, StrcpyLoop, SplitLoop, StrcpyReturnsIff

-----------------------------------------------------------------------------
(* memcpy *)

(* Going once more around an overlap does not change the remainder. *)
LEMMA Around ==
  ASSUME NEW k \in Nat, NEW c \in Nat \ {0}
  PROVE  /\ k < c => k % c = k
         /\ k >= c => k - c \in Nat /\ (k - c) % c = k % c
<1>1. \A q \in Nat : \A r \in 0 .. c - 1 : (q * c + r) % c = r
  OBVIOUS
<1>2. k < c => k % c = k
  BY <1>1, 0 * c + k = k
<1>3. ASSUME k >= c PROVE k - c \in Nat /\ (k - c) % c = k % c
  <2>1. PICK q \in Nat, r \in 0 .. c - 1 : k - c = q * c + r
    <3>1. k - c \in Nat
      BY <1>3
    <3>2. k - c = ((k - c) \div c) * c + ((k - c) % c)
      BY <3>1
    <3>3. (k - c) \div c \in Nat /\ (k - c) % c \in 0 .. c - 1
      BY <3>1
    <3> QED BY <3>2, <3>3
  <2>2. k = (q + 1) * c + r
    BY <2>1
  <2> QED BY <1>1, <1>3, <2>1, <2>2
<1> QED BY <1>2, <1>3

(* The next cell: it may be one that was copied before. *)
LEMMA CopyOne ==
  ASSUME StringsInv, at = "memcpy", Left, src + steps \in Addr
  PROVE  mem[src + steps] = IF src < dst /\ dst < src + n THEN old[src + (steps % (dst - src))] ELSE old[src + steps]
<1>1. /\ Copied /\ src \in Nat /\ dst \in Nat /\ steps \in Nat /\ n \in Nat /\ steps < n
  BY Constants DEF StringsInv, CopyLoop, Shape, Left, Copied, Loops
<1>2. CASE src < dst /\ dst < src + n
  <2> DEFINE c == dst - src
  <2>1. c \in Nat \ {0}
    BY <1>1, <1>2
  <2>2. CASE steps < c
    <3>1. src + steps \notin dst .. dst + steps - 1
      BY <1>1, <2>2
    <3>2. mem[src + steps] = old[src + steps]
      BY <1>1, <3>1 DEF Copied, OnlyChanged
    <3>3. steps % c = steps
      BY <1>1, <2>1, <2>2, Around
    <3> QED BY <1>2, <3>2, <3>3
  <2>3. CASE steps >= c
    <3>1. (steps - c) % c = steps % c
      BY <1>1, <2>1, <2>3, Around
    <3>2. steps - c \in 0 .. steps - 1 /\ src + steps = dst + (steps - c)
      BY <1>1, <2>1, <2>3
    <3>3. mem[dst + (steps - c)] = old[src + ((steps - c) % c)]
      BY <1>1, <1>2, <3>2 DEF Copied
    <3> QED BY <1>2, <3>1, <3>2, <3>3
  <2> QED BY <1>1, <2>1, <2>2, <2>3
<1>3. CASE ~ (src < dst /\ dst < src + n)
  <2>1. src + steps \notin dst .. dst + steps - 1
    BY <1>1, <1>3
  <2> QED BY <1>1, <1>3, <2>1 DEF Copied, OnlyChanged
<1> QED BY <1>2, <1>3

LEMMA MemcpyInv ==
  ASSUME StringsInv, MemcpyStep
  PROVE  StringsInv'
<1> USE DEF MemcpyStep, Iteration
<1>1. /\ at = "memcpy" /\ fn \in {"memcpy", "strdup"}
      /\ UNCHANGED <<fn, old, dst, src, n, string, tokens, wanted>>
      /\ dst \in Nat /\ steps \in Nat /\ n \in Nat
      /\ Copied
  BY Constants DEF StringsInv, Shape, Loops, CopyLoop
<1>2. CASE Left
  <2>1. /\ at' = at /\ steps' = steps + 1 /\ mem' = [mem EXCEPT ![dst + steps] = mem[src + steps]]
        /\ src + steps \in Addr /\ dst + steps \in Addr
    BY <1>1, <1>2 DEF Again, CopyIndex, Touched
  <2>2. /\ mem' \in [Addr -> Byte] /\ mem'[dst + steps] = mem[src + steps]
        /\ \A k \in Addr : k # dst + steps => mem'[k] = mem[k]
    BY <2>1 DEF StringsInv, Shape
  <2>3. Shape'
    BY <1>1, <2>1, <2>2 DEF StringsInv, Shape, Loops
  <2>4. StringSeen'
    BY <1>1, <2>1 DEF StringsInv, StringSeen
  <2>5. Copied'
    <3>1. steps + 1 <= n
      BY <1>1, <1>2 DEF Copied, Left
    <3>2. \A k \in Addr \ (dst .. dst + steps) : mem'[k] = old[k]
      <4> SUFFICES ASSUME NEW k \in Addr \ (dst .. dst + steps) PROVE mem'[k] = old[k]
        OBVIOUS
      <4>1. k \in Nat /\ k # dst + steps /\ k \notin dst .. dst + steps - 1
        BY <1>1, Constants
      <4> QED BY <1>1, <2>2, <4>1 DEF Copied, OnlyChanged
    <3>3. ASSUME NEW k \in 0 .. steps
          PROVE  /\ dst + k \in Addr
                 /\ mem'[dst + k] = IF src < dst /\ dst < src + n THEN old[src + (k % (dst - src))] ELSE old[src + k]
      <4>1. CASE k = steps
        BY <1>1, <1>2, <2>1, <2>2, <4>1, CopyOne
      <4>2. CASE k # steps
        <5>1. k \in 0 .. steps - 1 /\ dst + k # dst + steps
          BY <1>1, <4>2
        <5> QED BY <1>1, <2>2, <5>1 DEF Copied
      <4> QED BY <4>1, <4>2
    <3> QED
      <4>1. steps' = steps + 1 /\ dst + steps' - 1 = dst + steps
        BY <1>1, <2>1
      <4> QED BY <1>1, <3>1, <3>2, <3>3, <4>1 DEF Copied, OnlyChanged
  <2>6. CopyLoop'
    BY <1>1, <2>1, <2>5 DEF CopyLoop
  <2> QED BY <1>1, <2>1, <2>3, <2>4, <2>6
      DEF StringsInv, CompareLoop, FillLoop, StrcpyLoop, SplitLoop, StrcpyReturnsIff
<1>3. CASE ~ Left
  <2>1. at' = "done" /\ ret' = dst /\ steps' = steps /\ mem' = mem /\ steps = n
    BY <1>1, <1>3 DEF Return, Left
  <2>2. Shape'
    BY <1>1, <2>1 DEF StringsInv, Shape, Loops
  <2>3. StringSeen'
    BY <1>1, <2>1 DEF StringsInv, StringSeen
  <2>4. CopyLoop'
    BY <1>1, <2>1 DEF CopyLoop, Copied, OnlyChanged
  <2> QED BY <1>1, <2>1, <2>2, <2>3, <2>4
      DEF StringsInv, CompareLoop, FillLoop, StrcpyLoop, SplitLoop, StrcpyReturnsIff
<1> QED BY <1>2, <1>3

-----------------------------------------------------------------------------
(* memset, and calloc through it *)
LEMMA MemsetInv ==
  ASSUME StringsInv, MemsetStep
  PROVE  StringsInv'
<1> USE DEF MemsetStep, Iteration
<1>1. /\ at = "memset" /\ fn \in {"memset", "calloc"}
      /\ UNCHANGED <<fn, old, dst, src, n, string, tokens, wanted>>
      /\ dst \in Nat /\ steps \in Nat /\ n \in Nat /\ src \in Addr
      /\ Filled /\ (fn = "calloc" => n = wanted % IntMod /\ src = 0)
  BY Constants DEF StringsInv, Shape, Loops, FillLoop
<1>2. CASE Left
  <2>1. /\ at' = at /\ steps' = steps + 1 /\ mem' = [mem EXCEPT ![dst + steps] = mem[src]]
        /\ dst + steps \in Addr
    BY <1>1, <1>2 DEF Again, Touched
  <2>2. /\ mem' \in [Addr -> Byte] /\ mem'[dst + steps] = mem[src]
        /\ \A k \in Addr : k # dst + steps => mem'[k] = mem[k]
    BY <1>1, <2>1 DEF StringsInv, Shape
  <2>3. Shape'
    BY <1>1, <2>1, <2>2 DEF StringsInv, Shape, Loops
  <2>4. Filled'
    <3>1. mem[src] = old[src] /\ steps + 1 <= n
      BY <1>1, <1>2 DEF Filled, Left
    <3>2. mem'[src] = old[src]
      BY <1>1, <2>2, <3>1
    <3>3. \A k \in Addr \ (dst .. dst + steps) : mem'[k] = old[k]
      <4> SUFFICES ASSUME NEW k \in Addr \ (dst .. dst + steps) PROVE mem'[k] = old[k]
        OBVIOUS
      <4>1. k \in Nat /\ k # dst + steps /\ k \notin dst .. dst + steps - 1
        BY <1>1, Constants
      <4> QED BY <1>1, <2>2, <4>1 DEF Filled, OnlyChanged
    <3>4. ASSUME NEW k \in 0 .. steps PROVE dst + k \in Addr /\ mem'[dst + k] = old[src]
      <4>1. CASE k = steps
        BY <2>1, <2>2, <3>1, <4>1
      <4>2. CASE k # steps
        <5>1. k \in 0 .. steps - 1 /\ dst + k # dst + steps
          BY <1>1, <4>2
        <5> QED BY <1>1, <2>2, <5>1 DEF Filled
      <4> QED BY <4>1, <4>2
    <3> QED
      <4>1. steps' = steps + 1 /\ dst + steps' - 1 = dst + steps
        BY <1>1, <2>1
      <4> QED BY <1>1, <3>1, <3>2, <3>3, <3>4, <4>1 DEF Filled, OnlyChanged
  <2>5. FillLoop'
    BY <1>1, <2>1, <2>4 DEF FillLoop
  <2> QED BY <1>1, <2>1, <2>3, <2>5
      DEF StringsInv, CompareLoop, StringSeen, CopyLoop, StrcpyLoop, SplitLoop, StrcpyReturnsIff
<1>3. CASE ~ Left
  <2>1. at' = "done" /\ ret' = dst /\ steps' = steps /\ mem' = mem /\ steps = n
    BY <1>1, <1>3 DEF Return, Left
  <2>2. Shape'
    BY <1>1, <2>1 DEF StringsInv, Shape, Loops
  <2>3. FillLoop'
    BY <1>1, <2>1 DEF FillLoop, Filled, OnlyChanged
  <2> QED BY <1>1, <2>1, <2>2, <2>3
      DEF StringsInv, CompareLoop, StringSeen, CopyLoop, StrcpyLoop, SplitLoop, StrcpyReturnsIff
<1> QED BY <1>2, <1>3

-----------------------------------------------------------------------------
(* Where a string ends *)
LEMMA LeastOf ==
  ASSUME NEW T, T \subseteq Nat, T # {}
  PROVE  \E x \in T : \A y \in T : x <= y
<1>1. PICK x \in T : \A y \in T : ~ (<<y, x>> \in OpToRel(<, Nat))
  BY NatLessThanWellFounded, WFMin, Zenon
<1>2. \A y \in T : ~ (y < x)
  BY <1>1 DEF OpToRel
<1> QED BY <1>2

(* The first 0 is the end. *)
LEMMA EndIs ==
  ASSUME Shape, NEW p \in Nat, NEW e \in p .. Top,
         old[e] = 0, \A k \in p .. e - 1 : old[k] # 0
  PROVE  Ended(p) /\ End(p) = e
<1>1. Ended(p)
  BY DEF Ended
<1>2. ASSUME NEW x \in p .. Top, old[x] = 0, \A k \in p .. x - 1 : old[k] # 0
      PROVE  x = e
  <2>1. ~ (x < e) /\ ~ (e < x)
    BY <1>2, Constants
  <2> QED BY <2>1, Constants
<1>3. End(p) \in p .. Top /\ old[End(p)] = 0 /\ \A k \in p .. End(p) - 1 : old[k] # 0
  BY DEF End
<1> QED BY <1>1, <1>2, <1>3

LEMMA EndExists ==
  ASSUME Shape, NEW p \in Nat, Ended(p)
  PROVE  /\ End(p) \in p .. Top /\ old[End(p)] = 0
         /\ \A k \in p .. End(p) - 1 : old[k] # 0
<1> DEFINE T == {e \in p .. Top : old[e] = 0}
<1>1. T \subseteq Nat /\ T # {}
  BY Constants DEF Ended
<1>2. PICK x \in T : \A y \in T : x <= y
  <2> HIDE DEF T
  <2> QED BY <1>1, LeastOf
<1>3. x \in p .. Top /\ old[x] = 0
  OBVIOUS
<1>4. \A k \in p .. x - 1 : old[k] # 0
  <2> SUFFICES ASSUME NEW k \in p .. x - 1, old[k] = 0 PROVE FALSE
    OBVIOUS
  <2>1. k \in T /\ k < x
    BY <1>3, Constants
  <2> QED BY <1>2, <2>1, <1>3, Constants
<1>5. End(p) = x
  BY <1>3, <1>4, EndIs
<1> QED BY <1>3, <1>4, <1>5

-----------------------------------------------------------------------------
(* strcpy *)

(* What strcpy reads next: the source, or, where the destination lies      *)
(* behind the start of the source, what it has written there, no 0.        *)
LEMMA StrcpyReads ==
  ASSUME StringsInv, at = "strcpy", src + steps \in Addr
  PROVE  /\ dst <= src \/ src + steps < dst => mem[src + steps] = old[src + steps]
         /\ src < dst /\ dst <= src + steps => mem[src + steps] # 0
<1>1. /\ src \in Nat /\ dst \in Nat /\ steps \in Nat
      /\ OnlyChanged(dst, steps) /\ \A k \in 0 .. steps - 1 : mem[dst + k] # 0
  BY Constants DEF StringsInv, Shape, StrcpyLoop, Loops
<1>2. ASSUME dst <= src \/ src + steps < dst PROVE mem[src + steps] = old[src + steps]
  <2>1. src + steps \notin dst .. dst + steps - 1
    BY <1>1, <1>2
  <2> QED BY <1>1, <2>1 DEF OnlyChanged
<1>3. ASSUME src < dst, dst <= src + steps PROVE mem[src + steps] # 0
  <2>1. PICK k \in 0 .. steps - 1 : src + steps = dst + k
    <3>1. (steps - (dst - src)) \in 0 .. steps - 1 /\ src + steps = dst + (steps - (dst - src))
      BY <1>1, <1>3
    <3> QED BY <3>1
  <2> QED BY <1>1, <2>1
<1> QED BY <1>2, <1>3

(* The cells of the source that strcpy has left behind held no 0. *)
LEMMA StrcpyBehind ==
  ASSUME StringsInv, at = "strcpy", NEW k \in 0 .. steps - 1, dst <= src \/ src + k < dst
  PROVE  old[src + k] # 0
BY DEF StringsInv, StrcpyLoop

LEMMA StrcpyInv ==
  ASSUME StringsInv, StrcpyStep
  PROVE  StringsInv'
<1> USE DEF StrcpyStep, Iteration
<1>1. /\ at = "strcpy" /\ fn = "strcpy"
      /\ UNCHANGED <<fn, old, dst, src, n, string, tokens, wanted>>
      /\ dst \in Nat /\ steps \in Nat /\ src \in Nat /\ src \in Addr /\ dst \in Addr
      /\ src + steps \in Addr /\ dst + steps \in Addr
      /\ mem' = [mem EXCEPT ![dst + steps] = mem[src + steps]]
  BY Constants DEF StringsInv, Shape, Loops, Touched
<1>2. /\ mem' \in [Addr -> Byte] /\ mem'[dst + steps] = mem[src + steps]
      /\ \A k \in Addr : k # dst + steps => mem'[k] = mem[k]
  BY <1>1 DEF StringsInv, Shape
<1>3. \A k \in Addr \ (dst .. dst + steps) : mem'[k] = old[k]
  <2> SUFFICES ASSUME NEW k \in Addr \ (dst .. dst + steps) PROVE mem'[k] = old[k]
    OBVIOUS
  <2>1. k \in Nat /\ k # dst + steps /\ k \notin dst .. dst + steps - 1
    BY <1>1, Constants
  <2> QED BY <1>1, <1>2, <2>1 DEF StringsInv, StrcpyLoop, OnlyChanged
<1>4. \A k \in 0 .. steps : dst + k \in Addr /\ src + k \in Addr
  <2> SUFFICES ASSUME NEW k \in 0 .. steps PROVE dst + k \in Addr /\ src + k \in Addr
    OBVIOUS
  <2>1. k = steps \/ k \in 0 .. steps - 1
    BY <1>1
  <2> QED BY <1>1, <2>1 DEF StringsInv, StrcpyLoop
<1>5. \A k \in 0 .. steps - 1 : mem'[dst + k] = mem[dst + k]
  <2> SUFFICES ASSUME NEW k \in 0 .. steps - 1 PROVE mem'[dst + k] = mem[dst + k]
    OBVIOUS
  <2>1. k \in 0 .. steps /\ dst + k # dst + steps
    BY <1>1
  <2> QED BY <1>2, <1>4, <2>1
<1>6. ASSUME NEW k \in 0 .. steps, dst <= src \/ src + k < dst
      PROVE  mem'[dst + k] = old[src + k]
  <2>1. CASE k = steps
    BY <1>1, <1>2, <1>6, <2>1, StrcpyReads
  <2>2. CASE k # steps
    <3>1. k \in 0 .. steps - 1
      BY <1>1, <2>2
    <3> QED BY <1>1, <1>5, <1>6, <3>1 DEF StringsInv, StrcpyLoop
  <2> QED BY <2>1, <2>2
<1>7. CASE CopiedLast
  <2>1. at' = "done" /\ steps' = steps /\ ret' = steps /\ mem[src + steps] = 0
    BY <1>7 DEF Return, CopiedLast
  <2>2. dst <= src \/ src + steps < dst
    BY <1>1, <2>1, StrcpyReads
  <2>3. \A k \in 0 .. steps : dst <= src \/ src + k < dst
    BY <1>1, <2>2
  <2>4. src + steps \in src .. Top /\ old[src + steps] = 0
    BY <1>1, <2>1, <2>2, StrcpyReads, Constants DEF Addr
  <2>5. \A k \in src .. src + steps - 1 : old[k] # 0
    <3> SUFFICES ASSUME NEW k \in src .. src + steps - 1 PROVE old[k] # 0
      OBVIOUS
    <3>1. PICK j \in 0 .. steps - 1 : k = src + j
      <4>1. k - src \in 0 .. steps - 1 /\ k = src + (k - src)
        BY <1>1
      <4> QED BY <4>1
    <3> QED BY <1>1, <2>3, <3>1, StrcpyBehind
  <2>6. Ended(src) /\ End(src) = src + steps
    BY <1>1, <2>4, <2>5, EndIs DEF StringsInv
  <2>7. Shape'
    BY <1>1, <1>2, <2>1 DEF StringsInv, Shape, Loops
  <2>8. StrcpyReturnsIff'
    <3>1. (Ended(src))' /\ (End(src))' = src + steps
      BY <1>1, <2>6 DEF Ended, End
    <3>2. dst + (src + steps) - src <= Top /\ ~ (src < dst /\ dst <= src + steps) /\ (src + steps) - src = steps
      BY <1>1, <2>2, Constants DEF Addr
    <3>3. (OnlyChanged(dst, ret + 1))'
      <4>1. dst' + (ret' + 1) - 1 = dst + steps
        BY <1>1, <2>1
      <4> QED BY <1>1, <1>3, <4>1 DEF OnlyChanged
    <3>4. \A k \in 0 .. ret' : mem'[dst' + k] = old'[src' + k]
      BY <1>1, <1>6, <2>1, <2>3
    <3> QED BY <1>1, <2>1, <3>1, <3>2, <3>3, <3>4 DEF StrcpyReturnsIff
  <2>9. StrcpyLoop'
    BY <2>1, <2>8 DEF StrcpyLoop
  <2> QED BY <1>1, <2>1, <2>7, <2>9
      DEF StringsInv, CompareLoop, StringSeen, CopyLoop, FillLoop, SplitLoop
<1>8. CASE ~ CopiedLast
  <2>1. at' = at /\ steps' = steps + 1 /\ mem[src + steps] # 0
    BY <1>8 DEF Again, CopiedLast
  <2>2. Shape'
    BY <1>1, <1>2, <2>1 DEF StringsInv, Shape, Loops
  <2>3. (OnlyChanged(dst, steps))'
    <3>1. dst' + steps' - 1 = dst + steps
      BY <1>1, <2>1
    <3> QED BY <1>1, <1>3, <3>1 DEF OnlyChanged
  <2>4. 0 .. steps' - 1 = 0 .. steps
    BY <1>1, <2>1
  <2>5. \A k \in 0 .. steps : mem'[dst + k] # 0
    <3> SUFFICES ASSUME NEW k \in 0 .. steps PROVE mem'[dst + k] # 0
      OBVIOUS
    <3>1. k = steps \/ k \in 0 .. steps - 1
      BY <1>1
    <3> QED BY <1>1, <1>2, <1>5, <2>1, <3>1 DEF StringsInv, StrcpyLoop
  <2>6. \A k \in 0 .. steps : dst <= src \/ src + k < dst => mem'[dst + k] = old[src + k]
    BY <1>6
  <2>7. StrcpyLoop'
    BY <1>1, <1>4, <2>1, <2>3, <2>4, <2>5, <2>6 DEF StrcpyLoop, StrcpyReturnsIff
  <2> QED BY <1>1, <2>1, <2>2, <2>7
      DEF StringsInv, CompareLoop, StringSeen, CopyLoop, FillLoop, SplitLoop
<1> QED BY <1>7, <1>8

(* A strcpy that leaves the memory had no room, or no end to find. *)
LEMMA AstrayStrcpy ==
  ASSUME StringsInv, Astray, fn = "strcpy"
  PROVE  StrcpyLoop'
<1> USE DEF Astray
<1>1. /\ at = "strcpy" /\ at' = "astray" /\ UNCHANGED <<fn, mem, old, dst, src, steps, ret>>
      /\ dst \in Nat /\ steps \in Nat /\ src \in Nat /\ Shape
      /\ ~ (src + steps \in Addr /\ dst + steps \in Addr)
  BY Constants DEF StringsInv, Shape, Loops, Touched
<1>2. ASSUME Ended(src), dst + End(src) - src <= Top, ~ (src < dst /\ dst <= End(src))
      PROVE  FALSE
  <2>1. PICK e \in src .. Top : e = End(src) /\ old[e] = 0
    BY <1>1, <1>2, EndExists
  <2>2. e < src + steps
    BY <1>1, <1>2, <2>1, Constants DEF Addr
  <2>3. PICK j \in 0 .. steps - 1 : e = src + j
    <3>1. e - src \in 0 .. steps - 1 /\ e = src + (e - src)
      BY <1>1, <2>2, Constants
    <3> QED BY <3>1
  <2>4. dst <= src \/ src + j < dst
    BY <1>1, <1>2, <2>1, <2>3
  <2>5. old[src + j] # 0
    BY <1>1, <2>4, StrcpyBehind
  <2> QED BY <2>1, <2>3, <2>5
<1>3. StrcpyReturnsIff'
  BY <1>1, <1>2 DEF StrcpyReturnsIff, Ended, End
<1> QED BY <1>1, <1>3 DEF StrcpyLoop

-----------------------------------------------------------------------------
(* strsep *)
LEMMA StrsepCallInv ==
  ASSUME StringsInv, NEW p \in 0 .. Top + 1, StrsepCall(p)
  PROVE  StringsInv'
<1> USE DEF StrsepCall
<1>1. /\ fn = "strsep" /\ UNCHANGED <<fn, mem, old, dst, n, tokens, wanted>>
      /\ src' = p /\ steps' = 0 /\ string' = p
      /\ at' = IF p = 0 THEN "done" ELSE "strsep"
  BY DEF NULL
<1>2. Shape'
  BY <1>1 DEF StringsInv, Shape, Loops
<1>3. SplitLoop'
  <2>1. CASE at = "idle"
    <3>1. p # 0 /\ at' = "strsep" /\ tokens = <<>> /\ mem = old /\ old \in [Addr -> Byte]
      BY <1>1, <2>1 DEF NULL, StringsInv, Shape
    <3>2. SplitUpTo(mem, old, tokens, p)
      <4>1. First(tokens, p) = p /\ Seps(old, p, p) = {} /\ p \in 1 .. p /\ NoEnd(old, p, p)
        BY <1>1, <3>1, Constants DEF First, Seps, NoEnd
      <4>2. Returned(tokens) = {} /\ Rising(tokens) /\ DOMAIN tokens = {}
        BY <1>1, <3>1 DEF Returned, Rising
      <4>3. mem = Cut(old, {})
        BY <1>1, <3>1 DEF Cut
      <4> QED BY <1>1, <3>1, <4>1, <4>2, <4>3 DEF SplitUpTo
    <3> QED BY <1>1, <3>1, <3>2 DEF StringsInv, SplitLoop
  <2>2. CASE at = "done" /\ p = string
    BY <1>1, <2>2 DEF StringsInv, SplitLoop, NULL
  <2> QED BY <2>1, <2>2
<1> QED BY <1>1, <1>2, <1>3
    DEF StringsInv, CompareLoop, StringSeen, CopyLoop, FillLoop, StrcpyLoop, StrcpyReturnsIff

(* One token more: tk2 is tk with x appended. *)
OneMore(tk, tk2, x) ==
  /\ tk2 \in Seq(Nat) /\ tk2 # <<>>
  /\ tk2[1] = First(tk, x)
  /\ Returned(tk2) = Returned(tk) \cup {x}
  /\ Len(tk2) = Len(tk) + 1
  /\ \A t \in DOMAIN tk2 : tk2[t] = IF t \in DOMAIN tk THEN tk[t] ELSE x

LEMMA AppendOneMore ==
  ASSUME NEW tk \in Seq(Nat), NEW x \in Nat
  PROVE  OneMore(tk, Append(tk, x), x)
<1>1. PICK tk2 : tk2 = Append(tk, x)
  OBVIOUS
<1>2. /\ tk2 \in Seq(Nat) /\ Len(tk2) = Len(tk) + 1 /\ Len(tk) \in Nat
      /\ DOMAIN tk2 = 1 .. Len(tk) + 1 /\ DOMAIN tk = 1 .. Len(tk)
      /\ tk2[Len(tk) + 1] = x
      /\ \A t \in 1 .. Len(tk) : tk2[t] = tk[t]
  BY <1>1
<1>3. tk2 # <<>>
  BY <1>2
<1>4. tk2[1] = First(tk, x)
  BY <1>2 DEF First
<1>5. \A t \in DOMAIN tk2 : tk2[t] = IF t \in DOMAIN tk THEN tk[t] ELSE x
  BY <1>2
<1>6. Returned(tk2) = Returned(tk) \cup {x}
  <2>1. ASSUME NEW y \in Returned(tk2) PROVE y \in Returned(tk) \cup {x}
    BY <1>5 DEF Returned
  <2>2. ASSUME NEW y \in Returned(tk) PROVE y \in Returned(tk2)
    <3>1. PICK t \in DOMAIN tk : y = tk[t]
      BY DEF Returned
    <3>2. t \in DOMAIN tk2 /\ tk2[t] = y
      BY <1>2, <3>1
    <3> QED BY <3>2 DEF Returned
  <2>3. x \in Returned(tk2)
    BY <1>2 DEF Returned
  <2> QED BY <2>1, <2>2, <2>3
<1> QED BY <1>1, <1>2, <1>3, <1>4, <1>5, <1>6 DEF OneMore

(* Where a token of strsep ends: what the step does. *)
LEMMA TokenEnds ==
  ASSUME StringsInv, StrsepStep, mem[src + steps] \in Delims \cup {0},
         NEW f, f = First(tokens, src)
  PROVE  /\ mem' = Cut(old, Seps(old, f, src) \cup {src + steps})
         /\ old[src + steps] = mem[src + steps] /\ src + steps \notin Seps(old, f, src)
         /\ f \in 1 .. src /\ NoEnd(old, f, src + steps)
         /\ \A k \in src .. (src + steps) - 1 : old[k] \notin Delims
         /\ tokens' \in Seq(Nat) /\ tokens' # <<>> /\ tokens'[1] = f
         /\ Returned(tokens') = {f} \cup {k + 1 : k \in Seps(old, f, src)}
         /\ \A t \in DOMAIN tokens' : tokens'[t] <= src
         /\ Rising(tokens')
<1>1. /\ at = "strsep" /\ fn = "strsep" /\ src \in Nat /\ steps \in Nat /\ src + steps \in Addr
      /\ tokens \in Seq(Nat) /\ tokens' = Append(tokens, src)
      /\ mem' = [mem EXCEPT ![src + steps] = 0]
      /\ mem \in [Addr -> Byte]
      /\ SplitUpTo(mem, old, tokens, src)
      /\ \A k \in 0 .. steps - 1 : src + k \in Addr /\ old[src + k] \notin Delims \cup {0}
  <2>1. at = "strsep" /\ fn = "strsep" /\ src \in Nat /\ steps \in Nat /\ mem \in [Addr -> Byte]
    BY Constants DEF StrsepStep, Iteration, StringsInv, Shape, Loops
  <2>2. src + steps \in Addr
    BY <2>1 DEF StrsepStep, Iteration, Touched
  <2>3. tokens' = Append(tokens, src) /\ mem' = [mem EXCEPT ![src + steps] = 0]
    BY DEF StrsepStep
  <2>4. /\ tokens \in Seq(Nat) /\ SplitUpTo(mem, old, tokens, src)
        /\ \A k \in 0 .. steps - 1 : src + k \in Addr /\ old[src + k] \notin Delims \cup {0}
    BY <2>1 DEF StringsInv, SplitLoop
  <2> QED BY <2>1, <2>2, <2>3, <2>4
<1>2. f \in 1 .. src
  BY <1>1 DEF SplitUpTo
<1>3. PICK Q : Q = Seps(old, f, src) /\ Q \subseteq f .. src - 1
  BY DEF Seps
<1>4. /\ NoEnd(old, f, src)
      /\ Returned(tokens) \cup {src} = {f} \cup {k + 1 : k \in Q}
      /\ \A t \in DOMAIN tokens : tokens[t] < src
      /\ Rising(tokens)
      /\ mem = Cut(old, Q)
  BY <1>1, <1>2, <1>3 DEF SplitUpTo
<1>5. src + steps \notin Q
  BY <1>1, <1>2, <1>3
<1>6. \A k \in src .. (src + steps) - 1 : k \in Addr /\ old[k] \notin Delims \cup {0}
  <2> SUFFICES ASSUME NEW k \in src .. (src + steps) - 1 PROVE k \in Addr /\ old[k] \notin Delims \cup {0}
    OBVIOUS
  <2>1. k - src \in 0 .. steps - 1 /\ k = src + (k - src)
    BY <1>1
  <2>2. PICK j \in 0 .. steps - 1 : k = src + j
    BY <2>1
  <2> QED BY <1>1, <2>2
<1>7. NoEnd(old, f, src + steps)
  <2> SUFFICES ASSUME NEW k \in f .. (src + steps) - 1 PROVE k \in Addr /\ old[k] # 0
    BY Zenon DEF NoEnd
  <2>1. k \in f .. src - 1 \/ k \in src .. (src + steps) - 1
    BY <1>1, <1>2
  <2> QED BY <1>4, <1>6, <2>1 DEF NoEnd
<1>8. mem' = Cut(old, Q \cup {src + steps})
  BY <1>1, <1>4 DEF Cut
<1>9. old[src + steps] = mem[src + steps]
  BY <1>1, <1>4, <1>5 DEF Cut
<1>10. OneMore(tokens, tokens', src)
  BY <1>1, AppendOneMore
<1>11. /\ tokens' \in Seq(Nat) /\ tokens' # <<>> /\ tokens'[1] = f
       /\ Returned(tokens') = {f} \cup {k + 1 : k \in Q}
  BY <1>4, <1>10 DEF OneMore
<1>12. \A t \in DOMAIN tokens' : tokens'[t] <= src
  BY <1>1, <1>4, <1>10 DEF OneMore
<1>13. Rising(tokens')
  <2> SUFFICES ASSUME NEW t \in 1 .. Len(tokens') - 1 PROVE tokens'[t] < tokens'[t + 1]
    BY DEF Rising
  <2>1. /\ Len(tokens) \in Nat /\ DOMAIN tokens = 1 .. Len(tokens)
        /\ Len(tokens') = Len(tokens) + 1 /\ DOMAIN tokens' = 1 .. Len(tokens) + 1
    BY <1>1, <1>10, <1>11 DEF OneMore
  <2>2. t \in DOMAIN tokens /\ t \in DOMAIN tokens' /\ t + 1 \in DOMAIN tokens'
    BY <2>1
  <2>3. tokens'[t] = tokens[t] /\ tokens[t] < src
    BY <1>4, <1>10, <2>2 DEF OneMore
  <2>4. CASE t + 1 \in DOMAIN tokens
    <3>1. t \in 1 .. Len(tokens) - 1
      BY <2>1, <2>2, <2>4
    <3> QED BY <1>4, <1>10, <2>2, <2>3, <2>4, <3>1 DEF OneMore, Rising
  <2>5. CASE t + 1 \notin DOMAIN tokens
    BY <1>10, <2>2, <2>3, <2>5 DEF OneMore
  <2> QED BY <2>4, <2>5
<1> QED BY <1>2, <1>3, <1>5, <1>6, <1>7, <1>8, <1>9, <1>11, <1>12, <1>13

LEMMA StrsepInv ==
  ASSUME StringsInv, StrsepStep
  PROVE  StringsInv'
<1>1. /\ at = "strsep" /\ fn = "strsep" /\ src \in Nat /\ steps \in Nat /\ src + steps \in Addr
      /\ UNCHANGED <<fn, old, dst, src, n, wanted>>
      /\ src # 0 /\ tokens \in Seq(Nat) /\ mem \in [Addr -> Byte]
  <2>1. /\ at = "strsep" /\ fn = "strsep" /\ src \in Nat /\ steps \in Nat /\ mem \in [Addr -> Byte]
        /\ UNCHANGED <<fn, old, dst, src, n, wanted>>
    BY Constants DEF StrsepStep, Iteration, StringsInv, Shape, Loops
  <2>2. src + steps \in Addr
    BY <2>1 DEF StrsepStep, Iteration, Touched
  <2> QED BY <2>1, <2>2 DEF StringsInv, SplitLoop
<1>2. CASE mem[src + steps] \notin Delims \cup {0}
  <2>1. at' = at /\ steps' = steps + 1 /\ UNCHANGED <<mem, string, tokens>>
    BY <1>2 DEF StrsepStep, Again
  <2>2. Shape'
    BY <1>1, <2>1 DEF StringsInv, Shape, Loops
  <2>3. SplitUpTo(mem, old, tokens, src)
    BY <1>1 DEF StringsInv, SplitLoop
  <2>4. mem[src + steps] = old[src + steps]
    <3>1. PICK f : f = First(tokens, src)
      OBVIOUS
    <3>2. src + steps \notin Seps(old, f, src)
      BY <1>1, <2>3, <3>1 DEF SplitUpTo, Seps
    <3> QED BY <1>1, <2>3, <3>1, <3>2 DEF SplitUpTo, Cut
  <2>5. \A k \in 0 .. steps : src + k \in Addr /\ old[src + k] \notin Delims \cup {0}
    <3> SUFFICES ASSUME NEW k \in 0 .. steps PROVE src + k \in Addr /\ old[src + k] \notin Delims \cup {0}
      OBVIOUS
    <3>1. k = steps \/ k \in 0 .. steps - 1
      BY <1>1
    <3> QED BY <1>1, <1>2, <2>4, <3>1 DEF StringsInv, SplitLoop
  <2>6. 0 .. steps' - 1 = 0 .. steps
    BY <1>1, <2>1
  <2>7. SplitLoop'
    BY <1>1, <2>1, <2>3, <2>5, <2>6 DEF SplitLoop
  <2> QED BY <1>1, <2>1, <2>2, <2>7
      DEF StringsInv, CompareLoop, StringSeen, CopyLoop, FillLoop, StrcpyLoop, StrcpyReturnsIff
<1>3. CASE mem[src + steps] \in Delims \cup {0}
  <2>1. PICK f : f = First(tokens, src)
    OBVIOUS
  <2>2. PICK Q : Q = Seps(old, f, src)
    OBVIOUS
  <2>3. /\ at' = "done" /\ steps' = steps
        /\ string' = IF mem[src + steps] = 0 THEN 0 ELSE src + steps + 1
    BY <1>3 DEF StrsepStep, Return, AfterDelimiter, NULL
  <2>4. /\ mem' = Cut(old, Q \cup {src + steps})
        /\ old[src + steps] = mem[src + steps] /\ src + steps \notin Q
        /\ f \in 1 .. src /\ NoEnd(old, f, src + steps)
        /\ \A k \in src .. (src + steps) - 1 : old[k] \notin Delims
        /\ tokens' \in Seq(Nat) /\ tokens' # <<>> /\ tokens'[1] = f
        /\ Returned(tokens') = {f} \cup {k + 1 : k \in Q}
        /\ \A t \in DOMAIN tokens' : tokens'[t] <= src
        /\ Rising(tokens')
    BY <1>3, <2>1, <2>2, TokenEnds
  <2>5. mem' \in [Addr -> Byte]
    BY <2>4, Constants DEF StringsInv, Shape, Cut
  <2>6. string' \in 0 .. Top + 1
    BY <1>1, <2>3, Constants DEF Addr
  <2>7. Shape'
    BY <1>1, <2>3, <2>5, <2>6 DEF StringsInv, Shape, Loops
  <2>8. Seps(old, f, src + steps) = Q
    <3>1. \A k \in f .. (src + steps) - 1 : old[k] \in Delims => k \in f .. src - 1
      BY <1>1, <2>4
    <3>2. f .. src - 1 \subseteq f .. (src + steps) - 1
      BY <1>1, <2>4
    <3>3. \A k : k \in Seps(old, f, src + steps) <=> k \in f .. (src + steps) - 1 /\ old[k] \in Delims
      BY Zenon DEF Seps
    <3>4. \A k : k \in Q <=> k \in f .. src - 1 /\ old[k] \in Delims
      BY <2>2, Zenon DEF Seps
    <3>5. \A k : k \in Seps(old, f, src + steps) <=> k \in Q
      BY <3>1, <3>2, <3>3, <3>4, Zenon
    <3> QED BY <3>5, Zenon
  <2>9. CASE mem[src + steps] = 0
    <3>1. mem' = Cut(old, Q)
      BY <2>4, <2>9 DEF Cut
    <3>2. f \in 1 .. src + steps
      BY <1>1, <2>4
    <3>3. SplitWhole(mem', old', tokens', src + steps)
      BY <1>1, <2>4, <2>8, <2>9, <3>1, <3>2 DEF SplitWhole
    <3> QED BY <1>1, <2>3, <2>4, <2>7, <2>9, <3>3
            DEF StringsInv, CompareLoop, SplitLoop, StringSeen, CopyLoop, FillLoop, StrcpyLoop, StrcpyReturnsIff, NULL
  <2>10. CASE mem[src + steps] # 0
    <3>1. PICK c \in Nat : c = src + steps + 1 /\ c - 1 = src + steps /\ c # 0
      BY <1>1
    <3>2. old[src + steps] \in Delims
      BY <1>3, <2>4, <2>10
    <3>3. f \in 1 .. c /\ First(tokens', c) = f
      BY <1>1, <2>4, <3>1 DEF First
    <3>4. Seps(old, f, c) = Q \cup {src + steps}
      <4>1. f .. c - 1 = (f .. (src + steps) - 1) \cup {src + steps}
        <5>1. \A k \in Int : k \in f .. src + steps <=> k \in f .. (src + steps) - 1 \/ k = src + steps
          BY <1>1, <2>4
        <5>2. f .. src + steps \subseteq Int /\ f .. (src + steps) - 1 \subseteq Int /\ src + steps \in Int
          BY <1>1, <2>4
        <5> QED BY <3>1, <5>1, <5>2, Zenon
      <4>2. \A k : k \in Seps(old, f, c) <=> k \in f .. c - 1 /\ old[k] \in Delims
        BY Zenon DEF Seps
      <4>3. \A k : k \in Q <=> k \in f .. (src + steps) - 1 /\ old[k] \in Delims
        BY <2>8, Zenon DEF Seps
      <4>4. \A k : k \in Seps(old, f, c) <=> k \in Q \cup {src + steps}
        BY <3>2, <4>1, <4>2, <4>3, Zenon
      <4> QED BY <4>4, Zenon
    <3>5. NoEnd(old, f, c)
      <4> SUFFICES ASSUME NEW k \in f .. c - 1 PROVE k \in Addr /\ old[k] # 0
        BY DEF NoEnd
      <4>1. k = src + steps \/ k \in f .. (src + steps) - 1
        BY <1>1, <2>4, <3>1
      <4>2. \A j \in f .. (src + steps) - 1 : j \in Addr /\ old[j] # 0
        BY <2>4, Zenon DEF NoEnd
      <4> QED BY <1>1, <2>4, <2>10, <4>1, <4>2
    <3>6. Returned(tokens') \cup {c} = {f} \cup {k + 1 : k \in Q \cup {src + steps}}
      BY <2>4, <3>1
    <3>7. \A t \in DOMAIN tokens' : tokens'[t] < c
      BY <1>1, <2>4, <3>1
    <3>8. SplitUpTo(mem', old', tokens', c)
      BY <1>1, <2>4, <3>3, <3>4, <3>5, <3>6, <3>7 DEF SplitUpTo
    <3> QED BY <1>1, <2>3, <2>4, <2>7, <2>10, <3>1, <3>8
            DEF StringsInv, CompareLoop, SplitLoop, StringSeen, CopyLoop, FillLoop, StrcpyLoop, StrcpyReturnsIff, NULL
  <2> QED BY <2>9, <2>10
<1> QED BY <1>2, <1>3

-----------------------------------------------------------------------------
LEMMA NextStrings == StringsInv /\ [StringsNext]_stringsvars => StringsInv'
<1> SUFFICES ASSUME StringsInv, [StringsNext]_stringsvars PROVE StringsInv'
  OBVIOUS
<1>1. ASSUME NEW to \in Addr \ {NULL}, NEW from \in Addr \ {NULL}, NEW num \in Counts, Call(to, from, num)
      PROVE  StringsInv'
  BY <1>1, CallInv
<1>2. ASSUME NEW number \in Counts, NEW sz \in Counts, Calloc(number, sz) PROVE StringsInv'
  BY <1>2, CallocInv
<1>3. ASSUME NEW p \in 0 .. Top + 1, StrsepCall(p) PROVE StringsInv'
  BY <1>3, StrsepCallInv
<1>4. CASE StrlenStep
  BY <1>4, StrlenInv
<1>5. CASE MemcpyStep
  BY <1>5, MemcpyInv
<1>6. CASE MemsetStep
  BY <1>6, MemsetInv
<1>7. CASE MemcmpStep \/ StrcmpStep
  BY <1>7, CompareInv
<1>8. CASE StrcpyStep
  BY <1>8, StrcpyInv
<1>9. CASE StrsepStep
  BY <1>9, StrsepInv
<1>10. CASE Astray
  BY <1>10, AstrayShape, AstrayStrcpy DEF StringsInv
<1>11. ASSUME NEW a \in Addr, Malloc(a) PROVE StringsInv'
  BY <1>11, MallocInv
<1>12. CASE UNCHANGED stringsvars
  <2>1. UNCHANGED <<fn, at, mem, old, dst, src, n, steps, ret, string, tokens, wanted>>
    BY <1>12 DEF stringsvars
  <2>2. Shape'
    BY <2>1 DEF StringsInv, Shape
  <2>3. StringSeen'
    BY <2>1 DEF StringsInv, StringSeen
  <2>4. CopyLoop'
    BY <2>1 DEF StringsInv, CopyLoop, Copied, OnlyChanged
  <2>5. FillLoop'
    BY <2>1 DEF StringsInv, FillLoop, Filled, OnlyChanged
  <2>5a. CompareLoop'
    BY <2>1 DEF StringsInv, CompareLoop, SameUpTo, NoZeroUpTo
  <2>6. StrcpyLoop'
    BY <2>1, Zenon DEF StringsInv, StrcpyLoop, StrcpyReturnsIff, OnlyChanged, Ended, End
  <2>7. SplitLoop'
    BY <2>1 DEF StringsInv, SplitLoop
  <2> QED BY <2>2, <2>3, <2>4, <2>5, <2>5a, <2>6, <2>7 DEF StringsInv
<1> QED BY <1>1, <1>2, <1>3, <1>4, <1>5, <1>6, <1>7, <1>8, <1>9, <1>10, <1>11, <1>12
    DEF StringsNext, Running

(* The invariant: which loop a call is in, and what that loop has done so  *)
(* far to the memory it was given.                                         *)
THEOREM StringsInvariant == StringsSpec => []StringsInv
BY InitStrings, NextStrings, PTL DEF StringsSpec

(* memcpy, for operands that overlap in any way: the destination gets the  *)
(* source, or, where it starts inside the source, the cells before it over *)
(* and over; nothing else changes.                                         *)
THEOREM StringsMemcpyMeaning == StringsSpec => []MemcpyMeaning
<1>1. StringsInv => MemcpyMeaning
  BY DEF StringsInv, CopyLoop, Copied, MemcpyMeaning
<1> QED BY <1>1, StringsInvariant, PTL

(* strcpy returns exactly if there is a string, with room for it, and the  *)
(* destination does not start inside it; then it has copied it.            *)
THEOREM StringsStrcpyReturnsIff == StringsSpec => []StrcpyReturnsIff
<1>1. StringsInv => StrcpyReturnsIff
  BY DEF StringsInv, StrcpyLoop
<1> QED BY <1>1, StringsInvariant, PTL

(* Once strsep has said NULL it has returned every token once, in order,   *)
(* and has replaced the delimiters of the string, and nothing else, by 0.  *)
THEOREM StringsTokensSplit == StringsSpec => []TokensSplit
<1>1. ASSUME StringsInv PROVE TokensSplit
  <2> SUFFICES ASSUME fn = "strsep", at = "done", string = NULL
               PROVE  /\ Ended(tokens[1])
                      /\ LET first == tokens[1]
                             seps == {k \in first .. End(first) : old[k] \in Delims}
                         IN  /\ {tokens[t] : t \in DOMAIN tokens} = {first} \cup {k + 1 : k \in seps}
                             /\ \A t \in 1 .. Len(tokens) - 1 : tokens[t] < tokens[t + 1]
                             /\ mem = [k \in Addr |-> IF k \in seps THEN 0 ELSE old[k]]
    BY DEF TokensSplit
  <2>1. PICK e \in Addr : SplitWhole(mem, old, tokens, e)
    BY <1>1 DEF StringsInv, SplitLoop
  <2>2. PICK f : f = tokens[1]
    OBVIOUS
  <2>3. f \in Nat /\ f \in 1 .. e /\ e \in f .. Top /\ e \in Nat
    BY <2>1, <2>2, Constants DEF SplitWhole, Addr
  <2>4. Ended(f) /\ End(f) = e
    BY <1>1, <2>1, <2>2, <2>3, EndIs DEF SplitWhole, NoEnd, StringsInv
  <2>5. Seps(old, f, e) = {k \in f .. e : old[k] \in Delims}
    <3>1. old[e] \notin Delims
      BY <2>1, Constants DEF SplitWhole
    <3>2. f .. e = (f .. e - 1) \cup {e}
      BY <2>3
    <3> QED BY <3>1, <3>2 DEF Seps
  <2>6. PICK Q : Q = Seps(old, f, e)
    OBVIOUS
  <2>7. /\ Returned(tokens) = {f} \cup {k + 1 : k \in Q}
        /\ Rising(tokens) /\ mem = Cut(old, Q)
    BY <2>1, <2>2, <2>6 DEF SplitWhole
  <2>8. Q = {k \in tokens[1] .. End(tokens[1]) : old[k] \in Delims}
    BY <2>2, <2>4, <2>5, <2>6
  <2> QED BY <2>2, <2>4, <2>7, <2>8 DEF Returned, Rising, Cut
<1> QED BY <1>1, StringsInvariant, PTL

(* strdup's copy is the string, its end included; calloc's block, of the   *)
(* product modulo 2^32, is filled with what is at address 0; whether or    *)
(* not malloc returned NULL.                                               *)
THEOREM StringsAllocationsFilled == StringsSpec => []AllocationsFilled
<1>1. ASSUME StringsInv PROVE AllocationsFilled
  <2>1. ASSUME at = "done", fn = "strdup"
        PROVE  /\ OnlyChanged(ret, End(src) - src + 1)
               /\ \A k \in 0 .. (End(src) - src + 1) - 1 : mem[ret + k] = old[src + k]
    <3>1. /\ src \in Nat /\ n \in Nat /\ n >= 1 /\ src + n - 1 \in Addr /\ old[src + n - 1] = 0
          /\ \A k \in 0 .. n - 2 : old[src + k] # 0
          /\ ~ (src < dst /\ dst < src + n) /\ Copied /\ steps = n /\ ret = dst
      BY <1>1, <2>1, Constants DEF StringsInv, Shape, StringSeen, CopyLoop
    <3>2. PICK e \in src .. Top : e = src + n - 1 /\ n = e - src + 1 /\ old[e] = 0
      BY <3>1, Constants DEF Addr
    <3>3. \A k \in src .. e - 1 : old[k] # 0
      <4> SUFFICES ASSUME NEW k \in src .. e - 1 PROVE old[k] # 0
        OBVIOUS
      <4>1. k - src \in 0 .. n - 2 /\ k = src + (k - src)
        BY <3>1, <3>2
      <4>2. PICK j \in 0 .. n - 2 : k = src + j
        BY <4>1
      <4> QED BY <3>1, <4>2
    <3>4. End(src) = e
      BY <1>1, <3>1, <3>2, <3>3, EndIs DEF StringsInv
    <3>5. End(src) - src + 1 = n
      BY <3>2, <3>4
    <3>6. OnlyChanged(dst, n) /\ \A k \in 0 .. n - 1 : mem[dst + k] = old[src + k]
      BY <3>1 DEF Copied
    <3> QED BY <3>1, <3>5, <3>6
  <2>2. ASSUME at = "done", fn = "calloc"
        PROVE  /\ OnlyChanged(ret, wanted % IntMod)
               /\ \A k \in 0 .. (wanted % IntMod) - 1 : mem[ret + k] = old[0]
    BY <1>1, <2>2 DEF StringsInv, FillLoop, Filled
  <2> QED BY <2>1, <2>2 DEF AllocationsFilled
<1> QED BY <1>1, StringsInvariant, PTL

(* strlen, strcmp, memcmp and memset, for every memory, every string and   *)
(* operands that overlap in any way.                                       *)
THEOREM StringsResultsMean == StringsSpec => []ResultsMean
<1>1. ASSUME StringsInv PROVE ResultsMean
  <2> SUFFICES ASSUME at = "done" PROVE ResultsMean
    BY DEF ResultsMean
  <2>1. /\ dst \in Addr /\ dst \in Nat /\ steps \in Nat /\ n \in Nat /\ Shape
        /\ fn \in {"strlen", "strcmp", "memcmp"} => mem = old
        /\ fn # "strsep" => src \in Addr /\ src \in Nat
    BY <1>1, Constants DEF StringsInv, Shape
  <2>2. ASSUME NEW p \in Nat, p + steps \in Addr, old[p + steps] = 0,
               \A k \in 0 .. steps - 1 : old[p + k] # 0
        PROVE  Ended(p) /\ End(p) = p + steps
    <3>1. p + steps \in p .. Top
      BY <2>1, <2>2, Constants DEF Addr
    <3>2. \A k \in p .. (p + steps) - 1 : old[k] # 0
      <4> SUFFICES ASSUME NEW k \in p .. (p + steps) - 1 PROVE old[k] # 0
        OBVIOUS
      <4>1. PICK j \in 0 .. steps - 1 : k = p + j
        <5>1. k - p \in 0 .. steps - 1 /\ k = p + (k - p)
          BY <2>1
        <5> QED BY <5>1
      <4> QED BY <2>2, <4>1
    <3> QED BY <2>1, <2>2, <3>1, <3>2, EndIs
  <2>3. ASSUME fn = "strlen" PROVE Ended(src) /\ ret = End(src) - src
    <3>1. /\ ret = steps /\ src + steps \in Addr /\ old[src + steps] = 0
          /\ \A k \in 0 .. steps - 1 : old[src + k] # 0
      BY <1>1, <2>3 DEF StringsInv, CompareLoop, NoZeroUpTo
    <3>2. Ended(src) /\ End(src) = src + steps
      BY <2>1, <2>2, <2>3, <3>1
    <3> QED BY <2>1, <2>3, <3>1, <3>2
  <2>4. ASSUME fn = "strcmp" PROVE ret = IF SameString(dst, src) THEN 0 ELSE 1
    <3>1. /\ SameUpTo(steps) /\ src \in Nat /\ src + steps \in Addr /\ dst + steps \in Addr
          /\ \A k \in 0 .. steps - 1 : old[src + k] # 0
          /\ \A k \in 0 .. steps - 1 : old[dst + k] # 0
          /\ \/ ret = 0 /\ old[src + steps] = 0 /\ old[dst + steps] = 0
             \/ ret = 1 /\ old[dst + steps] # old[src + steps]
      BY <1>1, <2>1, <2>4 DEF StringsInv, CompareLoop, NoZeroUpTo, SameUpTo
    <3>2. CASE ret = 0 /\ old[src + steps] = 0 /\ old[dst + steps] = 0
      <4>1. Ended(src) /\ End(src) = src + steps /\ Ended(dst) /\ End(dst) = dst + steps
        BY <2>1, <2>2, <3>1, <3>2
      <4>2. End(src) - src = steps /\ End(dst) - dst = steps
        BY <2>1, <3>1, <4>1
      <4>3. \A k \in 0 .. steps : old[dst + k] = old[src + k]
        <5> SUFFICES ASSUME NEW k \in 0 .. steps PROVE old[dst + k] = old[src + k]
          OBVIOUS
        <5>1. k = steps \/ k \in 0 .. steps - 1
          BY <2>1
        <5> QED BY <3>1, <3>2, <5>1 DEF SameUpTo
      <4> QED BY <3>2, <4>1, <4>2, <4>3 DEF SameString
    <3>3. CASE ret = 1 /\ old[dst + steps] # old[src + steps]
      <4> SUFFICES ASSUME SameString(dst, src) PROVE FALSE
        BY <3>3
      <4>1. PICK e \in src .. Top : e = End(src) /\ old[e] = 0
        BY <2>1, <3>1, EndExists DEF SameString
      <4>2. PICK m \in Nat : m = e - src /\ e = src + m
        BY <3>1, <4>1, Constants
      <4>3. \A k \in 0 .. m : old[dst + k] = old[src + k]
        BY <4>1, <4>2 DEF SameString
      <4>4. ~ (steps <= m)
        BY <2>1, <3>3, <4>3
      <4>5. m \in 0 .. steps - 1
        BY <2>1, <4>4
      <4> QED BY <3>1, <4>1, <4>2, <4>5
    <3> QED BY <3>1, <3>2, <3>3
  <2>5. ASSUME fn = "memcmp"
        PROVE  ret = IF \A k \in 0 .. n - 1 : old[dst + k] = old[src + k] THEN -1 ELSE 0
    <3>1. \/ ret = -1 /\ SameUpTo(n)
          \/ ret = 0 /\ steps < n /\ old[dst + steps] # old[src + steps]
      BY <1>1, <2>5 DEF StringsInv, CompareLoop
    <3>2. steps < n => steps \in 0 .. n - 1
      BY <2>1
    <3> QED BY <3>1, <3>2 DEF SameUpTo
  <2>6. ASSUME fn = "memset"
        PROVE  OnlyChanged(dst, n) /\ \A k \in 0 .. n - 1 : mem[dst + k] = old[src]
    BY <1>1, <2>6 DEF StringsInv, FillLoop, Filled
  <2> QED BY <2>1, <2>3, <2>4, <2>5, <2>6 DEF ResultsMean
<1> QED BY <1>1, StringsInvariant, PTL

=============================================================================
