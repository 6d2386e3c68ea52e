----------------------------- MODULE HeapProofs -----------------------------
(***************************************************************************)
(* Proofs about the heap, for every address space, layout, BLOCK and set   *)
(* of requests, as long as the break does not wrap around.                 *)
(***************************************************************************)
EXTENDS Heap, FiniteSetTheorems, TLAPS

-----------------------------------------------------------------------------
(* Facts about rings. *)

(* Linking a new block p in behind q keeps the ring (malloc.c lines 37-38, *)
(* and free without a merge).                                              *)
LEMMA RingInsert ==
  ASSUME NEW F, NEW l, NEW m, NEW p, NEW q,
         Ring(F, l), q \in F, p \notin F,
         m[p] = l[q], m[q] = p,
         \A a \in F \ {q} : m[a] = l[a]
  PROVE  Ring(F \cup {p}, m)
<1> DEFINE G == F \cup {p}
<1>1. Freelist \in G
  BY DEF Ring
<1>2. \A a \in G : m[a] \in G
  BY DEF Ring
<1>3. \A a, b \in G : m[a] = m[b] => a = b
  BY DEF Ring
<1>4. ASSUME NEW S \in SUBSET G, S # {}, \A a \in S : m[a] \in S
      PROVE  Freelist \in S
  <2> DEFINE T == S \ {p}
  <2>1. T \in SUBSET F
    OBVIOUS
  <2>2. T # {}
    BY <1>4 DEF Ring
  <2>3. \A a \in T : l[a] \in T
    <3> TAKE a \in T
    <3>1. l[a] \in F
      BY <2>1 DEF Ring
    <3>2. CASE a = q
      BY <1>4, <3>1, <3>2
    <3>3. CASE a # q
      BY <1>4, <2>1, <3>1, <3>3
    <3> QED BY <3>2, <3>3
  <2> QED BY <2>1, <2>2, <2>3 DEF Ring
<1> QED BY <1>1, <1>2, <1>3, <1>4 DEF Ring

(* Unlinking the successor p of q keeps the ring, provided p is not the    *)
(* list head (malloc.c line 24, and free merging with the successor).      *)
LEMMA RingRemove ==
  ASSUME NEW F, NEW l, NEW m, NEW p, NEW q,
         Ring(F, l), q \in F, p = l[q], p # Freelist,
         m[q] = l[p],
         \A a \in F \ {q, p} : m[a] = l[a]
  PROVE  /\ p # q
         /\ Ring(F \ {p}, m)
<1> DEFINE G == F \ {p}
<1>0. p # q
  <2> SUFFICES ASSUME p = q PROVE FALSE
    OBVIOUS
  <2>1. {q} \in SUBSET F /\ {q} # {} /\ \A a \in {q} : l[a] \in {q}
    OBVIOUS
  <2> QED BY <2>1 DEF Ring
<1>1. Freelist \in G
  BY DEF Ring
<1>2. \A a \in G : m[a] \in G
  BY <1>0 DEF Ring
<1>3. \A a, b \in G : m[a] = m[b] => a = b
  BY <1>0 DEF Ring
<1>4. ASSUME NEW S \in SUBSET G, S # {}, \A a \in S : m[a] \in S
      PROVE  Freelist \in S
  <2>1. CASE q \in S
    <3> DEFINE T == S \cup {p}
    <3>1. T \in SUBSET F /\ T # {}
      BY DEF Ring
    <3>2. \A a \in T : l[a] \in T
      BY <1>4, <2>1
    <3>3. Freelist \in T
      BY <3>1, <3>2 DEF Ring
    <3> QED BY <3>3
  <2>2. CASE q \notin S
    <3>1. S \in SUBSET F /\ \A a \in S : l[a] \in S
      BY <1>4, <2>2
    <3> QED BY <1>4, <3>1 DEF Ring
  <2> QED BY <2>1, <2>2
<1> QED BY <1>0, <1>1, <1>2, <1>3, <1>4 DEF Ring

(* The ring depends on the links of its own blocks only. *)
LEMMA RingSame ==
  ASSUME NEW F, NEW l, NEW m, Ring(F, l), \A a \in F : m[a] = l[a]
  PROVE  Ring(F, m)
<1>1. ASSUME NEW S \in SUBSET F, S # {}, \A a \in S : m[a] \in S
      PROVE  Freelist \in S
  <2>1. \A a \in S : l[a] \in S
    BY <1>1
  <2> QED BY <1>1, <2>1 DEF Ring
<1> QED BY <1>1 DEF Ring

-----------------------------------------------------------------------------
(* Facts about sizes and addresses. *)

(* Rounding up to units leaves room for the bytes asked for and stays      *)
(* within the address space.                                               *)
LEMMA UnitsRoundUp ==
  ASSUME NEW n \in Requests \cup {0}
  PROVE  /\ Units(n) \in 1 .. AddrUnits
         /\ HeaderSize * (Units(n) - 1) >= n
<1>1. AddrUnits \in Nat /\ 1 <= AddrUnits
  BY LayoutAssumption DEF Addr
<1>2. n \in Nat /\ n <= 8 * (AddrUnits - 1)
  BY <1>1, RequestsAssumption DEF HeaderSize
<1> QED BY <1>1, <1>2 DEF Units, HeaderSize

(* sbrk is asked for the units of the request, or more.                    *)
LEMMA GrowthBounds ==
  ASSUME TypeOK
  PROVE  /\ Growth \in 1 .. AddrUnits
         /\ Units(nbytes) <= Growth
         /\ Units(nbytes) \in 1 .. AddrUnits
         /\ Growth = Units(nbytes) \/ Growth = BLOCK
<1>1. Units(nbytes) \in 1 .. AddrUnits
  BY UnitsRoundUp DEF TypeOK
<1> QED BY <1>1, LayoutAssumption DEF Growth, Addr

-----------------------------------------------------------------------------
(* The inductive invariant. *)

LEMMA InitIInv == Init => IInv
<1> SUFFICES ASSUME Init PROVE IInv
  OBVIOUS
<1> USE LayoutAssumption DEF Init, Addr
<1>1. TypeOK
  BY DEF TypeOK, NULL
<1>2. OneRing
  <2>1. free = {Freelist} /\ freep = Freelist /\ link[Freelist] = Freelist
    OBVIOUS
  <2>2. ASSUME NEW S \in SUBSET {Freelist}, S # {} PROVE Freelist \in S
    BY <2>2
  <2> QED BY <2>1, <2>2 DEF OneRing, Ring
<1>3. Blocks = {}
  BY DEF Blocks
<1>4. BlocksInHeap
  BY <1>3 DEF BlocksInHeap, Break
<1>5. BlocksDisjoint
  BY <1>3 DEF BlocksDisjoint
<1>6. CallInProgress
  BY DEF CallInProgress
<1> QED BY <1>1, <1>2, <1>4, <1>5, <1>6 DEF IInv

(* What every proof about a step starts from: where things lie. *)
LEMMA Layout ==
  ASSUME IInv
  PROVE  /\ AddrUnits \in Nat /\ StackTop \in Nat /\ StackBottom \in Nat
         /\ StackBottom < AddrUnits /\ StackTop < AddrUnits
         /\ Freelist \in Nat /\ 1 <= Freelist /\ Freelist < StackTop
         /\ Break \in Nat /\ StackTop <= Break /\ Break < AddrUnits
<1>1. /\ AddrUnits \in Nat /\ StackTop \in Nat /\ StackBottom \in Nat
      /\ StackBottom < AddrUnits /\ StackTop < AddrUnits
      /\ Freelist \in Nat /\ 1 <= Freelist /\ Freelist < StackTop
  BY LayoutAssumption DEF Addr
<1>2. Break \in Nat /\ Break < AddrUnits
  BY <1>1 DEF IInv, TypeOK, Break, NULL, Addr
<1> QED BY <1>1, <1>2 DEF IInv, BlocksInHeap

(* Every block is a stretch of the granted heap, above freelist. *)
LEMMA BlockPlace ==
  ASSUME IInv, NEW b \in Blocks
  PROVE  /\ b \in Addr /\ b \in Nat /\ size[b] \in Nat
         /\ 1 <= size[b] /\ StackTop <= b /\ b # Freelist
         /\ b + size[b] <= Break
         /\ b + size[b] <= StackBottom
         /\ b + size[b] < AddrUnits
<1>1. b \in Addr /\ b \in Nat /\ size[b] \in Nat
  BY DEF IInv, TypeOK, Blocks, Addr
<1>2. /\ 1 <= size[b] /\ StackTop <= b
      /\ b + size[b] <= Break /\ b + size[b] <= StackBottom
  BY DEF IInv, BlocksInHeap
<1> QED BY <1>1, <1>2, Layout

(* A free block other than the list head is a block of the heap. *)
LEMMA FreeBlock ==
  ASSUME IInv, NEW b \in free, size[b] # 0
  PROVE  b \in Blocks
BY DEF IInv, BlocksInHeap, Blocks

(* What LiveUntouched says of one step. *)
LiveKept == \A b \in live \cap live' : size'[b] = size[b]

(* Where blocks end; and what a step that leaves the break alone does to   *)
(* that: a new block begins where one ends, and an end is lost only where  *)
(* no block begins any more.                                               *)
Ends == {b + size[b] : b \in Blocks}

TilesKept ==
  /\ Break' = Break
  /\ Blocks' \ Blocks \subseteq Ends'
  /\ \A e \in Ends : e \in Ends' \/ (e \notin Blocks' /\ e # Break)

(* Starting a call changes no block. *)
LEMMA CallSteps ==
  ASSUME IInv, \/ \E n \in Requests : MallocCall(n)
               \/ \E b \in live : FreeCall(b)
  PROVE  IInv'
<1>1. CASE \E n \in Requests : MallocCall(n)
  <2> PICK n \in Requests : MallocCall(n)
    BY <1>1
  <2> USE DEF MallocCall, listvars
  <2>1. TypeOK'
    BY DEF IInv, TypeOK
  <2>2. OneRing'
    BY DEF IInv, OneRing
  <2>3. Blocks' = Blocks /\ Break' = Break
    BY DEF Blocks, Break
  <2>4. BlocksInHeap' /\ BlocksDisjoint'
    BY <2>3 DEF IInv, BlocksInHeap, BlocksDisjoint
  <2>5. CallInProgress'
    BY <2>3 DEF IInv, CallInProgress, OneRing, Growth
  <2> QED BY <2>1, <2>2, <2>4, <2>5 DEF IInv
<1>2. CASE \E b \in live : FreeCall(b)
  <2> PICK b \in live : FreeCall(b)
    BY <1>2
  <2> USE DEF FreeCall, listvars
  <2>1. TypeOK'
    BY DEF IInv, TypeOK
  <2>2. OneRing'
    BY DEF IInv, OneRing
  <2>3. Blocks' = Blocks /\ Break' = Break
    BY DEF Blocks, Break
  <2>4. BlocksInHeap'
    BY <2>3 DEF IInv, BlocksInHeap
  <2>5. BlocksDisjoint'
    BY <2>3 DEF IInv, BlocksDisjoint
  <2>6. CallInProgress'
    BY DEF IInv, CallInProgress, OneRing
  <2> QED BY <2>1, <2>2, <2>4, <2>5, <2>6 DEF IInv
<1> QED BY <1>1, <1>2

(* Walking changes no block, and stays on the list. *)
LEMMA WalkSteps ==
  ASSUME IInv, MallocPass \/ FreeAdvance
  PROVE  IInv'
<1>1. cur \in free /\ link[cur] \in free
  BY DEF IInv, CallInProgress, OneRing, Ring, MallocPass, FreeAdvance
<1>2. OneRing' /\ Blocks' = Blocks /\ Break' = Break
  BY DEF IInv, OneRing, Blocks, Break, MallocPass, FreeAdvance, listvars
<1>3. BlocksInHeap' /\ BlocksDisjoint'
  BY <1>2 DEF IInv, BlocksInHeap, BlocksDisjoint, MallocPass, FreeAdvance, listvars
<1>4. TypeOK'
  BY <1>1 DEF IInv, TypeOK, MallocPass, FreeAdvance, listvars
<1>5. CASE MallocPass
  <2>1. Units(nbytes) \in Nat /\ size[link[cur]] \in Nat
    BY <1>1, GrowthBounds DEF IInv, TypeOK
  <2>2. Break + Growth <= BreakBound
    BY <1>5, <2>1 DEF MallocPass, IInv, CallInProgress
  <2>3. Growth' = Growth
    BY <1>5 DEF MallocPass, Growth
  <2>4. CallInProgress'
    BY <1>1, <1>2, <1>5, <2>2, <2>3 DEF MallocPass, listvars, CallInProgress
  <2> QED BY <1>2, <1>3, <1>4, <2>4 DEF IInv
<1>6. CASE FreeAdvance
  <2>1. CallInProgress'
    BY <1>1, <1>6 DEF FreeAdvance, listvars, CallInProgress
  <2> QED BY <1>2, <1>3, <1>4, <2>1 DEF IInv
<1> QED BY <1>5, <1>6

(* A split cuts the tail off a free block. *)
LEMMA SplitStep ==
  ASSUME IInv, MallocSplit
  PROVE  IInv' /\ LiveKept /\ TilesKept /\ live' # live
<1> DEFINE p    == link[cur]
           n    == Units(nbytes)
           rest == size[p] - n
           tail == p + rest
<1>1. cur \in free /\ p \in free
  BY DEF IInv, CallInProgress, OneRing, Ring, MallocSplit
<1>2. n \in Nat /\ 1 <= n /\ size[p] \in Nat /\ n < size[p]
  <2>1. n \in 1 .. AddrUnits
    BY GrowthBounds DEF IInv
  <2>2. size[p] \in Nat
    BY <1>1 DEF IInv, TypeOK
  <2>3. n < size[p]
    BY <2>1, <2>2 DEF MallocSplit
  <2> QED BY <2>1, <2>2, <2>3, Layout
<1>3. p \in Blocks
  BY <1>1, <1>2, FreeBlock
<1>4. /\ p \in Addr /\ p \in Nat /\ StackTop <= p /\ p # Freelist
      /\ p + size[p] <= Break
      /\ p + size[p] <= StackBottom
      /\ p + size[p] < AddrUnits
  BY <1>3, BlockPlace
<1>5. /\ rest \in Nat /\ 1 <= rest /\ tail = p + rest
      /\ tail \in Nat /\ p < tail /\ tail + n = p + size[p]
      /\ tail \in Addr
  BY <1>2, <1>4, Layout DEF Addr
<1>6. /\ pc = "search" /\ pc' = "idle"
      /\ size' = [size EXCEPT ![p] = rest, ![tail] = n]
      /\ live' = live \cup {tail}
      /\ g_heap' = g_heap /\ link' = link /\ free' = free
      /\ freep' = cur /\ cur' = NULL /\ nbytes' = 0 /\ bp' = NULL
  <2>1. Plus(p, rest) = tail
    BY <1>5, Layout DEF Plus, Addr
  <2> QED BY <2>1 DEF MallocSplit, MallocReturn, Return
<1> HIDE DEF p, n, rest, tail
<1>7. \A c \in Blocks \ {p} : c + size[c] <= p \/ p + size[p] <= c
  BY <1>3 DEF IInv, BlocksDisjoint
<1>8. tail \notin Blocks /\ tail # Freelist
  <2>1. ASSUME tail \in Blocks PROVE FALSE
    <3>1. size[tail] \in Nat /\ 1 <= size[tail]
      BY <2>1, BlockPlace
    <3> QED BY <1>2, <1>4, <1>5, <1>7, <2>1, <3>1
  <2> QED BY <2>1, <1>4, <1>5, Layout
<1>9. /\ Break' = Break
      /\ Blocks' = Blocks \cup {tail}
  BY <1>6 DEF Blocks, Break
<1>10. /\ size' \in [Addr -> Nat]
       /\ size'[p] = rest /\ size'[tail] = n
       /\ \A b \in Addr \ {p, tail} : size'[b] = size[b]
  BY <1>2, <1>4, <1>5, <1>6 DEF IInv, TypeOK
<1>11. TypeOK'
  <2>1. live' \in SUBSET Addr
    BY <1>5, <1>6 DEF IInv, TypeOK
  <2>2. cur \in Addr /\ NULL \in Addr
    BY <1>1, Layout DEF IInv, TypeOK, NULL, Addr
  <2> QED BY <1>6, <1>10, <2>1, <2>2 DEF IInv, TypeOK
<1>12. OneRing'
  BY <1>1, <1>6 DEF IInv, OneRing
<1>13. BlocksInHeap'
  <2>1. size'[Freelist] = 0
    BY <1>4, <1>8, <1>10, LayoutAssumption, Layout DEF IInv, BlocksInHeap, Addr
  <2>2. ASSUME NEW b \in Blocks \cup {tail}
        PROVE  /\ StackTop <= b /\ 1 <= size'[b]
               /\ b + size'[b] <= Break /\ b + size'[b] <= StackBottom
    <3>1. CASE b = tail
      BY <1>2, <1>4, <1>5, <1>10, <3>1, Layout
    <3>2. CASE b = p
      BY <1>2, <1>4, <1>5, <1>10, <3>2, Layout
    <3>3. CASE b # tail /\ b # p
      <4>1. b \in Blocks
        BY <3>3
      <4>2. /\ b \in Addr /\ 1 <= size[b] /\ StackTop <= b
            /\ b + size[b] <= Break /\ b + size[b] <= StackBottom
        BY <4>1, BlockPlace
      <4>3. size'[b] = size[b]
        BY <1>10, <3>3, <4>2
      <4> QED BY <4>2, <4>3
    <3> QED BY <3>1, <3>2, <3>3
  <2>3. StackTop <= Break
    BY Layout
  <2> QED BY <1>9, <2>1, <2>2, <2>3 DEF BlocksInHeap
<1>14. BlocksDisjoint'
  <2>1. free' \cap live' = {}
    <3>1. tail \notin free
      BY <1>8 DEF Blocks
    <3> QED BY <1>6, <3>1 DEF IInv, BlocksDisjoint
  <2>2. ASSUME NEW a \in Blocks \cup {tail}, NEW b \in Blocks \cup {tail}, a # b
        PROVE  a + size'[a] <= b \/ b + size'[b] <= a
    <3>1. \A c \in Blocks \ {p} : c \in Nat /\ size[c] \in Nat /\ size'[c] = size[c]
      BY <1>8, <1>10, BlockPlace
    <3>2. CASE a \in Blocks \ {p} /\ b \in Blocks \ {p}
      <4>1. a + size[a] <= b \/ b + size[b] <= a
        BY <2>2, <3>2 DEF IInv, BlocksDisjoint
      <4> QED BY <3>1, <3>2, <4>1
    <3>3. ASSUME NEW c \in Blocks \ {p}, NEW d \in {p, tail}
          PROVE  c + size'[c] <= d \/ d + size'[d] <= c
      <4>1. c \in Nat /\ size[c] \in Nat /\ size'[c] = size[c]
        BY <3>1
      <4>2. c + size[c] <= p \/ p + size[p] <= c
        BY <1>7
      <4>3. d \in Nat /\ size'[d] \in Nat /\ p <= d /\ d + size'[d] <= p + size[p]
        BY <1>2, <1>4, <1>5, <1>10
      <4> QED BY <1>2, <1>4, <4>1, <4>2, <4>3
    <3>4. p + size'[p] <= tail
      BY <1>4, <1>5, <1>10
    <3> QED BY <2>2, <3>2, <3>3, <3>4
  <2> QED BY <1>6, <1>9, <2>1, <2>2 DEF BlocksDisjoint
<1>15. CallInProgress'
  BY <1>6 DEF CallInProgress
<1>16. LiveKept
  <2>1. ASSUME NEW b \in live PROVE b \in Addr \ {p, tail}
    <3>1. b \in Blocks /\ b \in Addr
      BY DEF Blocks, IInv, TypeOK
    <3> QED BY <1>1, <1>8, <3>1 DEF IInv, BlocksDisjoint
  <2> QED BY <1>10, <2>1 DEF LiveKept
<1>17. TilesKept
  <2>1. p \in Blocks' /\ tail \in Blocks'
    BY <1>3, <1>9
  <2>2. p + size'[p] = tail /\ tail + size'[tail] = p + size[p]
    BY <1>5, <1>10
  <2>3. tail \in Ends' /\ p + size[p] \in Ends'
    BY <2>1, <2>2 DEF Ends
  <2>4. \A b \in Blocks \ {p} : b + size[b] \in Ends'
    <3>1. \A b \in Blocks \ {p} : b \in Blocks' /\ size'[b] = size[b]
      BY <1>8, <1>9, <1>10, BlockPlace
    <3> QED BY <3>1 DEF Ends
  <2>5. \A e \in Ends : e \in Ends'
    BY <2>3, <2>4 DEF Ends
  <2> QED BY <1>9, <2>3, <2>5 DEF TilesKept
<1>18. live' # live
  BY <1>6, <1>8 DEF Blocks
<1> QED BY <1>11, <1>12, <1>13, <1>14, <1>15, <1>16, <1>17, <1>18 DEF IInv

(* An exact fit moves a block from the list to its caller. *)
LEMMA ExactStep ==
  ASSUME IInv, MallocExact
  PROVE  IInv'
<1> DEFINE p == link[cur]
<1>1. cur \in free /\ p \in free
  BY DEF IInv, CallInProgress, OneRing, Ring, MallocExact
<1>2. size[p] # 0
  BY GrowthBounds, LayoutAssumption DEF IInv, MallocExact
<1>3. p \in Blocks /\ p # Freelist
  BY <1>1, <1>2, FreeBlock, BlockPlace
<1>4. /\ pc = "search" /\ pc' = "idle"
      /\ link' = [link EXCEPT ![cur] = link[p], ![p] = NULL]
      /\ live' = live \cup {p} /\ free' = free \ {p}
      /\ g_heap' = g_heap /\ size' = size
      /\ freep' = cur /\ cur' = NULL /\ nbytes' = 0 /\ bp' = NULL
  BY DEF MallocExact, MallocReturn, Return
<1> HIDE DEF p
<1>5. cur \in Addr /\ p \in Addr /\ NULL \in Addr /\ link \in [Addr -> Addr]
  BY <1>1, Layout DEF IInv, TypeOK, NULL, Addr
<1>6. p # cur /\ Ring(free \ {p}, link')
  <2>1. Ring(free, link) /\ p = link[cur]
    BY DEF IInv, OneRing, p
  <2>2. p # cur
    <3> DEFINE m == [link EXCEPT ![cur] = link[p]]
    <3>1. m[cur] = link[p] /\ \A a \in free \ {cur, p} : m[a] = link[a]
      BY <1>5 DEF IInv, TypeOK
    <3> HIDE DEF m
    <3> QED BY <1>1, <1>3, <2>1, <3>1, RingRemove
  <2>3. link'[cur] = link[p] /\ \A a \in free \ {cur, p} : link'[a] = link[a]
    BY <1>4, <1>5, <2>2 DEF IInv, TypeOK
  <2> QED BY <1>1, <1>3, <2>1, <2>2, <2>3, RingRemove
<1>7. OneRing'
  BY <1>1, <1>4, <1>6 DEF OneRing
<1>8. Blocks' = Blocks /\ Break' = Break
  BY <1>1, <1>3, <1>4 DEF Blocks, Break
<1>9. BlocksInHeap' /\ BlocksDisjoint'
  BY <1>4, <1>8 DEF IInv, BlocksInHeap, BlocksDisjoint
<1>10. TypeOK'
  <2>1. link' \in [Addr -> Addr]
    BY <1>4, <1>5
  <2> QED BY <1>4, <1>5, <2>1 DEF IInv, TypeOK
<1>11. CallInProgress'
  BY <1>4 DEF CallInProgress
<1> QED BY <1>7, <1>9, <1>10, <1>11 DEF IInv

(* What sbrk does to the break when the request does not wrap around. *)
LEMMA BreakMoves ==
  ASSUME BreakBound < AddrUnits, IInv, pc = "grow", Sbrk(Growth)
  PROVE  /\ Growth \in Nat /\ 1 <= Growth
         /\ Plus(Break, Growth) = Break + Growth
         /\ g_heap' = Break + Growth
         /\ Break' = Break + Growth
         /\ g_heap' \in Addr
<1>1. Growth \in Nat /\ 1 <= Growth
  BY GrowthBounds, Layout DEF IInv
<1>2. Break + Growth <= BreakBound
  BY DEF IInv, CallInProgress
<1>3. BreakBound \in Nat
  BY LayoutAssumption
<1>4. Break + Growth < AddrUnits
  BY <1>1, <1>2, <1>3, Layout
<1>5. Plus(Break, Growth) = Break + Growth
  BY <1>4 DEF Plus
<1>6. g_heap' = Break + Growth
  BY <1>5 DEF Sbrk
<1>7. Break' = Break + Growth
  BY <1>1, <1>6, Layout DEF Break, NULL
<1> QED BY <1>1, <1>4, <1>5, <1>6, <1>7, Layout DEF Addr

(* A refused growth moves nothing but the break. *)
LEMMA FailStep ==
  ASSUME BreakBound < AddrUnits, IInv, MallocFail
  PROVE  IInv'
<1>1. /\ pc = "grow" /\ Sbrk(Growth) /\ pc' = "idle"
      /\ cur' = NULL /\ nbytes' = 0 /\ bp' = NULL
      /\ freep' = freep /\ link' = link /\ size' = size
      /\ free' = free /\ live' = live
  BY DEF MallocFail, Return, listvars
<1>2. Growth \in Nat /\ Break' = Break + Growth /\ g_heap' \in Addr
  BY <1>1, BreakMoves
<1>3. Blocks' = Blocks
  BY <1>1 DEF Blocks
<1>4. NULL \in Addr
  BY Layout DEF NULL, Addr
<1>5. TypeOK'
  BY <1>1, <1>2, <1>4 DEF IInv, TypeOK
<1>6. OneRing'
  BY <1>1 DEF IInv, OneRing
<1>7. BlocksDisjoint'
  BY <1>1, <1>3 DEF IInv, BlocksDisjoint
<1>8. CallInProgress'
  BY <1>1 DEF CallInProgress
<1>9. BlocksInHeap'
  <2>1. ASSUME NEW b \in Blocks
        PROVE  /\ StackTop <= b /\ 1 <= size[b]
               /\ b + size[b] <= Break + Growth /\ b + size[b] <= StackBottom
    <3>1. /\ b \in Nat /\ size[b] \in Nat /\ 1 <= size[b] /\ StackTop <= b
          /\ b + size[b] <= Break /\ b + size[b] <= StackBottom
      BY BlockPlace
    <3> QED BY <1>2, <3>1, Layout
  <2>2. StackTop <= Break + Growth
    BY <1>2, Layout
  <2>3. size[Freelist] = 0
    BY DEF IInv, BlocksInHeap
  <2> QED BY <1>1, <1>2, <1>3, <2>1, <2>2, <2>3 DEF BlocksInHeap
<1> QED BY <1>5, <1>6, <1>7, <1>8, <1>9 DEF IInv

(* A growth adds one block, above all others. *)
LEMMA GrowStep ==
  ASSUME BreakBound < AddrUnits, IInv, MallocGrow
  PROVE  IInv' /\ LiveKept
<1> DEFINE p == Break
           k == Growth
<1>1. /\ pc = "grow" /\ pc' = "search" /\ Sbrk(k) /\ ~ SbrkRefused(k)
      /\ size' = [size EXCEPT ![p] = k]
      /\ link' = [link EXCEPT ![p] = link[freep], ![freep] = p]
      /\ free' = free \cup {p} /\ live' = live /\ cur' = freep
      /\ freep' = freep /\ nbytes' = nbytes /\ bp' = bp
  BY DEF MallocGrow
<1>2. /\ k \in Nat /\ 1 <= k /\ Plus(Break, k) = Break + k
      /\ Break' = Break + k /\ g_heap' \in Addr
  BY <1>1, BreakMoves
<1>3. Break + k < StackBottom
  BY <1>1, <1>2, Layout DEF SbrkRefused
<1>4. p \in Nat /\ p \in Addr /\ StackTop <= p /\ p # Freelist
  BY Layout DEF Addr
<1> HIDE DEF p, k
<1>5. p \notin Blocks
  <2>1. ASSUME p \in Blocks PROVE FALSE
    <3>1. size[p] \in Nat /\ 1 <= size[p] /\ p + size[p] <= Break
      BY <2>1, BlockPlace
    <3> QED BY <1>4, <3>1 DEF p
  <2> QED BY <2>1
<1>6. freep \in free /\ freep \in Addr /\ p \notin free /\ p # freep
  BY <1>4, <1>5 DEF IInv, OneRing, TypeOK, Blocks
<1>7. Blocks' = Blocks \cup {p}
  BY <1>1, <1>4 DEF Blocks
<1>8. /\ size' \in [Addr -> Nat]
      /\ size'[p] = k
      /\ \A b \in Addr \ {p} : size'[b] = size[b]
  BY <1>1, <1>2, <1>4 DEF IInv, TypeOK
<1>9. /\ link' \in [Addr -> Addr]
      /\ link'[p] = link[freep] /\ link'[freep] = p
      /\ \A a \in Addr \ {p, freep} : link'[a] = link[a]
  BY <1>1, <1>4, <1>6 DEF IInv, TypeOK
<1>10. TypeOK'
  <2>1. free' \in SUBSET Addr
    BY <1>1, <1>4 DEF IInv, TypeOK
  <2> QED BY <1>1, <1>2, <1>8, <1>9, <2>1 DEF IInv, TypeOK
<1>11. OneRing'
  <2>1. \A a \in free \ {freep} : link'[a] = link[a]
    BY <1>6, <1>9 DEF IInv, TypeOK
  <2>2. Ring(free, link)
    BY DEF IInv, OneRing
  <2>3. Ring(free \cup {p}, link')
    BY <1>6, <1>9, <2>1, <2>2, RingInsert
  <2> QED BY <1>1, <1>6, <2>3 DEF OneRing
<1>12. \A b \in Blocks :
         /\ b \in Nat /\ size[b] \in Nat /\ size'[b] = size[b]
         /\ 1 <= size[b] /\ StackTop <= b
         /\ b + size[b] <= p /\ b + size[b] <= StackBottom
  <2> TAKE b \in Blocks
  <2>1. /\ b \in Addr /\ b \in Nat /\ size[b] \in Nat
        /\ 1 <= size[b] /\ StackTop <= b
        /\ b + size[b] <= Break /\ b + size[b] <= StackBottom
    BY BlockPlace
  <2>2. size'[b] = size[b]
    BY <1>5, <1>8, <2>1
  <2> QED BY <2>1, <2>2 DEF p
<1>13. BlocksInHeap'
  <2>1. size'[Freelist] = 0
    <3>1. Freelist \in Addr \ {p}
      BY <1>4, Layout DEF Addr
    <3> QED BY <1>8, <3>1 DEF IInv, BlocksInHeap
  <2>2. ASSUME NEW b \in Blocks \cup {p}
        PROVE  /\ StackTop <= b /\ 1 <= size'[b]
               /\ b + size'[b] <= p + k /\ b + size'[b] <= StackBottom
    <3>1. CASE b = p
      BY <1>2, <1>3, <1>4, <1>8, <3>1, Layout DEF p
    <3>2. CASE b \in Blocks
      <4>1. /\ b \in Nat /\ size[b] \in Nat /\ size'[b] = size[b]
            /\ 1 <= size[b] /\ StackTop <= b
            /\ b + size[b] <= p /\ b + size[b] <= StackBottom
        BY <1>12, <3>2
      <4> QED BY <1>2, <1>4, <4>1
    <3> QED BY <3>1, <3>2
  <2>3. StackTop <= p + k
    BY <1>2, <1>4, Layout
  <2>4. Break' = p + k
    BY <1>2 DEF p
  <2> QED BY <1>7, <2>1, <2>2, <2>3, <2>4 DEF BlocksInHeap
<1>14. BlocksDisjoint'
  <2>1. free' \cap live' = {}
    BY <1>1, <1>5 DEF IInv, BlocksDisjoint, Blocks
  <2>2. ASSUME NEW a \in Blocks \cup {p}, NEW b \in Blocks \cup {p}, a # b
        PROVE  a + size'[a] <= b \/ b + size'[b] <= a
    <3>1. CASE a \in Blocks /\ b \in Blocks
      <4>1. a + size[a] <= b \/ b + size[b] <= a
        BY <2>2, <3>1 DEF IInv, BlocksDisjoint
      <4> QED BY <1>12, <3>1, <4>1
    <3>2. \A c \in Blocks : c + size'[c] <= p
      BY <1>12
    <3> QED BY <2>2, <3>1, <3>2
  <2> QED BY <1>1, <1>7, <2>1, <2>2 DEF BlocksDisjoint
<1>15. CallInProgress'
  <2>1. Units(nbytes) <= k
    BY GrowthBounds DEF IInv, k
  <2>2. size'[link'[cur']] = k
    BY <1>1, <1>8, <1>9
  <2>3. Units(nbytes) \in Nat
    BY GrowthBounds, Layout DEF IInv
  <2> QED BY <1>1, <1>2, <1>6, <2>1, <2>2, <2>3 DEF CallInProgress
<1>16. LiveKept
  <2>1. live \subseteq Blocks
    BY DEF Blocks
  <2> QED BY <1>12, <2>1 DEF LiveKept
<1> QED BY <1>10, <1>11, <1>13, <1>14, <1>15, <1>16 DEF IInv

(* free puts bp back, merged with its neighbours or not. *)
LEMMA FreeLinkStep ==
  ASSUME IInv, FreeLink
  PROVE  IInv' /\ LiveKept /\ TilesKept
<1> DEFINE n     == link[cur]
           right == bp + size[bp] = n
           left  == cur + size[cur] = bp
           len   == IF right THEN size[bp] + size[n] ELSE size[bp]
           next  == IF right THEN link[n] ELSE n
           gone  == (IF right THEN {n} ELSE {}) \cup (IF left THEN {bp} ELSE {})
           head  == IF left THEN cur ELSE bp
           total == IF left THEN size[cur] + len ELSE len
<1>1. pc = "place" /\ cur \in free /\ n \in free
  BY DEF IInv, CallInProgress, OneRing, Ring, FreeLink
<1>2. bp \in Blocks /\ bp \notin free /\ bp \notin live
  BY <1>1 DEF Blocks, IInv, BlocksDisjoint
<1>3. /\ bp \in Addr /\ bp \in Nat /\ size[bp] \in Nat /\ 1 <= size[bp]
      /\ StackTop <= bp /\ bp # Freelist
      /\ bp + size[bp] <= Break /\ bp + size[bp] <= StackBottom
      /\ bp + size[bp] < AddrUnits
  BY <1>2, BlockPlace
<1>4. cur \in Addr /\ cur \in Nat /\ n \in Addr /\ n \in Nat
      /\ size[cur] \in Nat /\ size[n] \in Nat /\ link[n] \in Addr
  BY <1>1 DEF IInv, TypeOK, Addr
<1>5. cur + size[cur] < AddrUnits
  <2>1. CASE size[cur] = 0
    BY <1>4, <2>1, Layout DEF Addr
  <2>2. CASE size[cur] # 0
    BY <1>1, <2>2, FreeBlock, BlockPlace
  <2> QED BY <2>1, <2>2
<1>6. /\ size' = [a \in Addr |->
                    IF a \in gone THEN 0
                    ELSE IF a # head THEN size[a] ELSE total]
      /\ link' = [a \in Addr |->
                    IF a \in gone THEN NULL
                    ELSE IF a = head THEN next
                    ELSE IF a = cur THEN bp ELSE link[a]]
      /\ freep' = cur /\ free' = (free \cup {bp}) \ gone
      /\ g_heap' = g_heap /\ live' = live
      /\ pc' = "idle" /\ cur' = NULL /\ nbytes' = 0 /\ bp' = NULL
  <2>1. Plus(bp, size[bp]) = bp + size[bp] /\ Plus(cur, size[cur]) = cur + size[cur]
    BY <1>3, <1>5 DEF Plus
  <2> QED BY <2>1 DEF FreeLink, Return
<1>7. /\ right => /\ n \in Blocks /\ n # Freelist /\ n # bp
                  /\ n + size[n] <= Break /\ n + size[n] <= StackBottom
      /\ left  => /\ cur \in Blocks /\ cur # Freelist /\ cur # bp
                  /\ StackTop <= cur
  <2>1. ASSUME right PROVE n \in Blocks /\ n # Freelist /\ n # bp
    <3>1. n # Freelist
      BY <1>3, <1>4, <2>1, Layout
    <3> QED BY <1>1, <1>2, <3>1 DEF Blocks
  <2>2. ASSUME left PROVE cur \in Blocks /\ cur # Freelist /\ cur # bp
    <3>1. cur # Freelist
      BY <1>3, <2>2, Layout DEF IInv, BlocksInHeap
    <3> QED BY <1>1, <1>2, <3>1 DEF Blocks
  <2> QED BY <2>1, <2>2, BlockPlace
<1>8. right => n # cur
  <2> SUFFICES ASSUME right, n = cur PROVE FALSE
    OBVIOUS
  <2>1. {cur} \in SUBSET free /\ {cur} # {} /\ \A a \in {cur} : link[a] \in {cur}
    BY <1>1
  <2>2. Freelist \in {cur}
    BY <2>1 DEF IInv, OneRing, Ring
  <2> QED BY <1>7, <2>2
<1>9. Ring(free, link)
  BY DEF IInv, OneRing
<1>10. OneRing'
  <2>0. cur # bp /\ n # bp
    BY <1>1, <1>2
  <2>1. cur \in free'
    BY <1>1, <1>6, <1>8, <2>0
  <2>2. Ring(free', link')
    <3>1. CASE ~ right /\ ~ left
      <4>1. /\ free' = free \cup {bp}
            /\ link'[bp] = link[cur] /\ link'[cur] = bp
            /\ \A a \in free \ {cur} : link'[a] = link[a]
        BY <1>2, <1>3, <1>4, <1>6, <2>0, <3>1 DEF IInv, TypeOK
      <4> QED BY <1>1, <1>2, <1>9, <4>1, RingInsert
    <3>2. CASE right /\ left
      <4>1. /\ free' = free \ {n}
            /\ link'[cur] = link[n]
            /\ \A a \in free \ {cur, n} : link'[a] = link[a]
        BY <1>2, <1>3, <1>4, <1>6, <1>8, <2>0, <3>2 DEF IInv, TypeOK
      <4> QED BY <1>1, <1>7, <1>9, <3>2, <4>1, RingRemove
    <3>3. CASE ~ right /\ left
      <4>1. /\ free' = free
            /\ \A a \in free : link'[a] = link[a]
        BY <1>2, <1>3, <1>4, <1>6, <2>0, <3>3 DEF IInv, TypeOK
      <4> QED BY <1>9, <4>1, RingSame
    <3>4. CASE right /\ ~ left
      <4> DEFINE m == [link EXCEPT ![cur] = link[n]]
      <4>1. m[cur] = link[n] /\ \A a \in free \ {cur, n} : m[a] = link[a]
        BY <1>4 DEF IInv, TypeOK
      <4>2. /\ free' = (free \ {n}) \cup {bp}
            /\ link'[bp] = link[n] /\ link'[cur] = bp
            /\ \A a \in free \ {cur, n} : link'[a] = link[a]
        BY <1>2, <1>3, <1>4, <1>6, <1>8, <2>0, <3>4 DEF IInv, TypeOK
      <4> HIDE DEF m
      <4>3. Ring(free \ {n}, m)
        BY <1>1, <1>7, <1>9, <3>4, <4>1, RingRemove
      <4>4. cur \in free \ {n} /\ bp \notin free \ {n}
        BY <1>1, <1>2, <1>8, <3>4
      <4>5. \A a \in (free \ {n}) \ {cur} : link'[a] = m[a]
        BY <4>1, <4>2
      <4> QED BY <4>1, <4>2, <4>3, <4>4, <4>5, RingInsert
    <3> QED BY <3>1, <3>2, <3>3, <3>4
  <2> QED BY <1>6, <2>1, <2>2 DEF OneRing
<1>11. Break' = Break /\ Blocks' = Blocks \ gone
  <2>1. Break' = Break
    BY <1>6 DEF Break
  <2>2. Blocks = (free \ {Freelist}) \cup live \cup {bp}
    BY <1>1 DEF Blocks
  <2>3. Blocks' = (free' \ {Freelist}) \cup live
    BY <1>6 DEF Blocks
  <2>4. gone \cap live = {} /\ bp # Freelist
    BY <1>1, <1>2, <1>3 DEF IInv, BlocksDisjoint
  <2> QED BY <1>6, <2>1, <2>2, <2>3, <2>4
<1>12. /\ total \in Nat /\ 1 <= total
       /\ head \in Nat /\ head \in Addr /\ head \in Blocks /\ head \notin gone
       /\ StackTop <= head
       /\ head + total <= Break /\ head + total <= StackBottom
  BY <1>2, <1>3, <1>4, <1>7, <1>8, Layout
<1>13. ASSUME NEW b \in Blocks \ (gone \cup {head})
       PROVE  b + size[b] <= head \/ head + total <= b
  <2>1. b \in Nat /\ size[b] \in Nat /\ 1 <= size[b]
    BY BlockPlace
  <2>2. b + size[b] <= bp \/ bp + size[bp] <= b
    BY <1>2, <1>13 DEF IInv, BlocksDisjoint
  <2>3. right => b + size[b] <= n \/ n + size[n] <= b
    BY <1>7, <1>13 DEF IInv, BlocksDisjoint
  <2>4. left => b + size[b] <= cur \/ cur + size[cur] <= b
    BY <1>7, <1>13 DEF IInv, BlocksDisjoint
  <2>5. bp + len = IF right THEN n + size[n] ELSE bp + size[bp]
    BY <1>3, <1>4
  <2>6. len \in Nat
    BY <1>3, <1>4
  <2>7. b + size[b] <= bp \/ bp + len <= b
    BY <1>3, <1>4, <2>1, <2>2, <2>3, <2>5
  <2> HIDE DEF len
  <2> QED BY <1>3, <1>4, <2>1, <2>4, <2>6, <2>7
<1> HIDE DEF head, gone, total, len, next
<1>14. /\ size' \in [Addr -> Nat]
       /\ size'[head] = total
       /\ \A b \in Addr \ (gone \cup {head}) : size'[b] = size[b]
  BY <1>6, <1>12 DEF IInv, TypeOK
<1>15. NULL \in Addr /\ next \in Addr
  BY <1>4, Layout DEF next, NULL, Addr
<1>16. TypeOK'
  <2>1. link' \in [Addr -> Addr]
    BY <1>3, <1>6, <1>15 DEF IInv, TypeOK
  <2>2. free' \in SUBSET Addr
    BY <1>3, <1>6 DEF IInv, TypeOK
  <2> QED BY <1>4, <1>6, <1>14, <1>15, <2>1, <2>2 DEF IInv, TypeOK
<1>17. \A b \in Blocks \ (gone \cup {head}) :
         /\ b \in Nat /\ size[b] \in Nat /\ size'[b] = size[b]
         /\ 1 <= size[b] /\ StackTop <= b
         /\ b + size[b] <= Break /\ b + size[b] <= StackBottom
  <2> TAKE b \in Blocks \ (gone \cup {head})
  <2>1. /\ b \in Addr /\ b \in Nat /\ size[b] \in Nat
        /\ 1 <= size[b] /\ StackTop <= b
        /\ b + size[b] <= Break /\ b + size[b] <= StackBottom
    BY BlockPlace
  <2>2. size'[b] = size[b]
    BY <1>14, <2>1
  <2> QED BY <2>1, <2>2
<1>18. BlocksInHeap'
  <2>1. size'[Freelist] = 0
    <3>1. Freelist \in Addr /\ Freelist # head /\ size[Freelist] = 0
      BY <1>12, Layout DEF Addr, IInv, BlocksInHeap
    <3> QED BY <1>6, <3>1
  <2>2. ASSUME NEW b \in Blocks \ gone
        PROVE  /\ StackTop <= b /\ 1 <= size'[b]
               /\ b + size'[b] <= Break /\ b + size'[b] <= StackBottom
    <3>1. CASE b = head
      BY <1>12, <1>14, <3>1
    <3>2. CASE b # head
      BY <1>17, <3>2
    <3> QED BY <3>1, <3>2
  <2>3. StackTop <= Break
    BY Layout
  <2> QED BY <1>11, <2>1, <2>2, <2>3 DEF BlocksInHeap
<1>19. BlocksDisjoint'
  <2>1. free' \cap live' = {}
    BY <1>2, <1>6 DEF IInv, BlocksDisjoint
  <2>2. ASSUME NEW a \in Blocks \ gone, NEW b \in Blocks \ gone, a # b
        PROVE  a + size'[a] <= b \/ b + size'[b] <= a
    <3>1. CASE a # head /\ b # head
      <4>1. a + size[a] <= b \/ b + size[b] <= a
        BY <2>2, <3>1 DEF IInv, BlocksDisjoint
      <4> QED BY <1>17, <3>1, <4>1
    <3>2. \A c \in Blocks \ (gone \cup {head}) :
             c + size'[c] <= head \/ head + size'[head] <= c
      BY <1>13, <1>14, <1>17
    <3> QED BY <2>2, <3>1, <3>2
  <2> QED BY <1>6, <1>11, <2>1, <2>2 DEF BlocksDisjoint
<1>20. CallInProgress'
  BY <1>6 DEF CallInProgress
<1>21. LiveKept
  <2>1. ASSUME NEW b \in live PROVE b \in Blocks \ (gone \cup {head})
    BY <1>1, <1>2 DEF Blocks, IInv, BlocksDisjoint, gone, head
  <2> QED BY <1>17, <2>1 DEF LiveKept
<1>22. TilesKept
  <2>1. \A b \in Blocks \ (gone \cup {head}) : b + size[b] \in Ends'
    BY <1>11, <1>17 DEF Ends
  <2>2. head + total \in Ends'
    <3>1. head \in Blocks' /\ size'[head] = total
      BY <1>11, <1>12, <1>14
    <3> QED BY <3>1 DEF Ends
  <2>3. \A g \in gone : g \notin Blocks' /\ g # Break
    <3>1. gone \subseteq Blocks
      BY <1>2, <1>7 DEF gone
    <3>2. \A g \in Blocks : g \in Nat /\ size[g] \in Nat /\ 1 <= size[g] /\ g + size[g] <= Break
      BY BlockPlace
    <3>3. \A g \in Blocks : g # Break
      BY <3>2, Layout
    <3> QED BY <1>11, <3>1, <3>3
  <2>4. ASSUME NEW b \in gone \cup {head}
        PROVE  b + size[b] = head + total \/ b + size[b] \in gone
    <3>1. CASE right /\ left
      BY <1>3, <1>4, <2>4, <3>1 DEF gone, head, total, len
    <3>2. CASE right /\ ~ left
      BY <1>3, <1>4, <2>4, <3>2 DEF gone, head, total, len
    <3>3. CASE ~ right /\ left
      BY <1>3, <1>4, <2>4, <3>3 DEF gone, head, total, len
    <3>4. CASE ~ right /\ ~ left
      BY <1>3, <1>4, <2>4, <3>4 DEF gone, head, total, len
    <3> QED BY <3>1, <3>2, <3>3, <3>4
  <2>5. \A b \in Blocks : b + size[b] \in Ends' \/ b + size[b] \in gone
    BY <2>1, <2>2, <2>4
  <2>6. \A e \in Ends : e \in Ends' \/ (e \notin Blocks' /\ e # Break)
    BY <2>3, <2>5 DEF Ends
  <2>7. Blocks' \ Blocks = {}
    BY <1>11
  <2> QED BY <1>11, <2>6, <2>7 DEF TilesKept
<1> QED BY <1>10, <1>16, <1>18, <1>19, <1>20, <1>21, <1>22 DEF IInv

-----------------------------------------------------------------------------
(* The inductive invariant survives every step, as long as no malloc call  *)
(* may push the break around the end of the address space.                 *)
LEMMA StepIInv ==
  ASSUME BreakBound < AddrUnits, IInv, [Next]_vars
  PROVE  IInv'
<1>1. CASE UNCHANGED vars
  <2>1. Blocks' = Blocks /\ Break' = Break /\ Growth' = Growth
    BY <1>1 DEF vars, Blocks, Break, Growth
  <2>2. TypeOK' /\ OneRing'
    BY <1>1 DEF vars, IInv, TypeOK, OneRing
  <2>3. BlocksInHeap' /\ BlocksDisjoint'
    BY <1>1, <2>1 DEF vars, IInv, BlocksInHeap, BlocksDisjoint
  <2>4. CallInProgress'
    BY <1>1, <2>1 DEF vars, IInv, CallInProgress
  <2> QED BY <2>2, <2>3, <2>4 DEF IInv
<1>2. CASE \E n \in Requests : MallocCall(n)
  BY <1>2, CallSteps
<1>3. CASE \E b \in live : FreeCall(b)
  BY <1>3, CallSteps
<1>4. CASE Malloc
  BY <1>4, SplitStep, ExactStep, WalkSteps, GrowStep, FailStep DEF Malloc
<1>5. CASE Free
  BY <1>5, WalkSteps, FreeLinkStep DEF Free
<1> QED BY <1>1, <1>2, <1>3, <1>4, <1>5 DEF Next

(* Whatever sequence of malloc and free calls the kernel makes, the heap   *)
(* structure stays intact while the break does not wrap: the free list is  *)
(* one ring, blocks lie in the granted memory and do not overlap.          *)
THEOREM HeapInvariant ==
  ASSUME BreakBound < AddrUnits
  PROVE  Spec => []IInv
<1>1. Init => IInv
  BY InitIInv
<1>2. IInv /\ [Next]_vars => IInv'
  BY StepIInv
<1> QED BY <1>1, <1>2, PTL DEF Spec

(* Every variable of malloc.c and sbrk.c keeps a value of its type. *)
THEOREM HeapTypeOK ==
  ASSUME BreakBound < AddrUnits
  PROVE  Spec => []TypeOK
<1>1. IInv => TypeOK
  BY DEF IInv
<1> QED BY <1>1, HeapInvariant, PTL

(* malloc never hands out a unit somebody owns, and free never gives back  *)
(* more than it was given.                                                 *)
THEOREM HeapBlocksDisjoint ==
  ASSUME BreakBound < AddrUnits
  PROVE  Spec => []BlocksDisjoint
<1>1. IInv => BlocksDisjoint
  BY DEF IInv
<1> QED BY <1>1, HeapInvariant, PTL

(* The list that malloc and free walk is one ring through all free blocks. *)
THEOREM HeapOneRing ==
  ASSUME BreakBound < AddrUnits
  PROVE  Spec => []OneRing
<1>1. IInv => OneRing
  BY DEF IInv
<1> QED BY <1>1, HeapInvariant, PTL

(* No call of malloc or free changes the size of a block its owner holds.  *)
THEOREM HeapLiveUntouched ==
  ASSUME BreakBound < AddrUnits
  PROVE  Spec => LiveUntouched
<1>1. ASSUME IInv, [Next]_vars
      PROVE  [LiveKept]_vars
  <2>1. CASE MallocSplit \/ MallocGrow \/ FreeLink
    BY <1>1, <2>1, SplitStep, GrowStep, FreeLinkStep
  <2>2. CASE size' = size
    BY <2>2 DEF LiveKept
  <2>3. CASE UNCHANGED vars
    BY <2>3 DEF vars
  <2>4. CASE \E n \in Requests : MallocCall(n)
    BY <2>2, <2>4 DEF MallocCall, listvars
  <2>5. CASE \E b \in live : FreeCall(b)
    BY <2>2, <2>5 DEF FreeCall, listvars
  <2>6. CASE MallocExact \/ MallocPass \/ MallocFail \/ FreeAdvance
    BY <2>2, <2>6 DEF MallocExact, MallocPass, MallocFail, FreeAdvance, listvars
  <2> QED BY <1>1, <2>1, <2>3, <2>4, <2>5, <2>6 DEF Next, Malloc, Free
<1>2. LiveUntouched <=> [][LiveKept]_vars
  BY PTL DEF LiveUntouched, LiveKept
<1> QED BY <1>1, <1>2, HeapInvariant, PTL DEF Spec

(* The first block the search meets after a growth fits, so malloc's       *)
(* recursion is never deeper than one.                                     *)
THEOREM HeapGrowthSatisfiesCall ==
  ASSUME BreakBound < AddrUnits
  PROVE  Spec => GrowthSatisfiesCall
<1> DEFINE A == pc = "grow" /\ pc' = "search" => size'[link'[cur']] >= Units(nbytes)
<1>1. ASSUME IInv, [Next]_vars PROVE [A]_vars
  <2>1. CASE MallocGrow
    <3>1. Break \in Addr /\ freep \in Addr
      BY <1>1, Layout DEF Addr, IInv, TypeOK
    <3>2. size \in [Addr -> Nat] /\ link \in [Addr -> Addr]
      BY <1>1 DEF IInv, TypeOK
    <3>3. /\ size' = [size EXCEPT ![Break] = Growth]
          /\ link' = [link EXCEPT ![Break] = link[freep], ![freep] = Break]
          /\ cur' = freep
      BY <2>1 DEF MallocGrow
    <3>4. size'[Break] = Growth /\ link'[freep] = Break
      BY <3>1, <3>2, <3>3
    <3>5. Growth >= Units(nbytes)
      BY <1>1, GrowthBounds, LayoutAssumption DEF IInv
    <3> QED BY <3>3, <3>4, <3>5
  <2>2. CASE pc # "grow" \/ pc' # "search" \/ UNCHANGED vars
    BY <2>2
  <2> QED BY <1>1, <2>1, <2>2
        DEF Next, Malloc, Free, MallocCall, FreeCall, MallocSplit, MallocExact,
            MallocPass, MallocFail, FreeAdvance, FreeLink, Return
<1> QED BY <1>1, HeapInvariant, PTL DEF Spec, GrowthSatisfiesCall

(* Once sbrk has refused a request it refuses every later one, while the   *)
(* break does not wrap around.                                             *)
THEOREM HeapExhaustionIsFinal ==
  ASSUME BreakBound < AddrUnits
  PROVE  Spec => ExhaustionIsFinal
<1> DEFINE A == g_heap >= StackBottom => g_heap' >= StackBottom
<1>1. ASSUME IInv, [Next]_vars PROVE [A]_vars
  <2>1. CASE MallocGrow \/ MallocFail
    <3>1. pc = "grow" /\ Sbrk(Growth)
      BY <2>1 DEF MallocGrow, MallocFail
    <3>2. Growth \in Nat /\ g_heap' = Break + Growth
      BY <1>1, <3>1, BreakMoves
    <3>3. g_heap \in Nat /\ StackBottom \in Nat /\ Break \in Nat
      BY <1>1, Layout DEF IInv, TypeOK, Addr
    <3>4. Break >= g_heap
      BY <3>3, LayoutAssumption DEF Break, NULL, Addr
    <3> QED BY <3>2, <3>3, <3>4
  <2>2. CASE g_heap' = g_heap
    BY <2>2
  <2> QED BY <1>1, <2>1, <2>2
        DEF Next, Malloc, Free, MallocCall, FreeCall, MallocSplit, MallocExact,
            MallocPass, FreeAdvance, FreeLink, vars
<1> QED BY <1>1, HeapInvariant, PTL DEF Spec, ExhaustionIsFinal

-----------------------------------------------------------------------------
(* No unit is lost. *)

(* Blocks follow one another without a gap, from stack_top up to the       *)
(* break, until a refused request moves the break beyond stack_bottom.     *)
Tiled ==
  /\ Blocks \subseteq Ends \cup {StackTop}
  /\ Break >= StackBottom \/ Break \in Ends \cup {StackTop}

LEMMA TilesKeptTiled ==
  ASSUME Tiled, TilesKept
  PROVE  Tiled'
BY DEF Tiled, TilesKept

LEMMA SameBlocksTiled ==
  ASSUME Tiled, Blocks' = Blocks, size' = size, Break' = Break
  PROVE  Tiled'
BY DEF Tiled, Ends

LEMMA StepTiled ==
  ASSUME BreakBound < AddrUnits, IInv, Tiled, [Next]_vars
  PROVE  Tiled'
<1>1. CASE MallocSplit \/ FreeLink
  BY <1>1, SplitStep, FreeLinkStep, TilesKeptTiled
<1>2. CASE MallocExact
  <2>1. link[cur] \in free /\ size[link[cur]] # 0
    BY <1>2, GrowthBounds, LayoutAssumption
       DEF IInv, CallInProgress, OneRing, Ring, MallocExact
  <2>2. link[cur] \in Blocks /\ link[cur] # Freelist
    BY <2>1, FreeBlock, BlockPlace
  <2>3. /\ pc = "search" /\ pc' = "idle" /\ size' = size /\ g_heap' = g_heap
        /\ live' = live \cup {link[cur]} /\ free' = free \ {link[cur]}
    BY <1>2 DEF MallocExact, MallocReturn, Return
  <2> QED BY <2>1, <2>2, <2>3, SameBlocksTiled DEF Blocks, Break
<1>3. CASE MallocFail
  <2>1. pc = "grow" /\ Sbrk(Growth) /\ SbrkRefused(Growth)
    BY <1>3 DEF MallocFail
  <2>2. Plus(Break, Growth) = Break + Growth /\ Break' = Break + Growth
    BY <2>1, BreakMoves
  <2>3. Break' >= StackBottom
    BY <2>1, <2>2 DEF SbrkRefused
  <2>4. Blocks' = Blocks /\ size' = size
    BY <1>3 DEF MallocFail, Return, listvars, Blocks
  <2> QED BY <2>3, <2>4 DEF Tiled, Ends
<1>4. CASE MallocGrow
  <2>1. /\ pc = "grow" /\ Sbrk(Growth) /\ ~ SbrkRefused(Growth)
        /\ size' = [size EXCEPT ![Break] = Growth]
        /\ Blocks' = Blocks \cup {Break}
    BY <1>4, Layout DEF MallocGrow, Blocks
  <2>2. Growth \in Nat /\ Plus(Break, Growth) = Break + Growth /\ Break' = Break + Growth
    BY <2>1, BreakMoves
  <2>3. Break \in Nat /\ Break \in Addr /\ ~ (Break >= StackBottom)
    BY <2>1, <2>2, Layout DEF SbrkRefused, Addr
  <2>4. size'[Break] = Growth /\ \A b \in Addr \ {Break} : size'[b] = size[b]
    BY <2>1, <2>3 DEF IInv, TypeOK
  <2>5. Break \in Ends \cup {StackTop}
    BY <2>3 DEF Tiled
  <2>6. Break' \in Ends'
    BY <2>1, <2>2, <2>4 DEF Ends
  <2>7. Ends \subseteq Ends'
    <3>1. \A b \in Blocks : b \in Addr \ {Break}
      <4>1. \A b \in Blocks : b \in Addr /\ b \in Nat /\ size[b] \in Nat
                              /\ 1 <= size[b] /\ b + size[b] <= Break
        BY BlockPlace
      <4> QED BY <2>3, <4>1
    <3>2. \A b \in Blocks : b \in Blocks' /\ size'[b] = size[b]
      BY <2>1, <2>4, <3>1
    <3> QED BY <3>2 DEF Ends
  <2> QED BY <2>1, <2>5, <2>6, <2>7 DEF Tiled
<1>5. CASE (\E n \in Requests : MallocCall(n)) \/ MallocPass \/ FreeAdvance
  BY <1>5, SameBlocksTiled DEF MallocCall, MallocPass, FreeAdvance, listvars, Blocks, Break
<1>6. CASE \E b \in live : FreeCall(b)
  BY <1>6, SameBlocksTiled DEF FreeCall, listvars, Blocks, Break
<1>7. CASE UNCHANGED vars
  BY <1>7, SameBlocksTiled DEF vars, Blocks, Break
<1> QED BY <1>1, <1>2, <1>3, <1>4, <1>5, <1>6, <1>7 DEF Next, Malloc, Free

(* Every unit sbrk granted belongs to a block: a split leaves no rest, a   *)
(* merge covers both its parts, and an exact fit that is unlinked is not   *)
(* forgotten.                                                              *)
THEOREM HeapNoUnitLost ==
  ASSUME BreakBound < AddrUnits
  PROVE  Spec => []NoUnitLost
<1>1. Init => Tiled
  <2> SUFFICES ASSUME Init PROVE Tiled
    OBVIOUS
  <2>1. Blocks = {} /\ Break = StackTop
    BY DEF Init, Blocks, Break
  <2> QED BY <2>1 DEF Tiled
<1>2. IInv /\ Tiled /\ [Next]_vars => Tiled'
  BY StepTiled
<1>3. IInv /\ Tiled => NoUnitLost
  <2> SUFFICES ASSUME IInv, Tiled, NEW b \in Blocks
               PROVE  /\ b = StackTop \/ \E a \in Blocks : a + size[a] = b
                      /\ Extent(b) \subseteq StackTop .. StackBottom - 1
    BY DEF NoUnitLost
  <2>1. b = StackTop \/ \E a \in Blocks : a + size[a] = b
    BY DEF Tiled, Ends
  <2>2. Extent(b) \subseteq StackTop .. StackBottom - 1
    BY BlockPlace, Layout DEF Extent
  <2> QED BY <2>1, <2>2
<1> QED BY <1>1, <1>2, <1>3, HeapInvariant, PTL DEF Spec

-----------------------------------------------------------------------------
(* The search misses no block. *)

(* W has been passed over: the blocks from freep's successor to cur, none  *)
(* of which is large enough.                                               *)
Walked(W) ==
  /\ cur \in W \cup {freep}
  /\ \A a \in W \cup {freep} : a # cur => link[a] \in W
  /\ \A w \in W : /\ size[w] < Units(nbytes)
                  /\ \E a \in W \cup {freep} : link[a] = w

SearchedSoFar ==
  /\ pc = "search" => \E W \in SUBSET free : Walked(W)
  /\ pc = "grow" => \A b \in free : size[b] < Units(nbytes)

(* A part of a ring that every link stays in and that every member is      *)
(* linked from is all of the ring.                                         *)
LEMMA RingWhole ==
  ASSUME NEW F, NEW l, Ring(F, l), NEW W \in SUBSET F, W # {},
         \A w \in W : l[w] \in W,
         \A w \in W : \E a \in W : l[a] = w
  PROVE  W = F
<1>1. Freelist \in W
  BY DEF Ring
<1>2. ASSUME NEW a \in F \ W PROVE l[a] \in F \ W
  <2>1. l[a] \in F
    BY DEF Ring
  <2>2. ASSUME l[a] \in W PROVE FALSE
    <3>1. PICK b \in W : l[b] = l[a]
      BY <2>2
    <3> QED BY <3>1 DEF Ring
  <2> QED BY <2>1, <2>2
<1>3. F \ W # {} => Freelist \in F \ W
  BY <1>2 DEF Ring
<1> QED BY <1>1, <1>3

LEMMA StepSearched ==
  ASSUME IInv, SearchedSoFar, [Next]_vars
  PROVE  SearchedSoFar'
<1>1. CASE pc' \notin {"search", "grow"}
  BY <1>1 DEF SearchedSoFar
<1>2. ASSUME pc' = "search", cur' = freep', freep' \in free'
      PROVE  SearchedSoFar'
  <2>1. Walked({})'
    BY <1>2 DEF Walked
  <2> QED BY <1>2, <2>1 DEF SearchedSoFar
<1>3. CASE \E n \in Requests : MallocCall(n)
  BY <1>2, <1>3 DEF MallocCall, listvars, IInv, OneRing
<1>4. CASE MallocGrow
  BY <1>2, <1>4 DEF MallocGrow, IInv, OneRing
<1>5. CASE MallocPass
  <2>1. PICK p : p = link[cur]
    OBVIOUS
  <2>2. /\ pc = "search" /\ size[p] < Units(nbytes) /\ cur' = p
        /\ pc' = IF p = freep THEN "grow" ELSE "search"
        /\ UNCHANGED <<freep, link, size, nbytes, free>>
    BY <1>5, <2>1 DEF MallocPass, listvars
  <2>3. PICK W \in SUBSET free : Walked(W)
    BY <2>2 DEF SearchedSoFar
  <2>4. PICK V : V = W \cup {p}
    OBVIOUS
  <2>5. p \in free /\ V \in SUBSET free
    BY <2>1, <2>2, <2>4 DEF IInv, CallInProgress, OneRing, Ring
  <2>6. /\ \A a \in V \cup {freep} : a # p => link[a] \in V
        /\ \A w \in V : /\ size[w] < Units(nbytes)
                        /\ \E a \in W \cup {freep} : link[a] = w
    BY <2>1, <2>2, <2>3, <2>4 DEF Walked
  <2>7. CASE p # freep
    <3>1. Walked(V)'
      BY <2>2, <2>6, <2>4 DEF Walked, Units
    <3> QED BY <2>2, <2>5, <2>7, <3>1 DEF SearchedSoFar
  <2>8. CASE p = freep
    <3>1. \A w \in V : link[w] \in V
      BY <2>1, <2>3, <2>8, <2>4 DEF Walked
    <3>2. \A w \in V : \E a \in V : link[a] = w
      BY <2>6, <2>8, <2>4
    <3>3. Ring(free, link) /\ V # {}
      BY <2>4 DEF IInv, OneRing
    <3>4. V = free
      BY <2>5, <3>1, <3>2, <3>3, RingWhole
    <3> QED BY <2>2, <2>6, <2>8, <3>4 DEF SearchedSoFar, Units
  <2> QED BY <2>7, <2>8
<1>6. CASE UNCHANGED vars
  <2>1. \A W : Walked(W)' <=> Walked(W)
    BY <1>6 DEF vars, Walked, Units
  <2> QED BY <1>6, <2>1 DEF vars, SearchedSoFar, Units
<1> QED BY <1>1, <1>3, <1>4, <1>5, <1>6
        DEF Next, Malloc, Free, FreeCall, MallocSplit, MallocExact, MallocFail,
            MallocReturn, FreeAdvance, FreeLink, Return

(* malloc returns 0 only if no block on the list was large enough,         *)
(* wherever on the ring freep stood when the search began.                 *)
THEOREM HeapNullOnlyWhenNothingFits ==
  ASSUME BreakBound < AddrUnits
  PROVE  Spec => NullOnlyWhenNothingFits
<1>1. Init => SearchedSoFar
  BY DEF Init, SearchedSoFar
<1>2. IInv /\ SearchedSoFar /\ [Next]_vars => SearchedSoFar'
  BY StepSearched
<1> DEFINE A == pc = "grow" /\ pc' = "idle" => \A b \in free : size[b] < Units(nbytes)
<1>3. SearchedSoFar => A
  BY DEF SearchedSoFar
<1> QED BY <1>1, <1>2, <1>3, HeapInvariant, PTL DEF Spec, NullOnlyWhenNothingFits

-----------------------------------------------------------------------------
(* Refinement of the abstract heap. *)

(* Where no size of an owned block changes, the regions owned change with  *)
(* the blocks.                                                             *)
Owned == {<<b, size[b]>> : b \in live}
Asking == IF pc \in {"search", "grow"} THEN {nbytes} ELSE {}

LEMMA OwnedKept ==
  ASSUME LiveKept, live' = live
  PROVE  Owned' = Owned
BY DEF LiveKept, Owned

(* Handing out block b of the heap is a grant of the abstract one.         *)
LEMMA GrantStep ==
  ASSUME IInv, IInv', LiveKept, NEW b, b \notin live, live' = live \cup {b},
         b \in Blocks', size'[b] = Units(nbytes), nbytes \in Requests \cup {0},
         pc = "search", pc' = "idle"
  PROVE  Abstract!Next
<1>0. PICK r : r = <<b, size'[b]>>
  OBVIOUS
<1>1. /\ b \in Nat /\ b \in StackTop .. StackBottom - 1
      /\ size'[b] \in 1 .. AddrUnits
      /\ b + size'[b] <= StackBottom
  <2>1. /\ b \in Nat /\ size'[b] \in Nat
        /\ 1 <= size'[b] /\ StackTop <= b
        /\ b + size'[b] <= StackBottom
        /\ b + size'[b] < AddrUnits
    <3>1. b \in Addr /\ size' \in [Addr -> Nat]
      BY DEF IInv, TypeOK, Blocks
    <3>2. /\ StackTop <= b /\ 1 <= size'[b] /\ b + size'[b] <= StackBottom
      BY DEF IInv, BlocksInHeap
    <3> QED BY <3>1, <3>2, Layout DEF Addr
  <2> QED BY <2>1, Layout
<1>2. HeaderSize * (size'[b] - 1) >= nbytes
  BY UnitsRoundUp
<1>3. b .. b + size'[b] - 1 \subseteq StackTop .. StackBottom - 1
  BY <1>1, Layout
<1>4. ASSUME NEW c \in live
      PROVE  (c .. c + size[c] - 1) \cap (b .. b + size'[b] - 1) = {}
  <2>1. c \in Nat /\ size[c] \in Nat
    BY DEF IInv, TypeOK, Addr
  <2>2. size'[c] = size[c]
    BY DEF LiveKept
  <2>3. c + size'[c] <= b \/ b + size'[b] <= c
    BY DEF IInv, BlocksDisjoint, Blocks
  <2> QED BY <1>1, <2>1, <2>2, <2>3
<1>5. Owned' = Owned \cup {r}
  BY <1>0 DEF LiveKept, Owned
<1>6. Abstract!Grant(r)
  <2>1. r[1] = b /\ r[2] = size'[b]
    BY <1>0
  <2>2. \A o \in Owned : (o[1] .. o[1] + o[2] - 1) \cap (r[1] .. r[1] + r[2] - 1) = {}
    BY <1>4, <2>1 DEF Owned
  <2>3. Asking = {nbytes} /\ Asking' = {}
    BY DEF Asking
  <2> QED BY <1>2, <1>3, <1>5, <2>1, <2>2, <2>3 DEF Abstract!Grant, Abstract!Region, Owned, Asking
<1>7. r \in (StackTop .. StackBottom - 1) \X (1 .. AddrUnits)
  BY <1>0, <1>1
<1> QED BY <1>6, <1>7 DEF Abstract!Next, Abstract!Answer

LEMMA StepAbstract ==
  ASSUME BreakBound < AddrUnits, IInv, [Next]_vars
  PROVE  [Abstract!Next]_<<Owned, Asking>>
<1>0. IInv'
  BY StepIInv
<1>1. CASE \E n \in Requests : MallocCall(n)
  <2> PICK n \in Requests : MallocCall(n)
    BY <1>1
  <2>1. Owned' = Owned /\ Asking = {} /\ Asking' = {n}
    BY DEF MallocCall, listvars, Owned, Asking
  <2>2. Abstract!Ask(n)
    BY <2>1 DEF Abstract!Ask, Owned, Asking
  <2> QED BY <2>2 DEF Abstract!Next
<1>2. CASE \E b \in live : FreeCall(b)
  <2> PICK b \in live : FreeCall(b)
    BY <1>2
  <2>1. Owned' = Owned \ {<<b, size[b]>>} /\ Asking = {} /\ Asking' = {}
    BY DEF FreeCall, listvars, Owned, Asking
  <2>2. PICK r \in Owned : r = <<b, size[b]>>
    BY DEF Owned
  <2>3. Abstract!Release(r)
    BY <2>1, <2>2 DEF Abstract!Release, Owned, Asking
  <2> QED BY <2>2, <2>3 DEF Abstract!Next, Owned
<1>3. CASE MallocSplit
  <2> DEFINE b == Plus(link[cur], size[link[cur]] - Units(nbytes))
  <2>1. /\ pc = "search" /\ pc' = "idle" /\ live' = live \cup {b} /\ LiveKept
        /\ size' = [size EXCEPT ![link[cur]] = size[link[cur]] - Units(nbytes),
                                ![b] = Units(nbytes)]
    BY <1>3, SplitStep DEF MallocSplit, MallocReturn, Return
  <2> HIDE DEF b
  <2>2. b \in live' /\ b \in Addr /\ b \in Blocks'
    BY <1>0, <2>1 DEF IInv, TypeOK, Blocks
  <2>3. size'[b] = Units(nbytes)
    BY <2>1, <2>2 DEF IInv, TypeOK
  <2>4. b \notin live
    BY <1>3, <2>1, SplitStep
  <2> QED BY <1>0, <2>1, <2>2, <2>3, <2>4, GrantStep DEF IInv, TypeOK
<1>4. CASE MallocExact
  <2> DEFINE b == link[cur]
  <2>1. /\ pc = "search" /\ pc' = "idle" /\ live' = live \cup {b}
        /\ size' = size /\ size[b] = Units(nbytes) /\ LiveKept
    BY <1>4 DEF MallocExact, MallocReturn, Return, LiveKept
  <2>2. b \notin live
    BY <2>1 DEF IInv, CallInProgress, OneRing, Ring, BlocksDisjoint
  <2> HIDE DEF b
  <2>3. b \in Blocks'
    BY <2>1 DEF Blocks
  <2> QED BY <1>0, <2>1, <2>2, <2>3, GrantStep DEF IInv, TypeOK
<1>5. CASE MallocFail
  <2>1. Owned' = Owned /\ Asking # {} /\ Asking' = {}
    BY <1>5 DEF MallocFail, Return, listvars, Owned, Asking
  <2>2. Abstract!Refuse
    BY <2>1 DEF Abstract!Refuse, Owned, Asking
  <2> QED BY <2>2 DEF Abstract!Next, Abstract!Answer
<1>6. CASE MallocPass \/ FreeAdvance
  <2>1. Owned' = Owned /\ Asking' = Asking
    BY <1>6 DEF MallocPass, FreeAdvance, listvars, Owned, Asking
  <2> QED BY <2>1
<1>7. CASE MallocGrow
  <2>1. Owned' = Owned
    BY <1>7, GrowStep, OwnedKept DEF MallocGrow
  <2>2. Asking' = Asking
    BY <1>7 DEF MallocGrow, Asking
  <2> QED BY <2>1, <2>2
<1>8. CASE FreeLink
  <2>1. Owned' = Owned
    BY <1>8, FreeLinkStep, OwnedKept DEF FreeLink
  <2>2. Asking' = Asking
    BY <1>8 DEF FreeLink, Return, Asking
  <2> QED BY <2>1, <2>2
<1>9. CASE UNCHANGED vars
  <2>1. Owned' = Owned /\ Asking' = Asking
    BY <1>9 DEF vars, Owned, Asking
  <2> QED BY <2>1
<1> QED BY <1>1, <1>2, <1>3, <1>4, <1>5, <1>6, <1>7, <1>8, <1>9 DEF Next, Malloc, Free

(* malloc and free implement the abstract heap, up to its fairness: every  *)
(* step is a step of the abstract heap or leaves it alone.  What malloc    *)
(* returns has room for the bytes asked for, lies in the heap and overlaps *)
(* no block in use.                                                        *)
THEOREM HeapRefinesAbstract ==
  ASSUME BreakBound < AddrUnits
  PROVE  Spec => Abstract!Init /\ [][Abstract!Next]_(Abstract!absvars)
<1>1. Init => Abstract!Init
  BY DEF Init, Abstract!Init
<1>2. IInv /\ [Next]_vars => [Abstract!Next]_(Abstract!absvars)
  BY StepAbstract DEF Abstract!absvars, Owned, Asking
<1> QED BY <1>1, <1>2, HeapInvariant, PTL DEF Spec

(* With stack_bottom below stack_top, as boot.asm lays them out, malloc    *)
(* has nothing to give: whatever is asked for, every call returns 0.       *)
THEOREM BootHeapIsEmpty ==
  ASSUME BreakBound < AddrUnits, StackBottom <= StackTop
  PROVE  Spec => []NothingHandedOut
<1>1. IInv => NothingHandedOut
  <2> SUFFICES ASSUME IInv PROVE NothingHandedOut
    OBVIOUS
  <2>1. Blocks = {}
    <3> SUFFICES ASSUME NEW b \in Blocks PROVE FALSE
      OBVIOUS
    <3> QED BY BlockPlace, Layout
  <2> QED BY <2>1 DEF Blocks, NothingHandedOut, IInv, OneRing, Ring
<1> QED BY <1>1, HeapInvariant, PTL

-----------------------------------------------------------------------------
(* On a ring every block has a predecessor ... *)
LEMMA RingOnto ==
  ASSUME NEW F, NEW l, IsFiniteSet(F), NEW S \in SUBSET F,
         \A a \in S : l[a] \in S, \A a, b \in F : l[a] = l[b] => a = b
  PROVE  \A b \in S : \E a \in S : l[a] = b
<1> DEFINE f == [a \in S |-> l[a]]
<1>1. IsFiniteSet(S)
  BY FS_Subset
<1>2. f \in Injection(S, S)
  BY DEF Injection, IsInjective
<1>3. f \in Surjection(S, S)
  BY <1>1, <1>2, FS_Injection
<1>4. \A b \in S : \E a \in S : f[a] = b
  BY <1>3 DEF Surjection
<1> QED BY <1>4

LEMMA RingPredecessor ==
  ASSUME NEW F, NEW l, IsFiniteSet(F), Ring(F, l)
  PROVE  \A b \in F : \E a \in F : l[a] = b
<1>1. PICK S \in SUBSET F : S = F
  OBVIOUS
<1>2. (\A a \in S : l[a] \in S) /\ \A a, b \in F : l[a] = l[b] => a = b
  BY <1>1 DEF Ring
<1>3. \A b \in S : \E a \in S : l[a] = b
  BY <1>2, RingOnto
<1> QED BY <1>1, <1>3

(* ... so a walk, from wherever it starts, meets them all. *)
LEMMA RingMet ==
  ASSUME NEW F, NEW l, IsFiniteSet(F), Ring(F, l), NEW S \in SUBSET F, S # {},
         \A a \in S : l[a] \in S
  PROVE  S = F
<1>1. \A b \in S : \E a \in S : l[a] = b
  BY RingOnto DEF Ring
<1>2. \A a \in F \ S : l[a] \in F \ S
  <2> SUFFICES ASSUME NEW a \in F \ S, l[a] \in S PROVE FALSE
    BY DEF Ring
  <2>1. PICK b \in S : l[b] = l[a]
    BY <1>1
  <2> QED BY <2>1 DEF Ring
<1>3. Freelist \in S
  BY DEF Ring
<1>4. F \ S = {}
  <2>1. F \ S \in SUBSET F /\ Freelist \notin F \ S
    BY <1>3
  <2> QED BY <1>2, <2>1 DEF Ring
<1> QED BY <1>4

(* From wherever they stand the two walks reach what ends them: that of    *)
(* malloc is back at freep, that of free at a place for its block.  Every  *)
(* set that holds cur and with each block the one it links to has one.     *)
WalksEnd ==
  \A S \in SUBSET free :
    cur \in S /\ (\A a \in S : link[a] \in S) =>
      /\ pc = "search" => \E a \in S : link[a] = freep
      /\ pc = "place" => \E a \in S : Between(a, link[a])

(* The list is finite, and its last block links to freelist. *)
LEMMA RingEnd ==
  ASSUME IInv
  PROVE  IsFiniteSet(free) /\ \E a \in free : link[a] = Freelist
<1>1. IsFiniteSet(Addr)
  BY LayoutAssumption, FS_Interval DEF Addr
<1>2. IsFiniteSet(free)
  BY <1>1, FS_Subset DEF IInv, TypeOK
<1>3. Ring(free, link)
  BY DEF IInv, OneRing
<1>4. \A b \in free : \E a \in free : link[a] = b
  BY <1>2, <1>3, RingPredecessor
<1> QED BY <1>2, <1>3, <1>4 DEF Ring

(* There is a place for a block that is not on the list: if every block    *)
(* below it were followed by another below it, the ring would be all below *)
(* it, and its end is then such a place.                                   *)
LEMMA PlaceExists ==
  ASSUME IInv, pc = "place"
  PROVE  \E a \in free : Between(a, link[a])
<1> SUFFICES ASSUME \A a \in free : ~ Between(a, link[a])
             PROVE  FALSE
  OBVIOUS
<1> DEFINE S == {a \in free : a < bp}
<1>1. /\ IsFiniteSet(free) /\ free \subseteq Nat /\ bp \in Nat
      /\ bp \notin free /\ Ring(free, link)
  BY RingEnd DEF IInv, TypeOK, Addr, BlocksDisjoint, OneRing
<1>2. Freelist \in S
  <2>1. bp \in Blocks
    BY DEF Blocks
  <2>2. StackTop <= bp
    BY <2>1 DEF IInv, BlocksInHeap
  <2>3. Freelist \in free /\ Freelist \in Nat /\ StackTop \in Nat /\ Freelist < StackTop
    BY <1>1, LayoutAssumption DEF Ring, Addr
  <2> QED BY <1>1, <2>2, <2>3
<1>3. \A a \in S : link[a] \in S
  <2> SUFFICES ASSUME NEW a \in S PROVE link[a] \in S
    OBVIOUS
  <2>1. link[a] \in free
    BY <1>1 DEF Ring
  <2>2. ~ Between(a, link[a]) /\ a < bp /\ a \in Nat /\ link[a] \in Nat /\ link[a] # bp
    BY <1>1, <2>1
  <2>3. link[a] < bp
    BY <1>1, <2>2 DEF Between
  <2> QED BY <2>1, <2>3
<1>4. S = free
  <2>1. S \in SUBSET free /\ S # {}
    BY <1>2
  <2> HIDE DEF S
  <2> QED BY <1>1, <1>3, <2>1, RingMet
<1>5. PICK a \in free : link[a] = Freelist
  BY <1>2, RingEnd
<1>6. a \in Nat /\ a < bp /\ Freelist \in Nat
  BY <1>1, <1>2, <1>4
<1>7. Freelist <= a
  <2>1. CASE a = Freelist
    BY <1>6, <2>1
  <2>2. CASE a # Freelist
    <3>1. a \in Blocks
      BY <2>2 DEF Blocks
    <3>2. StackTop <= a
      BY <3>1 DEF IInv, BlocksInHeap
    <3>3. StackTop \in Nat /\ Freelist < StackTop
      BY LayoutAssumption DEF Addr
    <3> QED BY <1>6, <3>2, <3>3
  <2> QED BY <2>1, <2>2
<1> QED BY <1>5, <1>6, <1>7 DEF Between

(* Neither loop of malloc.c runs for ever, for every heap: malloc's walk   *)
(* comes back to freep and free's finds a place, whatever sequence of      *)
(* calls has made the list.                                                *)
THEOREM HeapWalksEnd ==
  ASSUME BreakBound < AddrUnits
  PROVE  Spec => []WalksEnd
<1>1. ASSUME IInv PROVE WalksEnd
  <2> SUFFICES ASSUME NEW S \in SUBSET free, cur \in S, \A a \in S : link[a] \in S
               PROVE  /\ pc = "search" => \E a \in S : link[a] = freep
                      /\ pc = "place" => \E a \in S : Between(a, link[a])
    BY DEF WalksEnd
  <2>1. IsFiniteSet(free) /\ Ring(free, link) /\ freep \in free
    BY <1>1, RingEnd DEF IInv, OneRing
  <2>2. S = free
    BY <2>1, RingMet
  <2>3. \E a \in S : link[a] = freep
    BY <2>1, <2>2, RingPredecessor
  <2>4. pc = "place" => \E a \in S : Between(a, link[a])
    BY <1>1, <2>2, PlaceExists
  <2> QED BY <2>3, <2>4
<1> QED BY <1>1, HeapInvariant, PTL

=============================================================================
