--------------------------- MODULE NumbersProofs ----------------------------
(***************************************************************************)
(* What itoa, htoc and atoi make of a number, for every size of a word,    *)
(* every number, every base and every string.                              *)
(***************************************************************************)
EXTENDS Numbers, WellFoundedInduction, TLAPS

(* Every set of numbers has a least one: the form in which induction is    *)
(* used here.                                                              *)
LEMMA LeastNumber ==
  ASSUME NEW T, T \subseteq Nat, T # {}
  PROVE  \E x \in T : \A y \in T : x <= y
<1>1. PICK x \in T : \A y \in T : ~ (<<y, x>> \in OpToRel(<, Nat))
  BY NatLessThanWellFounded, WFMin, Zenon
<1>2. \A y \in T : ~ (y < x)
  BY <1>1 DEF OpToRel
<1> QED BY <1>2

LEMMA TimesIsNat == \A x, y \in Nat : x * y \in Nat
OBVIOUS

LEMMA StepIsNat == \A x, y, z \in Nat : x * y + z \in Nat
BY TimesIsNat

(* h is a, and from then on b times what it was and a digit of c. *)
Horner(h, n, a, b, c) ==
  /\ h[0] = a
  /\ \A k \in 1 .. n : h[k] = h[k - 1] * b + c[k]

(* There are such values, whatever the digits are ... *)
LEMMA HornerExists ==
  ASSUME NEW a \in Nat, NEW b \in Nat, NEW n \in Nat, NEW c, \A k \in 1 .. n : c[k] \in Nat
  PROVE  \E h \in [0 .. n -> Nat] : Horner(h, n, a, b, c)
<1> DEFINE Is(m) == \E h \in [0 .. m -> Nat] : Horner(h, m, a, b, c)
           T == {m \in 0 .. n : ~ Is(m)}
<1>0. n \in 0 .. n
  OBVIOUS
<1>1. SUFFICES ASSUME T # {} PROVE FALSE
  <2>1. T = {} => Is(n)
    BY <1>0, Zenon
  <2> QED BY <2>1
<1>2. PICK x \in T : \A y \in T : x <= y
  <2>1. T \subseteq Nat
    OBVIOUS
  <2> HIDE DEF T
  <2> QED BY <1>1, <2>1, LeastNumber
<1>3. x \in 0 .. n /\ ~ Is(x)
  OBVIOUS
<1>4. x # 0
  <2> DEFINE h == [k \in 0 .. 0 |-> a]
  <2>1. h \in [0 .. 0 -> Nat] /\ Horner(h, 0, a, b, c)
    BY DEF Horner
  <2>2. Is(0)
    BY <2>1
  <2> QED BY <1>3, <2>2
<1>5. PICK h \in [0 .. x - 1 -> Nat] : Horner(h, x - 1, a, b, c)
  <2>1. x - 1 \in 0 .. n /\ ~ (x <= x - 1)
    BY <1>3, <1>4
  <2>2. x - 1 \notin T
    <3> HIDE DEF T
    <3> QED BY <1>2, <2>1
  <2> QED BY <2>1, <2>2
<1> DEFINE g == [k \in 0 .. x |-> IF k = x THEN h[x - 1] * b + c[x] ELSE h[k]]
<1>6. g \in [0 .. x -> Nat]
  <2>1. x - 1 \in 0 .. x - 1 /\ x \in 1 .. n
    BY <1>3, <1>4
  <2>2. h[x - 1] \in Nat
    BY <1>5, <2>1, Zenon
  <2>5. c[x] \in Nat
    BY <2>1, Zenon
  <2>3. h[x - 1] * b + c[x] \in Nat
    BY <2>2, <2>5, StepIsNat
  <2>4. \A k \in 0 .. x : k # x => h[k] \in Nat
    BY <1>3
  <2> QED BY <2>3, <2>4
<1>7. Horner(g, x, a, b, c)
  BY <1>3, <1>4, <1>5 DEF Horner
<1> QED BY <1>3, <1>6, <1>7

(* ... and no two of them. *)
LEMMA HornerUnique ==
  ASSUME NEW n \in Nat, NEW a, NEW b, NEW c, NEW g, NEW h,
         Horner(g, n, a, b, c), Horner(h, n, a, b, c)
  PROVE  \A k \in 0 .. n : g[k] = h[k]
<1> DEFINE T == {k \in 0 .. n : g[k] # h[k]}
<1>1. SUFFICES ASSUME T # {} PROVE FALSE
  OBVIOUS
<1>2. PICK x \in T : \A y \in T : x <= y
  <2>1. T \subseteq Nat
    OBVIOUS
  <2> HIDE DEF T
  <2> QED BY <1>1, <2>1, LeastNumber
<1>3. x \in 0 .. n /\ g[x] # h[x]
  OBVIOUS
<1>4. x # 0
  BY <1>3 DEF Horner
<1>5. x - 1 \in 0 .. n /\ x \in 1 .. n /\ ~ (x <= x - 1)
  BY <1>3, <1>4
<1>6. g[x - 1] = h[x - 1]
  <2>1. x - 1 \notin T
    <3> HIDE DEF T
    <3> QED BY <1>2, <1>5
  <2> QED BY <1>5, <2>1
<1> QED BY <1>3, <1>5, <1>6 DEF Horner

(* So the value of a string is found by giving the values of its prefixes. *)
LEMMA ValueIs ==
  ASSUME NEW str \in Seq(Nat), NEW b \in Nat, NEW h \in [0 .. Len(str) -> Nat],
         Horner(h, Len(str), 0, b, str)
  PROVE  Value(str, b) = h[Len(str)]
<1> DEFINE n == Len(str)
           D(f) == [k \in 0 .. n |-> IF k = 0 THEN 0 ELSE f[k - 1] * b + str[k]]
           v == CHOOSE f : f = D(f)
<1>0. n \in Nat
  OBVIOUS
<1>1. h = D(h)
  BY <1>0 DEF Horner
<1>2. v = D(v)
  BY <1>1
<1>3. Horner(v, n, 0, b, str)
  <2>1. 0 \in 0 .. n /\ \A k \in 1 .. n : k \in 0 .. n /\ k # 0
    BY <1>0
  <2> HIDE DEF v, n
  <2>2. v[0] = 0 /\ \A k \in 1 .. n : v[k] = v[k - 1] * b + str[k]
    BY <1>2, <2>1, Zenon
  <2> QED BY <2>2 DEF Horner
<1>4. v[n] = h[n]
  <2> HIDE DEF v
  <2> QED BY <1>0, <1>3, HornerUnique
<1>5. Value(str, b) = v[n]
  BY DEF Value
<1> QED BY <1>4, <1>5

(* What the recursive definition of the powers of two means, and their     *)
(* order.                                                                  *)
LEMMA Powers ==
  /\ Pow2[0] = 1
  /\ \A k \in 0 .. TbufSize : Pow2[k] \in Nat
  /\ \A k \in 1 .. TbufSize : Pow2[k] = 2 * Pow2[k - 1]
<1> DEFINE zero == [k \in 1 .. TbufSize |-> 0]
           D(f) == [k \in 0 .. TbufSize |-> IF k = 0 THEN 1 ELSE 2 * f[k - 1]]
<1>0. TbufSize \in Nat
  BY NumbersAssumption
<1>1. PICK h \in [0 .. TbufSize -> Nat] : Horner(h, TbufSize, 1, 2, zero)
  <2>1. \A k \in 1 .. TbufSize : zero[k] \in Nat
    OBVIOUS
  <2> HIDE DEF zero
  <2> QED BY <1>0, <2>1, HornerExists
<1>2. h = D(h)
  BY <1>0, <1>1 DEF Horner
<1>3. Pow2 = CHOOSE f : f = D(f)
  BY DEF Pow2
<1>4. Pow2 = D(Pow2)
  BY <1>2, <1>3
<1>5. Pow2[0] = 1 /\ \A k \in 1 .. TbufSize : Pow2[k] = 2 * Pow2[k - 1]
  <2>1. 0 \in 0 .. TbufSize /\ \A k \in 1 .. TbufSize : k \in 0 .. TbufSize /\ k # 0
    BY <1>0
  <2> QED BY <1>4, <2>1, Zenon
<1>6. \A k \in 0 .. TbufSize : Pow2[k] = h[k]
  <2> DEFINE T == {k \in 0 .. TbufSize : Pow2[k] # h[k]}
  <2>1. SUFFICES ASSUME T # {} PROVE FALSE
    OBVIOUS
  <2>2. PICK x \in T : \A y \in T : x <= y
    <3>1. T \subseteq Nat
      OBVIOUS
    <3> HIDE DEF T
    <3> QED BY <2>1, <3>1, LeastNumber
  <2>3. x \in 0 .. TbufSize /\ Pow2[x] # h[x]
    OBVIOUS
  <2>4. h[0] = 1 /\ \A k \in 1 .. TbufSize : h[k] = 2 * h[k - 1]
    BY <1>0, <1>1 DEF Horner
  <2>5. x \in 1 .. TbufSize /\ x - 1 \in 0 .. TbufSize /\ ~ (x <= x - 1)
    BY <1>0, <1>5, <2>3, <2>4
  <2>6. Pow2[x - 1] = h[x - 1]
    <3>1. x - 1 \notin T
      <4> HIDE DEF T
      <4> QED BY <2>2, <2>5
    <3> QED BY <2>5, <3>1
  <2> QED BY <1>5, <2>3, <2>4, <2>5, <2>6, Zenon
<1> QED BY <1>1, <1>5, <1>6

LEMMA PowersGrow ==
  /\ \A k \in 0 .. TbufSize : Pow2[k] \in Nat \ {0}
  /\ \A k \in 0 .. TbufSize : Pow2[k] <= WordMod
  /\ WordMod \in Nat \ {0}
<1>0. TbufSize \in Nat /\ TbufSize \in 0 .. TbufSize
  BY NumbersAssumption
<1>1. \A k \in 0 .. TbufSize : Pow2[k] \in Nat \ {0}
  <2> DEFINE T == {k \in 0 .. TbufSize : Pow2[k] = 0}
  <2>1. SUFFICES ASSUME T # {} PROVE FALSE
    BY Powers
  <2>2. PICK x \in T : \A y \in T : x <= y
    <3>1. T \subseteq Nat
      OBVIOUS
    <3> HIDE DEF T
    <3> QED BY <2>1, <3>1, LeastNumber
  <2>3. x \in 1 .. TbufSize /\ Pow2[x] = 0
    BY <1>0, Powers
  <2>4. x - 1 \in 0 .. TbufSize /\ ~ (x <= x - 1)
    BY <1>0, <2>3
  <2>5. Pow2[x - 1] # 0
    <3>1. x - 1 \notin T
      <4> HIDE DEF T
      <4> QED BY <2>2, <2>4
    <3> QED BY <2>4, <3>1
  <2> QED BY <2>3, <2>4, <2>5, Powers
<1>2. \A k \in 0 .. TbufSize : Pow2[k] <= WordMod
  <2> DEFINE T == {d \in 0 .. TbufSize : ~ (Pow2[TbufSize - d] <= WordMod)}
  <2>1. T = {}
    <3>1. SUFFICES ASSUME T # {} PROVE FALSE
      OBVIOUS
    <3>2. PICK x \in T : \A y \in T : x <= y
      <4>1. T \subseteq Nat
        OBVIOUS
      <4> HIDE DEF T
      <4> QED BY <3>1, <4>1, LeastNumber
    <3>3. x \in 0 .. TbufSize /\ ~ (Pow2[TbufSize - x] <= WordMod)
      OBVIOUS
    <3>4. x # 0
      <4>1. TbufSize - 0 = TbufSize
        BY <1>0
      <4> QED BY <1>0, <1>1, <3>3, <4>1 DEF WordMod
    <3>5. x - 1 \in 0 .. TbufSize /\ ~ (x <= x - 1)
      BY <1>0, <3>3, <3>4
    <3>6. Pow2[TbufSize - (x - 1)] <= WordMod
      <4>1. x - 1 \notin T
        <5> HIDE DEF T
        <5> QED BY <3>2, <3>5
      <4> QED BY <3>5, <4>1
    <3>7. /\ TbufSize - (x - 1) \in 1 .. TbufSize /\ TbufSize - x \in 0 .. TbufSize
          /\ (TbufSize - (x - 1)) - 1 = TbufSize - x
      BY <1>0, <3>3, <3>4
    <3>8. Pow2[TbufSize - (x - 1)] = 2 * Pow2[TbufSize - x]
      BY <3>7, Powers
    <3> QED BY <1>0, <1>1, <3>3, <3>6, <3>7, <3>8 DEF WordMod
  <2>2. ASSUME NEW k \in 0 .. TbufSize PROVE Pow2[k] <= WordMod
    <3>1. TbufSize - k \in 0 .. TbufSize /\ TbufSize - (TbufSize - k) = k
      BY <1>0
    <3> QED BY <2>1, <3>1
  <2> QED BY <2>2
<1> QED BY <1>0, <1>1, <1>2 DEF WordMod

-----------------------------------------------------------------------------
(* Remainders *)
LEMMA DivMod ==
  ASSUME NEW x \in Nat, NEW w \in Nat \ {0}
  PROVE  /\ x % w \in 0 .. w - 1 /\ x \div w \in Nat
         /\ x = (x \div w) * w + (x % w)
<1>1. x % w \in 0 .. w - 1 /\ x \div w \in Nat
  OBVIOUS
<1> DEFINE q == x \div w
           r == x % w
<1>2. x = q * w + r
  <2>1. q \in Int /\ q = x \div w /\ r \in Int /\ r = x % w
    BY <1>1
  <2> HIDE DEF q, r
  <2> QED BY <2>1, SMTT(30)
<1> QED BY <1>1, <1>2

LEMMA RemainderIs ==
  ASSUME NEW w \in Nat \ {0}, NEW q \in Nat, NEW r \in 0 .. w - 1
  PROVE  (q * w + r) % w = r
OBVIOUS

(* A word is what is left of a number, and the only such remainder. *)
LEMMA WordIs ==
  ASSUME NEW x \in Nat
  PROVE  /\ Word(x) \in 0 .. WordMod - 1
         /\ \E q \in Nat : x = q * WordMod + Word(x)
         /\ \A q \in Nat, r \in 0 .. WordMod - 1 : x = q * WordMod + r => Word(x) = r
<1>1. WordMod \in Nat \ {0}
  BY PowersGrow
<1>2. /\ Word(x) \in 0 .. WordMod - 1 /\ x \div WordMod \in Nat
      /\ x = (x \div WordMod) * WordMod + Word(x)
  BY <1>1, DivMod DEF Word
<1>3. ASSUME NEW q \in Nat, NEW r \in 0 .. WordMod - 1, x = q * WordMod + r
      PROVE  Word(x) = r
  BY <1>1, <1>3, RemainderIs, Zenon DEF Word
<1> QED BY <1>2, <1>3, Zenon

LEMMA HornerStep ==
  \A x, d, m, r \in Nat : (x * 10 + d) * m + r = x * (10 * m) + (r + d * m)
OBVIOUS

(* Summing up the digits from the right, as atoi does, gives the value     *)
(* that is defined from the left. p are the powers of ten, e the sums so   *)
(* far.                                                                    *)
LEMMA SumIsValue ==
  ASSUME NEW t \in Seq(Nat), NEW e \in [0 .. Len(t) -> Nat], NEW p \in [0 .. Len(t) -> Nat],
         e[0] = 0, p[0] = 1,
         \A k \in 1 .. Len(t) : /\ p[k] = 10 * p[k - 1]
                                /\ e[k] = e[k - 1] + t[Len(t) - k + 1] * p[k - 1]
  PROVE  Value(t, 10) = e[Len(t)]
<1> DEFINE j == Len(t)
<1>0. j \in Nat /\ \A k \in 1 .. j : t[k] \in Nat
  OBVIOUS
<1>1. PICK h \in [0 .. j -> Nat] : Horner(h, j, 0, 10, t)
  <2> HIDE DEF j
  <2> QED BY <1>0, HornerExists
<1> DEFINE Is(k) == h[k] * p[j - k] + e[j - k] = e[j]
           T == {k \in 0 .. j : ~ Is(k)}
<1>2. T = {}
  <2>1. SUFFICES ASSUME T # {} PROVE FALSE
    OBVIOUS
  <2>2. PICK x \in T : \A y \in T : x <= y
    <3>1. T \subseteq Nat
      BY <1>0
    <3> HIDE DEF T
    <3> QED BY <2>1, <3>1, LeastNumber
  <2>3. x \in 0 .. j /\ ~ Is(x)
    OBVIOUS
  <2>4. x # 0
    <3>1. j - 0 = j /\ j \in 0 .. j
      BY <1>0
    <3>2. h[0] = 0 /\ p[j] \in Nat /\ e[j] \in Nat
      BY <1>1, <3>1 DEF Horner
    <3>3. Is(0)
      BY <3>1, <3>2
    <3> QED BY <2>3, <3>3
  <2> DEFINE y == j - x
  <2>5. /\ x - 1 \in 0 .. j /\ ~ (x <= x - 1) /\ x \in 1 .. j
        /\ y \in 0 .. j /\ y + 1 \in 1 .. j /\ j - (x - 1) = y + 1 /\ (y + 1) - 1 = y
        /\ j - (y + 1) + 1 = x
    BY <1>0, <2>3, <2>4
  <2>6. Is(x - 1)
    <3>1. x - 1 \notin T
      <4> HIDE DEF T
      <4> QED BY <2>2, <2>5
    <3> QED BY <2>5, <3>1
  <2> HIDE DEF j
  <2>7. h[x - 1] * p[y + 1] + e[y + 1] = e[j]
    BY <2>5, <2>6
  <2> HIDE DEF y
  <2>8. /\ p[y + 1] = 10 * p[y] /\ e[y + 1] = e[y] + t[x] * p[y]
        /\ h[x] = h[x - 1] * 10 + t[x]
    <3>1. \A k \in 1 .. j : /\ p[k] = 10 * p[k - 1]
                            /\ e[k] = e[k - 1] + t[j - k + 1] * p[k - 1]
      BY DEF j
    <3> QED BY <1>1, <2>5, <3>1 DEF Horner
  <2>9. h[x - 1] \in Nat /\ p[y] \in Nat /\ e[y] \in Nat /\ t[x] \in Nat
    <3>1. e \in [0 .. j -> Nat] /\ p \in [0 .. j -> Nat]
      BY DEF j
    <3> QED BY <1>0, <1>1, <2>5, <3>1
  <2>10. h[x] * p[y] + e[y] = e[j]
    <3> DEFINE a == h[x - 1]
               d == t[x]
               m == p[y]
               r == e[y]
    <3>1. a \in Nat /\ d \in Nat /\ m \in Nat /\ r \in Nat
      BY <2>9
    <3>2. a * (10 * m) + (r + d * m) = e[j] /\ h[x] = a * 10 + d
      BY <2>7, <2>8
    <3> HIDE DEF a, d, m, r, T
    <3>3. (a * 10 + d) * m + r = a * (10 * m) + (r + d * m)
      BY <3>1, HornerStep
    <3>4. h[x] * m + r = e[j]
      BY <3>2, <3>3, Zenon
    <3> QED BY <3>4 DEF m, r
  <2>11. Is(x)
    BY <2>10 DEF y
  <2> QED BY <2>3, <2>11
<1>3. Is(j)
  <2>1. j \in 0 .. j
    BY <1>0
  <2> QED BY <1>2, <2>1
<1>4. j - j = 0 /\ h[j] \in Nat
  BY <1>0, <1>1
<1>5. h[j] = e[j]
  BY <1>3, <1>4
<1>6. Value(t, 10) = h[j]
  BY <1>1, ValueIs
<1> QED BY <1>5, <1>6

-----------------------------------------------------------------------------
NumberTypes ==
  /\ pc \in {"start", "itoa", "written", "atoi", "done", "fault"}
  /\ number \in 0 .. WordMod - 1 /\ base \in Nat /\ i \in Nat
  /\ tbuf \in Seq(Nat) /\ buf \in Seq(Nat) /\ s \in Seq(Nat)
  /\ len \in Nat /\ result \in 0 .. WordMod - 1 /\ mul \in Nat

(* Which functions have been called. *)
NumberCalls ==
  /\ pc = "start" => base = 0 /\ s = <<>>
  /\ pc \in {"itoa", "written"} => s = <<>>
  /\ pc = "itoa" => number # 0 /\ base <= 16
  /\ pc = "written" => buf # <<>>
  /\ pc = "atoi" /\ base # 0 => s # <<>>
  /\ base = 0 \/ pc = "start" => tbuf = <<>>

(* g are the values i has had: each is not 0, and made up of the next one  *)
(* and the digit put into tbuf.                                            *)
Quotients(g) ==
  /\ g[0] = number /\ g[Len(tbuf)] = i
  /\ \A k \in 1 .. Len(tbuf) : /\ g[k - 1] # 0 /\ g[k - 1] = g[k] * base + tbuf[k]
                               /\ tbuf[k] < base

ItoaLoop ==
  pc = "itoa" => \E g \in [0 .. Len(tbuf) -> Nat] : Quotients(g)

(* Every digit halves i at least. *)
Halving ==
  base # 1 =>
    /\ Len(tbuf) <= TbufSize
    /\ pc = "itoa" => i * Pow2[Len(tbuf)] <= number

(* What itoa has written in base ten, and atoi of it. *)
Legible ==
  pc \in {"written", "atoi", "done"} /\ base = 10 =>
    /\ buf # <<>> /\ AllDigits(buf) /\ Value(buf, 10) = number
    /\ Len(buf) <= TbufSize \/ Len(buf) = 1
    /\ pc # "written" => s = buf

(* What atoi works on, and how many characters of it are done. *)
CharsKept == Len(s) % LenMod
CharsRead == CharsKept - len

(* e are the values of the last digits, p the powers of ten. *)
Sums(e, p) ==
  /\ e[0] = 0 /\ p[0] = 1
  /\ \A k \in 1 .. CharsRead : /\ p[k] = 10 * p[k - 1]
                          /\ e[k] = e[k - 1] + s[CharsKept - k + 1] * p[k - 1]
  /\ \E q \in Nat : e[CharsRead] = q * WordMod + result
  /\ \E q \in Nat : p[CharsRead] = q * WordMod + mul

AtoiLoop ==
  pc = "atoi" =>
    /\ len <= CharsKept
    /\ \A k \in len + 1 .. CharsKept : isdigit(s[k])
    /\ \E e \in [0 .. CharsRead -> Nat], p \in [0 .. CharsRead -> Nat] : Sums(e, p)

NumbersInv ==
  NumberTypes /\ NumberCalls /\ ItoaLoop /\ Halving /\ AtoiLoop /\ Legible
  /\ WrittenNumber /\ AtoiMeaning

(* What is assumed of the constants. *)
LEMMA NumberConstants ==
  /\ TbufSize \in Nat /\ LenMod \in Nat \ {0, 1} /\ WordMod \in Nat \ {0}
  /\ Ints \subseteq 0 .. WordMod - 1 /\ Bases \subseteq Nat /\ Strings \subseteq Seq(Nat)
<1>1. Char \subseteq Nat
  BY DEF Char, Other
<1>2. Strings \subseteq Seq(Nat)
  <2> SUFFICES ASSUME NEW x \in Strings PROVE x \in Seq(Nat)
    OBVIOUS
  <2>1. x \in Seq(Char)
    BY NumbersAssumption
  <2>2. /\ Len(x) \in Nat /\ x = [k \in 1 .. Len(x) |-> x[k]]
        /\ \A k \in 1 .. Len(x) : x[k] \in Nat
    <3> HIDE DEF Char
    <3> QED BY <1>1, <2>1
  <2> QED BY <2>2
<1> QED BY <1>2, NumbersAssumption, PowersGrow

LEMMA InitNumbers == Init => NumbersInv
BY NumberConstants
DEF Init, NumbersInv, NumberTypes, NumberCalls, ItoaLoop, Halving, AtoiLoop, Legible,
    WrittenNumber, AtoiMeaning

LEMMA KeptType ==
  ASSUME NEW x \in Seq(Nat)
  PROVE  Len(x) % LenMod \in 0 .. Len(x)
BY NumberConstants

(* The string 0 has the value 0. *)
LEMMA ValueOfZero == \A b \in Nat : Value(<<0>>, b) = 0
<1> TAKE b \in Nat
<1> DEFINE h == [k \in 0 .. 1 |-> 0]
<1>1. <<0>> \in Seq(Nat) /\ Len(<<0>>) = 1 /\ <<0>>[1] = 0
  OBVIOUS
<1>2. h \in [0 .. 1 -> Nat] /\ h[0] = 0 /\ h[1] = 0
  OBVIOUS
<1>3. Horner(h, 1, 0, b, <<0>>)
  BY <1>1, <1>2 DEF Horner
<1> HIDE DEF h
<1> QED BY <1>1, <1>2, <1>3, ValueIs

(* Every step keeps the invariant. *)
LEMMA ItoaCallInv ==
  ASSUME NumbersInv, NEW n \in Ints, NEW b \in Bases, ItoaCall(n, b)
  PROVE  NumbersInv'
<1>1. n \in 0 .. WordMod - 1 /\ b \in Nat /\ WordMod \in Nat \ {0}
  BY NumberConstants
<1>2. /\ pc = "start" /\ number' = n /\ base' = b /\ s' = s /\ s = <<>>
      /\ UNCHANGED <<len, result, mul>> /\ tbuf = <<>> /\ tbuf' = <<>>
      /\ pc' \in {"itoa", "written"}
  BY DEF ItoaCall, atoivars, NumbersInv, NumberCalls
<1>3. Len(tbuf') = 0
  BY <1>2
<1>4. CASE n = 0 \/ b > 16
  <2>1. pc' = "written" /\ buf' = <<0>> /\ i' = i
    BY <1>4 DEF ItoaCall
  <2>2. NumberTypes'
    BY <1>1, <1>2, <2>1 DEF NumbersInv, NumberTypes
  <2>3. NumberCalls'
    BY <1>2, <2>1 DEF NumbersInv, NumberCalls
  <2>4. ItoaLoop' /\ AtoiLoop' /\ AtoiMeaning'
    BY <2>1 DEF ItoaLoop, AtoiLoop, AtoiMeaning
  <2>5. Halving'
    BY <1>3, <2>1, NumberConstants DEF Halving
  <2>6. WrittenNumber'
    <3>1. base' \in 2 .. 16 => number' = 0
      BY <1>1, <1>2, <1>4
    <3>2. Value(buf', base') = 0
      BY <1>1, <1>2, <2>1, ValueOfZero
    <3> QED BY <2>1, <3>1, <3>2 DEF WrittenNumber
  <2>7. Legible'
    <3> SUFFICES ASSUME base' = 10
                 PROVE  buf' # <<>> /\ AllDigits(buf') /\ Value(buf', 10) = number'
      BY <2>1 DEF Legible
    <3>1. number' = 0
      BY <1>1, <1>2, <1>4
    <3>2. Value(buf', 10) = 0
      BY <2>1, ValueOfZero
    <3>3. buf' # <<>> /\ \A k \in DOMAIN buf' : buf'[k] <= 9
      BY <2>1
    <3> QED BY <3>1, <3>2, <3>3 DEF AllDigits, isdigit
  <2> QED BY <2>2, <2>3, <2>4, <2>5, <2>6, <2>7 DEF NumbersInv
<1>5. CASE ~ (n = 0 \/ b > 16)
  <2>1. pc' = "itoa" /\ i' = n /\ buf' = buf
    BY <1>5 DEF ItoaCall
  <2>2. NumberTypes'
    BY <1>1, <1>2, <2>1 DEF NumbersInv, NumberTypes
  <2>3. NumberCalls'
    BY <1>1, <1>2, <1>5, <2>1 DEF NumbersInv, NumberCalls
  <2>4. AtoiLoop' /\ AtoiMeaning' /\ WrittenNumber' /\ Legible'
    BY <2>1 DEF AtoiLoop, AtoiMeaning, WrittenNumber, Legible
  <2>5. ItoaLoop'
    <3> DEFINE g == [k \in 0 .. 0 |-> n]
    <3>1. g \in [0 .. 0 -> Nat] /\ g[0] = n
      BY <1>1
    <3>2. Quotients(g)'
      BY <1>2, <1>3, <2>1, <3>1 DEF Quotients
    <3> QED BY <1>3, <3>1, <3>2 DEF ItoaLoop
  <2>6. Halving'
    BY <1>1, <1>2, <1>3, <2>1, NumberConstants, Powers DEF Halving
  <2> QED BY <2>2, <2>3, <2>4, <2>5, <2>6 DEF NumbersInv
<1> QED BY <1>4, <1>5

LEMMA ItoaDigitInv ==
  ASSUME NumbersInv, ItoaDigit
  PROVE  NumbersInv'
<1> DEFINE L == Len(tbuf)
<1>1. /\ pc = "itoa" /\ i # 0 /\ base # 0
      /\ tbuf' = Append(tbuf, i % base) /\ i' = i \div base
      /\ UNCHANGED <<pc, number, base, buf, s, len, result, mul>>
  BY DEF ItoaDigit, Digit, Quotient, atoivars
<1>2. /\ i \in Nat \ {0} /\ base \in Nat \ {0} /\ number \in Nat /\ L \in Nat
      /\ tbuf \in Seq(Nat) /\ s = <<>>
  BY <1>1, NumberConstants DEF NumbersInv, NumberTypes, NumberCalls
<1>3. /\ i % base \in Nat /\ i % base < base /\ i \div base \in Nat
      /\ i = (i \div base) * base + (i % base)
  <2>1. i % base \in 0 .. base - 1 /\ i \div base \in Nat
        /\ i = (i \div base) * base + (i % base)
    BY <1>2, DivMod
  <2> QED BY <1>2, <2>1
<1>4. /\ tbuf' \in Seq(Nat) /\ Len(tbuf') = L + 1 /\ tbuf'[L + 1] = i % base
      /\ \A k \in 1 .. L : tbuf'[k] = tbuf[k]
  BY <1>1, <1>2, <1>3
<1>5. NumberTypes'
  BY <1>1, <1>3, <1>4 DEF NumbersInv, NumberTypes
<1>6. NumberCalls'
  BY <1>1 DEF NumbersInv, NumberCalls
<1>7. AtoiLoop' /\ AtoiMeaning' /\ WrittenNumber' /\ Legible'
  BY <1>1 DEF AtoiLoop, AtoiMeaning, WrittenNumber, Legible
<1>8. ItoaLoop'
  <2>1. PICK g \in [0 .. L -> Nat] : Quotients(g)
    BY <1>1 DEF NumbersInv, ItoaLoop
  <2> DEFINE f == [k \in 0 .. L + 1 |-> IF k = L + 1 THEN i \div base ELSE g[k]]
  <2>2. f \in [0 .. L + 1 -> Nat]
    BY <1>2, <1>3
  <2>3. f[0] = number /\ f[L + 1] = i' /\ f[L] = i /\ \A k \in 0 .. L : f[k] = g[k]
    BY <1>1, <1>2, <2>1 DEF Quotients
  <2>4. ASSUME NEW k \in 1 .. L + 1
        PROVE  f[k - 1] # 0 /\ f[k - 1] = f[k] * base + tbuf'[k] /\ tbuf'[k] < base
    <3>1. CASE k = L + 1
      BY <1>1, <1>2, <1>3, <1>4, <2>3, <3>1
    <3>2. CASE k \in 1 .. L
      <4>1. k - 1 \in 0 .. L /\ k \in 0 .. L
        BY <1>2, <3>2
      <4>2. g[k - 1] # 0 /\ g[k - 1] = g[k] * base + tbuf[k] /\ tbuf[k] < base
        BY <2>1, <3>2 DEF Quotients
      <4> QED BY <1>4, <2>3, <3>2, <4>1, <4>2
    <3> QED BY <1>2, <3>1, <3>2
  <2> HIDE DEF f
  <2>5. PICK h : h = f
    OBVIOUS
  <2>6. Quotients(h)'
    BY <1>1, <1>4, <2>3, <2>4, <2>5 DEF Quotients
  <2> QED BY <1>4, <2>2, <2>5, <2>6 DEF ItoaLoop
<1>9. Halving'
  <2> SUFFICES ASSUME base # 1
               PROVE  L + 1 <= TbufSize /\ i' * Pow2[L + 1] <= number
    BY <1>1, <1>4 DEF Halving
  <2>1. L <= TbufSize /\ i * Pow2[L] <= number
    BY <1>1 DEF NumbersInv, Halving
  <2>2. L \in 0 .. TbufSize /\ Pow2[L] \in Nat \ {0}
    BY <1>2, <2>1, NumberConstants, PowersGrow
  <2>3. Pow2[L] <= number /\ number < WordMod
    <3>1. Pow2[L] <= i * Pow2[L]
      BY <1>2, <2>2
    <3>2. number < WordMod
      BY NumberConstants DEF NumbersInv, NumberTypes
    <3> QED BY <1>2, <2>1, <2>2, <3>1, <3>2
  <2>4. L # TbufSize
    BY <1>2, <2>2, <2>3 DEF WordMod
  <2>5. L + 1 \in 1 .. TbufSize /\ (L + 1) - 1 = L
    BY <1>2, <2>1, <2>4, NumberConstants
  <2>6. Pow2[L + 1] = 2 * Pow2[L]
    BY <2>5, Powers
  <2>7. 2 * (i \div base) <= i
    <3>1. base >= 2
      BY <1>2
    <3>2. (i \div base) * 2 <= (i \div base) * base
      BY <1>2, <1>3, <3>1
    <3> QED BY <1>2, <1>3, <3>2
  <2>8. (i \div base) * (2 * Pow2[L]) <= i * Pow2[L]
    <3>1. \A x, y, z \in Nat : 2 * x <= y => x * (2 * z) <= y * z
      <4>1. \A x, y, z \in Nat : x <= y => x * z <= y * z
        OBVIOUS
      <4>2. ASSUME NEW x \in Nat, NEW y \in Nat, NEW z \in Nat, 2 * x <= y
            PROVE  x * (2 * z) <= y * z
        <5>1. (2 * x) * z <= y * z
          BY <4>1, <4>2
        <5> QED BY <5>1
      <4> QED BY <4>2
    <3> QED BY <1>2, <1>3, <2>2, <2>7, <3>1
  <2>9. i' * Pow2[L + 1] <= number
    <3>1. (i \div base) * (2 * Pow2[L]) \in Nat /\ i * Pow2[L] \in Nat
      <4>1. 2 * Pow2[L] \in Nat /\ Pow2[L] \in Nat
        BY <2>2
      <4> QED BY <1>2, <1>3, <4>1, TimesIsNat
    <3> QED BY <1>1, <1>2, <2>1, <2>6, <2>8, <3>1
  <2> QED BY <1>2, <2>5, <2>9, NumberConstants
<1> QED BY <1>5, <1>6, <1>7, <1>8, <1>9 DEF NumbersInv

LEMMA ItoaFaultInv ==
  ASSUME NumbersInv, ItoaFault
  PROVE  NumbersInv'
<1>1. /\ pc' = "fault"
      /\ UNCHANGED <<number, base, i, tbuf, buf, s, len, result, mul>>
  BY DEF ItoaFault, itoavars, atoivars
<1> QED
  BY <1>1 DEF NumbersInv, NumberTypes, NumberCalls, ItoaLoop, Halving, AtoiLoop, Legible,
              WrittenNumber, AtoiMeaning

LEMMA ItoaReturnInv ==
  ASSUME NumbersInv, ItoaReturn
  PROVE  NumbersInv'
<1> DEFINE L == Len(tbuf)
<1>1. /\ pc = "itoa" /\ i = 0 /\ pc' = "written" /\ buf' = Reverse(tbuf)
      /\ UNCHANGED <<number, base, i, tbuf, s, len, result, mul>>
  BY DEF ItoaReturn, CopyOut, atoivars
<1>2. /\ tbuf \in Seq(Nat) /\ L \in Nat /\ base \in Nat
      /\ \A k \in 1 .. L : tbuf[k] \in Nat
  BY DEF NumbersInv, NumberTypes
<1>3. /\ buf' \in Seq(Nat) /\ Len(buf') = L
      /\ \A k \in 1 .. L : buf'[k] = tbuf[L - k + 1]
  BY <1>1, <1>2 DEF Reverse
<1>4. PICK g \in [0 .. L -> Nat] : Quotients(g)
  BY <1>1 DEF NumbersInv, ItoaLoop
<1>5. L # 0
  BY <1>1, <1>4 DEF Quotients, NumbersInv, NumberCalls
<1>6. NumberTypes'
  BY <1>1, <1>3 DEF NumbersInv, NumberTypes
<1>7. NumberCalls'
  <2>1. buf' # <<>>
    BY <1>3, <1>5
  <2> QED BY <1>1, <2>1 DEF NumbersInv, NumberCalls
<1>8. ItoaLoop' /\ AtoiLoop' /\ AtoiMeaning' /\ Halving'
  BY <1>1 DEF NumbersInv, ItoaLoop, AtoiLoop, AtoiMeaning, Halving
<1>9. Value(buf', base) = number
  <2> DEFINE h == [k \in 0 .. L |-> g[L - k]]
  <2>1. h \in [0 .. L -> Nat] /\ h[0] = 0 /\ h[L] = number
    BY <1>1, <1>2, <1>4 DEF Quotients
  <2>2. ASSUME NEW k \in 1 .. L
        PROVE  h[k] = h[k - 1] * base + buf'[k]
    <3>1. /\ L - k + 1 \in 1 .. L /\ (L - k + 1) - 1 = L - k /\ L - (k - 1) = L - k + 1
          /\ k \in 0 .. L /\ k - 1 \in 0 .. L
      BY <1>2
    <3>2. g[L - k] = g[L - k + 1] * base + tbuf[L - k + 1]
      BY <1>4, <3>1 DEF Quotients
    <3> QED BY <1>3, <3>1, <3>2
  <2> HIDE DEF h
  <2>3. Horner(h, L, 0, base, buf')
    BY <2>1, <2>2 DEF Horner
  <2> QED BY <1>2, <1>3, <2>1, <2>3, ValueIs
<1>10. buf'[1] # 0
  <2>1. L \in 1 .. L /\ 1 \in 1 .. L /\ L - 1 + 1 = L
    BY <1>2, <1>5
  <2>2. g[L - 1] # 0 /\ g[L - 1] = 0 * base + tbuf[L]
    BY <1>1, <1>4, <2>1 DEF Quotients
  <2> QED BY <1>2, <1>3, <2>1, <2>2
<1>11. WrittenNumber'
  BY <1>1, <1>9, <1>10 DEF WrittenNumber
<1>12. Legible'
  <2> SUFFICES ASSUME base = 10
               PROVE  /\ buf' # <<>> /\ AllDigits(buf') /\ Value(buf', 10) = number
                      /\ Len(buf') <= TbufSize
    BY <1>1 DEF Legible
  <2>0. Len(buf') <= TbufSize
    BY <1>3 DEF NumbersInv, Halving
  <2>1. ASSUME NEW k \in 1 .. L PROVE buf'[k] <= 9
    <3>1. L - k + 1 \in 1 .. L
      BY <1>2
    <3>2. tbuf[L - k + 1] < 10
      BY <1>4, <3>1 DEF Quotients
    <3> QED BY <1>2, <1>3, <3>1, <3>2
  <2>2. DOMAIN buf' = 1 .. L
    BY <1>3
  <2> QED BY <1>3, <1>5, <1>9, <2>0, <2>1, <2>2 DEF AllDigits, isdigit
<1> QED BY <1>6, <1>7, <1>8, <1>11, <1>12 DEF NumbersInv

LEMMA HtocInv ==
  ASSUME NumbersInv, NEW n \in Ints, Htoc(n)
  PROVE  NumbersInv'
<1> DEFINE x == (n \div 16) % 16
           y == n % 16
<1>1. /\ pc = "start" /\ number' = n /\ base' = 16 /\ buf' = <<x, y>> /\ pc' = "done"
      /\ UNCHANGED <<i, tbuf, s, len, result, mul>> /\ s = <<>> /\ tbuf = <<>>
  BY DEF Htoc, atoivars, NumbersInv, NumberCalls
<1>2. n \in 0 .. WordMod - 1 /\ n \in Nat
  BY NumberConstants
<1>3. x \in Nat /\ y \in Nat /\ x * 16 + y = n % 256
  BY <1>2
<1> HIDE DEF x, y
<1>4. /\ buf' \in Seq(Nat) /\ Len(buf') = 2 /\ buf'[1] = x /\ buf'[2] = y
  BY <1>1, <1>3
<1>5. NumberTypes'
  BY <1>1, <1>2, <1>4 DEF NumbersInv, NumberTypes
<1>6. NumberCalls' /\ ItoaLoop' /\ AtoiLoop' /\ AtoiMeaning' /\ Legible'
  BY <1>1 DEF NumbersInv, NumberCalls, ItoaLoop, AtoiLoop, AtoiMeaning, Legible
<1>7. Halving'
  <2>1. Len(tbuf') = 0
    BY <1>1
  <2> QED BY <1>1, <2>1, NumberConstants DEF Halving
<1>8. Value(buf', 16) = n % 256
  <2> DEFINE h == [k \in 0 .. 2 |-> IF k = 0 THEN 0 ELSE IF k = 1 THEN x ELSE x * 16 + y]
  <2>1. h \in [0 .. 2 -> Nat] /\ h[0] = 0 /\ h[1] = x /\ h[2] = x * 16 + y
    BY <1>3
  <2> HIDE DEF h
  <2>2. Horner(h, 2, 0, 16, buf')
    <3>1. \A k \in 1 .. 2 : k = 1 \/ k = 2
      OBVIOUS
    <3> QED BY <1>3, <1>4, <2>1, <3>1 DEF Horner
  <2>3. Value(buf', 16) = h[2]
    BY <1>4, <2>1, <2>2, ValueIs
  <2> QED BY <1>3, <2>1, <2>3
<1>9. WrittenNumber'
  BY <1>1, <1>8 DEF WrittenNumber
<1> QED BY <1>5, <1>6, <1>7, <1>9 DEF NumbersInv

LEMMA AtoiCallInv ==
  ASSUME NumbersInv, NEW str \in Strings \cup {buf}, AtoiCall(str)
  PROVE  NumbersInv'
<1>1. /\ pc = "start" \/ (pc = "written" /\ str = buf)
      /\ pc' = "atoi" /\ s' = str /\ len' = Len(str) % LenMod /\ result' = 0 /\ mul' = 1
      /\ UNCHANGED <<number, base, i, tbuf, buf>>
  BY DEF AtoiCall, LengthKept, itoavars
<1>2. str \in Seq(Nat) /\ Len(str) % LenMod \in Nat
  <2>1. str \in Seq(Nat)
    BY NumberConstants DEF NumbersInv, NumberTypes
  <2>2. Len(str) \in Nat
    BY <2>1
  <2> QED BY <2>1, <2>2, NumberConstants
<1>3. NumberTypes'
  BY <1>1, <1>2, NumberConstants DEF NumbersInv, NumberTypes
<1>4. NumberCalls'
  BY <1>1 DEF NumbersInv, NumberCalls
<1>5. ItoaLoop' /\ WrittenNumber' /\ AtoiMeaning' /\ Halving' /\ Legible'
  BY <1>1 DEF NumbersInv, NumberCalls, ItoaLoop, WrittenNumber, AtoiMeaning, Halving, Legible
<1>6. AtoiLoop'
  <2>1. len' = CharsKept' /\ CharsKept' \in Nat /\ CharsRead' = 0
    BY <1>1, <1>2 DEF CharsKept, CharsRead
  <2> DEFINE e == [k \in 0 .. 0 |-> 0]
             p == [k \in 0 .. 0 |-> 1]
  <2>2. /\ e \in [0 .. 0 -> Nat] /\ p \in [0 .. 0 -> Nat] /\ e[0] = 0 /\ p[0] = 1
    OBVIOUS
  <2>3. (0 = 0 * WordMod + 0) /\ (1 = 0 * WordMod + 1)
    BY NumberConstants
  <2> HIDE DEF e, p
  <2>4. Sums(e, p)'
    <3>1. \A k \in 1 .. CharsRead' : FALSE
      BY <2>1
    <3>2. /\ \E q \in Nat : e[CharsRead'] = q * WordMod + result'
          /\ \E q \in Nat : p[CharsRead'] = q * WordMod + mul'
      BY <1>1, <2>1, <2>2, <2>3
    <3> QED BY <2>2, <3>1, <3>2 DEF Sums
  <2>5. len' <= CharsKept' /\ \A k \in len' + 1 .. CharsKept' : isdigit(s'[k])
    <3>1. \A x \in Nat : x <= x /\ \A k \in x + 1 .. x : FALSE
      OBVIOUS
    <3>2. CharsKept' <= CharsKept' /\ \A k \in CharsKept' + 1 .. CharsKept' : FALSE
      BY <2>1, <3>1, Zenon
    <3> QED BY <2>1, <3>2, Zenon
  <2>6. e \in [0 .. CharsRead' -> Nat] /\ p \in [0 .. CharsRead' -> Nat]
    BY <2>1, <2>2
  <2> QED BY <2>4, <2>5, <2>6, Zenon DEF AtoiLoop
<1> QED BY <1>3, <1>4, <1>5, <1>6 DEF NumbersInv

LEMMA AtoiDigitInv ==
  ASSUME NumbersInv, AtoiDigit
  PROVE  NumbersInv'
<1> DEFINE d == s[len]
           j == CharsRead
<1>1. /\ pc = "atoi" /\ len > 0 /\ d <= 9 /\ len' = len - 1
      /\ result' = Word(result + d * mul) /\ mul' = Word(mul * 10)
      /\ UNCHANGED <<pc, number, base, i, tbuf, buf, s>>
  BY DEF AtoiDigit, isdigit, itoavars
<1>2. /\ s \in Seq(Nat) /\ len \in Nat /\ len <= CharsKept
      /\ CharsKept \in 0 .. Len(s) /\ Len(s) \in Nat
      /\ result \in Nat /\ mul \in Nat /\ WordMod \in Nat \ {0}
      /\ \A k \in len + 1 .. CharsKept : isdigit(s[k])
  <2>1. s \in Seq(Nat) /\ len \in Nat /\ result \in 0 .. WordMod - 1 /\ mul \in Nat
    BY DEF NumbersInv, NumberTypes
  <2>2. CharsKept \in 0 .. Len(s)
    BY <2>1, KeptType DEF CharsKept
  <2>3. len <= CharsKept /\ \A k \in len + 1 .. CharsKept : isdigit(s[k])
    BY <1>1 DEF NumbersInv, AtoiLoop
  <2>4. Len(s) \in Nat /\ WordMod \in Nat \ {0} /\ result \in Nat
    BY <2>1, NumberConstants
  <2> QED BY <2>1, <2>2, <2>3, <2>4
<1>3. /\ d \in Nat /\ j \in Nat /\ CharsRead' = j + 1
      /\ CharsKept' = CharsKept /\ CharsKept - (j + 1) + 1 = len
  <2>1. CharsKept' = CharsKept
    BY <1>1 DEF CharsKept
  <2>2. len \in 1 .. Len(s)
    BY <1>1, <1>2
  <2>3. d \in Nat
    BY <1>2, <2>2
  <2>4. j \in Nat /\ CharsRead' = j + 1 /\ CharsKept - (j + 1) + 1 = len
    BY <1>1, <1>2, <2>1 DEF CharsRead
  <2> QED BY <2>1, <2>3, <2>4
<1>4. d * mul \in Nat /\ result + d * mul \in Nat /\ mul * 10 \in Nat
  <2>1. d * mul \in Nat
    <3> HIDE DEF d
    <3> QED BY <1>2, <1>3, TimesIsNat
  <2> HIDE DEF d
  <2> QED BY <1>2, <2>1
<1>5. /\ result' \in 0 .. WordMod - 1 /\ mul' \in 0 .. WordMod - 1
      /\ \E u \in Nat : result + d * mul = u * WordMod + result'
      /\ \E v \in Nat : mul * 10 = v * WordMod + mul'
  BY <1>1, <1>4, WordIs
<1>6. NumberTypes'
  BY <1>1, <1>2, <1>5 DEF NumbersInv, NumberTypes
<1>7. NumberCalls' /\ ItoaLoop' /\ WrittenNumber' /\ AtoiMeaning' /\ Halving' /\ Legible'
  BY <1>1 DEF NumbersInv, NumberCalls, ItoaLoop, WrittenNumber, AtoiMeaning, Halving, Legible
<1>8. AtoiLoop'
  <2>1. PICK e \in [0 .. j -> Nat], p \in [0 .. j -> Nat] : Sums(e, p)
    BY <1>1 DEF NumbersInv, AtoiLoop
  <2>2. PICK q \in Nat, r \in Nat : e[j] = q * WordMod + result /\ p[j] = r * WordMod + mul
    BY <2>1 DEF Sums
  <2>3. PICK u \in Nat, v \in Nat : /\ result + d * mul = u * WordMod + result'
                                    /\ mul * 10 = v * WordMod + mul'
    BY <1>5
  <2>4. e[j] \in Nat /\ p[j] \in Nat /\ j \in 0 .. j
    BY <1>3
  <2>5. /\ e[j] + d * p[j] = (q + d * r + u) * WordMod + result'
        /\ 10 * p[j] = (10 * r + v) * WordMod + mul'
        /\ q + d * r + u \in Nat /\ 10 * r + v \in Nat
        /\ e[j] + d * p[j] \in Nat /\ 10 * p[j] \in Nat
    <3>1. result' \in Nat /\ mul' \in Nat
      BY <1>2, <1>5
    <3> DEFINE E == e[j]
               P == p[j]
    <3>2. /\ d \in Nat /\ E \in Nat /\ P \in Nat
          /\ E = q * WordMod + result /\ P = r * WordMod + mul
      BY <1>3, <2>2, <2>4
    <3> HIDE DEF d, j, E, P
    <3>3. /\ E + d * P = (q + d * r + u) * WordMod + result'
          /\ 10 * P = (10 * r + v) * WordMod + mul'
          /\ q + d * r + u \in Nat /\ 10 * r + v \in Nat
          /\ E + d * P \in Nat /\ 10 * P \in Nat
      <4>1. d * r \in Nat /\ d * P \in Nat
        BY <3>2, TimesIsNat
      <4>2. d * P = (d * r) * WordMod + d * mul
        BY <1>2, <3>2
      <4>3. E + d * P = q * WordMod + (d * r) * WordMod + (result + d * mul)
        BY <1>2, <1>4, <3>2, <4>1, <4>2
      <4>4. (q + d * r + u) * WordMod = q * WordMod + (d * r) * WordMod + u * WordMod
        BY <1>2, <4>1
      <4>5. E + d * P = (q + d * r + u) * WordMod + result'
        <5>1. q * WordMod \in Nat /\ (d * r) * WordMod \in Nat /\ u * WordMod \in Nat
          BY <1>2, <4>1, TimesIsNat
        <5> DEFINE a == q * WordMod
                   b == (d * r) * WordMod
                   c == u * WordMod
        <5>2. /\ E + d * P = a + b + (c + result')
              /\ (q + d * r + u) * WordMod = a + b + c
          BY <2>3, <4>3, <4>4, Zenon
        <5>3. a \in Nat /\ b \in Nat /\ c \in Nat
          BY <5>1
        <5> HIDE DEF a, b, c
        <5>4. a + b + (c + result') = (a + b + c) + result'
          BY <3>1, <5>3
        <5> QED BY <5>2, <5>4, Zenon
      <4>6. 10 * P = (10 * r) * WordMod + mul * 10
        BY <1>2, <3>2
      <4>7. (10 * r + v) * WordMod = (10 * r) * WordMod + v * WordMod
        BY <1>2
      <4>8. 10 * P = (10 * r + v) * WordMod + mul'
        <5> DEFINE a == (10 * r) * WordMod
                   c == v * WordMod
        <5>1. a \in Nat /\ c \in Nat
          BY <1>2, TimesIsNat
        <5>2. 10 * P = a + (c + mul') /\ (10 * r + v) * WordMod = a + c
          BY <2>3, <4>6, <4>7, Zenon
        <5> HIDE DEF a, c
        <5>3. a + (c + mul') = (a + c) + mul'
          BY <3>1, <5>1
        <5> QED BY <5>2, <5>3, Zenon
      <4>9. /\ q + d * r + u \in Nat /\ 10 * r + v \in Nat
            /\ E + d * P \in Nat /\ 10 * P \in Nat
        <5> DEFINE x == d * r
                   y == d * P
        <5>1. x \in Nat /\ y \in Nat
          BY <4>1
        <5> HIDE DEF x, y
        <5>2. q + x + u \in Nat /\ 10 * r + v \in Nat /\ E + y \in Nat /\ 10 * P \in Nat
          BY <3>2, <5>1
        <5> QED BY <5>2 DEF x, y
      <4> QED BY <4>5, <4>8, <4>9
    <3> QED BY <3>3 DEF E, P
  <2>6. PICK f : f = [k \in 0 .. j + 1 |-> IF k = j + 1 THEN e[j] + d * p[j] ELSE e[k]]
    OBVIOUS
  <2>7. PICK m : m = [k \in 0 .. j + 1 |-> IF k = j + 1 THEN 10 * p[j] ELSE p[k]]
    OBVIOUS
  <2> HIDE DEF d, j
  <2>8. f \in [0 .. j + 1 -> Nat] /\ m \in [0 .. j + 1 -> Nat]
    <3>1. \A k \in 0 .. j + 1 : k # j + 1 => k \in 0 .. j
      BY <1>3
    <3>2. e[j] + d * p[j] \in Nat /\ 10 * p[j] \in Nat
      BY <2>5
    <3>3. f \in [0 .. j + 1 -> Nat]
      BY <2>6, <3>1, <3>2, Zenon
    <3>4. m \in [0 .. j + 1 -> Nat]
      BY <2>7, <3>1, <3>2, Zenon
    <3> QED BY <3>3, <3>4
  <2>9. /\ f[j + 1] = e[j] + d * p[j] /\ m[j + 1] = 10 * p[j]
        /\ \A k \in 0 .. j : f[k] = e[k] /\ m[k] = p[k]
    BY <1>3, <2>6, <2>7
  <2>10. ASSUME NEW k \in 1 .. j + 1
         PROVE  m[k] = 10 * m[k - 1] /\ f[k] = f[k - 1] + s[CharsKept - k + 1] * m[k - 1]
    <3>1. CASE k = j + 1
      <4>1. k - 1 = j /\ f[j] = e[j] /\ m[j] = p[j] /\ s[CharsKept - k + 1] = d
        BY <1>3, <2>4, <2>9, <3>1 DEF d
      <4> QED BY <2>9, <3>1, <4>1
    <3>2. CASE k \in 1 .. j
      <4>1. p[k] = 10 * p[k - 1] /\ e[k] = e[k - 1] + s[CharsKept - k + 1] * p[k - 1]
        BY <2>1, <3>2 DEF Sums, j
      <4>2. k \in 0 .. j /\ k - 1 \in 0 .. j
        BY <1>3, <3>2
      <4> QED BY <2>9, <4>1, <4>2
    <3> QED BY <1>3, <3>1, <3>2
  <2>11. f[0] = 0 /\ m[0] = 1
    <3>1. e[0] = 0 /\ p[0] = 1 /\ 0 \in 0 .. j
      BY <1>3, <2>1 DEF Sums
    <3> QED BY <2>9, <3>1
  <2>12. Sums(f, m)'
    <3>1. /\ \E x \in Nat : f[CharsRead'] = x * WordMod + result'
          /\ \E x \in Nat : m[CharsRead'] = x * WordMod + mul'
      BY <1>3, <2>5, <2>9
    <3>2. \A k \in 1 .. CharsRead' : /\ m[k] = 10 * m[k - 1]
                                /\ f[k] = f[k - 1] + s'[CharsKept' - k + 1] * m[k - 1]
      BY <1>1, <1>3, <2>10
    <3> QED BY <2>11, <3>1, <3>2 DEF Sums
  <2>13. len' <= CharsKept' /\ \A k \in len' + 1 .. CharsKept' : isdigit(s'[k])
    <3>1. \A k \in len .. CharsKept : k = len \/ k \in len + 1 .. CharsKept
      BY <1>2
    <3>2. len' + 1 = len
      BY <1>1, <1>2
    <3>3. isdigit(s[len])
      BY <1>1 DEF d, isdigit
    <3> QED BY <1>1, <1>2, <1>3, <3>1, <3>2, <3>3
  <2> QED BY <1>3, <2>8, <2>12, <2>13 DEF AtoiLoop
<1> QED BY <1>6, <1>7, <1>8 DEF NumbersInv

(* The digits atoi has read, and the value they have. *)
LEMMA DigitsRead ==
  ASSUME NumbersInv, pc = "atoi", NEW t \in Seq(Nat), Len(t) = CharsRead,
         \A k \in 1 .. CharsRead : t[k] = s[len + k]
  PROVE  Word(Value(t, 10)) = result
<1>1. PICK e \in [0 .. CharsRead -> Nat], p \in [0 .. CharsRead -> Nat] : Sums(e, p)
  BY DEF NumbersInv, AtoiLoop
<1>2. CharsRead \in Nat /\ len \in Nat /\ CharsKept \in Nat /\ len + CharsRead = CharsKept
  <2>1. CharsKept \in Nat /\ len \in Nat /\ len <= CharsKept
    <3>1. CharsKept \in 0 .. Len(s) /\ Len(s) \in Nat
      BY KeptType DEF NumbersInv, NumberTypes, CharsKept
    <3> QED BY <3>1 DEF NumbersInv, NumberTypes, AtoiLoop
  <2> QED BY <2>1 DEF CharsRead
<1>3. ASSUME NEW k \in 1 .. CharsRead
      PROVE  p[k] = 10 * p[k - 1] /\ e[k] = e[k - 1] + t[CharsRead - k + 1] * p[k - 1]
  <2>1. p[k] = 10 * p[k - 1] /\ e[k] = e[k - 1] + s[CharsKept - k + 1] * p[k - 1]
    BY <1>1 DEF Sums
  <2>2. CharsRead - k + 1 \in 1 .. CharsRead /\ len + (CharsRead - k + 1) = CharsKept - k + 1
    BY <1>2
  <2>3. t[CharsRead - k + 1] = s[CharsKept - k + 1]
    BY <2>2
  <2> QED BY <2>1, <2>3
<1>4. e[0] = 0 /\ p[0] = 1 /\ \E q \in Nat : e[CharsRead] = q * WordMod + result
  BY <1>1 DEF Sums
<1>5. Value(t, 10) = e[CharsRead]
  BY <1>1, <1>3, <1>4, SumIsValue
<1>6. e[CharsRead] \in Nat /\ result \in 0 .. WordMod - 1
  BY <1>1, <1>2 DEF NumbersInv, NumberTypes
<1>7. Word(e[CharsRead]) = result
  BY <1>4, <1>6, WordIs
<1> QED BY <1>5, <1>7

LEMMA AtoiReturnInv ==
  ASSUME NumbersInv, AtoiReturn
  PROVE  NumbersInv'
<1> DEFINE str == SubSeq(s, 1, CharsKept)
<1>1. /\ pc = "atoi" /\ pc' = "done" /\ ~ (len > 0 /\ isdigit(s[len]))
      /\ result' = IF len = 0 THEN result
                   ELSE IF len = 1 /\ s[1] = Minus THEN Word(WordMod - result)
                   ELSE WordMod - 1
      /\ UNCHANGED <<number, base, i, tbuf, buf, s, len, mul>>
  BY DEF AtoiReturn, itoavars
<1>2. /\ s \in Seq(Nat) /\ len \in Nat /\ CharsKept \in 0 .. Len(s)
      /\ len <= CharsKept /\ Len(s) \in Nat
      /\ result \in 0 .. WordMod - 1 /\ WordMod \in Nat \ {0}
      /\ \A k \in len + 1 .. CharsKept : isdigit(s[k])
  <2>1. s \in Seq(Nat) /\ len \in Nat /\ result \in 0 .. WordMod - 1 /\ Len(s) \in Nat
    BY DEF NumbersInv, NumberTypes
  <2>2. CharsKept \in 0 .. Len(s)
    BY <2>1, KeptType DEF CharsKept
  <2>3. len <= CharsKept /\ \A k \in len + 1 .. CharsKept : isdigit(s[k])
    BY <1>1 DEF NumbersInv, AtoiLoop
  <2> QED BY <2>1, <2>2, <2>3, NumberConstants
<1>3. /\ WordMod - result \in Nat /\ Word(WordMod - result) \in 0 .. WordMod - 1
      /\ WordMod - 1 \in 0 .. WordMod - 1
  <2>1. WordMod - result \in Nat
    BY <1>2
  <2>2. Word(WordMod - result) \in 0 .. WordMod - 1
    BY <2>1, WordIs, Zenon
  <2>3. WordMod - 1 \in 0 .. WordMod - 1
    BY <1>2
  <2> QED BY <2>1, <2>2, <2>3
<1>4. NumberTypes'
  BY <1>1, <1>2, <1>3 DEF NumbersInv, NumberTypes
<1>5. NumberCalls' /\ ItoaLoop' /\ Halving' /\ AtoiLoop' /\ Legible'
  BY <1>1 DEF NumbersInv, NumberCalls, ItoaLoop, Halving, AtoiLoop, Legible
<1>6. WrittenNumber'
  BY <1>1 DEF NumbersInv, NumberCalls, WrittenNumber
<1>7. /\ str \in Seq(Nat) /\ Len(str) = CharsKept /\ DOMAIN str = 1 .. CharsKept
      /\ \A k \in 1 .. CharsKept : str[k] = s[k]
  BY <1>2
<1>8. result' = Meaning(str)
  <2> HIDE DEF str
  <2>1. CASE len = 0
    <3>1. AllDigits(str)
      <4>1. len + 1 = 1
        BY <2>1
      <4>2. \A k \in 1 .. CharsKept : isdigit(s[k])
        BY <1>2, <4>1, Zenon
      <4> QED BY <1>7, <4>2, Zenon DEF AllDigits
    <3>2. CharsRead = CharsKept /\ CharsKept \in Nat
      BY <1>2, <2>1 DEF CharsRead
    <3>3. \A k \in 1 .. CharsKept : str[k] = s[len + k]
      BY <1>7, <2>1
    <3>4. Word(Value(str, 10)) = result
      BY <1>1, <1>7, <3>2, <3>3, DigitsRead
    <3> QED BY <1>1, <2>1, <3>1, <3>4 DEF Meaning
  <2>2. CASE len # 0
    <3>1. len \in 1 .. CharsKept /\ ~ isdigit(s[len])
      BY <1>1, <1>2, <2>2
    <3>2. ~ AllDigits(str)
      BY <1>7, <3>1 DEF AllDigits
    <3>3. /\ Tail(str) \in Seq(Nat) /\ Len(Tail(str)) = CharsKept - 1 /\ CharsKept \in Nat \ {0}
          /\ DOMAIN Tail(str) = 1 .. CharsKept - 1
          /\ \A k \in 1 .. CharsKept - 1 : Tail(str)[k] = s[k + 1]
      <4>1. CharsKept \in Nat \ {0} /\ \A k \in 1 .. CharsKept - 1 : k + 1 \in 1 .. CharsKept
        BY <1>2, <3>1
      <4>2. str # <<>>
        BY <1>7, <4>1
      <4>3. /\ Tail(str) \in Seq(Nat) /\ Len(Tail(str)) = CharsKept - 1
            /\ DOMAIN Tail(str) = 1 .. CharsKept - 1
            /\ \A k \in 1 .. CharsKept - 1 : Tail(str)[k] = str[k + 1]
        BY <1>7, <4>1, <4>2
      <4> QED BY <1>7, <4>1, <4>3
    <3>4. CASE len = 1
      <4>1. /\ CharsRead = CharsKept - 1
            /\ \A k \in 1 .. CharsKept - 1 : k + 1 = len + k /\ k + 1 \in len + 1 .. CharsKept
        BY <1>2, <3>4 DEF CharsRead
      <4>2. AllDigits(Tail(str))
        <5>1. \A k \in 1 .. CharsKept - 1 : isdigit(s[k + 1])
          BY <1>2, <4>1, Zenon
        <5> QED BY <3>3, <5>1, Zenon DEF AllDigits
      <4>3. Word(Value(Tail(str), 10)) = result
        BY <1>1, <3>3, <4>1, DigitsRead
      <4>4. str[1] = s[1]
        BY <1>7, <3>1, <3>4
      <4> QED BY <1>1, <2>2, <3>2, <3>4, <4>2, <4>3, <4>4 DEF Meaning
    <3>5. CASE len # 1
      <4>1. len - 1 \in 1 .. CharsKept - 1 /\ (len - 1) + 1 = len
        BY <1>2, <3>1, <3>5
      <4>2. ~ isdigit(Tail(str)[len - 1])
        BY <3>1, <3>3, <4>1
      <4>3. ~ AllDigits(Tail(str))
        BY <3>3, <4>1, <4>2 DEF AllDigits
      <4> QED BY <1>1, <2>2, <3>2, <3>5, <4>3 DEF Meaning
    <3> QED BY <3>4, <3>5
  <2> QED BY <2>1, <2>2
<1>9. AtoiMeaning'
  BY <1>1, <1>8 DEF AtoiMeaning, CharsKept
<1> QED BY <1>4, <1>5, <1>6, <1>9 DEF NumbersInv

LEMMA NextNumbers == NumbersInv /\ [Next]_vars => NumbersInv'
<1> SUFFICES ASSUME NumbersInv, [Next]_vars PROVE NumbersInv'
  OBVIOUS
<1>1. CASE \E n \in Ints, b \in Bases : ItoaCall(n, b)
  BY <1>1, ItoaCallInv
<1>2. CASE \E n \in Ints : Htoc(n)
  BY <1>2, HtocInv
<1>3. CASE \E str \in Strings \cup {buf} : AtoiCall(str)
  BY <1>3, AtoiCallInv
<1>4. CASE ItoaDigit
  BY <1>4, ItoaDigitInv
<1>5. CASE ItoaFault
  BY <1>5, ItoaFaultInv
<1>6. CASE ItoaReturn
  BY <1>6, ItoaReturnInv
<1>7. CASE AtoiDigit
  BY <1>7, AtoiDigitInv
<1>8. CASE AtoiReturn
  BY <1>8, AtoiReturnInv
<1>9. CASE UNCHANGED vars
  <2>1. UNCHANGED <<pc, number, base, i, tbuf, buf, s, len, result, mul>>
    BY <1>9 DEF vars, itoavars, atoivars
  <2>2. NumberTypes' /\ NumberCalls' /\ Halving' /\ WrittenNumber' /\ AtoiMeaning' /\ Legible'
    BY <2>1 DEF NumbersInv, NumberTypes, NumberCalls, Halving, WrittenNumber, AtoiMeaning, Legible
  <2>3. ItoaLoop'
    BY <2>1 DEF NumbersInv, ItoaLoop, Quotients
  <2>4. CharsKept' = CharsKept /\ CharsRead' = CharsRead
    BY <2>1 DEF CharsKept, CharsRead
  <2>5. AtoiLoop'
    BY <2>1, <2>4 DEF NumbersInv, AtoiLoop, Sums
  <2> QED BY <2>2, <2>3, <2>5 DEF NumbersInv
<1> QED BY <1>1, <1>2, <1>3, <1>4, <1>5, <1>6, <1>7, <1>8, <1>9 DEF Next

(* The invariant of itoa, htoc and atoi. *)
THEOREM NumbersInvariant == Spec => []NumbersInv
BY InitNumbers, NextNumbers, PTL DEF Spec

(* The characters of tbuf are enough for every word in every base but one: *)
(* each digit of itoa halves what is left at least, and a word has as many *)
(* bits as tbuf has characters. In base two the largest word fills it.     *)
THEOREM NumbersTbufSuffices == Spec => []TbufSuffices
<1>1. NumbersInv => TbufSuffices
  BY DEF NumbersInv, Halving, TbufSuffices
<1> QED BY <1>1, NumbersInvariant, PTL

(* itoa writes its number in its base and no leading zero, htoc the lower  *)
(* byte of its argument.                                                   *)
THEOREM NumbersWrittenNumber == Spec => []WrittenNumber
<1>1. NumbersInv => WrittenNumber
  BY DEF NumbersInv
<1> QED BY <1>1, NumbersInvariant, PTL

(* atoi returns what the characters it looks at stand for, modulo the size *)
(* of a word, although it sums up from the right, with products and sums   *)
(* that wrap around at every step.                                         *)
THEOREM NumbersAtoiMeaning == Spec => []AtoiMeaning
<1>1. NumbersInv => AtoiMeaning
  BY DEF NumbersInv
<1> QED BY <1>1, NumbersInvariant, PTL

(* After an itoa in base ten and an atoi of what it has written. *)
RoundTrip == pc = "done" /\ base = 10 => result = number

(* Printed in base ten and read again, every word is itself, if the text   *)
(* is short enough for atoi: tbuf has 32 characters, and atoi keeps        *)
(* lengths below 256.  A word above the largest int comes back as the      *)
(* negative int of the same bits.                                          *)
THEOREM NumbersRoundTrip ==
  ASSUME TbufSize < LenMod
  PROVE  Spec => []RoundTrip
<1>1. ASSUME NumbersInv PROVE RoundTrip
  <2> SUFFICES ASSUME pc = "done", base = 10 PROVE result = number
    BY DEF RoundTrip
  <2>1. /\ buf \in Seq(Nat) /\ Len(buf) \in Nat /\ number \in 0 .. WordMod - 1
        /\ s = buf /\ buf # <<>> /\ AllDigits(buf) /\ Value(buf, 10) = number
        /\ Len(buf) <= TbufSize \/ Len(buf) = 1
    BY <1>1 DEF NumbersInv, NumberTypes, Legible
  <2>2. Len(buf) % LenMod = Len(buf)
    <3>1. TbufSize \in Nat /\ LenMod \in Nat \ {0, 1}
      BY NumberConstants
    <3> DEFINE n == Len(buf)
    <3>2. n \in Nat /\ (n <= TbufSize \/ n = 1)
      BY <2>1
    <3> HIDE DEF n
    <3>3. n \in Nat /\ n < LenMod
      BY <3>1, <3>2
    <3>4. n % LenMod = n
      BY <3>1, <3>3
    <3> QED BY <3>4 DEF n
  <2>3. SubSeq(buf, 1, Len(buf)) = buf
    BY <2>1
  <2>4. result = Word(Value(buf, 10))
    BY <1>1, <2>1, <2>2, <2>3 DEF NumbersInv, AtoiMeaning, Meaning
  <2>5. number \in Nat /\ number = 0 * WordMod + number
    BY <2>1, NumberConstants
  <2>6. Word(number) = number
    BY <2>1, <2>5, WordIs
  <2> QED BY <2>1, <2>4, <2>6
<1> QED BY <1>1, NumbersInvariant, PTL
=============================================================================
