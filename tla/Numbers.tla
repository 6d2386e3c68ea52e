------------------------------- MODULE Numbers ------------------------------
(***************************************************************************)
(* Numbers as text: itoa, atoi and htoc of stdio.c, one step per digit.    *)
(*                                                                         *)
(* They keep nothing between calls (tbuf is filled anew), so a behaviour   *)
(* is one call, or an itoa and an atoi of what it wrote.  A character is a *)
(* number: 0 to 15 are the digits of bchars, Minus and Other follow.       *)
(* A value of 32 bits, signed or not, is a number below WordMod: signed    *)
(* arithmetic wraps around.                                                *)
(***************************************************************************)
EXTENDS Naturals, Sequences, SequencesExt

CONSTANTS
  TbufSize,   \* characters of tbuf, and bits of a word: 32 both
  LenMod,     \* values of atoi's len: 256
  Ints,       \* arguments of itoa and htoc
  Bases,      \* arguments of itoa
  Strings     \* arguments of atoi

(* The powers of two. *)
Pow2[k \in 0 .. TbufSize] == IF k = 0 THEN 1 ELSE 2 * Pow2[k - 1]

WordMod == Pow2[TbufSize]
Minus == 16
Other == 17
Char == 0 .. Other

ASSUME NumbersAssumption ==
  /\ TbufSize \in Nat /\ LenMod \in Nat \ {0, 1}
  /\ Ints \subseteq 0 .. WordMod - 1 /\ Bases \subseteq Nat
  /\ \A s \in Strings : s \in Seq(Char)

VARIABLES
  pc,       \* "start", "itoa", "written", "atoi", "done" or "fault"
  number,   \* the number to be written, 0 if there is none
  base,     \* itoa's base
  i,        \* itoa's i
  tbuf,     \* the digits in tbuf, as far as they are written
  buf,      \* the characters in the caller's buffer
  s,        \* atoi's argument
  len, result, mul

itoavars == <<number, base, i, tbuf, buf>>
atoivars == <<s, len, result, mul>>
vars == <<pc, itoavars, atoivars>>

Init ==
  /\ pc = "start"
  /\ number = 0 /\ base = 0 /\ i = 0
  /\ tbuf = <<>> /\ buf = <<>>
  /\ s = <<>> /\ len = 0 /\ result = 0 /\ mul = 1

-----------------------------------------------------------------------------
(* itoa: zero, and every number in a base it has no digits for, is "0". *)
ItoaCall(n, b) ==
  /\ pc = "start"
  /\ number' = n /\ base' = b
  /\ IF n = 0 \/ b > 16
     THEN pc' = "written" /\ buf' = <<0>> /\ UNCHANGED <<i, tbuf>>
     ELSE pc' = "itoa" /\ i' = n /\ tbuf' = <<>> /\ UNCHANGED buf
  /\ UNCHANGED atoivars

(* Mutant: the quotient is rounded up. *)
QuotientUp == (i + base - 1) \div base

(* bchars[i % base], and i /= base *)
Digit == i % base
Quotient == i \div base

(* A digit is put into tbuf.  With base 1 there is no end to it: the model *)
(* stops at the first one behind tbuf.                                     *)
ItoaDigit ==
  /\ pc = "itoa" /\ i # 0 /\ base # 0
  /\ Len(tbuf) <= TbufSize
  /\ tbuf' = Append(tbuf, Digit)
  /\ i' = Quotient
  /\ UNCHANGED <<pc, number, base, buf, atoivars>>

(* A division by zero. *)
ItoaFault ==
  /\ pc = "itoa" /\ i # 0 /\ base = 0
  /\ pc' = "fault"
  /\ UNCHANGED <<itoavars, atoivars>>

(* Mutant: the digits are copied as they are. *)
CopyOutForward == tbuf

(* The second loop copies tbuf from its end. *)
CopyOut == Reverse(tbuf)

ItoaReturn ==
  /\ pc = "itoa" /\ i = 0
  /\ buf' = CopyOut
  /\ pc' = "written"
  /\ UNCHANGED <<number, base, i, tbuf, atoivars>>

(* htoc prints the two digits of the lower byte.  The "0x" it prints       *)
(* before them, on a line of its own as printf ends its line, is left out. *)
Htoc(n) ==
  /\ pc = "start"
  /\ number' = n /\ base' = 16
  /\ buf' = <<(n \div 16) % 16, n % 16>>
  /\ pc' = "done"
  /\ UNCHANGED <<i, tbuf, atoivars>>

-----------------------------------------------------------------------------
isdigit(c) == c <= 9

(* Mutant: the whole length. *)
LengthKeptWhole(str) == Len(str)

(* len is a uint8_t. *)
LengthKept(str) == Len(str) % LenMod

AtoiCall(str) ==
  /\ \/ pc = "start"
     \/ pc = "written" /\ str = buf
  /\ pc' = "atoi"
  /\ s' = str
  /\ len' = LengthKept(str)
  /\ result' = 0 /\ mul' = 1
  /\ UNCHANGED itoavars

Word(n) == n % WordMod

(* From right to left, as long as there are digits. *)
AtoiDigit ==
  /\ pc = "atoi"
  /\ len > 0 /\ isdigit(s[len])
  /\ len' = len - 1
  /\ result' = Word(result + s[len] * mul)
  /\ mul' = Word(mul * 10)
  /\ UNCHANGED <<pc, itoavars, s>>

(* What stands before the digits is nothing, one minus sign, or makes the  *)
(* string invalid: -1 then.                                                *)
AtoiReturn ==
  /\ pc = "atoi"
  /\ ~ (len > 0 /\ isdigit(s[len]))
  /\ result' = IF len = 0 THEN result
               ELSE IF len = 1 /\ s[1] = Minus THEN Word(WordMod - result)
               ELSE WordMod - 1
  /\ pc' = "done"
  /\ UNCHANGED <<itoavars, s, len, mul>>

-----------------------------------------------------------------------------
Next ==
  \/ \E n \in Ints, b \in Bases : ItoaCall(n, b)
  \/ \E n \in Ints : Htoc(n)
  \/ \E str \in Strings \cup {buf} : AtoiCall(str)
  \/ ItoaDigit \/ ItoaFault \/ ItoaReturn \/ AtoiDigit \/ AtoiReturn

Spec == Init /\ [][Next]_vars

-----------------------------------------------------------------------------
(* The value of digits str in base b, by definition. *)
Value(str, b) ==
  LET prefix[k \in 0 .. Len(str)] == IF k = 0 THEN 0 ELSE prefix[k - 1] * b + str[k]
  IN  prefix[Len(str)]

AllDigits(str) == \A k \in DOMAIN str : isdigit(str[k])

(* What a string stands for: an optional sign and digits, of which there   *)
(* may be none.                                                            *)
Meaning(str) ==
  IF AllDigits(str) THEN Word(Value(str, 10))
  ELSE IF str[1] = Minus /\ AllDigits(Tail(str))
       THEN Word(WordMod - Word(Value(Tail(str), 10)))
  ELSE WordMod - 1

(* What itoa has written is its number in its base, without leading zeros, *)
(* and what htoc has is the lower byte of its argument, whose type has two *)
(* bytes.                                                                  *)
WrittenNumber ==
  /\ pc = "written" /\ base \in 2 .. 16 =>
       Value(buf, base) = number /\ (buf[1] = 0 => buf = <<0>>)
  /\ pc = "done" /\ base = 16 /\ s = <<>> => Value(buf, 16) = number % 256

(* The 32 characters of tbuf are enough for every number in every base     *)
(* from two on: the largest one in base two fills it.                      *)
TbufSuffices == base # 1 => Len(tbuf) <= TbufSize

(* atoi returns what the string stands for, modulo 2^32, if it has fewer   *)
(* than 256 characters; of a longer one it looks at the first ones only,   *)
(* as many as the length has left over after division by 256.              *)
AtoiMeaning ==
  pc = "done" /\ s # <<>> => result = Meaning(SubSeq(s, 1, Len(s) % LenMod))

=============================================================================
