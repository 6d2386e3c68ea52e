------------------------------ MODULE Terminal ------------------------------
(***************************************************************************)
(* The text terminal (display/vga.c) and the formatted output built on it  *)
(* (printf, cprintf and krnl_panic of stdio.c): one step per character, so *)
(* that nested calls, the colour each of them sets and gives back, and the *)
(* depth of the stack are visible.                                         *)
(*                                                                         *)
(* Characters are abstracted to "nl" and "ch", every other one.  A format  *)
(* is a sequence of characters and conversions "%c", "%d", "%f", "%s",     *)
(* "%x", "%other" and "%nl", a percent sign and a new line; "%end" is a    *)
(* percent sign right before the end.                                      *)
(* Arguments are known by their type.  Numbers are printed as one digit,   *)
(* strings as StringArg.  The background is always white, so a colour is   *)
(* its foreground.                                                         *)
(***************************************************************************)
EXTENDS Naturals, Sequences

CONSTANTS
  WIDTH, HEIGHT,   \* 80 and 40 (vga.h)
  PositionMod,     \* values of the 16-bit cursor position: 2^16
  Colours,         \* what callers pass to cprintf and set_terminal_color
  Formats,         \* what callers pass to printf and cprintf, with arguments
  Texts,           \* what callers pass to the functions without arguments
  StringArg,       \* the characters of a string argument
  Behind,          \* what may lie in memory behind a format, up to a zero
  StackFrames,     \* calls the 16384 bytes of stack have room for
  RowBound         \* bound: nothing is printed from this row on

Palette == {"black", "green", "cyan", "red"}

ASSUME TerminalAssumption ==
  /\ WIDTH \in Nat \ {0} /\ HEIGHT \in Nat \ {0}
  /\ PositionMod \in Nat \ {0}
  /\ Colours \subseteq Palette
  /\ StackFrames \in Nat /\ RowBound \in Nat

Items == {"ch", "nl", "%c", "%d", "%f", "%s", "%x", "%other", "%nl", "%end"}
ArgTypes == {"int", "str", "dbl"}

ASSUME FormatAssumption ==
  /\ \A f \in Formats : f.fmt \in Seq(Items) /\ f.args \in Seq(ArgTypes)
  /\ Texts \subseteq Seq(Items) /\ Behind \subseteq Seq(Items)
  /\ StringArg \in Seq({"ch", "nl"})

VARIABLES
  terminal_row, terminal_column, terminal_color,
  cursor,   \* the position the hardware cursor was last set to
  stack,    \* the active calls, innermost first
  panic,    \* how far krnl_panic has got: "no", "where", "what"
  badarg,   \* a conversion met an argument of another type, or none
  base      \* history: the colour last set for good

vars == <<terminal_row, terminal_column, terminal_color, cursor, stack,
          panic, badarg, base>>

(* A call: what of its format and arguments is left, the colour it sets    *)
(* (itself none for printf and write_to_terminal) and the one it restores. *)
Frame(fn, fmt, args, new, old) ==
  [fn |-> fn, rest |-> fmt, args |-> args, new |-> new, old |-> old]

Plain(fn, fmt, args) == Frame(fn, fmt, args, "none", "none")

Idle == stack = <<>> /\ panic = "no" /\ terminal_row < RowBound

(* kernel_start begins with make_vga_terminal: the state it leaves. *)
Init ==
  /\ terminal_row = 0 /\ terminal_column = 0 /\ terminal_color = "black"
  /\ cursor = 0
  /\ stack = <<>>
  /\ panic = "no"
  /\ badarg = FALSE
  /\ base = "black"

(* The character fills the line. *)
Full(c) == c # "nl" /\ terminal_column + 1 = WIDTH

(* Mutant: comes back to the first row from any row below the screen. *)
RowAfterFullAtLeast == IF terminal_row + 1 >= HEIGHT THEN 0 ELSE terminal_row + 1

(* Only a full line, not a new one, goes from the last row to the first. *)
RowAfterFull == IF terminal_row + 1 = HEIGHT THEN 0 ELSE terminal_row + 1

(* update_cursor_position, before the position moves on. *)
CursorAt == (terminal_row * WIDTH + terminal_column) % PositionMod

(* put_terminal_char *)
PutChar(c) ==
  /\ terminal_column' = IF c = "nl" \/ Full(c) THEN 0 ELSE terminal_column + 1
  /\ terminal_row' = IF c = "nl" THEN terminal_row + 1
                     ELSE IF Full(c) THEN RowAfterFull ELSE terminal_row
  /\ cursor' = CursorAt

screen == <<terminal_row, terminal_column, cursor>>

-----------------------------------------------------------------------------
(* The calls callers make. *)

make_vga_terminal ==
  /\ Idle
  /\ terminal_row' = 0 /\ terminal_column' = 0
  /\ terminal_color' = "black"
  /\ base' = "black"
  /\ UNCHANGED <<cursor, stack, panic, badarg>>

set_terminal_color(c) ==
  /\ Idle
  /\ terminal_color' = c
  /\ base' = c
  /\ UNCHANGED <<screen, stack, panic, badarg>>

printf(f) ==
  /\ Idle
  /\ stack' = <<Plain("printf", f.fmt, f.args)>>
  /\ UNCHANGED <<screen, terminal_color, panic, badarg, base>>

cprintf(c, f) ==
  /\ Idle
  /\ stack' = <<Frame("cprintf", f.fmt, f.args, c, terminal_color)>>
  /\ terminal_color' = c
  /\ UNCHANGED <<screen, panic, badarg, base>>

(* write_warning_string, write_error_string and write_pass_string: they    *)
(* hand their text to printf as a format, and drop their other arguments.  *)
write_coloured_string(c, text) ==
  /\ Idle
  /\ stack' = <<Plain("printf", text, <<>>), Frame("coloured", <<>>, <<>>, c, terminal_color)>>
  /\ terminal_color' = c
  /\ UNCHANGED <<screen, panic, badarg, base>>

write_string_to_terminal(text) ==
  /\ Idle
  /\ stack' = <<Plain("write", text, <<>>)>>
  /\ UNCHANGED <<screen, terminal_color, panic, badarg, base>>

(* krnl_panic clears the terminal and prints where it was called: the      *)
(* format asks for two strings, and gets the file, the line, the function. *)
krnl_panic ==
  /\ Idle
  /\ panic' = "where"
  /\ terminal_row' = 0 /\ terminal_column' = 0
  /\ stack' = <<Frame("cprintf", <<"ch", "%s", "ch", "%s">>, <<"str", "int", "str">>,
                      "red", "black")>>
  /\ terminal_color' = "red"
  /\ base' = "black"
  /\ UNCHANGED <<cursor, badarg>>

(* Then it prints what happened, and loops for ever. *)
PanicMessage(text) ==
  /\ panic = "where" /\ stack = <<>>
  /\ panic' = "what"
  /\ stack' = <<Frame("cprintf", text, <<>>, "red", terminal_color)>>
  /\ terminal_color' = "red"
  /\ UNCHANGED <<screen, badarg, base>>

-----------------------------------------------------------------------------
(* The innermost call goes on. *)

Running == stack # <<>> /\ Head(stack).rest # <<>>
Top == Head(stack)
Item == Head(Top.rest)

(* The call with its first item done, and its first argument if it took one *)
Done(args) == [Top EXCEPT !.rest = Tail(Top.rest), !.args = args]

(* va_arg: the argument should be there, and of type t. *)
TakeArg(t) == badarg' = (badarg \/ Top.args = <<>> \/ Head(Top.args) # t)

ArgsLeft == IF Top.args = <<>> THEN <<>> ELSE Tail(Top.args)

(* write_to_terminal knows no conversion at all. *)
Formatting == Running /\ Top.fn # "write"

(* printf knows no "%x" and prints the x; what follows the percent sign of *)
(* an unknown conversion is printed, a new line too.                       *)
Character ==
  /\ Running
  /\ \/ Item \in {"ch", "nl"}
     \/ Item \in {"%other", "%nl"} /\ Formatting
     \/ Item = "%x" /\ Top.fn = "printf"
  /\ PutChar(IF Item \in {"nl", "%nl"} THEN "nl" ELSE "ch")
  /\ stack' = <<Done(Top.args)>> \o Tail(stack)
  /\ UNCHANGED <<terminal_color, panic, badarg, base>>

(* What follows a percent sign that was printed. *)
Letter(item) == IF item = "%end" THEN <<>> ELSE IF item = "%nl" THEN <<"nl">> ELSE <<"ch">>

(* write_to_terminal prints the percent sign of a conversion like any      *)
(* other character, and then the letter.                                   *)
RawPercent ==
  /\ Running
  /\ Item \notin {"ch", "nl"} /\ Top.fn = "write"
  /\ PutChar("ch")
  /\ stack' = <<[Top EXCEPT !.rest = Letter(Item) \o Tail(@)]>> \o Tail(stack)
  /\ UNCHANGED <<terminal_color, panic, badarg, base>>

(* The character after the percent sign is the end of the format.  It is   *)
(* printed like any other, and the loop goes on behind it.                 *)
ReadBehind(text) ==
  /\ Formatting
  /\ Item = "%end"
  /\ PutChar("ch")
  /\ stack' = <<[Top EXCEPT !.rest = text]>> \o Tail(stack)
  /\ UNCHANGED <<terminal_color, panic, badarg, base>>

CharArgument ==
  /\ Formatting
  /\ Item = "%c"
  /\ TakeArg("int")
  /\ PutChar("ch")
  /\ stack' = <<Done(ArgsLeft)>> \o Tail(stack)
  /\ UNCHANGED <<terminal_color, panic, base>>

(* Its characters are printed where the conversion stood. *)
StringArgument ==
  /\ Formatting
  /\ Item = "%s"
  /\ TakeArg("str")
  /\ stack' = <<[Done(ArgsLeft) EXCEPT !.rest = StringArg \o @]>> \o Tail(stack)
  /\ UNCHANGED <<screen, terminal_color, panic, base>>

(* cprintf gives the digits to write_to_terminal, which ends the line. *)
HexArgument ==
  /\ Running
  /\ Item = "%x" /\ Top.fn = "cprintf"
  /\ TakeArg("int")
  /\ stack' = <<Plain("write", <<"ch">>, <<>>), Done(ArgsLeft)>> \o Tail(stack)
  /\ UNCHANGED <<screen, terminal_color, panic, base>>

(* Mutant: the number is printed. *)
NumberFormatDigits == <<"ch">>

(* What "%d" and "%f" call printf with. *)
NumberFormat == <<"%f">>

(* Calls end where the stack does. *)
NumberArgument ==
  LET t == IF Item = "%d" THEN "int" ELSE "dbl"
  IN /\ Formatting
     /\ Item \in {"%d", "%f"}
     /\ Len(stack) <= StackFrames
     /\ TakeArg(t)
     /\ stack' = <<Plain("number", NumberFormat, <<t>>), Done(ArgsLeft)>> \o Tail(stack)
     /\ UNCHANGED <<screen, terminal_color, panic, base>>

(* Mutants: the colour is forgotten; the call stays. *)
ColourAfterKept == terminal_color
CallersSame == stack

(* cprintf and write_..._string restore the colour. *)
ColourAfter == IF Top.fn \in {"cprintf", "coloured"} THEN Top.old ELSE terminal_color

Callers == Tail(stack)

(* A call that has printed everything ends the line and returns. *)
EndOfLine ==
  /\ stack # <<>> /\ Top.rest = <<>> /\ Top.fn # "coloured"
  /\ PutChar("nl")
  /\ stack' = Tail(stack)
  /\ terminal_color' = ColourAfter
  /\ UNCHANGED <<panic, badarg, base>>

(* printf has returned to write_..._string. *)
RestoreColour ==
  /\ stack # <<>> /\ Top.fn = "coloured"
  /\ stack' = Callers
  /\ terminal_color' = ColourAfter
  /\ UNCHANGED <<screen, panic, badarg, base>>

Printing ==
  \/ Character \/ RawPercent \/ (\E text \in Behind : ReadBehind(text))
  \/ CharArgument \/ StringArgument \/ HexArgument \/ NumberArgument
  \/ EndOfLine \/ RestoreColour

Next ==
  \/ make_vga_terminal
  \/ \E c \in Colours : set_terminal_color(c)
  \/ \E f \in Formats : printf(f)
  \/ \E f \in Formats, c \in Colours : cprintf(c, f)
  \/ \E text \in Texts, c \in {"cyan", "red", "green"} : write_coloured_string(c, text)
  \/ \E text \in Texts : write_string_to_terminal(text)
  \/ krnl_panic
  \/ \E text \in Texts : PanicMessage(text)
  \/ Printing

(* The kernel's only thread runs on once it has begun to print. *)
Spec == Init /\ [][Next]_vars /\ WF_vars(Printing)

-----------------------------------------------------------------------------
(* The column stays within a line; the rest has its type. *)
TypeOK ==
  /\ terminal_row \in Nat
  /\ terminal_column \in 0 .. WIDTH - 1
  /\ terminal_color \in Palette
  /\ cursor \in 0 .. PositionMod - 1
  /\ panic \in {"no", "where", "what"}
  /\ badarg \in BOOLEAN
  /\ base \in Palette

(* Whatever calls are nested, text appears in the colour of the call that  *)
(* set one, and when the outermost call has returned the colour is the one *)
(* from before.                                                            *)
ColourDiscipline ==
  LET coloured == {i \in DOMAIN stack : stack[i].new # "none"}
  IN IF coloured = {} THEN terminal_color = base
     ELSE \A i \in coloured : terminal_color = stack[i].new /\ stack[i].old = base

(* A number conversion has begun to recurse. *)
Runaway == \E i \in DOMAIN stack : stack[i].fn = "number"

(* stdio.c line 8: "Kernel panic in %s at function %s".  The message of    *)
(* krnl_panic names a place: each of its conversions gets a string.        *)
PanicNamesPlace == panic # "no" => ~ badarg

(* Text that has left the screen never comes back on it, however much is  *)
(* printed: the row is set back only where it equals HEIGHT, and every     *)
(* further line goes to the memory behind the screen.                      *)
BelowScreenForGood ==
  [][terminal_row >= HEIGHT /\ stack # <<>> => terminal_row' >= terminal_row]_vars

(* A call that has begun to print a number never returns, and neither does *)
(* its caller: the stack only grows.                                       *)
NumberNeverReturns == [][Runaway => Len(stack') >= Len(stack)]_vars

(* Every other call that prints returns, whatever lies behind its format. *)
PrintReturns == stack # <<>> ~> stack = <<>> \/ Runaway

=============================================================================
