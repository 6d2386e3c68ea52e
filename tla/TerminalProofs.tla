--------------------------- MODULE TerminalProofs ---------------------------
(***************************************************************************)
(* What holds of the terminal and of formatted output for every screen,    *)
(* every colour and every format: the colour discipline of nested calls,   *)
(* the row below the screen and the stack of a number conversion.  And     *)
(* what holds of the other half of a terminal: the keyboard's two          *)
(* functions implement the queue of KeyQueue, for every set of codes and   *)
(* every length of the keyboard's queue.                                   *)
(***************************************************************************)
EXTENDS Terminal, Keyboard, SequenceTheorems, TLAPS

Shades == Palette \cup {"none"}

Frames ==
  [fn : {"printf", "cprintf", "coloured", "write", "number"},
   rest : Seq(Items), args : Seq(ArgTypes), new : Shades, old : Shades]

(* Only the outermost call may have set a colour, and it is cprintf or one *)
(* of write_..._string, which give it back.                                *)
OutermostColours ==
  /\ stack \in Seq(Frames)
  /\ \A i \in 1 .. Len(stack) :
       /\ stack[i].new # "none" <=> stack[i].fn \in {"cprintf", "coloured"}
       /\ stack[i].new # "none" => i = Len(stack)

(* ColourDiscipline, said of the outermost call. *)
OutermostColour ==
  IF stack # <<>> /\ stack[Len(stack)].new # "none"
  THEN terminal_color = stack[Len(stack)].new /\ base = stack[Len(stack)].old
  ELSE terminal_color = base

(* A number conversion is the innermost call and about to begin another. *)
RunawayOnTop ==
  Runaway => stack[1].fn = "number" /\ stack[1].rest = <<"%f">>

StackInv == OutermostColours /\ OutermostColour /\ RunawayOnTop

LEMMA OutermostColourSuffices ==
  ASSUME OutermostColours
  PROVE  OutermostColour <=> ColourDiscipline
<1> DEFINE L == Len(stack)
           C == {i \in DOMAIN stack : stack[i].new # "none"}
<1>1. /\ stack \in Seq(Frames) /\ L \in Nat /\ DOMAIN stack = 1 .. L
      /\ stack # <<>> <=> L # 0
  BY DEF OutermostColours
<1>2. \A i \in C : i = L
  BY <1>1 DEF OutermostColours
<1>3. CASE stack # <<>> /\ stack[L].new # "none"
  <2>1. L \in C
    BY <1>1, <1>3
  <2> QED
    BY <1>2, <1>3, <2>1 DEF OutermostColour, ColourDiscipline
<1>4. CASE ~ (stack # <<>> /\ stack[L].new # "none")
  <2>1. C = {}
    BY <1>1, <1>2, <1>4
  <2> QED
    BY <1>4, <2>1 DEF OutermostColour, ColourDiscipline
<1> QED
  BY <1>3, <1>4

-----------------------------------------------------------------------------
(* The three ways the stack of calls changes while something is printed.   *)
LEMMA StackReplace ==
  ASSUME NEW S, NEW s \in Seq(S), s # <<>>, NEW x \in S, NEW t, t = <<x>> \o Tail(s)
  PROVE  /\ t \in Seq(S) /\ Len(t) = Len(s) /\ t[1] = x
         /\ \A i \in 2 .. Len(s) : t[i] = s[i]
<1>1. /\ Tail(s) \in Seq(S) /\ Len(Tail(s)) = Len(s) - 1 /\ Len(s) \in Nat \ {0}
      /\ \A i \in 1 .. Len(s) - 1 : Tail(s)[i] = s[i + 1]
  OBVIOUS
<1>2. /\ t \in Seq(S) /\ Len(t) = Len(Tail(s)) + 1 /\ t[1] = x
      /\ \A i \in 1 .. Len(Tail(s)) : t[i + 1] = Tail(s)[i]
  BY <1>1
<1>3. ASSUME NEW i \in 2 .. Len(s) PROVE t[i] = s[i]
  <2>1. i - 1 \in 1 .. Len(Tail(s)) /\ (i - 1) + 1 = i
    BY <1>1
  <2> QED
    BY <1>1, <1>2, <2>1
<1> QED
  BY <1>1, <1>2, <1>3

LEMMA StackPush ==
  ASSUME NEW S, NEW s \in Seq(S), s # <<>>, NEW w \in S, NEW x \in S,
         NEW t, t = <<w, x>> \o Tail(s)
  PROVE  /\ t \in Seq(S) /\ Len(t) = Len(s) + 1 /\ t[1] = w /\ t[2] = x
         /\ \A i \in 2 .. Len(s) : t[i + 1] = s[i]
<1>1. /\ Tail(s) \in Seq(S) /\ Len(Tail(s)) = Len(s) - 1 /\ Len(s) \in Nat \ {0}
      /\ \A i \in 1 .. Len(s) - 1 : Tail(s)[i] = s[i + 1]
  OBVIOUS
<1>2. /\ t \in Seq(S) /\ Len(t) = Len(Tail(s)) + 2 /\ t[1] = w /\ t[2] = x
      /\ \A i \in 1 .. Len(Tail(s)) : t[i + 2] = Tail(s)[i]
  BY <1>1
<1>3. ASSUME NEW i \in 2 .. Len(s) PROVE t[i + 1] = s[i]
  <2>1. i - 1 \in 1 .. Len(Tail(s)) /\ (i - 1) + 2 = i + 1 /\ (i - 1) + 1 = i
    BY <1>1
  <2> QED
    BY <1>1, <1>2, <2>1
<1> QED
  BY <1>1, <1>2, <1>3

LEMMA StackPop ==
  ASSUME NEW S, NEW s \in Seq(S), s # <<>>, NEW t, t = Tail(s)
  PROVE  /\ t \in Seq(S) /\ Len(t) = Len(s) - 1 /\ Len(s) \in Nat \ {0}
         /\ \A i \in 1 .. Len(t) : t[i] = s[i + 1]
OBVIOUS

LEMMA TopFrame ==
  ASSUME StackInv, stack # <<>>
  PROVE  /\ stack \in Seq(Frames) /\ Top \in Frames /\ Top = stack[1]
         /\ Len(stack) \in Nat \ {0}
<1>1. stack \in Seq(Frames)
  BY DEF StackInv, OutermostColours
<1> QED
  BY <1>1 DEF Top

(* The innermost call goes on. *)
LEMMA ReplaceInv ==
  ASSUME StackInv, stack # <<>>, ~ Runaway, NEW x \in Frames,
         x.fn = Top.fn, x.new = Top.new, x.old = Top.old,
         stack' = <<x>> \o Tail(stack), UNCHANGED <<terminal_color, base>>
  PROVE  StackInv'
<1>1. /\ stack \in Seq(Frames) /\ Top = stack[1] /\ Len(stack) \in Nat \ {0}
  BY TopFrame
<1>2. /\ stack' \in Seq(Frames) /\ Len(stack') = Len(stack) /\ stack'[1] = x
      /\ \A i \in 2 .. Len(stack) : stack'[i] = stack[i]
  BY <1>1, StackReplace
<1>3. \A i \in 1 .. Len(stack) : /\ stack'[i].fn = stack[i].fn
                                 /\ stack'[i].new = stack[i].new
                                 /\ stack'[i].old = stack[i].old
  BY <1>1, <1>2
<1>4. OutermostColours'
  <2> SUFFICES ASSUME NEW i \in 1 .. Len(stack)
               PROVE  /\ stack'[i].new # "none" <=> stack'[i].fn \in {"cprintf", "coloured"}
                      /\ stack'[i].new # "none" => i = Len(stack)
    BY <1>2 DEF OutermostColours
  <2>1. /\ stack[i].new # "none" <=> stack[i].fn \in {"cprintf", "coloured"}
        /\ stack[i].new # "none" => i = Len(stack)
    BY DEF StackInv, OutermostColours
  <2> QED
    BY <1>3, <2>1
<1>5. OutermostColour'
  <2>1. stack' # <<>>
    BY <1>1, <1>2
  <2>2. Len(stack) \in 1 .. Len(stack)
    BY <1>1
  <2> QED
    BY <1>2, <1>3, <2>1, <2>2 DEF StackInv, OutermostColour
<1>6. ~ Runaway'
  <2>1. DOMAIN stack' = 1 .. Len(stack) /\ DOMAIN stack = 1 .. Len(stack)
    BY <1>1, <1>2
  <2> QED
    BY <1>3, <2>1 DEF Runaway
<1> QED
  BY <1>4, <1>5, <1>6 DEF StackInv, RunawayOnTop

(* The innermost call makes another, which sets no colour. *)
LEMMA PushInv ==
  ASSUME StackInv, stack # <<>>, NEW w \in Frames, NEW x \in Frames,
         w.new = "none",
         \/ w.fn = "write" /\ ~ Runaway
         \/ w.fn = "number" /\ w.rest = <<"%f">>,
         x.fn = Top.fn, x.new = Top.new, x.old = Top.old,
         stack' = <<w, x>> \o Tail(stack), UNCHANGED <<terminal_color, base>>
  PROVE  StackInv'
<1> DEFINE L == Len(stack)
<1>1. /\ stack \in Seq(Frames) /\ Top = stack[1] /\ L \in Nat \ {0}
  BY TopFrame
<1>2. /\ stack' \in Seq(Frames) /\ Len(stack') = L + 1
      /\ stack'[1] = w /\ stack'[2] = x
      /\ \A i \in 2 .. L : stack'[i + 1] = stack[i]
  BY <1>1, StackPush
<1>3. \A i \in 1 .. L : /\ stack'[i + 1].fn = stack[i].fn
                        /\ stack'[i + 1].new = stack[i].new
                        /\ stack'[i + 1].old = stack[i].old
  BY <1>1, <1>2
<1>4. \A j \in 2 .. L + 1 : j - 1 \in 1 .. L /\ (j - 1) + 1 = j
  BY <1>1
<1>5. OutermostColours'
  <2> SUFFICES ASSUME NEW j \in 1 .. L + 1
               PROVE  /\ stack'[j].new # "none" <=> stack'[j].fn \in {"cprintf", "coloured"}
                      /\ stack'[j].new # "none" => j = L + 1
    BY <1>2 DEF OutermostColours
  <2>1. CASE j = 1
    BY <1>2, <2>1
  <2>2. CASE j # 1
    <3>1. j - 1 \in 1 .. L /\ (j - 1) + 1 = j
      BY <1>1, <1>4, <2>2
    <3>2. /\ stack'[j].fn = stack[j - 1].fn /\ stack'[j].new = stack[j - 1].new
      BY <1>3, <3>1
    <3> QED
      BY <1>1, <3>1, <3>2 DEF StackInv, OutermostColours
  <2> QED
    BY <2>1, <2>2
<1>6. OutermostColour'
  <2>1. stack' # <<>>
    BY <1>1, <1>2
  <2>2. L \in 1 .. L
    BY <1>1
  <2> QED
    BY <1>2, <1>3, <2>1, <2>2 DEF StackInv, OutermostColour
<1>7. RunawayOnTop'
  <2>1. CASE w.fn = "number" /\ w.rest = <<"%f">>
    BY <1>2, <2>1 DEF RunawayOnTop
  <2>2. CASE w.fn = "write" /\ ~ Runaway
    <3>1. \A i \in 1 .. L : stack[i].fn # "number"
      BY <1>1, <2>2 DEF Runaway
    <3>2. \A j \in 1 .. L + 1 : stack'[j].fn # "number"
      BY <1>1, <1>2, <1>3, <1>4, <2>2, <3>1
    <3> QED
      BY <1>2, <3>2 DEF RunawayOnTop, Runaway
  <2> QED
    BY <2>1, <2>2
<1> QED
  BY <1>5, <1>6, <1>7 DEF StackInv

(* The innermost call returns and gives back the colour it set. *)
LEMMA PopInv ==
  ASSUME StackInv, stack # <<>>, ~ Runaway,
         stack' = Tail(stack), terminal_color' = ColourAfter, UNCHANGED base
  PROVE  StackInv'
<1>0. PICK L \in Nat \ {0} : L = Len(stack)
  BY TopFrame
<1>1. /\ stack \in Seq(Frames) /\ Top = stack[1] /\ L = Len(stack)
  BY <1>0, TopFrame
<1>2. /\ stack' \in Seq(Frames)
      /\ \A i \in 1 .. L - 1 : stack'[i] = stack[i + 1]
  BY <1>1, StackPop
<1>2a. Len(stack') = L - 1
  BY <1>1, StackPop
<1>3. OutermostColours'
  <2> SUFFICES ASSUME NEW i \in 1 .. L - 1
               PROVE  /\ stack'[i].new # "none" <=> stack'[i].fn \in {"cprintf", "coloured"}
                      /\ stack'[i].new # "none" => i = L - 1
    BY <1>2, <1>2a DEF OutermostColours
  <2>1. i + 1 \in 1 .. L
    OBVIOUS
  <2>2. /\ stack[i + 1].new # "none" <=> stack[i + 1].fn \in {"cprintf", "coloured"}
        /\ stack[i + 1].new # "none" => i + 1 = L
    BY <1>1, <2>1 DEF StackInv, OutermostColours
  <2>3. stack'[i] = stack[i + 1]
    BY <1>2
  <2>4. i + 1 = L => i = L - 1
    OBVIOUS
  <2> QED
    BY <2>2, <2>3, <2>4
<1>4. ~ Runaway'
  <2>1. \A i \in 1 .. L : stack[i].fn # "number"
    BY <1>1 DEF Runaway
  <2>2. \A i \in 1 .. L - 1 : i + 1 \in 1 .. L
    OBVIOUS
  <2>3. \A i \in 1 .. L - 1 : stack'[i].fn # "number"
    BY <1>2, <2>1, <2>2
  <2> QED
    BY <1>2, <1>2a, <2>3 DEF Runaway
<1>5. OutermostColour'
  <2>1. CASE L = 1
    <3>1. stack' = <<>>
      BY <1>2, <1>2a, <2>1
    <3>2. ColourAfter = base
      BY <1>1, <2>1 DEF StackInv, OutermostColours, OutermostColour, ColourAfter
    <3> QED
      BY <3>1, <3>2 DEF OutermostColour
  <2>2. CASE L > 1
    <3>1. stack[1].new = "none" /\ stack[1].fn \notin {"cprintf", "coloured"}
      BY <1>1, <2>2 DEF StackInv, OutermostColours
    <3>2. ColourAfter = terminal_color
      BY <1>1, <3>1 DEF ColourAfter
    <3>3. L - 1 \in 1 .. L - 1 /\ (L - 1) + 1 = L /\ L - 1 # 0
      BY <2>2
    <3>4. stack'[Len(stack')] = stack[L]
      BY <1>2, <1>2a, <3>3
    <3>5. stack' # <<>>
      BY <1>2a, <3>3
    <3> QED
      BY <1>1, <3>2, <3>4, <3>5 DEF StackInv, OutermostColour
  <2>3. L = 1 \/ L > 1
    OBVIOUS
  <2> QED
    BY <2>1, <2>2, <2>3
<1> QED
  BY <1>3, <1>4, <1>5 DEF StackInv, RunawayOnTop

-----------------------------------------------------------------------------
(* What a call looks like when it has done an item. *)
LEMMA DoneFrame ==
  ASSUME StackInv, Running, NEW a \in Seq(ArgTypes)
  PROVE  /\ Done(a) \in Frames /\ Done(a).fn = Top.fn
         /\ Done(a).new = Top.new /\ Done(a).old = Top.old
         /\ Done(a).rest = Tail(Top.rest) /\ Done(a).args = a
<1>1. Top \in Frames /\ Top.rest # <<>> /\ Top.rest \in Seq(Items)
  BY TopFrame DEF Running, Top, Frames
<1>2. Tail(Top.rest) \in Seq(Items)
  BY <1>1
<1> QED
  BY <1>1, <1>2 DEF Done, Frames

LEMMA RestFrame ==
  ASSUME StackInv, stack # <<>>, NEW r \in Seq(Items)
  PROVE  /\ [Top EXCEPT !.rest = r] \in Frames
         /\ [Top EXCEPT !.rest = r].fn = Top.fn
         /\ [Top EXCEPT !.rest = r].new = Top.new
         /\ [Top EXCEPT !.rest = r].old = Top.old
BY TopFrame DEF Frames

LEMMA TopArgs ==
  ASSUME StackInv, stack # <<>>
  PROVE  Top.args \in Seq(ArgTypes) /\ ArgsLeft \in Seq(ArgTypes)
<1>1. Top.args \in Seq(ArgTypes)
  BY TopFrame DEF Frames
<1>2. Top.args # <<>> => Tail(Top.args) \in Seq(ArgTypes)
  BY <1>1
<1> QED
  BY <1>1, <1>2 DEF ArgsLeft

LEMMA PlainFrame ==
  ASSUME NEW fn \in {"printf", "write", "number"}, NEW r \in Seq(Items), NEW a \in Seq(ArgTypes)
  PROVE  /\ Plain(fn, r, a) \in Frames /\ Plain(fn, r, a).fn = fn
         /\ Plain(fn, r, a).new = "none" /\ Plain(fn, r, a).rest = r
         /\ Plain(fn, r, a).args = a
BY DEF Plain, Frame, Frames, Shades

(* In the middle of a number conversion nothing else is possible. *)
LEMMA RunawayItem ==
  ASSUME StackInv, Runaway
  PROVE  stack # <<>> /\ Running /\ Item = "%f" /\ Top.fn = "number"
<1>1. stack \in Seq(Frames) /\ stack # <<>>
  BY DEF StackInv, OutermostColours, Runaway
<1>2. Top = stack[1] /\ Top.fn = "number" /\ Top.rest = <<"%f">>
  BY <1>1, TopFrame DEF StackInv, RunawayOnTop
<1> QED
  BY <1>1, <1>2 DEF Running, Item, Top

(* The calls callers make begin with no call on the stack. *)
LEMMA CallInv ==
  ASSUME stack = <<>>, NEW x \in Frames, stack' = <<x>>,
         x.new # "none" <=> x.fn \in {"cprintf", "coloured"},
         IF x.new # "none" THEN terminal_color' = x.new /\ base' = x.old
                           ELSE terminal_color' = base',
         x.fn # "number"
  PROVE  StackInv'
<1>1. stack' \in Seq(Frames) /\ Len(stack') = 1 /\ stack'[1] = x /\ stack' # <<>>
  OBVIOUS
<1>2. DOMAIN stack' = 1 .. 1
  BY <1>1
<1> QED
  BY <1>1, <1>2
  DEF StackInv, OutermostColours, OutermostColour, RunawayOnTop, Runaway

LEMMA EmptyStackColour ==
  ASSUME StackInv, stack = <<>>
  PROVE  terminal_color = base
BY DEF StackInv, OutermostColour

LEMMA EmptyStackInv ==
  ASSUME stack' = <<>>, terminal_color' = base'
  PROVE  StackInv'
<1>1. stack' \in Seq(Frames) /\ Len(stack') = 0 /\ DOMAIN stack' = {}
  OBVIOUS
<1> QED
  BY <1>1 DEF StackInv, OutermostColours, OutermostColour, RunawayOnTop, Runaway

-----------------------------------------------------------------------------
TerminalInv == TypeOK /\ StackInv

LEMMA PutCharType ==
  ASSUME TypeOK, NEW c, PutChar(c)
  PROVE  /\ terminal_row' \in Nat /\ terminal_column' \in 0 .. WIDTH - 1
         /\ cursor' \in 0 .. PositionMod - 1
<1>1. terminal_row \in Nat /\ terminal_column \in 0 .. WIDTH - 1
  BY DEF TypeOK
<1>2. terminal_row' \in Nat
  BY <1>1 DEF PutChar, RowAfterFull
<1>3. terminal_column' \in 0 .. WIDTH - 1
  BY <1>1, TerminalAssumption DEF PutChar, Full
<1>4. cursor' \in 0 .. PositionMod - 1
  <2>1. terminal_row * WIDTH + terminal_column \in Nat
    <3>1. \A m, n \in Nat : m * n \in Nat /\ m + n \in Nat
      OBVIOUS
    <3> QED
      BY <1>1, <3>1, TerminalAssumption
  <2>2. \A n \in Nat : n % PositionMod \in 0 .. PositionMod - 1
    BY TerminalAssumption
  <2> QED
    BY <2>1, <2>2 DEF PutChar, CursorAt
<1> QED
  BY <1>2, <1>3, <1>4

LEMMA TakeArgType ==
  ASSUME NEW t, TakeArg(t)
  PROVE  badarg' \in BOOLEAN
BY DEF TakeArg

LEMMA InitTerminalInv == Init => TerminalInv
<1> SUFFICES ASSUME Init PROVE TerminalInv
  OBVIOUS
<1>1. TypeOK
  <2>1. badarg \in BOOLEAN
    BY Zenon DEF Init
  <2> QED
    BY <2>1, TerminalAssumption DEF Init, TypeOK, Palette
<1>2. stack \in Seq(Frames) /\ Len(stack) = 0 /\ DOMAIN stack = {}
  BY DEF Init
<1>3. stack = <<>> /\ terminal_color = base
  BY DEF Init
<1>4. StackInv
  BY <1>2, <1>3 DEF StackInv, OutermostColours, OutermostColour, RunawayOnTop, Runaway
<1> QED
  BY <1>1, <1>4 DEF TerminalInv

(* The calls that set the terminal up, and those that begin to print. *)
LEMMA SetUpInv ==
  ASSUME TerminalInv, make_vga_terminal \/ \E c \in Colours : set_terminal_color(c)
  PROVE  TerminalInv'
<1>1. TypeOK'
  BY TerminalAssumption DEF TerminalInv, TypeOK, make_vga_terminal, set_terminal_color, screen, Palette
<1>2. stack' = <<>> /\ terminal_color' = base'
  BY DEF make_vga_terminal, set_terminal_color, Idle
<1> QED
  BY <1>1, <1>2, EmptyStackInv DEF TerminalInv

LEMMA PrintfInv ==
  ASSUME TerminalInv,
         \/ \E f \in Formats : printf(f)
         \/ \E text \in Texts : write_string_to_terminal(text)
  PROVE  TerminalInv'
<1>1. PICK fn \in {"printf", "write"}, r \in Seq(Items), a \in Seq(ArgTypes) :
        /\ stack = <<>> /\ stack' = <<Plain(fn, r, a)>>
        /\ UNCHANGED <<screen, terminal_color, panic, badarg, base>>
  <2>1. CASE \E f \in Formats : printf(f)
    BY <2>1, FormatAssumption DEF printf, Idle
  <2>2. CASE \E text \in Texts : write_string_to_terminal(text)
    <3>1. <<>> \in Seq(ArgTypes)
      OBVIOUS
    <3> QED
      BY <2>2, <3>1, FormatAssumption DEF write_string_to_terminal, Idle
  <2> QED
    BY <2>1, <2>2
<1>2. TypeOK'
  BY <1>1 DEF TerminalInv, TypeOK, screen
<1>3. terminal_color' = base'
  BY <1>1, EmptyStackColour DEF TerminalInv
<1>4. /\ Plain(fn, r, a) \in Frames /\ Plain(fn, r, a).fn = fn
      /\ Plain(fn, r, a).new = "none"
  BY PlainFrame
<1>5. StackInv'
  BY <1>1, <1>3, <1>4, CallInv
<1> QED
  BY <1>2, <1>5 DEF TerminalInv

(* A call that sets a colour keeps the one that was set for good. *)
LEMMA ColouredFrame ==
  ASSUME NEW fn \in {"cprintf", "coloured"}, NEW r \in Seq(Items), NEW a \in Seq(ArgTypes),
         NEW c \in Palette, NEW d \in Palette
  PROVE  /\ Frame(fn, r, a, c, d) \in Frames /\ Frame(fn, r, a, c, d).fn = fn
         /\ Frame(fn, r, a, c, d).new = c /\ Frame(fn, r, a, c, d).old = d
         /\ Frame(fn, r, a, c, d).rest = r /\ Frame(fn, r, a, c, d).args = a
         /\ c # "none"
BY DEF Frame, Frames, Shades, Palette

LEMMA CprintfInv ==
  ASSUME TerminalInv, stack = <<>>,
         NEW c \in Palette, NEW r \in Seq(Items), NEW a \in Seq(ArgTypes), NEW d \in Palette,
         stack' = <<Frame("cprintf", r, a, c, d)>>, terminal_color' = c, base' = d,
         terminal_row' \in Nat, terminal_column' \in 0 .. WIDTH - 1,
         panic' \in {"no", "where", "what"}, UNCHANGED <<cursor, badarg>>
  PROVE  TerminalInv'
<1>1. TypeOK'
  BY DEF TerminalInv, TypeOK
<1>2. StackInv'
  BY ColouredFrame, CallInv
<1> QED
  BY <1>1, <1>2 DEF TerminalInv

LEMMA ColouredCallsInv ==
  ASSUME TerminalInv,
         \/ \E f \in Formats, c \in Colours : cprintf(c, f)
         \/ krnl_panic
         \/ \E text \in Texts : PanicMessage(text)
  PROVE  TerminalInv'
<1>1. /\ TypeOK /\ terminal_color \in Palette /\ base \in Palette
      /\ stack = <<>> => terminal_color = base
  BY EmptyStackColour DEF TerminalInv, TypeOK
<1>2. CASE \E f \in Formats, c \in Colours : cprintf(c, f)
  <2>1. PICK f \in Formats, c \in Colours : cprintf(c, f)
    BY <1>2
  <2> QED
    BY <1>1, <2>1, CprintfInv, TerminalAssumption, FormatAssumption DEF cprintf, Idle, screen, TypeOK
<1>3. CASE krnl_panic
  <2>1. <<"ch", "%s", "ch", "%s">> \in Seq(Items) /\ <<"str", "int", "str">> \in Seq(ArgTypes)
    BY DEF Items, ArgTypes
  <2>2. "red" \in Palette /\ "black" \in Palette
    BY DEF Palette
  <2>3. /\ stack = <<>> /\ terminal_color' = "red" /\ base' = "black"
        /\ stack' = <<Frame("cprintf", <<"ch", "%s", "ch", "%s">>, <<"str", "int", "str">>,
                            "red", "black")>>
        /\ UNCHANGED <<cursor, badarg>>
    BY <1>3 DEF krnl_panic, Idle
  <2>4. /\ terminal_row' \in Nat /\ terminal_column' \in 0 .. WIDTH - 1
        /\ panic' \in {"no", "where", "what"}
    BY <1>3, TerminalAssumption DEF krnl_panic
  <2> QED
    BY <2>1, <2>2, <2>3, <2>4, CprintfInv
<1>4. CASE \E text \in Texts : PanicMessage(text)
  <2>1. PICK text \in Texts : PanicMessage(text)
    BY <1>4
  <2>2. "red" \in Palette /\ <<>> \in Seq(ArgTypes)
    BY DEF Palette
  <2>3. /\ stack = <<>> /\ base = terminal_color /\ terminal_color' = "red" /\ base' = base
        /\ stack' = <<Frame("cprintf", text, <<>>, "red", base)>>
        /\ terminal_row' \in Nat /\ terminal_column' \in 0 .. WIDTH - 1
        /\ panic' \in {"no", "where", "what"} /\ UNCHANGED <<cursor, badarg>>
    BY <1>1, <2>1 DEF PanicMessage, screen, TypeOK
  <2>4. text \in Seq(Items)
    BY FormatAssumption
  <2> QED
    BY <1>1, <2>2, <2>3, <2>4, CprintfInv
<1> QED
  BY <1>2, <1>3, <1>4

LEMMA ColouredStringInv ==
  ASSUME TerminalInv, NEW text \in Texts, NEW c \in {"cyan", "red", "green"},
         write_coloured_string(c, text)
  PROVE  TerminalInv'
<1> DEFINE w == Plain("printf", text, <<>>)
           x == Frame("coloured", <<>>, <<>>, c, terminal_color)
<1>1. /\ TypeOK /\ terminal_color \in Palette /\ stack = <<>> /\ terminal_color = base
      /\ terminal_color' = c /\ UNCHANGED <<screen, panic, badarg, base>>
      /\ stack' = <<w, x>> /\ c \in Palette
  BY EmptyStackColour DEF TerminalInv, TypeOK, write_coloured_string, Idle, Palette
<1>2. <<>> \in Seq(ArgTypes) /\ <<>> \in Seq(Items) /\ text \in Seq(Items)
  BY FormatAssumption
<1>3. w \in Frames /\ w.fn = "printf" /\ w.new = "none"
  BY <1>2 DEF Plain, Frame, Frames, Shades
<1>4. /\ x \in Frames /\ x.fn = "coloured" /\ x.new = c /\ x.old = base /\ c # "none"
  BY <1>1, <1>2 DEF Frame, Frames, Shades, Palette
<1> HIDE DEF w, x
<1>5. /\ stack' \in Seq(Frames) /\ Len(stack') = 2 /\ stack'[1] = w /\ stack'[2] = x
      /\ stack' # <<>> /\ DOMAIN stack' = {1, 2}
  BY <1>1, <1>3, <1>4
<1>6. OutermostColours'
  BY <1>3, <1>4, <1>5 DEF OutermostColours
<1>7. OutermostColour'
  BY <1>1, <1>4, <1>5 DEF OutermostColour
<1>8. ~ Runaway'
  BY <1>3, <1>4, <1>5 DEF Runaway
<1>9. TypeOK'
  BY <1>1 DEF TypeOK, screen
<1> QED
  BY <1>6, <1>7, <1>8, <1>9 DEF TerminalInv, StackInv, RunawayOnTop

-----------------------------------------------------------------------------
LEMMA CharacterInv ==
  ASSUME TerminalInv, Character
  PROVE  TerminalInv'
<1>1. /\ StackInv /\ Running /\ stack # <<>>
      /\ PutChar(IF Item \in {"nl", "%nl"} THEN "nl" ELSE "ch")
      /\ stack' = <<Done(Top.args)>> \o Tail(stack)
      /\ UNCHANGED <<terminal_color, panic, badarg, base>>
  BY DEF TerminalInv, Character, Running
<1>2. ~ Runaway
  BY <1>1, RunawayItem DEF Character
<1>3. StackInv'
  BY <1>1, <1>2, TopArgs, DoneFrame, ReplaceInv
<1>4. TypeOK'
  BY <1>1, PutCharType DEF TerminalInv, TypeOK
<1> QED
  BY <1>3, <1>4 DEF TerminalInv

LEMMA RawPercentInv ==
  ASSUME TerminalInv, RawPercent
  PROVE  TerminalInv'
<1> DEFINE r == Letter(Item) \o Tail(Top.rest)
<1>1. /\ StackInv /\ Running /\ stack # <<>> /\ PutChar("ch") /\ Top.fn = "write"
      /\ UNCHANGED <<terminal_color, panic, badarg, base>>
  BY DEF TerminalInv, RawPercent, Running
<1>2. Top \in Frames
  BY <1>1, TopFrame
<1>3. stack' = <<[Top EXCEPT !.rest = r]>> \o Tail(stack)
  BY <1>2 DEF RawPercent, Frames
<1>4. r \in Seq(Items)
  <2>1. Letter(Item) \in Seq(Items)
    <3>1. <<>> \in Seq(Items) /\ <<"nl">> \in Seq(Items) /\ <<"ch">> \in Seq(Items)
      BY DEF Items
    <3> QED
      BY <3>1, Zenon DEF Letter
  <2>2. Tail(Top.rest) \in Seq(Items)
    <3>1. Top.rest \in Seq(Items)
      BY <1>2 DEF Frames
    <3>2. Top.rest # <<>>
      BY <1>1 DEF Running, Top
    <3> QED
      BY <3>1, <3>2
  <2> QED
    BY <2>1, <2>2
<1> HIDE DEF r
<1>5. ~ Runaway
  BY <1>1, RunawayItem
<1>6. StackInv'
  BY <1>1, <1>3, <1>4, <1>5, RestFrame, ReplaceInv
<1>7. TypeOK'
  BY <1>1, PutCharType DEF TerminalInv, TypeOK
<1> QED
  BY <1>6, <1>7 DEF TerminalInv

LEMMA ReadBehindInv ==
  ASSUME TerminalInv, NEW text \in Behind, ReadBehind(text)
  PROVE  TerminalInv'
<1>1. /\ StackInv /\ Running /\ stack # <<>> /\ PutChar("ch")
      /\ stack' = <<[Top EXCEPT !.rest = text]>> \o Tail(stack) /\ text \in Seq(Items)
      /\ UNCHANGED <<terminal_color, panic, badarg, base>>
  BY FormatAssumption DEF TerminalInv, ReadBehind, Running, Formatting
<1>2. ~ Runaway
  BY <1>1, RunawayItem DEF ReadBehind
<1>3. StackInv'
  BY <1>1, <1>2, RestFrame, ReplaceInv
<1>4. TypeOK'
  BY <1>1, PutCharType DEF TerminalInv, TypeOK
<1> QED
  BY <1>3, <1>4 DEF TerminalInv

LEMMA CharArgumentInv ==
  ASSUME TerminalInv, CharArgument
  PROVE  TerminalInv'
<1>1. /\ StackInv /\ Running /\ stack # <<>> /\ PutChar("ch") /\ TakeArg("int")
      /\ stack' = <<Done(ArgsLeft)>> \o Tail(stack)
      /\ UNCHANGED <<terminal_color, panic, base>>
  BY DEF TerminalInv, CharArgument, Running, Formatting
<1>2. ~ Runaway
  BY <1>1, RunawayItem DEF CharArgument
<1>3. StackInv'
  BY <1>1, <1>2, TopArgs, DoneFrame, ReplaceInv
<1>4. TypeOK'
  BY <1>1, PutCharType, TakeArgType DEF TerminalInv, TypeOK
<1> QED
  BY <1>3, <1>4 DEF TerminalInv

LEMMA StringFrame ==
  ASSUME StackInv, Running
  PROVE  LET x == [Done(ArgsLeft) EXCEPT !.rest = StringArg \o @]
         IN /\ x \in Frames /\ x.fn = Top.fn /\ x.new = Top.new /\ x.old = Top.old
            /\ x.rest = StringArg \o Tail(Top.rest) /\ x.args = ArgsLeft
<1>1. /\ Done(ArgsLeft) \in Frames /\ Done(ArgsLeft).fn = Top.fn
      /\ Done(ArgsLeft).new = Top.new /\ Done(ArgsLeft).old = Top.old
      /\ Done(ArgsLeft).rest = Tail(Top.rest) /\ Done(ArgsLeft).args = ArgsLeft
  BY TopArgs, DoneFrame DEF Running
<1>2. StringArg \in Seq(Items) /\ Done(ArgsLeft).rest \in Seq(Items)
  <2>1. StringArg \in Seq(Items)
    BY FormatAssumption DEF Items
  <2>2. Done(ArgsLeft).rest \in Seq(Items)
    BY <1>1 DEF Frames
  <2> QED
    BY <2>1, <2>2
<1>3. StringArg \o Done(ArgsLeft).rest \in Seq(Items)
  BY <1>2
<1> QED
  BY <1>1, <1>3 DEF Frames

LEMMA StringArgumentInv ==
  ASSUME TerminalInv, StringArgument
  PROVE  TerminalInv'
<1>1. /\ StackInv /\ Running /\ stack # <<>> /\ TakeArg("str")
      /\ stack' = <<[Done(ArgsLeft) EXCEPT !.rest = StringArg \o @]>> \o Tail(stack)
      /\ UNCHANGED <<screen, terminal_color, panic, base>>
  BY DEF TerminalInv, StringArgument, Running, Formatting
<1>2. ~ Runaway
  BY <1>1, RunawayItem DEF StringArgument
<1>3. StackInv'
  BY <1>1, <1>2, StringFrame, ReplaceInv
<1>4. TypeOK'
  BY <1>1, TakeArgType DEF TerminalInv, TypeOK, screen
<1> QED
  BY <1>3, <1>4 DEF TerminalInv

LEMMA HexArgumentInv ==
  ASSUME TerminalInv, HexArgument
  PROVE  TerminalInv'
<1>1. /\ StackInv /\ Running /\ stack # <<>> /\ TakeArg("int")
      /\ stack' = <<Plain("write", <<"ch">>, <<>>), Done(ArgsLeft)>> \o Tail(stack)
      /\ UNCHANGED <<screen, terminal_color, panic, base>>
  BY DEF TerminalInv, HexArgument, Running
<1>2. ~ Runaway
  BY <1>1, RunawayItem DEF HexArgument
<1>3. <<"ch">> \in Seq(Items) /\ <<>> \in Seq(ArgTypes)
  BY DEF Items
<1>4. StackInv'
  <2> DEFINE w == Plain("write", <<"ch">>, <<>>)
             x == Done(ArgsLeft)
  <2>1. w \in Frames /\ w.fn = "write" /\ w.new = "none"
    BY <1>3 DEF Plain, Frame, Frames, Shades
  <2>2. /\ x \in Frames /\ x.fn = Top.fn /\ x.new = Top.new /\ x.old = Top.old
    BY <1>1, TopArgs, DoneFrame
  <2>3. stack' = <<w, x>> \o Tail(stack) /\ UNCHANGED <<terminal_color, base>>
    BY <1>1
  <2> HIDE DEF w, x
  <2> QED
    BY <1>1, <1>2, <2>1, <2>2, <2>3, PushInv, Zenon
<1>5. TypeOK'
  BY <1>1, TakeArgType DEF TerminalInv, TypeOK, screen
<1> QED
  BY <1>4, <1>5 DEF TerminalInv

(* printf is called again with the same conversion, and so on. *)
LEMMA NumberArgumentInv ==
  ASSUME TerminalInv, NumberArgument
  PROVE  TerminalInv'
<1> DEFINE t == IF Item = "%d" THEN "int" ELSE "dbl"
<1>1. /\ StackInv /\ Running /\ stack # <<>> /\ TakeArg(t)
      /\ stack' = <<Plain("number", <<"%f">>, <<t>>), Done(ArgsLeft)>> \o Tail(stack)
      /\ UNCHANGED <<screen, terminal_color, panic, base>>
  BY DEF TerminalInv, NumberArgument, NumberFormat, Running, Formatting
<1>2. <<"%f">> \in Seq(Items) /\ <<t>> \in Seq(ArgTypes)
  BY DEF Items, ArgTypes
<1> HIDE DEF t
<1>3. StackInv'
  <2> DEFINE w == Plain("number", <<"%f">>, <<t>>)
             x == Done(ArgsLeft)
  <2>1. w \in Frames /\ w.fn = "number" /\ w.new = "none" /\ w.rest = <<"%f">>
    BY <1>2 DEF Plain, Frame, Frames, Shades
  <2>2. /\ x \in Frames /\ x.fn = Top.fn /\ x.new = Top.new /\ x.old = Top.old
    BY <1>1, TopArgs, DoneFrame
  <2>3. stack' = <<w, x>> \o Tail(stack) /\ UNCHANGED <<terminal_color, base>>
    BY <1>1
  <2> HIDE DEF w, x
  <2> QED
    BY <1>1, <2>1, <2>2, <2>3, PushInv, Zenon
<1>4. TypeOK'
  BY <1>1, TakeArgType DEF TerminalInv, TypeOK, screen
<1> QED
  BY <1>3, <1>4 DEF TerminalInv

LEMMA ReturnInv ==
  ASSUME TerminalInv, EndOfLine \/ RestoreColour
  PROVE  TerminalInv'
<1>1. /\ StackInv /\ stack # <<>> /\ stack' = Tail(stack) /\ terminal_color' = ColourAfter
      /\ UNCHANGED <<panic, badarg, base>>
      /\ PutChar("nl") \/ UNCHANGED screen
  BY DEF TerminalInv, EndOfLine, RestoreColour, Callers
<1>2. ~ Runaway
  BY <1>1, RunawayItem DEF EndOfLine, RestoreColour, Running, Top
<1>3. StackInv'
  BY <1>1, <1>2, PopInv
<1>4. terminal_color' \in Palette
  <2>1. Top.fn \in {"cprintf", "coloured"} => Top.old \in Palette
    <3> SUFFICES ASSUME Top.fn \in {"cprintf", "coloured"} PROVE Top.old = base
      BY DEF TerminalInv, TypeOK
    <3>1. Top = stack[1] /\ Len(stack) \in Nat \ {0}
      BY <1>1, TopFrame
    <3>2. 1 \in 1 .. Len(stack)
      BY <3>1
    <3>3. Top.new # "none" /\ Len(stack) = 1
      BY <1>1, <3>1, <3>2 DEF StackInv, OutermostColours
    <3> QED
      BY <1>1, <3>1, <3>3 DEF StackInv, OutermostColour
  <2> QED
    BY <1>1, <2>1 DEF ColourAfter, TerminalInv, TypeOK
<1>5. TypeOK'
  BY <1>1, <1>4, PutCharType DEF TerminalInv, TypeOK, screen
<1> QED
  BY <1>3, <1>5 DEF TerminalInv

LEMMA NextTerminalInv == TerminalInv /\ [Next]_vars => TerminalInv'
<1> SUFFICES ASSUME TerminalInv, [Next]_vars
             PROVE  TerminalInv'
  OBVIOUS
<1>1. CASE Printing
  BY <1>1, CharacterInv, RawPercentInv, ReadBehindInv, CharArgumentInv, StringArgumentInv,
     HexArgumentInv, NumberArgumentInv, ReturnInv DEF Printing
<1>2. CASE UNCHANGED vars
  BY <1>2 DEF vars, TerminalInv, TypeOK, StackInv, OutermostColours, OutermostColour,
              RunawayOnTop, Runaway
<1>3. CASE Next /\ ~ Printing
  BY <1>3, SetUpInv, PrintfInv, ColouredCallsInv, ColouredStringInv DEF Next
<1> QED
  BY <1>1, <1>2, <1>3

(* The terminal's variables and the stack of calls are as TerminalInv says *)
THEOREM TerminalInvariant == Spec => []TerminalInv
BY InitTerminalInv, NextTerminalInv, PTL DEF Spec

(* However calls are nested, text appears in the colour the outermost one  *)
(* set, and the colour from before is given back when it returns.          *)
THEOREM TerminalColourDiscipline == Spec => []ColourDiscipline
<1>1. TerminalInv => ColourDiscipline
  BY OutermostColourSuffices DEF TerminalInv, StackInv
<1> QED
  BY <1>1, TerminalInvariant, PTL

(* While something is printed, a row below the screen is never left        *)
(* upwards: put_terminal_char compares the row with HEIGHT by equality.    *)
THEOREM TerminalBelowScreen == Spec => BelowScreenForGood
<1>1. ASSUME TerminalInv, [Next]_vars, terminal_row >= HEIGHT, stack # <<>>
      PROVE  terminal_row' >= terminal_row
  <2>1. terminal_row \in Nat
    BY <1>1 DEF TerminalInv, TypeOK
  <2>2. ASSUME NEW c, PutChar(c)
        PROVE  terminal_row' >= terminal_row
    BY <1>1, <2>1, <2>2 DEF PutChar, RowAfterFull
  <2>3. CASE Printing
    <3>1. (\E c : PutChar(c)) \/ UNCHANGED screen
      BY <2>3 DEF Printing, Character, RawPercent, ReadBehind, CharArgument, StringArgument,
                  HexArgument, NumberArgument, EndOfLine, RestoreColour
    <3> QED
      BY <2>1, <2>2, <3>1 DEF screen
  <2>4. CASE ~ Printing
    <3>1. UNCHANGED vars
      BY <1>1, <2>4 DEF Next, make_vga_terminal, set_terminal_color, printf, cprintf,
         write_coloured_string, write_string_to_terminal, krnl_panic, PanicMessage, Idle
    <3> QED
      BY <2>1, <3>1 DEF vars
  <2> QED
    BY <2>3, <2>4
<1>2. TerminalInv /\ [Next]_vars
        => [terminal_row >= HEIGHT /\ stack # <<>> => terminal_row' >= terminal_row]_vars
  BY <1>1
<1> QED
  BY <1>2, TerminalInvariant, PTL DEF Spec, BelowScreenForGood

(* A call that has begun to convert a number never returns, nor does any   *)
(* that waits for it.                                                      *)
THEOREM TerminalNumberNeverReturns == Spec => NumberNeverReturns
<1>1. ASSUME TerminalInv, [Next]_vars, Runaway
      PROVE  Len(stack') >= Len(stack)
  <2>1. /\ StackInv /\ stack # <<>> /\ Running /\ Item = "%f" /\ Top.fn = "number"
        /\ stack \in Seq(Frames) /\ Len(stack) \in Nat
    BY <1>1, RunawayItem, TopFrame DEF TerminalInv
  <2>2. CASE NumberArgument
    <3> DEFINE t == IF Item = "%d" THEN "int" ELSE "dbl"
    <3>1. stack' = <<Plain("number", <<"%f">>, <<t>>), Done(ArgsLeft)>> \o Tail(stack)
      BY <2>2 DEF NumberArgument, NumberFormat
    <3>2. <<"%f">> \in Seq(Items) /\ <<t>> \in Seq(ArgTypes)
      BY DEF Items, ArgTypes
    <3>3. Plain("number", <<"%f">>, <<t>>) \in Frames /\ Done(ArgsLeft) \in Frames
      BY <2>1, <3>2, PlainFrame, TopArgs, DoneFrame
    <3>4. Len(stack') = Len(stack) + 1
      BY <2>1, <3>1, <3>3, StackPush
    <3> QED
      BY <2>1, <3>4
  <2>3. CASE UNCHANGED vars
    BY <2>1, <2>3 DEF vars
  <2>4. NumberArgument \/ UNCHANGED vars
    BY <1>1, <2>1 DEF Next, make_vga_terminal, set_terminal_color, printf, cprintf,
       write_coloured_string, write_string_to_terminal, krnl_panic, PanicMessage, Idle,
       Printing, Character, RawPercent, ReadBehind, CharArgument, StringArgument, HexArgument,
       EndOfLine, RestoreColour, Running, Formatting, Top
  <2> QED
    BY <2>2, <2>3, <2>4
<1>2. TerminalInv /\ [Next]_vars => [Runaway => Len(stack') >= Len(stack)]_vars
  BY <1>1
<1> QED
  BY <1>2, TerminalInvariant, PTL DEF Spec, NumberNeverReturns

-----------------------------------------------------------------------------
(***************************************************************************)
(* The keyboard.                                                           *)
(***************************************************************************)
AllCodes == Codes \cup {Overrun}

(* The queue a program sees, with the controller empty and holding a code. *)
LEMMA WaitingValue ==
  ASSUME KeyboardTypes
  PROVE  /\ full => Waiting = <<data>> \o fifo
         /\ ~ full => Waiting = fifo
         /\ Waiting \in Seq(AllCodes)
<1>1. /\ fifo \in Seq(AllCodes) /\ full \in BOOLEAN
      /\ full => data \in AllCodes
  BY DEF KeyboardTypes, AllCodes
<1>2. <<>> \o fifo = fifo
  BY <1>1, ConcatEmptySeq
<1>3. full => <<data>> \in Seq(AllCodes)
  BY <1>1
<1>4. full => <<data>> \o fifo \in Seq(AllCodes)
  BY <1>1, <1>3, ConcatProperties
<1> QED
  BY <1>1, <1>2, <1>4, Zenon DEF Waiting

(* What the queue looks like from its two ends. *)
LEMMA FrontOfQueue ==
  ASSUME NEW S, NEW x \in S, NEW s \in Seq(S)
  PROVE  /\ <<x>> \o s # <<>>
         /\ Head(<<x>> \o s) = x
         /\ Tail(<<x>> \o s) = s
<1>1. /\ <<x>> \o s \in Seq(S) /\ Len(<<x>> \o s) = Len(s) + 1
      /\ (<<x>> \o s)[1] = x
      /\ \A i \in 1 .. Len(s) : (<<x>> \o s)[i + 1] = s[i]
  OBVIOUS
<1>2. <<x>> \o s # <<>>
  BY <1>1
<1>3. /\ Tail(<<x>> \o s) \in Seq(S) /\ Len(Tail(<<x>> \o s)) = Len(s)
      /\ \A i \in 1 .. Len(s) : Tail(<<x>> \o s)[i] = s[i]
  BY <1>1, <1>2
<1> QED
  BY <1>1, <1>2, <1>3, SeqEqual

LEMMA BackOfQueue ==
  ASSUME NEW S, NEW x \in S, NEW c \in S, NEW s \in Seq(S)
  PROVE  <<x>> \o Append(s, c) = Append(<<x>> \o s, c)
<1>1. <<x>> \in Seq(S)
  OBVIOUS
<1> QED
  BY <1>1, AppendIsConcat, ConcatAssociative

LEMMA SplitQueue ==
  ASSUME NEW S, NEW s \in Seq(S), s # <<>>
  PROVE  <<Head(s)>> \o Tail(s) = s
<1> DEFINE t == <<Head(s)>> \o Tail(s)
<1>1. /\ Head(s) = s[1] /\ Head(s) \in S /\ Len(s) \in Nat \ {0}
      /\ Tail(s) \in Seq(S) /\ Len(Tail(s)) = Len(s) - 1
      /\ \A i \in 1 .. Len(s) - 1 : Tail(s)[i] = s[i + 1]
  OBVIOUS
<1>2. /\ t \in Seq(S) /\ Len(t) = Len(s)
      /\ \A i \in 1 .. Len(s) : t[i] = s[i]
  BY <1>1
<1> QED
  BY <1>2, SeqEqual

-----------------------------------------------------------------------------
LEMMA InitKeyboard == KeyboardInit => KeyboardTypes
<1> SUFFICES ASSUME KeyboardInit PROVE KeyboardTypes
  OBVIOUS
<1>1. fifo \in Seq(Codes \cup {Overrun}) /\ Len(fifo) = 0
  BY DEF KeyboardInit
<1>2. /\ 0 <= Room + 1 /\ data = 0 /\ code = 0 /\ pc = "idle"
  BY KeyboardAssumption DEF KeyboardInit
<1>3. full = FALSE /\ pressed = FALSE
  BY DEF KeyboardInit
<1>4. pc # "data"
  BY <1>2
<1>5. /\ full \in BOOLEAN /\ pressed \in BOOLEAN
      /\ (pc = "data" \/ pressed => full) /\ (full => data # 0)
  BY <1>3, <1>4
<1> QED
  BY <1>1, <1>2, <1>5 DEF KeyboardTypes

(* Only ScanData empties the controller, and it ends the call that relied  *)
(* on the bit and takes key_pressed's promise back.                        *)
LEMMA NextKeyboard == KeyboardTypes /\ [KeyboardNext]_keyboardvars => KeyboardTypes'
<1> SUFFICES ASSUME KeyboardTypes, [KeyboardNext]_keyboardvars
             PROVE  KeyboardTypes'
  OBVIOUS
<1> USE KeyboardAssumption DEF KeyboardTypes
<1>1. ASSUME NEW c \in Codes, KeyEvent(c)
      PROVE  KeyboardTypes'
  <2>1. /\ fifo' \in Seq(Codes \cup {Overrun})
        /\ Len(fifo') = Len(fifo) + 1 /\ Len(fifo) <= Room
    BY <1>1 DEF KeyEvent
  <2> QED
    BY <1>1, <2>1 DEF KeyEvent
<1>2. CASE Transfer
  <2>1. /\ fifo' \in Seq(Codes \cup {Overrun}) /\ Len(fifo') < Len(fifo)
        /\ data' \in Codes \cup {Overrun}
    BY <1>2 DEF Transfer
  <2> QED
    BY <1>2, <2>1 DEF Transfer
<1>3. CASE ScanStatus
  BY <1>3 DEF ScanStatus, DataPassed
<1>4. CASE ScanData
  BY <1>4 DEF ScanData, CodeRead
<1>5. CASE key_pressed
  BY <1>5 DEF key_pressed, DataPassed
<1>6. CASE UNCHANGED keyboardvars
  BY <1>6 DEF keyboardvars
<1> QED
  BY <1>1, <1>2, <1>3, <1>4, <1>5, <1>6 DEF KeyboardNext

(* Every variable keeps its type, the code that scan_code or key_pressed   *)
(* has seen announced at port 0x64 is still there, and it is not 0.        *)
THEOREM KeyboardTypeOK == KeyboardSpec => []KeyboardTypes
BY InitKeyboard, NextKeyboard, PTL DEF KeyboardSpec

-----------------------------------------------------------------------------
(* A key goes to the end of the queue, whether or not the controller holds *)
(* a code already.                                                         *)
LEMMA KeyEventPresses ==
  ASSUME KeyboardTypes, NEW c \in Codes, KeyEvent(c)
  PROVE  Queue!Press
<1> DEFINE e == IF Len(fifo) < Room THEN c ELSE Overrun
<1>1. /\ e \in AllCodes /\ fifo \in Seq(AllCodes) /\ fifo' = Append(fifo, e)
      /\ UNCHANGED <<full, data, code, pressed>>
  BY DEF KeyEvent, KeyboardTypes, AllCodes
<1> HIDE DEF e
<1>2. Waiting' = Append(Waiting, e)
  <2>1. CASE full
    <3>1. data \in AllCodes
      BY <2>1 DEF KeyboardTypes, AllCodes
    <3>2. Waiting = <<data>> \o fifo
      BY <2>1, WaitingValue
    <3>3. Waiting' = <<data>> \o fifo'
      BY <1>1, <2>1 DEF Waiting
    <3> QED
      BY <1>1, <3>1, <3>2, <3>3, BackOfQueue
  <2>2. CASE ~ full
    <3>1. Waiting = fifo
      BY <2>2, WaitingValue
    <3>2. Append(fifo, e) \in Seq(AllCodes)
      BY <1>1
    <3>3. Waiting' = <<>> \o fifo'
      BY <1>1, <2>2 DEF Waiting
    <3>4. Waiting' = fifo'
      BY <1>1, <3>2, <3>3, ConcatEmptySeq
    <3> QED
      BY <1>1, <3>1, <3>4
  <2> QED
    BY <2>1, <2>2
<1> QED
  BY <1>1, <1>2 DEF Queue!Press, AllCodes

(* A code on its way from the keyboard to the controller is in the queue   *)
(* all the time, at its head.                                              *)
LEMMA TransferStutters ==
  ASSUME KeyboardTypes, Transfer
  PROVE  UNCHANGED Queue!vars
<1>1. /\ fifo \in Seq(AllCodes) /\ fifo # <<>> /\ ~ full /\ full'
      /\ data' = Head(fifo) /\ fifo' = Tail(fifo)
      /\ UNCHANGED <<code, pressed>>
  BY DEF Transfer, KeyboardTypes, AllCodes
<1>2. Waiting = fifo
  BY <1>1, WaitingValue
<1>3. Waiting' = <<Head(fifo)>> \o Tail(fifo)
  BY <1>1, Zenon DEF Waiting
<1>4. Waiting' = Waiting
  BY <1>1, <1>2, <1>3, SplitQueue
<1> QED
  BY <1>1, <1>4 DEF Queue!vars

(* scan_code without a code: key_pressed had not promised one.             *)
LEMMA ScanStatusFindsNothing ==
  ASSUME KeyboardTypes, ScanStatus
  PROVE  Queue!Nothing \/ UNCHANGED Queue!vars
<1>1. Waiting' = Waiting
  BY DEF ScanStatus, Waiting
<1>2. CASE DataPassed
  BY <1>1, <1>2 DEF ScanStatus, Queue!vars
<1>3. CASE ~ DataPassed
  <2>1. ~ pressed
    BY <1>3 DEF DataPassed, KeyboardTypes
  <2>2. code' = 0 /\ pressed' = pressed
    BY <1>3, <2>1 DEF ScanStatus, KeyboardTypes
  <2> QED
    BY <1>1, <2>1, <2>2 DEF Queue!Nothing
<1> QED
  BY <1>2, <1>3

(* What port 0x60 shows after the bit was seen is the head of the queue.   *)
LEMMA ScanDataTakes ==
  ASSUME KeyboardTypes, ScanData
  PROVE  Queue!Take
<1>1. /\ full /\ ~ full' /\ data \in AllCodes /\ fifo \in Seq(AllCodes)
      /\ code' = data /\ fifo' = fifo /\ pressed' = FALSE
  BY DEF ScanData, CodeRead, KeyboardTypes, AllCodes
<1>2. Waiting = <<data>> \o fifo
  BY <1>1, WaitingValue
<1>3. Waiting' = <<>> \o fifo
  BY <1>1, Zenon DEF Waiting
<1>4. Waiting' = fifo
  BY <1>1, <1>3, ConcatEmptySeq
<1>5. /\ Waiting # <<>> /\ Head(Waiting) = data /\ Tail(Waiting) = fifo
  BY <1>1, <1>2, FrontOfQueue
<1> QED
  BY <1>1, <1>4, <1>5 DEF Queue!Take

LEMMA key_pressedLooks ==
  ASSUME KeyboardTypes, key_pressed
  PROVE  Queue!Look
<1>1. /\ pressed' = (pressed \/ full) /\ UNCHANGED <<fifo, full, data, code>>
      /\ pressed \in BOOLEAN /\ full \in BOOLEAN /\ (pressed => full)
  BY DEF key_pressed, DataPassed, KeyboardTypes
<1>2. Waiting' = Waiting
  BY <1>1 DEF Waiting
<1>3. full => Waiting # <<>>
  <2> SUFFICES ASSUME full PROVE Waiting # <<>>
    OBVIOUS
  <2>1. data \in AllCodes /\ fifo \in Seq(AllCodes)
    BY DEF KeyboardTypes, AllCodes
  <2> QED
    BY <2>1, WaitingValue, FrontOfQueue
<1> QED
  BY <1>1, <1>2, <1>3 DEF Queue!Look

(* The polled keyboard is a queue: scan_code returns every code once and   *)
(* in the order of the keys, although it looks at the status port and      *)
(* reads the data port in two accesses; and it returns 0 only if           *)
(* key_pressed has not promised a code.                                    *)
THEOREM KeyboardImplementsQueue == KeyboardSpec => ImplementsKeyQueue
<1>1. KeyboardInit => Queue!Init
  BY ConcatEmptySeq DEF KeyboardInit, Queue!Init, Waiting
<1>2. KeyboardTypes /\ KeyboardTypes' /\ [KeyboardNext]_keyboardvars => [Queue!Next]_(Queue!vars)
  <2> SUFFICES ASSUME KeyboardTypes, KeyboardTypes', [KeyboardNext]_keyboardvars
               PROVE  Queue!Next \/ UNCHANGED Queue!vars
    OBVIOUS
  <2>1. ASSUME NEW c \in Codes, KeyEvent(c)
        PROVE  Queue!Next
    BY <2>1, KeyEventPresses DEF Queue!Next
  <2>2. CASE Transfer
    BY <2>2, TransferStutters
  <2>3. CASE ScanStatus
    BY <2>3, ScanStatusFindsNothing DEF Queue!Next
  <2>4. CASE ScanData
    BY <2>4, ScanDataTakes DEF Queue!Next
  <2>5. CASE key_pressed
    BY <2>5, key_pressedLooks DEF Queue!Next
  <2>6. CASE UNCHANGED keyboardvars
    BY <2>6 DEF keyboardvars, Queue!vars, Waiting
  <2> QED
    BY <2>1, <2>2, <2>3, <2>4, <2>5, <2>6 DEF KeyboardNext
<1> QED
  BY <1>1, <1>2, KeyboardTypeOK, PTL DEF KeyboardSpec, Queue!Spec, ImplementsKeyQueue
=============================================================================
