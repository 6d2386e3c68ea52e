------------------------------ MODULE Keyboard ------------------------------
(***************************************************************************)
(* scan_code and key_pressed of keyboard.c beside the keyboard and its     *)
(* controller, which act on their own between any two port accesses.       *)
(*                                                                         *)
(* External: the keyboard has a queue of its own, which ends in Overrun    *)
(* once a key found it full; the controller passes on one code at a time   *)
(* and shows by the lowest bit of port 0x64 that port 0x60 holds one.      *)
(* Port 0x60 keeps its value when it has been read.  A code is not 0.      *)
(***************************************************************************)
EXTENDS Naturals, Sequences

CONSTANTS
  Codes,     \* scan codes
  Overrun,   \* the code that stands for the keys lost
  Room       \* codes the keyboard's queue holds

ASSUME KeyboardAssumption ==
  /\ 0 \notin Codes /\ Overrun \notin Codes \cup {0}
  /\ Room \in Nat \ {0}

VARIABLES
  fifo,     \* the keyboard's queue
  full,     \* the lowest bit of port 0x64
  data,     \* what port 0x60 shows
  pc,       \* "idle", or "data": scan_code has seen the bit set
  code,     \* what scan_code returned last
  pressed   \* key_pressed has returned true since (history)

keyboardvars == <<fifo, full, data, pc, code, pressed>>

KeyboardInit ==
  /\ fifo = <<>> /\ full = FALSE /\ data = 0
  /\ pc = "idle" /\ code = 0 /\ pressed = FALSE

-----------------------------------------------------------------------------
KeyEvent(c) ==
  /\ Len(fifo) <= Room
  /\ fifo' = Append(fifo, IF Len(fifo) < Room THEN c ELSE Overrun)
  /\ UNCHANGED <<full, data, pc, code, pressed>>

Transfer ==
  /\ ~ full /\ fifo # <<>>
  /\ full' = TRUE /\ data' = Head(fifo) /\ fifo' = Tail(fifo)
  /\ UNCHANGED <<pc, code, pressed>>

(* Mutant: bit 1 is looked at, which is clear. *)
DataPassedBit1 == FALSE

(* (inb(0x64) & 1) != 0 *)
DataPassed == full

(* scan_code up to its first port access; without data that is all. *)
ScanStatus ==
  /\ pc = "idle"
  /\ IF DataPassed THEN pc' = "data" /\ UNCHANGED <<code, pressed>>
                   ELSE code' = 0 /\ pressed' = FALSE /\ UNCHANGED pc
  /\ UNCHANGED <<fifo, full, data>>

(* Mutant: a code that repeats the last one is dropped. *)
CodeReadDropped == IF data = code THEN 0 ELSE data

CodeRead == data

(* inb(0x60), which makes room in the controller, and the return. *)
ScanData ==
  /\ pc = "data"
  /\ code' = CodeRead /\ full' = FALSE
  /\ pc' = "idle" /\ pressed' = FALSE
  /\ UNCHANGED <<fifo, data>>

key_pressed ==
  /\ pc = "idle"
  /\ pressed' = (pressed \/ DataPassed)
  /\ UNCHANGED <<fifo, full, data, pc, code>>

KeyboardNext ==
  \/ \E c \in Codes : KeyEvent(c)
  \/ Transfer \/ ScanStatus \/ ScanData \/ key_pressed

(* The controller passes codes on, and a call that has begun returns.      *)
KeyboardSpec ==
  /\ KeyboardInit /\ [][KeyboardNext]_keyboardvars
  /\ WF_keyboardvars(Transfer) /\ WF_keyboardvars(ScanData)

-----------------------------------------------------------------------------
(* The keys pressed and not yet read, wherever they are. *)
Waiting == (IF full THEN <<data>> ELSE <<>>) \o fifo

(* Types; between the two accesses of scan_code the code does not go away. *)
KeyboardTypes ==
  /\ fifo \in Seq(Codes \cup {Overrun}) /\ Len(fifo) <= Room + 1
  /\ full \in BOOLEAN /\ data \in Codes \cup {Overrun, 0}
  /\ pc \in {"idle", "data"} /\ pressed \in BOOLEAN
  /\ code \in Codes \cup {Overrun, 0}
  /\ (pc = "data" \/ pressed => full) /\ (full => data # 0)

Queue == INSTANCE KeyQueue WITH queue <- Waiting

(* The two functions implement a queue: each code is returned once, in the *)
(* order of the keys, although the check and the read are two accesses and *)
(* the port keeps showing what was read; 0 is only returned if key_pressed *)
(* has not promised a code.                                                *)
ImplementsKeyQueue == Queue!Spec

(* If a program goes on calling scan_code, every key in the queue is       *)
(* returned.                                                               *)
KeyArrives ==
  WF_keyboardvars(ScanStatus) =>
    \A c \in Codes :
      (\E k \in DOMAIN Waiting : Waiting[k] = c) ~> code = c
=============================================================================
