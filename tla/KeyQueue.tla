------------------------------ MODULE KeyQueue ------------------------------
(***************************************************************************)
(* What a program that polls the keyboard may rely on: keys come out one   *)
(* by one in the order they were pressed, none twice, and if key_pressed   *)
(* has said that there is one then the next call of scan_code finds it.    *)
(***************************************************************************)
EXTENDS Naturals, Sequences

CONSTANTS Codes, Overrun

VARIABLES
  queue,    \* the keys pressed and not yet read
  code,     \* what scan_code returned last, 0 at the start
  pressed   \* key_pressed has said so since

vars == <<queue, code, pressed>>

Init == queue = <<>> /\ code = 0 /\ pressed = FALSE

(* A key, or the mark that keys are lost from here on. *)
Press == /\ \E c \in Codes \cup {Overrun} : queue' = Append(queue, c)
         /\ UNCHANGED <<code, pressed>>

Take == /\ queue # <<>>
        /\ code' = Head(queue) /\ queue' = Tail(queue)
        /\ pressed' = FALSE

(* A key on its way need not have arrived, one that was seen has. *)
Nothing == /\ ~ pressed
           /\ code' = 0
           /\ UNCHANGED <<queue, pressed>>

Look == /\ pressed' \in {TRUE, pressed}
        /\ pressed' => queue # <<>>
        /\ UNCHANGED <<queue, code>>

Next == Press \/ Take \/ Nothing \/ Look

Spec == Init /\ [][Next]_vars
=============================================================================
