----------------------------- MODULE MCTerminal -----------------------------
(* Small instances of the terminal: lines of three characters, two rows.   *)
EXTENDS Terminal

(* Formats of every conversion that ends, and texts, in kernel calls. *)
KernelFormats ==
  { [fmt |-> <<"ch", "%s", "%c">>, args |-> <<"str", "int">>],
    [fmt |-> <<"%x", "%other">>, args |-> <<"int">>],
    [fmt |-> <<>>, args |-> <<>>] }
KernelTexts ==
  {<<"ch", "nl", "ch">>, <<"ch", "ch", "ch", "ch">>, <<"%nl", "%s">>, <<"ch", "%end">>}

(* Behind a format: nothing, more text, or a conversion. *)
Leftovers == {<<>>, <<"ch", "nl">>, <<"%s">>}

(* A format that prints a number. *)
NumberFormats == { [fmt |-> <<"%d">>, args |-> <<"int">>] }

AllFormats == KernelFormats \cup NumberFormats

(* What poll_ata_drive panics with. *)
PanicTexts == {<<"ch">>}

OneChar == <<"ch">>
=============================================================================
