----------------------------- MODULE MCLibrary ------------------------------
(* The number and the string functions.  They share no state, so their     *)
(* calls are looked at one after the other and not in all combinations:    *)
(* the string functions run on all memories of six cells over the          *)
(* terminator, a letter and a delimiter, the number functions beside one   *)
(* of them, on words of nine bits and all strings of up to five            *)
(* characters, with a len that wraps at four.                              *)
EXTENDS Numbers, Strings

AllInts == 0 .. WordMod - 1
ShortStrings == UNION {[1 .. k -> {0, 1, 9, Minus, Other}] : k \in 0 .. 5}

LibraryInit == Init /\ StringsInit

BesideOneMemory == at = "idle" /\ fn = "strlen" /\ mem = [k \in Addr |-> 0]

LibraryNext ==
  \/ BesideOneMemory /\ Next /\ UNCHANGED stringsvars
  \/ pc = "start" /\ StringsNext /\ UNCHANGED vars

LibrarySpec == LibraryInit /\ [][LibraryNext]_<<vars, stringsvars>> /\ WF_stringsvars(Running)
=============================================================================
