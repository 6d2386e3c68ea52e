----------------------------- MODULE MCKeyboard -----------------------------
(* Three keys and a keyboard that keeps three of them. *)
EXTENDS Keyboard
=============================================================================
