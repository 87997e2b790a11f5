----------------------------- MODULE MCKeyboard -----------------------------
(* A buffer of three bytes, so that a stroke can lose one of its two.      *)
EXTENDS Keyboard
=============================================================================
