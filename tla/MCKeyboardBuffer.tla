-------------------------- MODULE MCKeyboardBuffer --------------------------
(* A ring of three slots, filled more than twice over.                     *)
EXTENDS KeyboardBuffer
=============================================================================
