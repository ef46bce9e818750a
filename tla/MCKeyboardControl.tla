------------------------- MODULE MCKeyboardControl -------------------------
(* Three motions that overlap, stop keys at any time, and threads that lag. *)
EXTENDS KeyboardControlProps
=============================================================================
