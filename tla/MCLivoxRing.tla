----------------------------- MODULE MCLivoxRing -----------------------------
(* Two lidars, one of them configured late, and rings of two slots. *)
EXTENDS LivoxRingProps
MCFrames == <<{"a", "b"}, {"c"}>>
=============================================================================
