--------------------------- MODULE MCLidarRestart ---------------------------
(* A source whose clock goes back once; clouds above and below thresholds. *)
EXTENDS LidarBundleProps
=============================================================================
