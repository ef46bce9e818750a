-------------------------- MODULE MCCaptureEngine --------------------------
(* Odometry against pending pairs: trimming, waiting, dropping, and what    *)
(* completes a group: calibrations and static geometry that change, a pose  *)
(* offset, and arrival times that step back between the callback threads.   *)
(* Odometry is trimmed by age (1, 2, 5) and by number (2, 4, 5, 6).          *)
EXTENDS CaptureEngineProps, TLC
MCRgb == {3, 5}
MCDepth == {3, 5}
MCOdom == {1, 2, 4, 5, 6}
MCOffset == -1
MCSymmetry == Permutations(Calibrations) \union Permutations(Extrinsics)
=============================================================================
