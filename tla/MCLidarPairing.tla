--------------------------- MODULE MCLidarPairing ---------------------------
(* Scans of two lidars in any order and spacing, some lost or empty.       *)
EXTENDS LidarBundleProps
=============================================================================
