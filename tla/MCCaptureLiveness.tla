-------------------------- MODULE MCCaptureLiveness -------------------------
(* Pairing, rate thinning after a burst, and the end of every call and pair: *)
(* groups that are written, that expire and that lack odometry.              *)
EXTENDS CaptureEngineProps
MCRgb == {1, 5, 6}
MCDepth == {1, 5, 6}
MCOdom == {4, 6}
=============================================================================
