--------------------------- MODULE MCCaptureQueue ---------------------------
(* Two streams of different sizes against a queue short of room in both its *)
(* measures: two messages of the image stream fit by count, one by bytes.   *)
EXTENDS CaptureQueueProps
MCThreads == {"rgb", "odom"}
MCImages == {"rgb"}
MCSize == [t \in MCThreads |-> IF t = "rgb" THEN 2 ELSE 1]
=============================================================================
