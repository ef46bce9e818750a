------------------------------ MODULE FrameLog ------------------------------
(***************************************************************************)
(* What a recorded bag promises, whatever the recorder does inside: an     *)
(* append-only log of odometry and of frame groups.  A group comes after   *)
(* every earlier one, uses images no earlier group used, keeps the one     *)
(* body-to-camera geometry of the bag, and when it is written the          *)
(* neighbouring odometry samples around its pose time are in the log.      *)
(***************************************************************************)
EXTENDS Integers, Sequences

CONSTANTS
    Slop,        \* how far apart a color and a depth image may be
    Offset,      \* pose time minus color time
    MaxOdomGap   \* how far apart the samples of a bracket may be

VARIABLES odomLog, frames

\* A group lies between two neighbouring samples of the log g, not too far apart.
Between(f, g) ==
    \E b \in 2 .. Len(g) :
        /\ f.before = g[b - 1] /\ f.after = g[b]
        /\ f.before <= f.rgb + Offset /\ f.rgb + Offset <= f.after
        /\ f.after - f.before <= MaxOdomGap

\* The group f may follow the groups fs.
Follows(f, fs) ==
    /\ f.index = Len(fs)
    /\ \A i \in DOMAIN fs : fs[i].rgb < f.rgb /\ fs[i].dep # f.dep /\ fs[i].ext = f.ext
    /\ f.dep - f.rgb <= Slop /\ f.rgb - f.dep <= Slop

Init == odomLog = <<>> /\ frames = <<>>

RecordOdometry ==
    /\ odomLog' # <<>>
    /\ LET s == odomLog'[Len(odomLog')]
       IN  odomLog' = Append(odomLog, s) /\ \A k \in DOMAIN odomLog : odomLog[k] < s
    /\ UNCHANGED frames

RecordGroup ==
    /\ frames' # <<>>
    /\ LET f == frames'[Len(frames')]
       IN  frames' = Append(frames, f) /\ Follows(f, frames) /\ Between(f, odomLog)
    /\ UNCHANGED odomLog

Spec == Init /\ [][RecordOdometry \/ RecordGroup]_<<odomLog, frames>>
=============================================================================
