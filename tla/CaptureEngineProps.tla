------------------------- MODULE CaptureEngineProps -------------------------
(***************************************************************************)
(* What the frame engine promises of the bag it writes and of the pairs it *)
(* holds, with the offline validator check_bag (capture.py) as the judge   *)
(* of the bag.                                                             *)
(***************************************************************************)
EXTENDS CaptureEngine

Increasing(s) == \A i, k \in DOMAIN s : i < k => s[i] < s[k]
Stamps(s) == {s[i] : i \in DOMAIN s}

\* The types of the state: sequences of the messages of each queue.
TypeOK ==
    /\ pc \in {"idle", "pair", "drain", "done"}
    /\ call \in [wall : Walls, latest : Walls, final : BOOLEAN]
    /\ raised \in BOOLEAN
    /\ last \in [{"rgb", "depth", "odom"} -> Nat]
    /\ rgbs \in Seq(RgbStamps)
    /\ depths \in Seq(Images)
    /\ infos \in [{"rgb", "depth"} -> Seq(Infos)]
    /\ odoms \in Seq(OdomStamps)
    /\ extrinsic \in MaybeExtrinsic /\ accepted \in MaybeExtrinsic
    /\ nextDue \in Int
    /\ pending \in Seq(Pairs)
    /\ frames \in Seq(Frames)
    /\ tf \in {"none", "edge", "bad"}
    /\ odomLog \in Seq(OdomStamps)
    /\ kept \subseteq RgbStamps /\ paired \subseteq RgbStamps

(* check_bag, for a bag that holds the odometry odom and the groups fs, whose static    *)
(* transforms describe ext and whose /tf says edge of the world-to-body edge.  Of the   *)
(* checks that can fail, those on what record() writes once are not here: the session,  *)
(* the raw counts of a merged bag, and the report, whose error is there exactly when    *)
(* something raised and whose count is the number of groups, index + 1 of the last.     *)
FrameChecks(f, n, odom, ext) ==
    /\ f.index = n - 1
    /\ Abs(f.dep - f.rgb) <= Slop
    /\ {f.before, f.after} \subseteq Stamps(odom)
    /\ f.after - f.before <= MaxOdomGap
    /\ f.before < f.after /\ f.before <= f.rgb + Offset /\ f.rgb + Offset <= f.after
    /\ f.ext = ext
CheckBag(odom, fs, ext, edge) ==
    /\ Increasing(odom)
    /\ ext # NoExtrinsic
    /\ edge = "edge"
    /\ Increasing([n \in DOMAIN fs |-> fs[n].rgb])
    /\ \A n \in DOMAIN fs : FrameChecks(fs[n], n, odom, ext)
    /\ fs # <<>>

\* After every call, not only at the end, a bag whose recording has raised nothing and
\* has a group is rejected by check_bag for one of two reasons only, and then always:
\* its /tf lacks a good world-to-body edge, which the engine never looks at, or the
\* static geometry changed after the last group, which the engine compares only when it
\* makes a group.
BagValidates ==
    ~raised /\ frames # <<>> =>
        (CheckBag(odomLog, frames, extrinsic, tf) <=> tf = "edge" /\ extrinsic = accepted)

\* An image is used once: no two kept pairs, written, pending or still queued,
\* share a color or a depth image (the depth pop of _pair, the duplicate check).
UsedOnce ==
    LET Used == {<<f.rgb, f.dep>> : f \in {frames[i] : i \in DOMAIN frames}}
                \union {<<p.rgb, p.dep>> : p \in {pending[i] : i \in DOMAIN pending}}
    IN  /\ Cardinality(Used) = Len(frames) + Len(pending)
        /\ \A u, v \in Used : u # v => u[1] # v[1] /\ u[2] # v[2]
        /\ \A u \in Used : /\ u[1] \notin Stamps(rgbs)
                           /\ \A i \in DOMAIN depths : depths[i].stamp # u[2]

\* The pose of a group interpolates the closest samples known: no odometry that
\* was ever written lies strictly inside a group's bracket.
BracketTight ==
    \A n \in DOMAIN frames, k \in DOMAIN odomLog :
        ~(frames[n].before < odomLog[k] /\ odomLog[k] < frames[n].after)

\* Trimming never loses a bracket that a pose time not older than Keep behind the
\* newest odometry can need (the comparison with the second sample in ingest).
TrimKeepsBrackets ==
    \A k \in 2 .. Len(odomLog) :
        \/ odomLog[k] < odomLog[Len(odomLog)] - Keep
        \/ Len(odomLog) - k + 2 > OdomBuffer
        \/ {odomLog[k - 1], odomLog[k]} \subseteq Stamps(odoms)

\* The engine implements the abstract log of a bag: nothing written is changed, and
\* every group may follow the ones before it (drain and _make_group).
Bag == INSTANCE FrameLog WITH odomLog <- odomLog, frames <- frames,
                              Slop <- Slop, Offset <- Offset, MaxOdomGap <- MaxOdomGap
WritesFrameLog == Bag!Spec

\* Rate slots, counted in whole periods from the first kept pair: the first pair
\* of a slot is kept and no other (next_due in _pair).
Slot(t) == (t - (CHOOSE k \in kept : \A m \in kept : k <= m)) \div Period
FirstOfSlotKept ==
    \A s \in paired :
        \/ s \in kept /\ \A k \in kept : Slot(k) = Slot(s) => k = s
        \/ s \notin kept /\ \E k \in kept : Slot(k) = Slot(s) /\ k < s

\* When a drain returns normally no pair has waited Wait or longer, though only
\* the head of the queue is looked at.  Jitter is the slack of the arrival times.
WaitBounded ==
    [][pc = "drain" /\ pc' = "idle" /\ ~raised' =>
        \A i \in DOMAIN pending' : call.wall - pending'[i].wall < Wait + Jitter]_vars

\* A pair that was kept is written or dropped in the end.
Resolved == \A s \in RgbStamps :
    s \in kept /\ ~raised ~> raised \/ \A i \in DOMAIN pending : pending[i].rgb # s

\* Every call returns.
CallsReturn == pc \in {"pair", "drain"} ~> pc \in {"idle", "done"}
=============================================================================
