---------------------------- MODULE CaptureEngine ----------------------------
(***************************************************************************)
(* The frame engine of the RGB-D recorder (src/rgbd_capture/core.py, class *)
(* Engine).  It is fed one message at a time by the recorder's event loop, *)
(* pairs color with depth images, thins the pairs to the configured rate,  *)
(* and holds every kept pair until two odometry samples bracket its pose   *)
(* time; then it writes one frame group to the bag.                        *)
(*                                                                         *)
(* Times are integer ticks.  The engine is single-threaded: a call runs to *)
(* its end before the next one starts, and pc says where in the call the   *)
(* engine is.  Each iteration of the loops of _pair and drain is one step. *)
(***************************************************************************)
EXTENDS Integers, Sequences, FiniteSets

CONSTANTS
    RgbStamps, DepthStamps, OdomStamps,  \* header stamps the topics may carry
    InfoStamps,   \* header stamps of the two CameraInfo topics
    Calibrations, \* what a CameraInfo says of the pixel model
    Extrinsics,   \* body-to-camera geometries /tf_static may describe
    NoExtrinsic,  \* no chain from body to camera is known yet
    TfKinds,      \* what a message of /tf says of the world-to-body edge, see tf
    Slop,         \* Config.rgbd_slop
    Offset,       \* Config.camera_time_offset
    MaxOdomGap,   \* Config.max_odom_gap
    Period,       \* int(1e9/Config.rate)
    Wait,         \* Config.wait
    Keep,         \* (Config.wait+2) s: how far behind the newest odometry is kept
    ImageBuffer,  \* Config.image_buffer
    OdomBuffer,   \* the 2000 of ingest
    InfoBuffer,   \* the maxlen=240 of the CameraInfo deques
    LastArrival,  \* bound: wall time of the last message
    Jitter        \* how far wall times of successive messages may step back

ASSUME StampsAssumption ==
    /\ RgbStamps \subseteq Nat /\ DepthStamps \subseteq Nat
    /\ OdomStamps \subseteq Nat /\ InfoStamps \subseteq Nat
ASSUME ConfigAssumption ==
    /\ Slop \in Nat /\ Offset \in Int /\ MaxOdomGap \in Nat /\ Keep \in Nat
    /\ Period \in Nat \ {0} /\ Wait \in Nat \ {0}
    /\ ImageBuffer \in Nat /\ ImageBuffer >= 2
    /\ InfoBuffer \in Nat \ {0}
    /\ OdomBuffer \in Nat /\ OdomBuffer >= 2
    /\ LastArrival \in Nat /\ Jitter \in Nat
    /\ NoExtrinsic \notin Extrinsics /\ TfKinds \subseteq {"none", "edge", "bad"}

VARIABLES
    pc,        \* "idle" between calls, "pair" in _pair, "drain" in drain, "done"
    call,      \* the call in progress: its wall time, the latest so far, drain's final
    raised,    \* a call ended in an exception: the recorder stops ingesting
    last,      \* newest stamp seen per checked topic, 0 for none
    rgbs,      \* self.images[RGB]: stamps
    depths,    \* self.images[DEPTH]: stamp, and whether the pixels are usable
    infos,     \* self.infos
    odoms,     \* self.odoms: stamps
    extrinsic, \* what self.tf answers for body to camera
    accepted,  \* self.accepted_extrinsic
    nextDue,   \* self.next_due, 0 for None
    pending,   \* self.pending
    frames,    \* the frame groups written to the bag, in order
    tf,        \* world-to-body edge in the bag's /tf: "none", "edge", or "bad" when
               \* one of them has no finite translation or no unit quaternion
    odomLog,   \* history: odometry stamps written to the bag, in order
    kept,      \* history: color stamps that entered pending
    paired     \* history: color stamps that were paired

inputs  == <<last, rgbs, depths, infos, odoms, extrinsic>>
outputs == <<accepted, frames, tf>>
history == <<odomLog, kept, paired>>
vars == <<pc, call, raised, inputs, nextDue, pending, outputs, history>>

Images == [stamp : DepthStamps, ok : BOOLEAN]
Infos  == [stamp : InfoStamps, cal : Calibrations]
Walls  == 0 .. LastArrival + Wait
MaybeExtrinsic == Extrinsics \union {NoExtrinsic}
Pairs  == [rgb : RgbStamps, dep : DepthStamps, ok : BOOLEAN, wall : Walls]
Frames == [index : Nat, rgb : RgbStamps, dep : DepthStamps, before : OdomStamps,
           after : OdomStamps, ext : Extrinsics, cal : Calibrations]

Abs(x) == IF x < 0 THEN -x ELSE x
Later(x, y) == IF x < y THEN y ELSE x
AppendBounded(s, x, max) ==
    IF Len(s) < max THEN Append(s, x) ELSE Append(Tail(s), x)

Init ==
    /\ pc = "idle" /\ call = [wall |-> 0, latest |-> 0, final |-> FALSE] /\ raised = FALSE
    /\ last = [t \in {"rgb", "depth", "odom"} |-> 0]
    /\ rgbs = <<>> /\ depths = <<>> /\ odoms = <<>>
    /\ infos = [t \in {"rgb", "depth"} |-> <<>>]
    /\ extrinsic = NoExtrinsic /\ accepted = NoExtrinsic
    /\ nextDue = 0 /\ pending = <<>> /\ frames = <<>> /\ tf = "none"
    /\ odomLog = <<>> /\ kept = {} /\ paired = {}

-----------------------------------------------------------------------------
(* ingest: one message from the event queue.  The wall time is that of the *)
(* callback that queued it.                                                *)

Arrival(w) ==
    /\ pc = "idle" /\ ~raised
    /\ w \in Walls /\ w <= LastArrival
    /\ call.latest - Jitter <= w
    /\ call' = [wall |-> w, latest |-> Later(w, call.latest), final |-> FALSE]

Raise == raised' = TRUE /\ pc' = "idle"

\* A stamp that is zero or behind the newest one of its topic.
BadStamp(topic, s) == s = 0 \/ s < last[topic]

Reject(topic, s) ==
    /\ BadStamp(topic, s)
    /\ Raise
    /\ UNCHANGED <<inputs, nextDue, pending, outputs, history>>

\* A repeated stamp returns before anything but the statistics is touched.
Duplicate(topic, s) ==
    /\ ~BadStamp(topic, s) /\ s = last[topic]
    /\ UNCHANGED <<pc, raised, inputs, nextDue, pending, outputs, history>>

Fresh(topic, s) ==
    /\ ~BadStamp(topic, s) /\ s # last[topic]
    /\ last' = [last EXCEPT ![topic] = s]

IngestRgb(s, w) ==
    /\ Arrival(w)
    /\ \/ Reject("rgb", s)
       \/ Duplicate("rgb", s)
       \/ /\ Fresh("rgb", s)
          /\ rgbs' = AppendBounded(rgbs, s, ImageBuffer)
          /\ pc' = "pair"
          /\ UNCHANGED <<raised, depths, infos, odoms, extrinsic, nextDue, pending,
                         outputs, history>>

IngestDepth(m, w) ==
    /\ Arrival(w)
    /\ \/ Reject("depth", m.stamp)
       \/ Duplicate("depth", m.stamp)
       \/ /\ Fresh("depth", m.stamp)
          /\ depths' = AppendBounded(depths, m, ImageBuffer)
          /\ pc' = "pair"
          /\ UNCHANGED <<raised, rgbs, infos, odoms, extrinsic, nextDue, pending,
                         outputs, history>>

\* The trimming loop has popped n samples of s when it stops.
TrimStops_FirstSample(s, n, cutoff) ==   \* mutated: looks at the sample it pops
    Len(s) - n > 2 => s[n + 1] >= cutoff /\ Len(s) - n <= OdomBuffer
TrimStops(s, n, cutoff) ==
    Len(s) - n > 2 => s[n + 2] >= cutoff /\ Len(s) - n <= OdomBuffer
Trimmed(s, n, cutoff) ==
    /\ TrimStops(s, n, cutoff)
    /\ \A k \in 0 .. n - 1 : ~TrimStops(s, k, cutoff)

\* framesMatch: the message carries the configured world and body frames and a
\* finite pose with a unit quaternion.
IngestOdom(s, framesMatch, w) ==
    /\ Arrival(w)
    /\ \/ Reject("odom", s)
       \/ Duplicate("odom", s)
       \/ /\ Fresh("odom", s) /\ ~framesMatch
          /\ Raise
          /\ UNCHANGED <<rgbs, depths, infos, odoms, extrinsic, nextDue, pending,
                         outputs, history>>
       \/ /\ Fresh("odom", s) /\ framesMatch
          /\ LET all == Append(odoms, s)
             IN  \E n \in 0 .. Len(odoms) :
                    /\ Trimmed(all, n, s - Keep)
                    /\ odoms' = SubSeq(all, n + 1, Len(all))
          /\ odomLog' = Append(odomLog, s)
          /\ pc' = "drain"
          /\ UNCHANGED <<raised, rgbs, depths, infos, extrinsic, nextDue, pending,
                         outputs, kept, paired>>

IngestInfo(topic, m, w) ==
    /\ Arrival(w)
    /\ infos' = [infos EXCEPT ![topic] = AppendBounded(@, m, InfoBuffer)]
    /\ pc' = "drain"
    /\ UNCHANGED <<raised, last, rgbs, depths, odoms, extrinsic, nextDue, pending,
                   outputs, history>>

\* The transforms of a message take effect one by one until an invalid one raises.
\* They may complete, change or break the chain from body to camera.
IngestStatic(e, valid, w) ==
    /\ Arrival(w)
    /\ extrinsic' = e
    /\ IF valid THEN pc' = "drain" /\ raised' = raised ELSE Raise
    /\ UNCHANGED <<last, rgbs, depths, infos, odoms, nextDue, pending, outputs, history>>

\* /tf and the metadata topics are written as they come: nothing looks at their
\* contents, and no drain follows.
IngestTf(kind, w) ==
    /\ Arrival(w)
    /\ tf' = IF "bad" \in {tf, kind} THEN "bad" ELSE IF "edge" \in {tf, kind} THEN "edge" ELSE "none"
    /\ UNCHANGED <<pc, raised, inputs, nextDue, pending, accepted, frames, history>>

\* The event loop found its queue empty, or calls drain for the last time.
Poll(w) ==
    /\ pc = "idle" /\ ~raised
    /\ w \in Walls /\ w = call.latest + 1
    /\ call' = [wall |-> w, latest |-> w, final |-> FALSE]
    /\ pc' = "drain"
    /\ UNCHANGED <<raised, inputs, nextDue, pending, outputs, history>>

Finish ==
    /\ pc = "idle"
    /\ call' = [call EXCEPT !.final = TRUE]
    /\ pc' = "drain"
    /\ UNCHANGED <<raised, inputs, nextDue, pending, outputs, history>>

-----------------------------------------------------------------------------
(* _pair: the oldest color image against the depth images.                 *)

Distance(i) == Abs(depths[i].stamp - rgbs[1])
Nearest(i) ==
    \A k \in DOMAIN depths : Distance(i) < Distance(k) \/ (Distance(i) = Distance(k) /\ i <= k)
Without_Kept(s, i) == s   \* mutated: the paired depth stays queued
Without(s, i) == SubSeq(s, 1, i - 1) \o SubSeq(s, i + 1, Len(s))

\* The first rate slot after t, counted in whole periods from the slot start due.
NextSlot_Single(due, t) == due + Period   \* mutated: a gap is caught up in a burst
NextSlot(due, t) == due + ((t - due) \div Period + 1) * Period

PairFound ==
    /\ pc = "pair" /\ rgbs # <<>>
    /\ \E i \in DOMAIN depths :
        /\ Nearest(i) /\ Distance(i) <= Slop
        /\ depths' = Without(depths, i)
        /\ IF nextDue # 0 /\ rgbs[1] < nextDue
           THEN UNCHANGED <<nextDue, pending, kept>>
           ELSE /\ nextDue' = NextSlot(IF nextDue = 0 THEN rgbs[1] ELSE nextDue, rgbs[1])
                /\ pending' = Append(pending, [rgb |-> rgbs[1], dep |-> depths[i].stamp,
                                               ok |-> depths[i].ok, wall |-> call.wall])
                /\ kept' = kept \union {rgbs[1]}
    /\ rgbs' = Tail(rgbs)
    /\ paired' = paired \union {rgbs[1]}
    /\ UNCHANGED <<pc, call, raised, last, infos, odoms, extrinsic, outputs, odomLog>>

PairFails ==
    /\ pc = "pair" /\ rgbs # <<>> /\ depths # <<>>
    /\ \A i \in DOMAIN depths : Distance(i) > Slop
    /\ IF depths[1].stamp < rgbs[1] - Slop
       THEN depths' = Tail(depths) /\ rgbs' = rgbs
       ELSE rgbs' = Tail(rgbs) /\ depths' = depths
    /\ UNCHANGED <<pc, call, raised, last, infos, odoms, extrinsic, nextDue, pending,
                   outputs, history>>

PairReturns ==
    /\ pc = "pair" /\ (rgbs = <<>> \/ depths = <<>>)
    /\ pc' = "drain"
    /\ UNCHANGED <<call, raised, inputs, nextDue, pending, outputs, history>>

-----------------------------------------------------------------------------
(* drain: the oldest pending pair, through _make_group.                    *)

Target(p) == p.rgb + Offset

\* Positions of the odometry sample that ends the bracket of a pose time: one or none.
Brackets(target) ==
    {j \in 2 .. Len(odoms) :
        /\ odoms[j - 1] < target \/ (j = 2 /\ target = odoms[1])
        /\ target <= odoms[j]}
UsableBrackets_AnyGap(target) == Brackets(target)   \* mutated: no gap check
UsableBrackets(target) ==
    {j \in Brackets(target) : odoms[j] - odoms[j - 1] <= MaxOdomGap}

\* Positions of the CameraInfo chosen for an image stamped t: one or none.
InfoFor(topic, t) ==
    LET s == infos[topic]
        old == {i \in DOMAIN s : s[i].stamp <= t + Slop}
    IN  {i \in old : \A k \in old : s[k].stamp < s[i].stamp \/ (s[k].stamp = s[i].stamp /\ i <= k)}

Measured(p) ==
    UsableBrackets(Target(p)) # {} /\ InfoFor("rgb", p.rgb) # {} /\ InfoFor("depth", p.dep) # {}
Valid(p) ==
    /\ p.ok
    /\ \A i \in InfoFor("rgb", p.rgb), k \in InfoFor("depth", p.dep) :
            infos["rgb"][i].cal = infos["depth"][k].cal
Missing(p) == ~Measured(p) \/ (Valid(p) /\ extrinsic = NoExtrinsic)
Invalid(p) == Measured(p) /\ ~Valid(p)
Complete(p) == Measured(p) /\ Valid(p) /\ extrinsic # NoExtrinsic

Draining == pc = "drain" /\ pending # <<>>
Expired_Late(p) == call.final \/ call.wall - p.wall > Wait   \* mutated: off by one
Expired_OnlyFinal(p) == call.final /\ pc = "pair"            \* mutated: never gives up
Expired(p) == call.final \/ call.wall - p.wall >= Wait
Returned == IF call.final THEN "done" ELSE "idle"

DrainHolds ==
    /\ Draining /\ Missing(pending[1]) /\ ~Expired(pending[1])
    /\ pc' = Returned
    /\ UNCHANGED <<call, raised, inputs, nextDue, pending, outputs, history>>

DrainDrops_NoPop ==   \* mutated: continues without the pop
    /\ Draining
    /\ (Missing(pending[1]) /\ Expired(pending[1])) \/ Invalid(pending[1])
    /\ UNCHANGED vars
DrainDrops ==
    /\ Draining
    /\ (Missing(pending[1]) /\ Expired(pending[1])) \/ Invalid(pending[1])
    /\ pending' = Tail(pending)
    /\ UNCHANGED <<pc, call, raised, inputs, nextDue, outputs, history>>

DrainRaises ==
    /\ Draining /\ Complete(pending[1]) /\ accepted \notin {NoExtrinsic, extrinsic}
    /\ raised' = TRUE
    /\ pc' = Returned
    /\ UNCHANGED <<call, inputs, nextDue, pending, outputs, history>>

Group_First(p, j, i) ==   \* mutated: interpolates from the oldest sample
    [index |-> Len(frames), rgb |-> p.rgb, dep |-> p.dep, before |-> odoms[1],
     after |-> odoms[j], ext |-> extrinsic, cal |-> infos["rgb"][i].cal]
Group_Before(p, j, i) ==   \* mutated: the index of the group before
    [index |-> Len(frames) - 1, rgb |-> p.rgb, dep |-> p.dep, before |-> odoms[j - 1],
     after |-> odoms[j], ext |-> extrinsic, cal |-> infos["rgb"][i].cal]
Group(p, j, i) ==
    [index |-> Len(frames), rgb |-> p.rgb, dep |-> p.dep, before |-> odoms[j - 1],
     after |-> odoms[j], ext |-> extrinsic, cal |-> infos["rgb"][i].cal]

DrainWrites ==
    /\ Draining /\ Complete(pending[1]) /\ accepted \in {NoExtrinsic, extrinsic}
    /\ accepted' = extrinsic
    /\ \E j \in UsableBrackets(Target(pending[1])), i \in InfoFor("rgb", pending[1].rgb) :
            frames' = Append(frames, Group(pending[1], j, i))
    /\ pending' = Tail(pending)
    /\ UNCHANGED <<pc, call, raised, inputs, nextDue, tf, history>>

DrainReturns ==
    /\ pc = "drain" /\ pending = <<>>
    /\ pc' = Returned
    /\ UNCHANGED <<call, raised, inputs, nextDue, pending, outputs, history>>

-----------------------------------------------------------------------------
Ingest ==
    \E w \in Walls :
        \/ \E s \in RgbStamps : IngestRgb(s, w)
        \/ \E m \in Images : IngestDepth(m, w)
        \/ \E s \in OdomStamps, f \in BOOLEAN : IngestOdom(s, f, w)
        \/ \E t \in {"rgb", "depth"}, m \in Infos : IngestInfo(t, m, w)
        \/ \E e \in MaybeExtrinsic, valid \in BOOLEAN : IngestStatic(e, valid, w)
        \/ \E kind \in TfKinds : IngestTf(kind, w)
Pair  == PairFound \/ PairFails \/ PairReturns
Drain == DrainHolds \/ DrainDrops \/ DrainRaises \/ DrainWrites \/ DrainReturns
Terminated == pc = "done" /\ UNCHANGED vars
Next  == Ingest \/ (\E w \in Walls : Poll(w)) \/ Finish \/ Pair \/ Drain \/ Terminated

\* A started call runs on.  Between calls the clock passes: the event loop waits
\* at most 50 ms for a message, then polls, so calls with later wall times never
\* stop coming, whatever messages arrive.
TimePasses == (Ingest \/ \E w \in Walls : Poll(w)) /\ call'.latest > call.latest
Spec == Init /\ [][Next]_vars
FairSpec == Spec /\ WF_vars(Pair) /\ WF_vars(Drain) /\ SF_vars(TimePasses)
=============================================================================
