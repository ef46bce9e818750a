---------------------------- MODULE LidarBundle ----------------------------
(***************************************************************************)
(* The odometry node (lio_ws/src/FAST_LIO_MULTI/src): the buffers that the *)
(* subscriptions of laserMapping_bundle.cpp fill, the pairing of two lidars*)
(* and of the IMU in sync_packages(), and what ImuProcess and main() do    *)
(* with a bundle up to the odometry message.  One thread: ros::spinOnce()  *)
(* and the body of the loop alternate, so each callback is one step and    *)
(* each pass of the loop is another.                                       *)
(*                                                                         *)
(* Times are ticks.  A scan is its stamp, the offset of its last point and *)
(* its number of points.  Poses, covariances and coordinates are left out. *)
(***************************************************************************)
EXTENDS Integers, Sequences, FiniteSetsExt

CONSTANTS
    MaxSpan,    \* longest lidar scan
    MaxSkew,    \* bundle_max_pair_skew
    MinGap,     \* shortest time between two scans of a lidar (0: equal stamps)
    ImuGap,     \* longest time between two IMU messages
    MaxTime,    \* bound: stamp of the last scan
    MaxScans,   \* bound: scans of a lidar bundled or waiting
    MaxRestarts,\* bound: times a source's clock goes back
    Spans,      \* offsets a last point may have
    Points,     \* numbers of points a scan may have
    DownSizes,  \* numbers of points downsampling may leave
    MaxInit,    \* MAX_INI_COUNT
    Garbage     \* what last_lidar_end_time_ may hold before it is assigned

ASSUME BundleAssumption ==
    /\ {MaxSpan, MaxSkew, MinGap} \subseteq Nat /\ ImuGap \in Nat \ {0}
    /\ {MaxTime, MaxScans} \subseteq Nat /\ MaxRestarts \in Nat /\ MaxInit \in Nat
    /\ Spans \subseteq 0..MaxSpan /\ Points \subseteq Nat
    /\ DownSizes \subseteq Nat \ {0} /\ Garbage \subseteq Nat

Lidars == {1, 2}
Other(l) == 3 - l
Horizon == MaxTime + MaxSpan + 1   \* bound: stamp of the last IMU message
Scan == [stamp: 1..MaxTime, span: Spans \union {0}, points: Points \union {0}]
NoScan == [stamp |-> 0, span |-> 0, points |-> 0]
Larger(f) == IF f[1] > f[2] THEN f[1] ELSE f[2]

VARIABLES
    queue,     \* lidar_buffer and time_buffer, by lidar
    lastStamp, \* last_timestamp_lidar, by lidar
    started,   \* first_lidar_scan_check
    imu,       \* stamps in imu_buffer
    lastImu,   \* last_timestamp_imu
    mean,      \* lidar_mean_scantime, by lidar
    num,       \* scan_num, by lidar
    pushed,    \* lidar_pushed
    meas,      \* the scans in Measures, by lidar
    ends,      \* lidar_end_time, by lidar
    initIter,  \* init_iter_num
    needInit,  \* imu_need_init_
    carried,   \* stamp of last_imu_
    lastEnd,   \* last_lidar_end_time_
    feats,     \* feats_undistort: the bundle its points are of, and how many
    map,       \* ikdtree.Root_Node != nullptr
    bundles,   \* history: bundles given to Process
    fed,       \* history: meas.imu of the last bundle
    closed,    \* history: when the last bundle ended
    predicted, \* history: time the filter was propagated by the last bundle
    undistorts,\* history: bundles that were undistorted
    odometry,  \* history: the last message: its bundle, its points' bundle, its stamp
    longest,   \* history: longest scan ever chosen, by lidar
    spaced,    \* history: no scan chosen sooner after the last than the longest
    dropped,   \* history: stamps of the unpaired scans dropped, by lidar
    restarts   \* bound: clocks gone back so far

inputs == <<queue, lastStamp, started, imu, lastImu, restarts>>
pairing == <<mean, num, pushed, meas, ends>>
filter == <<initIter, needInit, carried, lastEnd, feats, map>>
history == <<bundles, fed, closed, predicted, undistorts, odometry>>
lengths == <<longest, spaced>>
vars == <<inputs, pairing, filter, history, lengths, dropped>>

Init ==
    /\ queue = [l \in Lidars |-> <<>>] /\ lastStamp = [l \in Lidars |-> 0]
    /\ started = FALSE /\ imu = <<>> /\ lastImu = -1 /\ restarts = 0
    /\ mean = [l \in Lidars |-> 0] /\ num = [l \in Lidars |-> 0]
    /\ pushed = FALSE
    /\ meas = [l \in Lidars |-> NoScan] /\ ends = [l \in Lidars |-> 0]
    /\ initIter = 1 /\ needInit = TRUE /\ carried = 0
    /\ lastEnd \in Garbage
    /\ feats = [bundle |-> 0, size |-> 0] /\ map = FALSE
    /\ bundles = 0 /\ fed = <<>> /\ closed = 0 /\ predicted = 0 /\ undistorts = 0
    /\ odometry = [bundle |-> 0, cloud |-> 0, stamp |-> 0]
    /\ longest = [l \in Lidars |-> 0] /\ spaced = TRUE
    /\ dropped = [l \in Lidars |-> {}]

-----------------------------------------------------------------------------
(* Subscriptions                                                           *)

\* The stamps of IMU messages increase, and any clock may go back.
Later(last) == {t \in 1..Horizon : last < t /\ t <= last + ImuGap}
Rewound(last) == IF restarts < MaxRestarts THEN 1..(last - 1) ELSE {}

\* livox_pcl_cbk() and livox_pcl_cbk2(): a scan may be longer than the time
\* to the next; preprocessing may leave no point.
ScanArrives(l) ==
    /\ bundles + Len(queue[l]) < MaxScans
    /\ \E t \in {u \in 1..MaxTime : lastStamp[l] + MinGap <= u}
               \union Rewound(lastStamp[l]),
         s \in Spans, n \in Points :
        /\ queue' = [queue EXCEPT ![l] =
                        Append(IF t < lastStamp[l] THEN <<>> ELSE @,
                               [stamp |-> t, span |-> IF n > 1 THEN s ELSE 0, points |-> n])]
        /\ lastStamp' = [lastStamp EXCEPT ![l] = t]
        /\ restarts' = restarts + IF t < lastStamp[l] THEN 1 ELSE 0
        /\ started' = TRUE
        /\ UNCHANGED <<imu, lastImu, pairing, filter, history, lengths, dropped>>

\* imu_cbk(): messages are ignored until a scan has arrived.  The first stamp
\* that is kept may be any.
ImuArrives ==
    /\ started
    /\ \E t \in (IF lastImu < 0 THEN 1..Horizon ELSE Later(lastImu))
                \union Rewound(lastImu) :
        /\ imu' = Append(IF t < lastImu THEN <<>> ELSE imu, t)
        /\ lastImu' = t
        /\ restarts' = restarts + IF t < lastImu THEN 1 ELSE 0
    /\ UNCHANGED <<queue, lastStamp, started, pairing, filter, history, lengths, dropped>>

-----------------------------------------------------------------------------
(* sync_packages(): pairing                                                *)

From(s, i) == SubSeq(s, i + 1, Len(s))
Apart(a, b) == a.stamp - b.stamp > MaxSkew \/ b.stamp - a.stamp > MaxSkew

\* Whether the head of the first buffer is dropped, rather than the second's.
DropsFirst_Newer(a, b) == a.stamp > b.stamp   \* mutated
DropsFirst(a, b) == a.stamp < b.stamp

\* The loop that drops one of two heads until they can be paired, when h of each
\* buffer are dropped already: how many are dropped in the end.
HeadsApart(h) ==
    /\ h[1] < Len(queue[1]) /\ h[2] < Len(queue[2])
    /\ Apart(queue[1][h[1] + 1], queue[2][h[2] + 1])
DropOne(h) ==
    IF DropsFirst(queue[1][h[1] + 1], queue[2][h[2] + 1])
    THEN <<h[1] + 1, h[2]>> ELSE <<h[1], h[2] + 1>>
DropFrom[h \in (0..Len(queue[1])) \X (0..Len(queue[2]))] ==
    IF HeadsApart(h) THEN DropFrom[DropOne(h)] ELSE h
Drops == IF pushed THEN <<0, 0>> ELSE DropFrom[<<0, 0>>]

Kept(l) == From(queue[l], Drops[l])
DropUnpaired ==
    dropped' = [l \in Lidars |->
                  dropped[l] \union {queue[l][i].stamp : i \in 1..Drops[l]}]

BuffersReady == queue[1] # <<>> /\ queue[2] # <<>> /\ imu # <<>>
CanPair == BuffersReady /\ (pushed \/ \A l \in Lidars : Kept(l) # <<>>)

\* A scan with too few points, or too short, is given the mean length.
TooShort(l, s) == s.points <= 1 \/ 2 * s.span < mean[l]
MeanWith_Sum(l, s) == mean[l] + s.span        \* mutated
MeanWith(l, s) == mean[l] + (s.span - mean[l]) \div (num[l] + 1)
EndOf_Mixed(l, s) == s.stamp + IF TooShort(l, s) THEN mean[Other(l)] ELSE s.span   \* mutated
EndOf(l, s) == s.stamp + IF TooShort(l, s) THEN mean[l] ELSE s.span

\* The scans, and their ends, of the bundle that this pass works on.
Paired == IF pushed THEN meas ELSE [l \in Lidars |-> Head(Kept(l))]
PairedEnds == IF pushed THEN ends ELSE [l \in Lidars |-> EndOf(l, Paired[l])]
Push ==
    /\ meas' = Paired /\ ends' = PairedEnds
    /\ \/ pushed /\ UNCHANGED <<mean, num, lengths>>
       \/ /\ ~pushed
          /\ mean' = [l \in Lidars |-> IF TooShort(l, Paired[l]) THEN mean[l]
                                       ELSE MeanWith(l, Paired[l])]
          /\ num' = [l \in Lidars |-> IF TooShort(l, Paired[l]) THEN num[l] ELSE num[l] + 1]
          /\ longest' = [l \in Lidars |-> IF Paired[l].span > longest[l] THEN Paired[l].span
                                          ELSE longest[l]]
          /\ spaced' = (spaced /\ \A l \in Lidars : Paired[l].stamp - meas[l].stamp >= longest[l])

\* Whether the IMU has reached the end of both scans.
ImuReaches_One(e) == lastImu >= e[1] \/ lastImu >= e[2]   \* mutated
ImuReaches(e) == lastImu >= e[1] /\ lastImu >= e[2]

\* How many IMU messages go with scans that end at e.
Gathered(e) ==
    LET end == Larger(e)
        takes(k) == imu[k] <= end /\ \A i \in 1..(k - 1) : imu[i] < end
    IN  IF imu[1] >= end THEN 0 ELSE Max({k \in 1..Len(imu) : takes(k)})

-----------------------------------------------------------------------------
(* ImuProcess and main()                                                   *)

\* Initialisation counts IMU messages.
InitProcess(v) ==
    /\ needInit
    /\ initIter' = initIter + Len(v)
    /\ needInit' = (initIter + Len(v) <= MaxInit)
    /\ carried' = v[Len(v)]
    /\ predicted' = 0
    /\ UNCHANGED <<lastEnd, feats, undistorts>>

\* The time the filter is propagated by IMU messages v up to end.
Step_Whole(head, tail) == IF tail < lastEnd THEN 0 ELSE tail - head   \* mutated
Step(head, tail) ==
    IF tail < lastEnd THEN 0
    ELSE tail - (IF head < lastEnd THEN lastEnd ELSE head)
Distance(a, b) == IF a > b THEN a - b ELSE b - a
Propagation(v, end) ==
    LET w == <<carried>> \o v
        upTo[i \in 0..Len(v)] == IF i = 0 THEN 0 ELSE upTo[i - 1] + Step(w[i], w[i + 1])
    IN  upTo[Len(v)] + Distance(end, w[Len(w)])

\* Undistort stops before it assigns its result if a cloud has no points.
Undistort(v, n) ==
    /\ ~needInit
    /\ predicted' = Propagation(v, Larger(PairedEnds))
    /\ lastEnd' = Larger(PairedEnds)
    /\ carried' = v[Len(v)]
    /\ undistorts' = undistorts + 1
    /\ \/ /\ \E l \in Lidars : Paired[l].points = 0
          /\ feats' = feats
       \/ /\ \A l \in Lidars : Paired[l].points > 0
          /\ \E k \in DownSizes : /\ k <= Paired[1].points + Paired[2].points
                                  /\ feats' = [bundle |-> n, size |-> k]
    /\ UNCHANGED <<initIter, needInit>>

\* Process() returns at once when the bundle has no IMU message.
Process(v, n) ==
    \/ v = <<>> /\ predicted' = 0
                /\ UNCHANGED <<initIter, needInit, carried, lastEnd, feats, undistorts>>
    \/ v # <<>> /\ (InitProcess(v) \/ Undistort(v, n))

\* The rest of the loop: skip the scan, build the map, or update and publish.
Register(n) ==
    \/ /\ feats'.size = 0 \/ (map /\ feats'.size < 5) \/ (~map /\ feats'.size <= 5)
       /\ UNCHANGED <<map, odometry>>
    \/ /\ ~map /\ feats'.size > 5
       /\ map' = TRUE
       /\ UNCHANGED odometry
    \/ /\ map /\ feats'.size >= 5
       /\ odometry' = [bundle |-> n, cloud |-> feats'.bundle, stamp |-> Larger(ends')]
       /\ UNCHANGED map

\* One scan of each lidar is taken from the buffers.
PopScans == [l \in Lidars |-> Tail(Kept(l))]

-----------------------------------------------------------------------------
(* The loop                                                                *)

\* sync_packages() returns false, after the unpaired scans are dropped.
SyncFindsNoPair_Keeps == ~CanPair /\ UNCHANGED vars   \* mutated
SyncFindsNoPair ==
    /\ ~CanPair
    /\ IF BuffersReady
       THEN DropUnpaired /\ queue' = [l \in Lidars |-> Kept(l)]
       ELSE UNCHANGED <<dropped, queue>>
    /\ UNCHANGED <<lastStamp, started, imu, lastImu, restarts, pairing, filter, history, lengths>>

\* sync_packages() returns false: a pair is chosen and waits for the IMU.
SyncAwaitsImu ==
    /\ CanPair /\ ~ImuReaches(PairedEnds)
    /\ DropUnpaired /\ Push
    /\ queue' = [l \in Lidars |-> Kept(l)]
    /\ pushed' = TRUE
    /\ UNCHANGED <<lastStamp, started, imu, lastImu, restarts, filter, history>>

\* sync_packages() returns true and the loop uses the bundle.
SyncBundles ==
    /\ CanPair /\ ImuReaches(PairedEnds)
    /\ DropUnpaired /\ Push
    /\ queue' = PopScans
    /\ pushed' = FALSE
    /\ LET k == Gathered(PairedEnds)
           n == bundles + 1
       IN  /\ fed' = SubSeq(imu, 1, k)
           /\ imu' = From(imu, k)
           /\ bundles' = n
           /\ closed' = Larger(PairedEnds)
           /\ Process(SubSeq(imu, 1, k), n)
           /\ Register(n)
    /\ UNCHANGED <<lastStamp, started, lastImu, restarts>>

Loop == SyncFindsNoPair \/ SyncAwaitsImu \/ SyncBundles
Next == (\E l \in Lidars : ScanArrives(l)) \/ ImuArrives \/ Loop

\* The loop runs until the node is stopped, and the IMU keeps sending.
Spec == Init /\ [][Next]_vars
FairSpec == Spec /\ WF_vars(Loop) /\ WF_vars(ImuArrives)
=============================================================================
