------------------------- MODULE LidarBundleProps -------------------------
(* What the odometry node promises: a step of the node is checked, and so  *)
(* are the relations between its buffers, the filter and what it publishes.*)
EXTENDS LidarBundle

Pair(S) == [Lidars -> S]
ClocksForward == restarts = 0   \* no source's clock has gone back
Closes == bundles' # bundles

\* The type of every variable, as the callbacks and the loop assign it.
TypeOK ==
    /\ queue \in Pair(Seq(Scan)) /\ meas \in Pair(Scan \union {NoScan})
    /\ lastStamp \in Pair(0..MaxTime) /\ ends \in Pair(0..(MaxTime + MaxSpan))
    /\ imu \in Seq(1..Horizon) /\ fed \in Seq(1..Horizon)
    /\ lastImu \in -1..Horizon /\ carried \in 0..Horizon
    /\ mean \in Pair(0..MaxSpan) /\ num \in Pair(Nat)
    /\ {started, pushed, needInit, map} \subseteq BOOLEAN
    /\ {initIter, bundles, undistorts, restarts} \subseteq Nat /\ predicted \in Int
    /\ {closed, odometry.stamp} \subseteq 0..(MaxTime + MaxSpan)
    /\ lastEnd \in Garbage \union 0..(MaxTime + MaxSpan)
    /\ feats \in [bundle: 0..bundles, size: DownSizes \union {0}]
    /\ odometry \in [bundle: 0..bundles, cloud: 0..bundles, stamp: Nat]
    /\ longest \in Pair(0..MaxSpan) /\ spaced \in BOOLEAN
    /\ dropped \in Pair(SUBSET (1..MaxTime))

\* A scan that sync_packages() drops as unpaired has no partner: no scan of
\* the other lidar near enough is dropped too, or arrives later.
Near(a, b) == a - b <= MaxSkew /\ b - a <= MaxSkew
Waiting(l) == {queue[l][i].stamp : i \in 1..Len(queue[l])}
NoPairMissed ==
    ClocksForward => \A l \in Lidars : \A a \in dropped[l],
        b \in dropped[Other(l)] \union Waiting(Other(l)) : ~Near(a, b)

\* The time windows of a lidar's bundles overlap only if its scans do: no window is
\* longer than the longest scan used so far, though a scan with few points, or a short
\* one, is given the mean length (laserMapping_bundle.cpp:364-382), and no scan that
\* waits begins before the last one used.
WindowsApart ==
    \A l \in Lidars :
        /\ ends[l] <= meas[l].stamp + longest[l]
        /\ ClocksForward => \A i \in 1..Len(queue[l]) : meas[l].stamp <= queue[l][i].stamp

\* An IMU message is given to the bundle it belongs to: when sync_packages()
\* returns, what it took is no later than the bundle's end, and nothing
\* earlier is left or can still arrive.
ImuOnTime ==
    ClocksForward => /\ \A i \in 1..Len(fed) : fed[i] <= closed
                     /\ \A i \in 1..Len(imu) : imu[i] >= closed

\* From one undistorted bundle to the next the filter is propagated by exactly
\* the time between their ends, whatever IMU messages were lost, whatever
\* bundles had none, and whatever last_imu_ is carried over.
PropagatesOnce ==
    [][(undistorts' # undistorts /\ undistorts > 0 /\ ClocksForward)
          => predicted' = lastEnd' - lastEnd]_vars

\* sync_packages() does not hold a pair of scans for ever: while the IMU sends,
\* both buffers are never full for good.
PairsAreConsumed ==
    (\A l \in Lidars : queue[l] # <<>>) ~> (\E l \in Lidars : queue[l] = <<>>)

\* Scans that arrive while a pair waits for the IMU are kept: a bundle takes
\* from the buffers the two scans it was made of (comment in sync_packages()).
KeepsNewScans == [][Closes /\ pushed => \A l \in Lidars : Head(queue[l]) = meas[l]]_vars
=============================================================================
