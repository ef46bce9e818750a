# TLA+ models of the AGILEX workspace

The repository is the ROS workspace of a mobile robot: drivers, lidar-inertial
odometry with two Livox lidars (`lio_ws`), and a recorder of synchronised colour,
depth and odometry (`rgbd_capture`). Modelled are the two parts that the workspace
adds itself, the recorder (three modules) and the adapted odometry node; the two
places below them where threads share memory, the map's rebuild thread and the
driver's packet rings; and driving from the keyboard. `M` below abbreviates
`lio_ws/src/FAST_LIO_MULTI/src/`.

## The system

    lidars, IMU --(topics)--> odometry node --/lio/odometry--+
    camera -------------------------------------(images)-----+--> recorder --> bag --> check, export

| component | state | operations | interacts by |
| --- | --- | --- | --- |
| frame engine, `rgbd_capture/core.py` | image, CameraInfo and odometry deques, pending pairs, next rate slot, accepted geometry | `ingest`, `_pair`, `_make_group`, `drain` | called by `record()` with each message; writes to the bag |
| `record()`, `capture.py` | event queue, byte count, two events, a flag, deadlines | `callback` on rospy's threads, main loop, shutdown, verdict | queue and shared dictionary; signals; the clock |
| recording files, `capture.py`, `raw_recording.py` | the files under one output name | reserve, record, merge, validate, rename, unlink | the file system; a child `rosbag record`; later runs |
| validator and export, `capture.py` | none | `check_bag`, export | reads the final bag |
| odometry node, `M/laserMapping_bundle.cpp`, `M/IMU_Processing.hpp` | scan and IMU buffers, the pair waiting, filter times, cloud, map | three subscriptions, `sync_packages`, `Process`, main loop | topics; one thread |
| ikd-Tree, `lio_ws/.../ikd-Tree` | tree, rebuild pointer, operation log | insert, delete, search, background rebuild | two threads and six mutexes |
| Livox driver, `src/livox_ros_driver2` | one ring per lidar, semaphore | packet callbacks, frame assembly, distribution | SDK threads and a publishing thread |
| sensor relay, `lio_ws/src/agilex_lio` | none | rename topics and frames | topics |
| keyboard control, `src/robot_ros/src/keyboard_control.py` | the running motion thread | keys, emergency stop | velocity topic |
| waypoint panel, `src/navigation/navi_multi_goals_pub` | goal list and index, arrival flag | start, cancel, status callback | action topics |
| chassis driver, `scout_ros`, `ugv_sdk` | state copies under locks | CAN receive, publish, velocity command | CAN, topics |

The rest is vendored (Livox SDK, RoboSense and RealSense drivers, gmapping, rf2o),
configuration, or scripts that `rgbd_capture` replaces. `PROJECT.json` lists every
part with its status, and the hazards of each at their lines.

What is hard here: callback threads that run during the shutdown of the recorder;
deadlines that must pass while messages keep arriving; a crash between two renames;
data trimmed by age that a queued pair still needs; two sensor streams that start at
different times, lose messages and go back in time; state that an early return leaves
from the previous scan; a subtree that is replaced while it is changed and searched;
rings and a semaphore shared without a lock; threads that overlap on one publisher.

What makes the parts correct: no group is interpolated across an odometry sample and no pair is
used twice; every pair is resolved and every call and recording ends; bytes are accounted for
exactly; a name that says "complete" holds a validated bag; two lidars are paired whenever they
can be; the windows of bundles overlap no more than the scans do; an IMU message belongs to one
bundle, and the filter is propagated over each interval once; a rebuild of the map is invisible
and ends; each ring is a queue and no wake-up is lost; the robot rests when no motion is left.

## Modules

| module | code | content |
| --- | --- | --- |
| `FrameLog` | | abstract: a bag as an append-only log of odometry and groups |
| `CaptureEngine` | `core.py` class `Engine`; poll and final drain of `capture.py` | the frame engine |
| `CaptureEngineProps` | `check_bag` | the validator as an operator; properties; the refinement of `FrameLog` |
| `CaptureEngineProofs`, `CaptureBagProofs` | | theorems about the odometry the engine keeps; about images, pairs and the bag |
| `CaptureQueue`, `CaptureQueueProps`, `CaptureQueueProofs` | `record()` | threads, queue, shutdown, verdict |
| `CaptureFiles`, `CaptureFilesProps`, `CaptureFilesProofs` | `record()`, `raw_recording.py` | files, failures, crashes, later runs |
| `LidarBundle`, `LidarBundleProps`, `LidarBundleProofs` | `laserMapping_bundle.cpp`, `IMU_Processing.hpp` | the odometry node between its callbacks and its output |
| `IkdRebuild`, `IkdRebuildProps`, `IkdRebuildProofs` | `ikd_Tree.cpp` | the map, the odometry thread and its parallel searches, the rebuild thread |
| `PacketQueue` | | abstract: a bounded queue of packets |
| `LivoxRing`, `LivoxRingProps`, `LivoxRingProofs` | `ldq.cpp`, `ldq.h`, `lds.cpp`, `lddc.cpp`, `driver_node.cpp`, `semaphore.cpp` | rings, semaphore and the exit of the poll thread; the refinement of `PacketQueue` |
| `KeyboardControl`, `KeyboardControlProps`, `KeyboardControlProofs` | `keyboard_control.py` | keys, motion threads, the topic |
| `MC*` | | constants for TLC |

**CaptureEngine.** Each `Ingest*` action is one call of `Engine.ingest` up to the
pairing it ends with; `Pair*` are the passes of the loop of `_pair` and `Drain*` those
of `drain`, so that a call is a sequence of steps and must be shown to end. No other
call can begin meanwhile, because the engine is used by the main thread only. An image
is its stamp and, for a depth image, whether its pixels are usable; the geometry from
body to camera is an opaque value; a group is its index, images, bracket, geometry and
calibration. `tf` is what the messages of /tf have said of the edge from world to body: the
engine only writes them. `odomLog`, `kept` and `paired` are history. `CheckBag` (in
`CaptureEngineProps`) is `check_bag` on the bag so far: increasing odometry, the edge, the
geometry, the order and indexes of groups, and what it recomputes of each group. A bag
with the edge has the topic /tf, one with a geometry /tf_static. It reads the bag in the order
written, which assumes that the system clock that stamps the records does not step back.

**CaptureQueue.** A callback is split where another thread can see it: the unlocked read of
`accepting_images`, the locked accounting, `put_nowait`, the locked refund and `fatal.set`. The
main thread is split at the look at `fatal` (`Look`, or `CheckRaises`), the rest of the top of the
loop (`Decide`: the stop, the tail, the break), the queue read, the ingest, the two
unsubscriptions, the raw stop, the drain and the close. So a callback may refuse a message between
the only look at `fatal` and the break that ends the loop (`LastPass`). The engine is reduced to
what it does to the loop: a frame may be completed, or an exception raised. A callback that has
already been called when a subscription closes still runs.

**CaptureFiles.** A file is identified by its writer and kind, so a rename moves a name and a
crash leaves everything where it is; the child recorder survives and closes its bag later. Every
file operation of `record`, `RawRecording` and `merge_bags` that names a file is a step; any of
those that may fail, does. The runs and theorems have `Concurrent = FALSE`: two recorders of one
name do not overlap. That leaves out the race between the check that no bag exists
(`capture.py:94`) and the rename, which needs a second writer of the final name.

**LidarBundle.** A callback is one action, and one pass of the main loop is one of three:
`SyncFindsNoPair` and `SyncAwaitsImu` when `sync_packages()` returns false, and `SyncBundles` when
it returns true and the loop goes on through `Process`, the "skip this scan" tests, the first
build of the map and the odometry message. The passes are atomic because `ros::spinOnce()` runs
the callbacks on the same thread. A scan is its stamp, the offset of its last point and its number
of points; preprocessing may leave none. The stamp of a scan is at least `MinGap` after the last
of its lidar, which may be 0 (equal stamps), and its offset is any of `Spans`: a scan may be
longer than the time to the next, as a frame that the driver closes late is. A stamp is smaller
than the last only where a clock goes back (`MaxRestarts`). IMU stamps increase otherwise.
`longest` and `spaced` are history: the longest scan used of a lidar, and whether each scan was
used no sooner after the last than the longest so far. The mean scan length is kept in whole
ticks, rounded down by each update as the code's is rounded in doubles. `Garbage` holds the
possible contents of `last_lidar_end_time_`, read before it is assigned.

**IkdRebuild.** The tree is a root, the father of one subtree and that subtree; the root or the
subtree may be rebuilt. A node is the point it holds; `valid` are the points whose node is not
`point_deleted`, and `push` is a deletion that the subtree has yet to be told: by its father
(`"loose"`, whose `working_flag` is clear, or its own) or by a node above (`"marked"`). `Map`,
what a search finds, is `valid` less what such a deletion covers. Ranges are those of the valid
points. An operation may leave `push` in several states, as the shape of the tree decides which
node it marks last (`Outcomes`). A step ends where a thread takes or gives up one of the mutexes
or reads `Rebuild_Ptr` without one, so an operation is several steps of the odometry thread, a
rebuild eleven of the rebuild thread, and searches of parallel threads go between. Where the code
pushes the deletion down into a subtree that is being rebuilt, it waits for the lock and logs it
(`AwaitPush`, `Push_Down`); a node above needs no lock to tell the father (`TellFather`).
`flatten` copies nodes by their own flags: of the root, where it begins with its own `Push_Down`,
the map; of a subtree, what that has been told, so that a deletion still to be pushed is not in
the copy. `Swap` ends with `Update` of the ancestors (`ikd_Tree.cpp`, 351 to 362), which
recomputes the father's `tree_deleted` from the new subtree: unless its `working_flag` is set or a
node above has something to tell it, that undoes the deletion, and any deleted node may come back
(`Undoes`). Balance only decides what a rebuild may be asked for. The history variables say what
the code should have: `want` is the map if each call were one step; `exact`, that this rebuild
began with an empty log, found points, and overtook no operation that neither the copy nor the log
has; `sound`, that every swap so far was exact and undid no deletion. Two kinds of states have no
continuation in the code and end the odometry thread (`crashed`): a node that was swapped for null
and is read (`ikd_Tree.cpp:652`, and `Push_Down` after its wait), and a request withdrawn while it
is worked on (1050).

**LivoxRing.** A step is one access to something the writer (`PushLidarData`) and the reader
(the poll thread through `DistributePointCloudData`) share: an index, a slot, the
semaphore, the exit flag. A slot that is being written has the content `Torn`. The indexes
are unsigned and wrap at `Wrap`, which is 2^32 in the code and any multiple of the size here.

**KeyboardControl.** A motion key starts a thread, and several may run at once; each sends
until its end time and then once zero. All share one publisher with a queue of one, where a
message replaces the one before it; the chassis obeys the last that came out. Time is counted
in periods of the rate, and a thread that may go on does so within `Lag`. The threads share one
`rospy.Rate`, whose `sleep` may return at once when another thread has just used it: that a thread
sends again a period after its last message is an upper bound, and the properties need no other.

Definitions whose comment ends in "mutated" are not part of a model: each is a plausible
mistake in the definition after it, kept to show that the properties can fail.

## Runs

| run | question | bounds |
| --- | --- | --- |
| `capture_engine` | does trimming, waiting and dropping keep the right odometry, when does `check_bag` reject what was written, and is the bag an append-only log? (`TypeOK`, `BagValidates`, `BracketTight`, `TrimKeepsBrackets`, `WaitBounded`, `WritesFrameLog`) | 2 pairs, any subset of 5 odometry times with room for 3 samples, 2 calibrations, 2 geometries, a pose offset, arrivals stepping back by 1 |
| `capture_liveness` | are images used once, pairs thinned by slot and resolved; do calls return? (`UsedOnce`, `FirstOfSlotKept`, `Resolved`, `CallsReturn`) | 3 pairs, two of them in one slot after an empty one |
| `capture_queue` | are bytes, late images and last messages right; does a recording end, and fail when it must? (`TypeOK`, `BytesBalance`, `FewLateImages`, `QueuedIsIngested`, `RefusalFails`, `StopEnds`, `StallEnds`) | 2 threads, 2 messages each, room for 2 messages or 4 bytes |
| `capture_overflow` | **violated**: `OverflowMarksIncomplete` | as `capture_queue` |
| `capture_files` | what is on the disk after any history? (`BagIsValid`, `NothingLost`, `LeavesOnlyBag`) | 3 runs of the recorder, raw recording |
| `lidar_pairing` | are pairs, windows, the IMU split and the propagation right? (`TypeOK`, `NoPairMissed`, `WindowsApart`, `ImuOnTime`, `PropagatesOnce`) | up to 3 scans of each lidar at any offset, of length 3 with a time of at least 2 between them, lost scans, empty scans, IMU gaps up to 2 |
| `lidar_restart` | is no pair held for ever? (`PairsAreConsumed`) | up to 2 scans per lidar, with equal stamps, one clock going back |
| `lidar_new_scans` | **violated**: `KeepsNewScans` | as `lidar_restart` |
| `ikd_rebuild` | is a rebuild invisible, apart from searches, and finished; does a call wait for ever? (`TypeOK`, `LogIsExact`, `MapIsWanted`, `SearchesApart`, `RebuildEnds`, `CallsEnd`) | 3 points, 2 of them in the subtree and in one voxel, 2 searching threads, 3 calls |
| `ikd_lost` | **violated**: `OperationsKept` | as `ikd_rebuild` |
| `livox_ring` | is each ring a queue, is no wake-up lost, can the thread be joined? (`TypeOK`, `SlotsApart`, `RingsAreQueues`, `ArrivalEmptiesRing`, `ExitEnds`) | 2 lidars, rings of 2 slots, indexes modulo 4, one of the lidars configured late; packets without end |
| `keyboard` | does the robot rest when it should, and soon? (`RestWhenIdle`, `MovesBriefly`) | 3 motions of 2 periods, a lag of 1, keys at any of 4 times |

Why these bounds are enough to be interesting. Two pairs suffice for one to wait behind another.
Odometry at the times 1, 2, 5 is trimmed by age, and at 2, 4, 5, 6, with room for three, by number
while the oldest is still within the window. Calibrations and geometries are symmetric: no
definition tells two of them apart. The edge of /tf is good or missing in the run (`TfKinds`); a
malformed one is covered by the theorem `BagsValidate`. Three images are the least for two in one
slot after a gap. A queue with room for two and messages of two sizes overflows by count and by
bytes. Three recorders meet every leftover of a predecessor that met one itself. In three scans
the first bundle only initialises the IMU, the second is undistorted and builds the map, and the
third is registered. With three, a dropped scan still has scans before and after it. Three calls
let an operation run while a rebuild that an earlier one asked for copies, one that replays, and
one that has just swapped; two points in one voxel give the deletion with the addition after it.
With two slots and indexes modulo four a ring fills, empties and wraps twice. Three motions let
two end while a third is at any point of its loop.

In the lidar runs every scan with points has one length, so the mean length is used for
scans without points and not for short ones; scans of any lengths are covered by the theorems of
`LidarBundle`, which ask nothing of stamps and lengths.

Deadlock is checked in the runs of the recorder and of the odometry node, where a part that has
finished stutters explicitly. It is not in the others (`CHECK_DEADLOCK FALSE`): the map is at rest
when its calls are used up, the driver when its thread has been joined, and the
keyboard after the last key.

Fairness. `CaptureEngine` assumes that a call in progress continues and that the recorder polls or
finishes: both are the main thread. `CaptureQueue` assumes the main thread and the clock only;
callbacks and signals need not come. `LidarBundle` assumes the main loop, which never blocks, and
that the IMU keeps sending; lidars need not. `IkdRebuild` assumes that neither thread is stopped
for good and that each search goes on when its locks are free; the weak fairness of a thread is
over all its steps, so waiting for a lock that is taken again and again is not excluded by it.
`LivoxRing` assumes the writer in the middle of a packet, the poll thread and the destructor; that
packets come, and that the reader is not for ever at one ring that is refilled, are premises of
its properties where they are needed (`KeepsUp`). What a property leaves out: `LeavesOnlyBag` says
nothing of a recorder that was killed (`NothingLost` and `BagIsValid` do), and `PropagatesOnce`
leaves out the first bundle, which reads `last_lidar_end_time_` before it is assigned. The bounds
on the inputs cut the future off, so a liveness property says what happens once they cease;
`LivoxRing` alone needs no such bound.

## What the violated properties show

`capture_overflow`: the last look at `fatal` is at `capture.py:184`, in the pass that ends the
loop at 195, and messages can be refused until the subscriptions are closed at 225; the recording
passes although its overflow error says "recording marked incomplete".

`lidar_new_scans`: a clock that goes back clears the buffers (`laserMapping_bundle.cpp:278`)
but not `lidar_pushed`, and the bundle of the old scan then removes the new one (434).

`ikd_lost`: `ikd_Tree.cpp` promises to "Rebuild and update missed operations", and an operation
can be missed: it looks at `Rebuild_Ptr` once, so an addition whose deletion asked for the rebuild
of the root is neither in the copy nor in the log; a rebuild that finds no valid point does not read
its log; and `rebuild_flag` falls after the lock is given up, so an operation logs itself
for a rebuild that is over and is replayed by the next. Besides, a swap may undo a deletion
that was still to be pushed down (351 to 362). `MapIsWanted` and `LogIsExact` say
that nothing else goes wrong.

Known from the code, without a run:

- A recorder that fails to reserve the name (`capture.py:163`) renames, on its error path
  (277), the file of the recorder that holds it. The runs assume, with `Concurrent = FALSE`,
  that two recorders of one name do not overlap.
- A message refused between the look at `fatal` (184) and the break (195) of the last pass leaves
  the recording successful although the loop was still running; `RefusalFails` says that every
  earlier one fails it.
- `check_bag` rejects a bag whose world-to-body edge never came, or whose geometry changed after the
  last group; the engine does not notice either (`BagValidates`).
- Scans that overlap, as those of a frame that the driver closes late, make bundles overlap, and the
  odometry may then be stamped earlier than the message before. `WindowsApart` and
  `OdometryGoesForward` say that nothing else does.
- When a cloud is empty (`IMU_Processing.hpp:394`, 431) or a bundle has no IMU message (464),
  the previous cloud is registered and published under a new stamp, where "No point, skip this
  scan!" intends to skip. `LidarBundle` has it (`odometry.cloud`), no property forbids it.
- "Space" stops at once according to `keyboard_control.py:9`; it sends one zero (97) while the
  motion thread goes on. `MovesBriefly` bounds how long.
- `q` and Ctrl+C may end the process before its last message has left; Ctrl+C sends none. The
  properties are about a process that runs.
- The keyboard publishes at 20 Hz, where `agilex_base.hpp:91` asks for at least 50.

## Proofs

All are checked by TLAPS, for every value of the constants under the named assumptions
of the modules. The step lemmas have one step per action, or one lemma per action where
an action disturbs much.

*Engine* (`CaptureEngineProofs`). `BracketTight` is not inductive: a later sample could fall
into the bracket of an older group, and the sample found in `odoms` need not be the neighbour
in the bag. `OdomInv` adds that the written odometry increases strictly, that `odoms` is a
suffix of it and that each sample cut off is older than the window or beyond the count
limit; `FramesInv` adds that each group lies between two neighbours of `odomLog`.
`OdometryInvariant` proves these together; `BracketsAreTight` and `TrimmingIsSafe` follow.
`WaitIsBounded` needs `WaitInv`: `drain` looks at the head of `pending` alone, and a pair behind it
is older by no more than `Jitter`, because each was paired at the wall time of a call.

*Bag* (`CaptureBagProofs`). Images move one way, from a deque into a pending pair and from there
into a group. `BagInvariant` states it for colour stamps, which increase along that path, for
depth stamps, which stay distinct, and for groups, which are numbered from zero under one
geometry. `BagsValidate` compares it with each condition of `CheckBag`, and says which two of them
the engine leaves open; `ImagesAreUsedOnce` counts the pairs by a bijection; `FirstOfEachSlotKept`
rests on lemmas about `\div`; `ImplementsFrameLog` maps each step to an append or a stutter.
`CallsTerminate` is what `CallsReturn` rests on: some guard of a call in progress always holds (a
nearest depth image exists, `NearestExists`; a complete pair has a bracket), and `Work`, a natural
number, shrinks with each step.

*Recorder* (`CaptureQueueProofs`). The bytes never exceed the limit because only the locked step
adds. `BytesBalanced` rests on what the sums of the community modules do when a message is
appended, taken or moved: they are folds that choose an order, so that the sum over a set is that
of its elements in any order is proved first. `Doomed`, that a refusal has happened and the
recording has failed or is at a point of the loop from which it must come to the look at `fatal`
again, is kept by every step (only an exception leaves the loop otherwise): `RefusalNeverPasses`.
It leaves out `LastPass`, where a refusal is not seen, and which the violated
`OverflowMarksIncomplete` shows. `TailInv`, that the loop is left without an error only after its
tail, gives `TailIsCollected`. `StopComesCloser` and `StallComesCloser` are what `StopEnds` and
`StallEnds` rest on: a stage and what is left of it, in passes of the main thread or in time
(`StopRest`, `StallRest`), fall with each step the fairness asks for and rise with none. `TimeInv`
is needed twice: the loop is never at its top, without a stop, with a stall it has already
noticed, and the bound of the clock is never what ends a wait. One step is left out of both
measures: the drain after the loop takes a message off the queue, which ends when no callback puts
another. `LateImagesBounded` needs `LateInv`: once images are refused, those of a stream in the
queue and its callback still in flight are at most one, because a callback that starts later is
turned away. `QueuedMessagesIngested` needs `DrainInv`: when the engine is drained without failure
every message still queued is late.

*Files* (`CaptureFilesProofs`). All assume `~Concurrent`. `OneInv`: one recorder runs at a time
and no bag exists while it has not settled. `ValidInv`: the candidate of an unfailed
recorder about to settle was validated. For `RecordingsAreKept`, `KeptInv` follows one
recorder's files through its own steps and those of its successors; for `OnlyBagIsLeft`, `PlaceInv`
is a table of the names in use at each point of the program.

*Keyboard* (`KeyboardControlProofs`). `OnTime` bounds, for each place in its loop, how late a thread
may be; while the robot moves or a velocity is on its way, some thread is alive and some
motion ended at most three lags ago (`Recent`).

*Map* (`IkdRebuildProofs`). The search counter equals the searches counted, and is -1 while the
rebuild thread has closed the tree, which it can be only while the request stands that a search
must see. `SearchesApart` follows for any number of searching threads. `Shape` adds the types and
what a type alone does not say: an operation adds one point or deletes a set, who holds which lock
where, and what may be asked for while an operation is on its way. `LogIsExact` and `MapIsWanted`
are not inductive: the first says nothing before the copy is made, the second nothing within a
call. `After` is what a sequence of operations makes of a set; `AfterConcat` composes it.
`ExactInv` says that in an exact rebuild the log is empty when the copy is made and when the
subtrees are swapped, and that no unlogged operation is under way in what was copied; `LogInv`,
that the copy after the pending operations is the old subtree by its own flags (the map, for the
root), in the region that is rebuilt: an operation in the subtree is logged by its effect on
those, and a deletion pushed into it as a deletion of all its points. `SizeInv` says that a
subtree that is asked for has nodes. `WantInv` says that the map after the operations still to do
is the one wanted, and that a deletion that waits for the subtree has reached all else.
`SwapKeepsMap` puts them together: nothing is pending at the swap, so the new subtree is the old
one, and what the father has yet to tell hides the same points of it, unless `Update` undoes that,
which `sound` records. `NobodyWaitsInACircle` names, for each kind of thread, the states in which
it waits (`OdometryWaits`, `SearchWaits`, `RebuildWaits`) and shows that one that does not wait
must let it go on; `HolderInv` says who holds the mutex and when a box search blocks. That a
thread that waits cannot move is proved (`WaitingStands`); that one that does not wait can is
about ENABLED, and TLC found it on the bounds of the run.

*Livox* (`LivoxRingProofs`). The indexes are unsigned, so the invariants are about the distance
from the read to the write index modulo `Wrap`. Two indexes less than the size apart have
different slots because the size divides `Wrap`; with `WriterInv` and `ReaderInv` this gives
`SlotsApart` and the refinement of the queue. `NoWakeUpLost` follows a packet: until its ring is
empty the semaphore counts, the writer is about to signal, or the reader has the ring still
before it (`OnItsWay`). The exit needs both parts of what `ExitEnds` says. `ExitWakes`: after the
request the next packet of any lidar wakes the poll thread for good, because a packet stored while
the reader waits stays in its ring (`Woken`). `ExitComesCloser`: once signalled, the steps of that
thread to its end grow fewer (`ToDo`), but for the copies out of a ring that the writer refills.

*Odometry node* (`LidarBundleProofs`). The provers have no induction schema, so the module begins
with the least-number principle, from which follow that the function which the dropping loop
defines exists (`Descent`: it descends in the scans left) and that the sum over the IMU messages
telescopes (`RunningSum`). `OrderlyInvariant` is `TypeOK`, `LengthInv` (neither the mean length
nor any window exceeds the longest scan used, whatever the clocks do) and, while no clock has gone
back, `Orderly`: scans that wait are in order (`Forward`), none of them begins before the last one
used (`WindowInv`), the IMU messages that wait are sorted and not before the end of the last
bundle (`ImuInv`), the filter stands at the end of a bundle (`FilterInv`), and what was dropped is
earlier than all that may still come from the other lidar (`DropInv`). `PInv` adds that a pair
that waits is at the heads of the buffers and, while scans are used no sooner than the longest is
long (`spaced`), that no odometry is stamped after the last bundle. `WaitingPairIsPopped` is
`KeepsNewScans` under the hypothesis without which it is violated. `OdometryGoesForward` has
`spaced` as its hypothesis: scans that overlap are possible, and can, like a clock that goes back,
make the stamps go back. That the stamps increase strictly cannot be shown with times in ticks,
where the mean length may be rounded to zero. `PairComesCloser` is what `PairsAreConsumed` rests
on, and holds with clocks that have gone back, as long as none does in the step: `PairRest` is
where the pair is and the time the IMU has still to cover, and `WaitInv` says that a pair is
chosen only when IMU messages wait, of which the newest is `last_timestamp_imu`, so that a buffer
without one leaves room for the next. Proving the types showed that `predicted` may be negative
after a clock has gone back.

Only model-checked: the violated properties, and everything under fairness, which is out of the
provers' reach. What these properties rest on is proved, each time that nothing undoes the progress
that fairness brings:

| property | proved of it |
|---|---|
| `RefusalFails` | a recording that refused a message before its last look at `fatal` does not pass (`RefusalNeverPasses`) |
| `StopEnds`, `StallEnds` | a measure of what is left (`StopComesCloser`, `StallComesCloser`) |
| `CallsReturn` | a step is possible and leaves less to do (`CallsTerminate`) |
| `Resolved` | no call that returns leaves a pair that has waited too long (`WaitIsBounded`) |
| `RebuildEnds`, `CallsEnd` | nobody waits in a circle (`NobodyWaitsInACircle`) |
| `ArrivalEmptiesRing` | no wake-up is lost (`NoWakeUpLost`) |
| `ExitEnds` | the thread is woken, and then has less to do (`ExitWakes`, `ExitComesCloser`) |
| `PairsAreConsumed` | the wait for the IMU grows shorter (`PairComesCloser`) |

What remains to TLC is the step from a measure that falls to an end that is reached: it takes the
fairness conditions, that the actions they name are ENABLED, and induction over the measure.

## Not modelled

- Recorder: exceptions of the bag writer and of the disk inside the engine; the contents of
  images, poses, TF chains and reports; the export, sequential output with a marker file.
- Odometry node: equal stamps within the IMU stream, the single lidar branch, the Kalman filter,
  the registration and the other synchronisation methods, which the launch files do not use.
- Map: the calls that the odometry node does not make, the geometry of boxes, and what a search
  that holds no lock reads from deleted nodes: the box search that starts at the root (633), and
  `Nearest_Search`, which reads the boxes of both sons (1300, 1301) before it looks at
  `Rebuild_Ptr`. `SearchesApart` is about the nodes that a search enters.
- Livox driver: the assembly of frames by `pub_handler.cpp` (`CheckTimer`, 164 to 227), the IMU
  queue, a deque under a mutex, and the configuration of a lidar, where enabling the IMU is not
  repeated after a timeout (`livox_lidar_callback.cpp:289`).
- Waypoint panel. What it does follows from the action statuses that move_base publishes, and
  move_base is not in the repository, so a model would be of guessed inputs. Seen while reading: a
  goal that is pending (0) counts as arrived; an aborted entry (4) hides later ones; an arrival is
  not seen when no active status came before; a cycle over no poses divides by zero
  (`multi_navi_goal_panel.cpp:512`).
- Vendored drivers, the SDK, mapping and navigation: protocol, device I/O and numeric code. They
  are most of the repository's lines.

## Plan

1. A measure for `RebuildEnds`, where the log of a rebuild may grow while it is replayed.
2. Frame assembly of the Livox driver, with packets lost at the boundary of a frame.
3. A composition of `LidarBundle` and `CaptureEngine`: the stamps the node publishes as the
   odometry the engine ingests, for the fatal backward step of `core.py:169`.
4. The waypoint panel, should the repository say which statuses it is sent.
