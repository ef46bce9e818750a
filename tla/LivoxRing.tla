------------------------------ MODULE LivoxRing ------------------------------
(***************************************************************************)
(* How the Livox driver hands packets from the thread that assembles them  *)
(* (Lds::PushLidarData) to the one that publishes them (the poll thread    *)
(* and Lddc::DistributePointCloudData): a ring per lidar, shared without   *)
(* a lock, and a semaphore whose count the writer reads without its lock.  *)
(* The indexes of the ring are unsigned and wrap.                          *)
(*                                                                         *)
(* A step ends at each access to something shared.  Accesses take effect   *)
(* in program order, as the volatile indexes make them on this hardware.   *)
(***************************************************************************)
EXTENDS Integers, Sequences

CONSTANTS
    LidarCount, \* the lidars
    Frames,     \* what the frames of each lidar may hold
    Torn,       \* the contents of a slot while it is being written
    Size, Wrap, \* the slots of a ring, and 2^32
    Sampling    \* the lidars that are configured from the start

ASSUME RingAssumption ==
    /\ LidarCount \in Nat \ {0}
    /\ DOMAIN Frames = 1 .. LidarCount
    /\ \A l \in 1 .. LidarCount : Torn \notin Frames[l]
    /\ Size \in Nat \ {0} /\ Wrap \in Nat /\ Wrap > Size /\ Wrap % Size = 0
    /\ Sampling \subseteq 1 .. LidarCount

Lidars == 1 .. LidarCount

VARIABLES
    slots, wr_idx, rd_idx,  \* storage_packet and the two indexes of each ring
    ready,                  \* the rings that PushLidarData has set up
    connect_state,          \* the lidars in kConnectStateSampling
    count_,                 \* pcd_semaphore_
    request_exit_, signalled, \* RequestExit, and exit_signal_.set_value
    writer, from, packet,   \* where PushLidarData is, its lidar, what it stores
    reader, at, pkg         \* where the poll thread is, its lidar, what it pops

rings   == <<slots, wr_idx, rd_idx, ready>>
wVars   == <<writer, from, packet>>
rVars   == <<reader, at, pkg>>
control == <<connect_state, request_exit_, signalled>>
vars    == <<rings, count_, control, wVars, rVars>>

Init ==
    /\ slots = [l \in Lidars |-> [i \in 0 .. Size - 1 |-> Torn]]
    /\ wr_idx = [l \in Lidars |-> 0] /\ rd_idx = [l \in Lidars |-> 0]
    /\ ready = {} /\ connect_state = Sampling
    /\ count_ = 0 /\ request_exit_ = FALSE /\ signalled = FALSE
    /\ writer = "idle" /\ from = 1 /\ packet = Torn
    /\ reader = "top" /\ at = 1 /\ pkg = <<>>

UsedSize_Signed(l) == wr_idx[l] - rd_idx[l]   \* mutated: the indexes are not unsigned
UsedSize(l) == (wr_idx[l] - rd_idx[l]) % Wrap
QueueIsFull_Late(l) == UsedSize(l) > Size   \* mutated: compares with the size
QueueIsFull(l) == UsedSize(l) > Size - 1
QueueIsEmpty(l) == rd_idx[l] = wr_idx[l]
Slot(idx) == idx % Size
Advance(idx, l) == idx' = [idx EXCEPT ![l] = (@ + 1) % Wrap]

-----------------------------------------------------------------------------
(* PushLidarData, on the thread of PubHandler::RawDataProcess               *)

\* a frame arrives; the first one of a lidar sets its ring up
PushLidarData(l, p) ==
    /\ writer = "idle" /\ from' = l
    /\ ready' = ready \union {l}
    /\ writer' = "full" /\ packet' = p
    /\ UNCHANGED <<slots, wr_idx, rd_idx, count_, control, rVars>>

Store(p) == slots' = [slots EXCEPT ![from][Slot(wr_idx[from])] = p]

\* QueuePushAny: the slot is overwritten, then the index moves
BeginStore ==
    /\ writer = "full" /\ ~QueueIsFull(from) /\ Store(Torn) /\ writer' = "storing"
    /\ UNCHANGED <<wr_idx, rd_idx, ready, count_, control, from, packet, rVars>>
\* a full ring drops the packet, but the reader is still signalled
AfterFull_Quiet == "idle"   \* mutated: a packet that is dropped wakes nobody
AfterFull == "count"
Drop ==
    /\ writer = "full" /\ QueueIsFull(from) /\ writer' = AfterFull
    /\ UNCHANGED <<rings, count_, control, from, packet, rVars>>
EndStore ==
    /\ writer = "storing" /\ Store(packet) /\ writer' = "index"
    /\ UNCHANGED <<wr_idx, rd_idx, ready, count_, control, from, packet, rVars>>
PushIndex ==
    /\ writer = "index" /\ Advance(wr_idx, from) /\ writer' = "empty"
    /\ UNCHANGED <<slots, rd_idx, ready, count_, control, from, packet, rVars>>
WakesReader_First == UsedSize(from) = 1   \* mutated: only the first packet in a ring wakes the reader
WakesReader == ~QueueIsEmpty(from)
CheckEmpty ==
    /\ writer = "empty" /\ writer' = IF WakesReader THEN "count" ELSE "idle"
    /\ UNCHANGED <<rings, count_, control, from, packet, rVars>>

\* the count is read without the lock of the semaphore
MaySignal_Always == TRUE   \* mutated: every packet signals
MaySignal == count_ <= 0
GetCount ==
    /\ writer = "count" /\ writer' = IF MaySignal THEN "signal" ELSE "idle"
    /\ UNCHANGED <<rings, count_, control, from, packet, rVars>>
Signal ==
    /\ writer = "signal" /\ count_' = count_ + 1 /\ writer' = "idle"
    /\ UNCHANGED <<rings, control, from, packet, rVars>>

-----------------------------------------------------------------------------
(* PointCloudDataPollThread                                                 *)

Goto(r) == reader' = r
Top ==
    /\ reader = "top" /\ Goto(IF request_exit_ THEN "future" ELSE "wait")
    /\ UNCHANGED <<rings, count_, control, wVars, at, pkg>>
Wait ==
    /\ reader = "wait" /\ count_ > 0
    /\ count_' = count_ - 1 /\ at' = 1 /\ Goto("lidar")
    /\ UNCHANGED <<rings, control, wVars, pkg>>

\* a lidar that is not yet sampling, or has no ring, is skipped
NextLidar == IF at + 1 \in Lidars THEN Goto("lidar") /\ at' = at + 1
             ELSE Goto("future") /\ at' = at
Selected(l) == l \in connect_state /\ l \in ready
SelectLidar ==
    /\ reader = "lidar"
    /\ IF Selected(at) THEN Goto("poll") /\ at' = at ELSE NextLidar
    /\ UNCHANGED <<rings, count_, control, wVars, pkg>>
Poll ==
    /\ reader = "poll"
    /\ IF ~request_exit_ /\ ~QueueIsEmpty(at) THEN Goto("pop") /\ at' = at ELSE NextLidar
    /\ UNCHANGED <<rings, count_, control, wVars, pkg>>

\* QueuePop copies a slot and moves the index; the empty ring ends the loop
QueuePrePop ==
    /\ reader = "pop"
    /\ IF QueueIsEmpty(at) THEN Goto("poll") /\ UNCHANGED pkg
       ELSE Goto("update") /\ pkg' = <<slots[at][Slot(rd_idx[at])]>>
    /\ UNCHANGED <<rings, count_, control, wVars, at>>
QueuePopUpdate ==
    /\ reader = "update" /\ Advance(rd_idx, at) /\ pkg' = <<>> /\ Goto("pop")
    /\ UNCHANGED <<slots, wr_idx, ready, count_, control, wVars, at>>
CheckFuture ==
    /\ reader = "future" /\ Goto(IF signalled THEN "done" ELSE "top")
    /\ UNCHANGED <<rings, count_, control, wVars, at, pkg>>

-----------------------------------------------------------------------------
(* The rest of the process                                                  *)

\* a callback of the lidar's settings finds the last one answered
StartSampling(l) ==
    /\ l \notin connect_state /\ connect_state' = connect_state \union {l}
    /\ UNCHANGED <<rings, count_, request_exit_, signalled, wVars, rVars>>
RequestExit ==
    /\ ~request_exit_ /\ request_exit_' = TRUE
    /\ UNCHANGED <<rings, count_, connect_state, signalled, wVars, rVars>>
SetExitSignal ==
    /\ request_exit_ /\ ~signalled /\ signalled' = TRUE
    /\ UNCHANGED <<rings, count_, connect_state, request_exit_, wVars, rVars>>

Arrive == \E l \in Lidars : \E p \in Frames[l] : PushLidarData(l, p)
Push == BeginStore \/ Drop \/ EndStore \/ PushIndex \/ CheckEmpty \/ GetCount \/ Signal
PollThread ==
    Top \/ Wait \/ SelectLidar \/ Poll \/ QueuePrePop \/ QueuePopUpdate \/ CheckFuture
Next == \/ Arrive \/ Push \/ PollThread
        \/ (\E l \in Lidars : StartSampling(l)) \/ RequestExit \/ SetExitSignal

Spec == Init /\ [][Next]_vars
\* both threads go on, and so does a destructor that has begun; packets need not come
FairSpec == Spec /\ WF_vars(Push) /\ WF_vars(PollThread) /\ WF_vars(SetExitSignal)
=============================================================================
