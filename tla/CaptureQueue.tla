---------------------------- MODULE CaptureQueue ----------------------------
(***************************************************************************)
(* The concurrency of record() (src/rgbd_capture/capture.py).  One rospy   *)
(* thread per connection runs callback, which accounts for a message's     *)
(* bytes under state_lock and puts it on a bounded queue; the main thread  *)
(* takes messages off the queue and feeds the engine.  After a stop it     *)
(* keeps reading for Wait to collect the odometry tail, then unsubscribes, *)
(* drains the queue and judges the recording.                              *)
(*                                                                         *)
(* A step of a callback ends where another thread can see or change what   *)
(* it has done: the unlocked read of accepting_images, the locked regions, *)
(* put_nowait, fatal.set.  The engine is only what an ingest can do to the *)
(* loop: complete a frame, or raise.                                       *)
(***************************************************************************)
EXTENDS Integers, Sequences, FiniteSets

CONSTANTS
    Threads,        \* the callback threads
    ImageThreads,   \* those of the two image topics
    Size,           \* bytes of a message, by thread
    MaxBytes,       \* the 128 MiB of callback
    MaxEvents,      \* the maxsize=512 of the queue
    Wait,           \* cfg.wait
    StartupTimeout, \* args.startup_timeout
    MaxMessages,    \* bound: messages per thread
    Busy            \* bound: time of the last message and of the last frame

ASSUME QueueAssumption ==
    /\ ImageThreads \subseteq Threads
    /\ Size \in [Threads -> Nat \ {0}]
    /\ MaxBytes \in Nat /\ MaxEvents \in Nat \ {0}
    /\ Wait \in Nat \ {0} /\ StartupTimeout \in Nat \ {0}
    /\ MaxMessages \in Nat /\ Busy \in Nat

VARIABLES
    cb,        \* where each callback is: "idle", "lock", "put", "full", "flag"
    sent,      \* messages each thread was called with
    events,    \* the queue: thread, arrival time, and (history) put too late
    bytes,     \* state['bytes']
    fatal, stop, \* the two events; state['error'] is set whenever fatal is
    accepting, \* state['accepting_images']
    main,      \* the main thread: "check", "decide", "get", "ingest" in the loop,
               \* then "unregister", "raw", "drain", "close", "done"
    now, loopNow, tail, \* the clock, its value at the loop's top, tail_deadline
    current,   \* the message being ingested
    lastFrame, \* engine.latest_frame_wall
    failed,    \* error is not None
    lateImages \* history: images put after accepting_images fell, by thread

flags == <<fatal, stop, accepting>>
clock == <<now, loopNow, tail>>
vars  == <<cb, sent, events, bytes, flags, main, clock, current, lastFrame, failed, lateImages>>

None == -1
Looping == main \in {"check", "decide", "get", "ingest"}
LastTime == Busy + StartupTimeout + 1

Init ==
    /\ cb = [t \in Threads |-> "idle"] /\ sent = [t \in Threads |-> 0]
    /\ events = <<>> /\ bytes = 0
    /\ fatal = FALSE /\ stop = FALSE /\ accepting = TRUE
    /\ main = "check" /\ now = 0 /\ loopNow = 0 /\ tail = None
    /\ current = <<>> /\ lastFrame = None /\ failed = FALSE
    /\ lateImages = [t \in ImageThreads |-> 0]

-----------------------------------------------------------------------------
(* callback.  unregister does not take back the messages rospy has already *)
(* read from the socket: a thread may be called until the end.             *)

Goto(t, l) == cb' = [cb EXCEPT ![t] = l]
Refused_Never(t) == FALSE   \* mutated: images are taken until the queue is closed
Refused(t) == t \in ImageThreads /\ ~accepting

Deliver(t) ==
    /\ cb[t] = "idle" /\ main # "done"
    /\ sent[t] < MaxMessages /\ now <= Busy
    /\ sent' = [sent EXCEPT ![t] = @ + 1]
    /\ Goto(t, IF Refused(t) THEN "idle" ELSE "lock")
    /\ UNCHANGED <<events, bytes, flags, main, clock, current, lastFrame, failed, lateImages>>

Overflows_Before(t) == bytes > MaxBytes   \* mutated: without the new message
Overflows(t) == bytes + Size[t] > MaxBytes
Account(t) ==
    /\ cb[t] = "lock"
    /\ IF Overflows(t)
       THEN fatal' = TRUE /\ bytes' = bytes /\ Goto(t, "idle")
       ELSE fatal' = fatal /\ bytes' = bytes + Size[t] /\ Goto(t, "put")
    /\ UNCHANGED <<sent, events, stop, accepting, main, clock, current, lastFrame, failed,
                   lateImages>>

Put(t) ==
    /\ cb[t] = "put" /\ Len(events) < MaxEvents
    /\ events' = Append(events, [thread |-> t, wall |-> now,
                                 late |-> ~Looping /\ main # "unregister"])
    /\ lateImages' = [i \in ImageThreads |->
                         lateImages[i] + (IF i = t /\ ~accepting THEN 1 ELSE 0)]
    /\ Goto(t, "idle")
    /\ UNCHANGED <<sent, bytes, flags, main, clock, current, lastFrame, failed>>

PutFull(t) ==
    /\ cb[t] = "put" /\ Len(events) >= MaxEvents
    /\ Goto(t, "full")
    /\ UNCHANGED <<sent, events, bytes, flags, main, clock, current, lastFrame, failed,
                   lateImages>>

Refund_Forgotten(t) == bytes   \* mutated: a refused message keeps its bytes
Refund(t) == bytes - Size[t]
Full(t) ==
    /\ cb[t] = "full"
    /\ bytes' = Refund(t)
    /\ Goto(t, "flag")
    /\ UNCHANGED <<sent, events, flags, main, clock, current, lastFrame, failed, lateImages>>

Flag(t) ==
    /\ cb[t] = "flag"
    /\ fatal' = TRUE
    /\ Goto(t, "idle")
    /\ UNCHANGED <<sent, events, bytes, stop, accepting, main, clock, current, lastFrame,
                   failed, lateImages>>

-----------------------------------------------------------------------------
(* The environment                                                         *)

\* SIGINT, SIGTERM, or the end of --duration.
Stop ==
    /\ Looping /\ ~stop
    /\ stop' = TRUE
    /\ UNCHANGED <<cb, sent, events, bytes, fatal, accepting, main, clock, current, lastFrame,
                   failed, lateImages>>

Tick ==
    /\ now < LastTime \/ (now < tail /\ now < LastTime + Wait)
    /\ now' = now + 1
    /\ UNCHANGED <<cb, sent, events, bytes, flags, main, loopNow, tail, current, lastFrame,
                   failed, lateImages>>

-----------------------------------------------------------------------------
(* The loop of the main thread                                             *)

callbacks == <<cb, sent, fatal, stop, now, lateImages>>
Fail == failed' = TRUE /\ main' = "unregister"

\* A raw recorder that has exited, a refused message, or ROS shutting down.
CheckRaises ==
    /\ main \in {"check", "decide"}
    /\ Fail
    /\ loopNow' = IF main = "check" THEN now ELSE loopNow
    /\ UNCHANGED <<callbacks, events, bytes, accepting, tail, current, lastFrame>>

\* The only look at fatal in a pass; a refusal after it is seen by the next pass.
MayPass_TailFirst == ~fatal \/ (tail # None /\ now >= tail)   \* mutated: the tail's end first
MayPass == ~fatal
Look ==
    /\ main = "check" /\ MayPass
    /\ loopNow' = now
    /\ main' = "decide"
    /\ UNCHANGED <<callbacks, events, bytes, accepting, tail, current, lastFrame, failed>>

\* The rest of the top of the loop, on the time read before the look at fatal.
TailEnd_Restarted == IF stop THEN loopNow + Wait ELSE tail   \* mutated: starts anew
TailEnd == IF stop /\ tail = None THEN loopNow + Wait ELSE tail
TailOver == TailEnd # None /\ loopNow >= TailEnd
Decide ==
    /\ main = "decide"
    /\ accepting' = (accepting /\ ~(stop /\ tail = None))
    /\ tail' = TailEnd
    /\ main' = IF TailOver THEN "unregister" ELSE "get"
    /\ UNCHANGED <<callbacks, events, bytes, loopNow, current, lastFrame, failed>>

\* The pass that ends the loop, past its look at fatal: nothing looks at it again.
LastPass == main = "decide" /\ tail # None /\ loopNow >= tail

Take ==
    /\ main = "get" /\ events # <<>>
    /\ current' = <<Head(events)>> /\ events' = Tail(events)
    /\ main' = "ingest"
    /\ UNCHANGED <<callbacks, bytes, accepting, loopNow, tail, lastFrame, failed>>

\* What the engine does with a call at wall: nothing that is seen here, or a frame.
MayFrame(wall) == lastFrame' \in {lastFrame} \union {w \in {wall} : w <= Busy}

\* The checks after a message or an empty queue, on the frame time frame.
Stalled_Never(frame) == FALSE   \* mutated: waits for a first frame forever
Stalled(frame) ==
    \/ frame = None /\ loopNow > StartupTimeout
    \/ frame # None /\ loopNow - frame > StartupTimeout /\ tail = None
Continues == ~Stalled(lastFrame') /\ main' = "check" /\ failed' = failed

\* Besides a stall, an ingest, a drain, a flush or the disk check may raise.
Ingest ==
    /\ main = "ingest"
    /\ bytes' = bytes - Size[current[1].thread]
    /\ MayFrame(current[1].wall)
    /\ current' = <<>>
    /\ Continues \/ Fail
    /\ UNCHANGED <<callbacks, events, accepting, loopNow, tail>>

Empty ==
    /\ main = "get" /\ events = <<>>
    /\ MayFrame(loopNow)
    /\ Continues \/ Fail
    /\ UNCHANGED <<callbacks, events, bytes, accepting, loopNow, tail, current>>

-----------------------------------------------------------------------------
(* The finally clause, and the validation after it                         *)

Unregister ==
    /\ main = "unregister"
    /\ accepting' = FALSE
    /\ main' = "raw"
    /\ UNCHANGED <<callbacks, events, bytes, loopNow, tail, current, lastFrame, failed>>

\* raw_recording.stop may raise: the queue is then not drained.
StopRaw ==
    /\ main = "raw"
    /\ \/ main' = "drain" /\ failed' = failed
       \/ main' = "close" /\ failed' = TRUE
    /\ UNCHANGED <<callbacks, events, bytes, accepting, loopNow, tail, current, lastFrame>>

DrainQueue ==
    /\ main = "drain" /\ ~failed /\ events # <<>>
    /\ events' = Tail(events)
    /\ MayFrame(Head(events).wall)
    /\ \/ main' = "drain" /\ failed' = failed
       \/ main' = "close" /\ failed' = TRUE
    /\ UNCHANGED <<callbacks, bytes, accepting, loopNow, tail, current>>

QueueRead_Enough == TRUE   \* mutated: the queue is not read again
QueueRead == events = <<>> \/ failed
DrainEngine ==
    /\ main = "drain" /\ QueueRead
    /\ MayFrame(now)
    /\ failed' \in {failed \/ lastFrame' = None, TRUE}
    /\ main' = "close"
    /\ UNCHANGED <<callbacks, events, bytes, accepting, loopNow, tail, current>>

\* Closing, merging or validating the bag may fail.
Close ==
    /\ main = "close"
    /\ failed' \in {failed, TRUE}
    /\ main' = "done"
    /\ UNCHANGED <<callbacks, events, bytes, accepting, loopNow, tail, current, lastFrame>>

Terminated == main = "done" /\ UNCHANGED vars

Callback == \E t \in Threads :
    Deliver(t) \/ Account(t) \/ Put(t) \/ PutFull(t) \/ Full(t) \/ Flag(t)
Main ==
    \/ CheckRaises \/ Look \/ Decide \/ Take \/ Ingest \/ Empty
    \/ Unregister \/ StopRaw \/ DrainQueue \/ DrainEngine \/ Close
Next == Callback \/ Stop \/ Tick \/ Main \/ Terminated

\* The main thread is never blocked for good (get has a timeout) and time passes.
\* Nothing is asked of the callbacks or of the operator.
Spec == Init /\ [][Next]_vars
FairSpec == Spec /\ WF_vars(Main) /\ WF_vars(Tick)
=============================================================================
