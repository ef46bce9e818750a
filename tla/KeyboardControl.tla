--------------------------- MODULE KeyboardControl ---------------------------
(***************************************************************************)
(* Driving from the keyboard (robot_ros/src/keyboard_control.py): main()   *)
(* starts a thread for each motion key and publishes on cmd_vel itself for *)
(* the stop keys; each thread sends its velocity until its time is over.   *)
(* Both share one publisher, and the chassis obeys the last message.       *)
(*                                                                         *)
(* Times are periods of the rate, 1 / PUBLISH_RATE.  A thread that may go  *)
(* on does so within Lag.                                                  *)
(***************************************************************************)
EXTENDS Integers, Sequences

CONSTANTS
    Velocities,  \* of KEY_MAP
    Rest,        \* the velocity zero
    Duration,    \* FORWARD_DURATION, ROTATE_DURATION
    Lag,         \* the longest a thread that may go on does not
    MaxMotions,  \* bound: the motion keys pressed
    MaxTime      \* bound: when the last key is pressed

ASSUME KeyboardAssumption ==
    /\ Rest \notin Velocities
    /\ Duration \in Nat \ {0} /\ Lag \in Nat
    /\ MaxMotions \in Nat /\ MaxTime \in Nat

VARIABLES
    now,
    main,     \* where main() is
    asked,    \* the velocity of the key it handles
    wake,     \* when its sleep is over
    motions,  \* the threads: velocity, end_time, where they are, and from when they may go on
    outbox,   \* the queue of the publisher, of size 1
    chassis   \* the last velocity that reached the motors

node == <<main, asked, wake, motions, outbox>>
vars == <<now, node, chassis>>

Init ==
    /\ now = 0 /\ main = "key" /\ asked = Rest /\ wake = 0
    /\ motions = <<>> /\ outbox = <<>> /\ chassis = Rest

Publish(v) == outbox' = <<v>>
alive == \E i \in 1 .. Len(motions) : motions[i].at # "done"
\* motion_thread is the last one that was started
lastAlive == motions # <<>> /\ motions[Len(motions)].at # "done"
Running == main # "exited"

-----------------------------------------------------------------------------
(* main()                                                                  *)

\* A motion key: if the last motion still runs, the robot is stopped first.
MotionKey(v) ==
    /\ main = "key" /\ now <= MaxTime /\ Len(motions) < MaxMotions
    /\ asked' = v
    /\ \/ lastAlive /\ Publish(Rest) /\ main' = "sleep" /\ wake' = now + 1
       \/ ~lastAlive /\ main' = "start" /\ wake' = now /\ UNCHANGED outbox
    /\ UNCHANGED <<now, motions, chassis>>
Sleep ==
    /\ main = "sleep" /\ now >= wake /\ main' = "start" /\ wake' = now
    /\ UNCHANGED <<now, asked, motions, outbox, chassis>>
\* run_motion computes its end when it starts
Start ==
    /\ main = "start" /\ main' = "key" /\ asked' = Rest
    /\ motions' = Append(motions, [vel |-> asked, end |-> now + Duration,
                                   at |-> "check", since |-> now])
    /\ UNCHANGED <<now, wake, outbox, chassis>>
SpaceKey ==
    /\ main = "key" /\ now <= MaxTime /\ Publish(Rest)
    /\ UNCHANGED <<now, main, asked, wake, motions, chassis>>
\* 'q' stops the robot, and the threads end with the process
QuitKey ==
    /\ main = "key" /\ now <= MaxTime /\ Publish(Rest) /\ main' = "exited"
    /\ motions' = [i \in 1 .. Len(motions) |-> [motions[i] EXCEPT !.at = "done"]]
    /\ UNCHANGED <<now, asked, wake, chassis>>

-----------------------------------------------------------------------------
(* run_motion(), and the topic                                             *)

Goes(i, where, when) ==
    motions' = [motions EXCEPT ![i].at = where, ![i].since = when]
Over_Late(m) == now > m.end + 1   \* mutated
Over(m) == now >= m.end

\* rate.sleep() ends a period after the last message
Check(i) ==
    /\ motions[i].at = "check" /\ now >= motions[i].since
    /\ Goes(i, IF Over(motions[i]) THEN "stop" ELSE "send", now)
    /\ UNCHANGED <<now, main, asked, wake, outbox, chassis>>
Send(i) ==
    /\ motions[i].at = "send" /\ Publish(motions[i].vel) /\ Goes(i, "check", now + 1)
    /\ UNCHANGED <<now, main, asked, wake, chassis>>
LastWord_None == UNCHANGED outbox   \* mutated: a motion ends without a stop
LastWord == Publish(Rest)
Stop(i) ==
    /\ motions[i].at = "stop" /\ LastWord /\ Goes(i, "done", now)
    /\ UNCHANGED <<now, main, asked, wake, chassis>>
Motion(i) == Check(i) \/ Send(i) \/ Stop(i)

\* TwistCmdCallback sends each message on to the motors.
TwistCmdCallback ==
    /\ outbox # <<>> /\ chassis' = outbox[1] /\ outbox' = <<>>
    /\ UNCHANGED <<now, main, asked, wake, motions>>

\* Time passes when nobody has to act before; a message takes less than a period.
Tick ==
    /\ alive \/ now <= MaxTime \/ main \in {"sleep", "start"}
    /\ outbox = <<>>
    /\ main \in {"sleep", "start"} => now < wake + Lag
    /\ \A i \in 1 .. Len(motions) : motions[i].at # "done" => now < motions[i].since + Lag
    /\ now' = now + 1
    /\ UNCHANGED <<node, chassis>>

Main == (\E v \in Velocities : MotionKey(v)) \/ Sleep \/ Start \/ SpaceKey \/ QuitKey
Threads == \E i \in 1 .. Len(motions) : Motion(i)
Next == Main \/ Threads \/ TwistCmdCallback \/ Tick

Spec == Init /\ [][Next]_vars
=============================================================================
