------------------------ MODULE KeyboardControlProps ------------------------
(* When the robot moves, and when it is at rest. *)
EXTENDS KeyboardControl

TypeOK ==
    /\ now \in Nat /\ wake \in 0 .. now + 1
    /\ main \in {"key", "sleep", "start", "exited"}
    /\ asked \in Velocities \union {Rest}
    /\ \A i \in 1 .. Len(motions) :
        /\ motions[i].vel \in Velocities
        /\ motions[i].at \in {"check", "send", "stop", "done"}
        /\ motions[i].end \in Duration .. now + Duration
        /\ motions[i].since \in 0 .. motions[i].end + 3 * Lag
    /\ outbox \in {<<>>} \union {<<v>> : v \in Velocities \union {Rest}}
    /\ chassis \in Velocities \union {Rest}

\* However many motions overlap, and although messages replace each other in the queue
\* of the publisher, the last word is a stop: the robot rests when no motion is left
\* (run_motion() stops after its loop).
RestWhenIdle == Running /\ ~alive /\ outbox = <<>> => chassis = Rest

\* A motion that was started before the stop key goes on after it, but not for long: the
\* robot never moves later than the last motion key allows, give or take the lags of the
\* thread that sends.
MovesBriefly ==
    Running /\ chassis # Rest =>
        \E i \in 1 .. Len(motions) : now <= motions[i].end + 3 * Lag
=============================================================================
