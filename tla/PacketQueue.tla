----------------------------- MODULE PacketQueue -----------------------------
(* What the ring of one lidar promises: a bounded queue.  A packet that finds *)
(* it full is dropped before it is in; one that is in comes out once, in      *)
(* order and whole.                                                           *)
EXTENDS Sequences, Naturals

CONSTANTS Packets, Size
VARIABLES
    queue,  \* the packets that are in
    out     \* the packet that is being taken out, <<>> if none

Init == queue = <<>> /\ out = <<>>
Put == /\ Len(queue) < Size
       /\ \E p \in Packets : queue' = Append(queue, p)
       /\ UNCHANGED out
Look == queue # <<>> /\ out = <<>> /\ out' = <<Head(queue)>> /\ UNCHANGED queue
Get == queue # <<>> /\ out = <<Head(queue)>> /\ out' = <<>> /\ queue' = Tail(queue)

Next == Put \/ Look \/ Get

Spec == Init /\ [][Next]_<<queue, out>>
=============================================================================
