--------------------------- MODULE LivoxRingProps ---------------------------
(* What the publishing side of the driver may rely on. *)
EXTENDS LivoxRing

Packets == UNION {Frames[l] : l \in Lidars}
Stored == Packets \union {Torn}
TypeOK ==
    /\ slots \in [Lidars -> [0 .. Size - 1 -> Stored]]
    /\ wr_idx \in [Lidars -> 0 .. Wrap - 1] /\ rd_idx \in [Lidars -> 0 .. Wrap - 1]
    /\ \A l \in Lidars : UsedSize(l) <= Size
    /\ ready \subseteq Lidars /\ connect_state \subseteq Lidars
    /\ count_ \in {0, 1}
    /\ request_exit_ \in BOOLEAN /\ signalled \in BOOLEAN
    /\ writer \in {"idle", "full", "storing", "index", "empty", "count", "signal"}
    /\ from \in Lidars /\ packet \in Stored
    /\ reader \in {"top", "wait", "lidar", "poll", "pop", "update", "future", "done"}
    /\ at \in Lidars /\ pkg \in {<<>>} \union {<<p>> : p \in Stored \ {Torn}}

\* Without a lock, and when the indexes wrap, each ring is a bounded queue: no packet is
\* lost once it is in, repeated, reordered or read while it is written (ldq.cpp).
Contents(l) == [i \in 1 .. UsedSize(l) |-> slots[l][Slot(rd_idx[l] + i - 1)]]
Popped(l) == IF at = l THEN pkg ELSE <<>>
Queue(l) == INSTANCE PacketQueue WITH queue <- Contents(l), out <- Popped(l)
RingsAreQueues ==
    /\ \A l \in Lidars : Queue(l)!Init
    /\ [][\A l \in Lidars : [Queue(l)!Next]_<<Contents(l), Popped(l)>>]_vars

\* The writer never stores into a slot that the reader may be copying.
SlotsApart ==
    writer \in {"storing", "index"} =>
        \A i \in 0 .. UsedSize(from) - 1 : Slot(rd_idx[from] + i) # Slot(wr_idx[from])

\* The reader keeps up: it is not for ever at one ring that is filled again.
KeepsUp == []<>(reader \notin {"poll", "pop", "update"})

\* No wake-up is lost: a packet that arrives while its lidar is sampling empties the ring,
\* with all that was stored before, also if it was dropped because the ring was full.
ArrivalEmptiesRing ==
    KeepsUp => \A l \in Lidars :
        writer = "full" /\ from = l /\ l \in connect_state
            ~> QueueIsEmpty(l) \/ request_exit_

\* The poll thread can be joined if packets still arrive: it leaves the wait only when it
\* is signalled (the destructor of DriverNode).
ExitEnds == KeepsUp /\ []<><<Arrive>>_vars => (request_exit_ ~> reader = "done")
=============================================================================
