------------------------- MODULE CaptureFilesProps --------------------------
(* What a user may rely on after any recording, whole, failed or killed. *)
EXTENDS CaptureFiles

\* The final name holds a bag only if check_bag accepted that very file.
BagIsValid == Has("bag") => disk["bag"] \in valid

\* Whatever fails and whenever a recorder is killed, what it recorded is on the disk:
\* as its own file, or inside a merged bag that was validated.
NothingLost ==
    LET OnDisk(f) == \E n \in Names : disk[n] = f
        Merged(p) == OnDisk(<<p, "merge">>) /\ <<p, "merge">> \in valid
    IN  \A f \in recorded : OnDisk(f) \/ Merged(f[1])

\* A recording that passes leaves its bag and its report, and no other file.
LeavesOnlyBag ==
    \A p \in Recorders :
        pc[p] = "done" /\ ~failed[p] => {n \in Names : Has(n)} = {"bag", "report"}
=============================================================================
