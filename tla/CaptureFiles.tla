---------------------------- MODULE CaptureFiles ----------------------------
(***************************************************************************)
(* The files of a recording (record() in src/rgbd_capture/capture.py, and  *)
(* RawRecording and merge_bags in raw_recording.py): every file that is    *)
(* created, renamed or removed under one output name, by recorders that    *)
(* may fail or be killed between any two file operations, and that a user  *)
(* may start again, or twice, with the same name.                          *)
(*                                                                         *)
(* A file is known by who wrote it and what: a rename moves the name only. *)
(***************************************************************************)
EXTENDS FiniteSets

CONSTANTS
    Recorders,  \* runs of the recorder with the same output name
    Raw,        \* --raw-sensors
    Concurrent  \* whether a recorder may start while another is running

ASSUME FilesAssumption == Raw \in BOOLEAN /\ Concurrent \in BOOLEAN

Names == {"bag", "active", "partial", "report", "raw", "raw.active", "log", "merge"}
Files == Recorders \X {"reserved", "core", "raw", "log", "merge", "report"}
Absent == <<>>

VARIABLES
    pc,      \* the file operation each recorder is about to do
    failed,  \* error is not None, by recorder
    disk,    \* the file under each name
    valid,   \* history: files that check_bag accepted
    recorded \* history: files that were opened to record into

vars == <<pc, failed, disk, valid, recorded>>

Running(p) == pc[p] \notin {"start", "done", "exited"}
Has(n) == disk[n] # Absent
Create(n, f) == disk' = [disk EXCEPT ![n] = f]
Move(a, b) == disk' = [disk EXCEPT ![b] = disk[a], ![a] = Absent]
Remove(n) == disk' = [disk EXCEPT ![n] = Absent]
Goto(p, l) == pc' = [pc EXCEPT ![p] = l]
Fail(p) == failed' = [failed EXCEPT ![p] = TRUE]
Candidate == IF Raw THEN "merge" ELSE "active"

Init ==
    /\ pc = [p \in Recorders |-> "start"]
    /\ failed = [p \in Recorders |-> FALSE]
    /\ disk = [n \in Names |-> Absent]
    /\ valid = {} /\ recorded = {}

-----------------------------------------------------------------------------
(* Before the recording                                                    *)

\* A name with any file left from an earlier recording is refused.
Leftovers_NoPartial == {n \in Names \ {"partial"} : Has(n)}   \* mutated
Leftovers == {n \in Names : Has(n)}

Check(p) ==
    /\ pc[p] = "start"
    /\ Concurrent \/ \A q \in Recorders : ~Running(q)
    /\ Goto(p, IF Leftovers = {} THEN "reserve" ELSE "exited")
    /\ UNCHANGED <<failed, disk, valid, recorded>>

\* open('xb') fails if the name exists; the error is handled as any other.
Reserve(p) ==
    /\ pc[p] = "reserve"
    /\ IF Has("active")
       THEN Goto(p, "settle") /\ Fail(p) /\ UNCHANGED disk
       ELSE Goto(p, "open") /\ Create("active", <<p, "reserved">>) /\ UNCHANGED failed
    /\ UNCHANGED <<valid, recorded>>

\* rosbag opens the name for writing, whatever file is there or is not.
Open(p) ==
    /\ pc[p] = "open"
    /\ Create("active", <<p, "core">>)
    /\ recorded' = recorded \union {<<p, "core">>}
    /\ Goto(p, IF Raw THEN "log" ELSE "record")
    /\ UNCHANGED <<failed, valid>>

OpenFails(p) ==
    /\ pc[p] \in {"open", "log", "spawn"}
    /\ Goto(p, IF pc[p] = "open" THEN "settle" ELSE "close") /\ Fail(p)
    /\ UNCHANGED <<disk, valid, recorded>>

\* RawRecording creates its log, then starts rosbag record.
OpenLog(p) ==
    /\ pc[p] = "log"
    /\ ~Has("raw") /\ ~Has("raw.active") /\ ~Has("log")
    /\ Create("log", <<p, "log">>)
    /\ Goto(p, "spawn")
    /\ UNCHANGED <<failed, valid, recorded>>

Spawn(p) ==
    /\ pc[p] = "spawn"
    /\ Create("raw.active", <<p, "raw">>)
    /\ recorded' = recorded \union {<<p, "raw">>}
    /\ Goto(p, "record")
    /\ UNCHANGED <<failed, valid>>

-----------------------------------------------------------------------------
(* After it                                                                *)

\* The loop ends: on a stop, or on an error.
Record(p) ==
    /\ pc[p] = "record"
    /\ failed' \in {failed, [failed EXCEPT ![p] = TRUE]}
    /\ Goto(p, IF Raw THEN "stop" ELSE "close")
    /\ UNCHANGED <<disk, valid, recorded>>

\* rosbag record renames its file when it closes; stop may still report an error.
StopRaw(p) ==
    /\ pc[p] = "stop" /\ Has("raw.active")
    /\ Move("raw.active", "raw")
    /\ failed' \in {failed, [failed EXCEPT ![p] = TRUE]}
    /\ Goto(p, "close")
    /\ UNCHANGED <<valid, recorded>>
StopRawFails(p) ==
    /\ pc[p] = "stop"
    /\ Fail(p)
    /\ Goto(p, "close")
    /\ UNCHANGED <<disk, valid, recorded>>

Close(p) ==
    /\ pc[p] = "close"
    /\ failed' \in {failed, [failed EXCEPT ![p] = TRUE]}
    /\ Goto(p, IF failed'[p] THEN "settle" ELSE IF Raw THEN "merge" ELSE "validate")
    /\ UNCHANGED <<disk, valid, recorded>>

\* Too little space, a missing or an existing file, or a failed write.
MergeFails(p) ==
    /\ pc[p] = "merge"
    /\ UNCHANGED disk \/ (~Has("merge") /\ Create("merge", <<p, "merge">>))
    /\ Goto(p, "settle") /\ Fail(p)
    /\ UNCHANGED <<valid, recorded>>
Merge(p) ==
    /\ pc[p] = "merge"
    /\ Has("active") /\ Has("raw") /\ ~Has("merge")
    /\ Create("merge", <<p, "merge">>)
    /\ Goto(p, "validate")
    /\ UNCHANGED <<failed, valid, recorded>>

Validate(p) ==
    /\ pc[p] = "validate" /\ Has(Candidate)
    /\ valid' = valid \union {disk[Candidate]}
    /\ Goto(p, "settle")
    /\ UNCHANGED <<failed, disk, recorded>>
ValidateFails(p) ==
    /\ pc[p] = "validate"
    /\ Goto(p, "settle") /\ Fail(p)
    /\ UNCHANGED <<disk, valid, recorded>>

\* The result is kept as .partial, or it gets its name.
MayPublish_Always(p) == TRUE   \* mutated: the error is not looked at
MayPublish(p) == ~failed[p]

SettlePartial(p) ==
    /\ pc[p] = "settle" /\ ~MayPublish(p)
    /\ IF Has("active") THEN Move("active", "partial") ELSE UNCHANGED disk
    /\ Goto(p, "report")
    /\ UNCHANGED <<failed, valid, recorded>>

Publish(p) ==
    /\ pc[p] = "settle" /\ MayPublish(p) /\ Has(Candidate)
    /\ Move(Candidate, "bag")
    /\ Goto(p, IF Raw THEN "unlink active" ELSE "report")
    /\ UNCHANGED <<failed, valid, recorded>>

Unlink(p, n, at, next) ==
    /\ pc[p] = at /\ Has(n)
    /\ Remove(n)
    /\ Goto(p, next)
    /\ UNCHANGED <<failed, valid, recorded>>
Unlinks_Two(p) ==   \* mutated: the log of the raw recorder is forgotten
    \/ Unlink(p, "active", "unlink active", "unlink raw")
    \/ Unlink(p, "raw", "unlink raw", "report")
Unlinks(p) ==
    \/ Unlink(p, "active", "unlink active", "unlink raw")
    \/ Unlink(p, "raw", "unlink raw", "unlink log")
    \/ Unlink(p, "log", "unlink log", "report")

Report(p) ==
    /\ pc[p] = "report"
    /\ Create("report", <<p, "report">>)
    /\ Goto(p, "done")
    /\ UNCHANGED <<failed, valid, recorded>>

\* Killed, power lost, or a file operation outside a try that fails: the process
\* ends where it is.
Crash(p) ==
    /\ Running(p)
    /\ Goto(p, "exited")
    /\ UNCHANGED <<failed, disk, valid, recorded>>

\* The raw recorder has a session of its own and outlives its parent.
OrphanCloses(p) ==
    /\ pc[p] = "exited" /\ disk["raw.active"] = <<p, "raw">>
    /\ Move("raw.active", "raw")
    /\ UNCHANGED <<pc, failed, valid, recorded>>

Before(p) == Check(p) \/ Reserve(p) \/ Open(p) \/ OpenFails(p) \/ OpenLog(p) \/ Spawn(p)
After(p) ==
    \/ Record(p) \/ StopRaw(p) \/ StopRawFails(p) \/ Close(p) \/ Merge(p) \/ MergeFails(p)
    \/ Validate(p) \/ ValidateFails(p) \/ SettlePartial(p) \/ Publish(p)
    \/ Unlinks(p) \/ Report(p)
Ended == (\A p \in Recorders : pc[p] \in {"done", "exited"}) /\ UNCHANGED vars
Next == (\E p \in Recorders : Before(p) \/ After(p) \/ Crash(p) \/ OrphanCloses(p)) \/ Ended
Spec == Init /\ [][Next]_vars

=============================================================================
