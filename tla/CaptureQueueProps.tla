------------------------- MODULE CaptureQueueProps --------------------------
(* What record() promises of its queue, its stop and its verdict. *)
EXTENDS CaptureQueue, Functions

Events == [thread : Threads, wall : Nat, late : BOOLEAN]
TypeOK ==
    /\ cb \in [Threads -> {"idle", "lock", "put", "full", "flag"}]
    /\ sent \in [Threads -> 0 .. MaxMessages]
    /\ events \in Seq(Events)
    /\ bytes \in Int /\ bytes <= MaxBytes
    /\ fatal \in BOOLEAN /\ stop \in BOOLEAN /\ accepting \in BOOLEAN /\ failed \in BOOLEAN
    /\ main \in {"check", "decide", "get", "ingest", "unregister", "raw", "drain", "close", "done"}
    /\ now \in Nat /\ loopNow \in Nat /\ tail \in Nat \union {None}
    /\ current \in Seq(Events) /\ (main = "ingest" => Len(current) = 1)
    /\ lastFrame \in Nat \union {None}
    /\ lateImages \in [ImageThreads -> Nat]

Passed == main = "done" /\ ~failed

Bytes(messages) == SumFunction([i \in DOMAIN messages |-> Size[messages[i].thread]])
Moving == {t \in Threads : cb[t] \in {"put", "full"}}

\* state['bytes'] counts every message that is queued, being put or being taken, and
\* no other: until the loop ends the 128 MiB limit is on what is really held.
BytesBalance ==
    Looping => bytes = Bytes(events) + Bytes(current) + SumFunctionOnSet(Size, Moving)

\* Though callback reads accepting_images without the lock, at most one image of
\* each stream is queued after the main thread stopped accepting images.
FewLateImages == \A t \in ImageThreads : lateImages[t] <= 1

\* A recording that passes has given the engine every message queued before it
\* unsubscribed (the comment at the second drain of record).
QueuedIsIngested == Passed => \A i \in DOMAIN events : events[i].late

\* A message refused before the main thread's last look at fatal makes the recording
\* incomplete, wherever the loop is in its pass or its tail.  A refusal after that look
\* is not seen any more, though the loop is still running: see OverflowMarksIncomplete.
RefusalFails == Looping /\ fatal /\ ~LastPass ~> main = "done" /\ failed

\* A recording that is told to stop ends, however many messages arrive.
StopEnds == stop ~> main = "done"

\* Without new frames a recording ends by itself (the two timeouts of the loop).
StallEnds == \A w \in -1 .. Busy : lastFrame = w ~> lastFrame # w \/ main = "done"

\* The text of the overflow error, "recording marked incomplete": a message refused
\* before the recorder has unsubscribed makes it fail.
OverflowMarksIncomplete == (Looping \/ main = "unregister") /\ fatal ~> failed
=============================================================================
