------------------------ MODULE CaptureFilesProofs -------------------------
(***************************************************************************)
(* Proofs about the files of a recording, for any number of recorders      *)
(* started one after the other under one name, killed anywhere.            *)
(***************************************************************************)
EXTENDS CaptureFilesProps, TLAPS

\* The operations before a recording is settled.
Phases == {"reserve", "open", "log", "spawn", "record", "stop", "close", "merge", "validate",
           "settle"}
Labels == Phases \union
    {"start", "unlink active", "unlink raw", "unlink log", "report", "done", "exited"}

TypeInv ==
    /\ pc \in [Recorders -> Labels]
    /\ failed \in [Recorders -> BOOLEAN]
    /\ disk \in [Names -> Files \union {Absent}]

\* One recorder runs at a time, and until it settles there is no bag under the name.
OneInv ==
    /\ \A p, q \in Recorders : Running(p) /\ Running(q) => p = q
    /\ \A p \in Recorders :
            pc[p] \in Phases => ~Has("bag")

\* What is about to be published was validated.
ValidInv ==
    \A p \in Recorders : pc[p] = "settle" /\ ~failed[p] => disk[Candidate] \in valid

IInv == TypeInv /\ OneInv /\ ValidInv /\ BagIsValid

LEMMA InitInv == Init => IInv
<1> SUFFICES ASSUME Init PROVE IInv
  OBVIOUS
<1>1. TypeInv
  <2>1. pc \in [Recorders -> Labels] /\ failed \in [Recorders -> BOOLEAN]
    BY DEF Init, Labels
  <2>2. disk \in [Names -> Files \union {Absent}]
    BY DEF Init
  <2> QED BY <2>1, <2>2 DEF TypeInv
<1>2. \A p \in Recorders : pc[p] = "start"
  BY DEF Init
<1>4. OneInv /\ ValidInv
  BY <1>2 DEF OneInv, ValidInv, Running, Phases
<1>3. BagIsValid
  BY DEF Init, BagIsValid, Has, Names
<1> QED BY <1>1, <1>3, <1>4 DEF IInv

LEMMA CandidateIsName == Candidate \in Names
BY DEF Candidate, Names

\* A step of a recorder leaves the program counters of the others alone.
LEMMA OthersStay ==
  ASSUME TypeInv, NEW p \in Recorders, Before(p) \/ After(p) \/ Crash(p),
         NEW q \in Recorders, q # p
  PROVE  pc'[q] = pc[q] /\ failed'[q] = failed[q]
BY DEF TypeInv, Before, After, Crash, Check, Reserve, Open, OpenFails, OpenLog, Spawn, Record,
   StopRaw, StopRawFails, Close, Merge, MergeFails, Validate, ValidateFails, SettlePartial,
   Publish, Unlinks, Unlink, Report, Goto, Fail

\* Every step keeps the types.
LEMMA TypeStep == TypeInv /\ [Next]_vars => TypeInv'
<1> SUFFICES ASSUME TypeInv, [Next]_vars PROVE TypeInv'
  OBVIOUS
<1>0. /\ pc \in [Recorders -> Labels] /\ failed \in [Recorders -> BOOLEAN]
      /\ disk \in [Names -> Files \union {Absent}]
  BY DEF TypeInv
<1>1. ASSUME NEW p \in Recorders, Before(p) \/ After(p) \/ Crash(p) \/ OrphanCloses(p)
      PROVE  pc' \in [Recorders -> Labels]
  <2>1. pc' = pc \/ \E l \in Labels : pc' = [pc EXCEPT ![p] = l]
    BY <1>1, Zenon
       DEF Before, After, Crash, OrphanCloses, Check, Reserve, Open, OpenFails,
       OpenLog, Spawn, Record, StopRaw, StopRawFails, Close, Merge, MergeFails, Validate,
       ValidateFails, SettlePartial, Publish, Unlinks, Unlink, Report, Goto, Labels, Phases
  <2> QED BY <2>1, <1>0
<1>2. ASSUME NEW p \in Recorders, Before(p) \/ After(p) \/ Crash(p) \/ OrphanCloses(p)
      PROVE  failed' \in [Recorders -> BOOLEAN]
  <2>1. failed' = failed \/ failed' = [failed EXCEPT ![p] = TRUE]
    BY <1>2 DEF Before, After, Crash, OrphanCloses, Check, Reserve, Open, OpenFails,
       OpenLog, Spawn, Record, StopRaw, StopRawFails, Close, Merge, MergeFails, Validate,
       ValidateFails, SettlePartial, Publish, Unlinks, Unlink, Report, Fail
  <2> QED BY <2>1, <1>0
<1>3. ASSUME NEW p \in Recorders, Before(p) \/ After(p) \/ Crash(p) \/ OrphanCloses(p)
      PROVE  disk' \in [Names -> Files \union {Absent}]
  <2>1. \A k \in {"reserved", "core", "raw", "log", "merge", "report"} : <<p, k>> \in Files
    BY DEF Files
  <2>2. {"bag", "active", "partial", "report", "raw", "raw.active", "log", "merge"} = Names
    BY DEF Names
  <2>3. Candidate \in Names
    BY CandidateIsName
  <2> QED
    BY <1>3, <1>0, <2>1, <2>2, <2>3
       DEF Before, After, Crash, OrphanCloses, Check, Reserve, Open, OpenFails, OpenLog,
       Spawn, Record, StopRaw, StopRawFails, Close, Merge, MergeFails, Validate,
       ValidateFails, SettlePartial, Publish, Unlinks, Unlink, Report, Create, Move, Remove
<1>4. CASE UNCHANGED vars
  BY <1>4, <1>0 DEF vars, TypeInv
<1> QED BY <1>1, <1>2, <1>3, <1>4 DEF Next, Ended, TypeInv

\* Only a Publish gives the final name to a file.
LEMMA BagStays ==
  ASSUME TypeInv, NEW p \in Recorders, Before(p) \/ After(p) \/ Crash(p) \/ OrphanCloses(p),
         ~Publish(p)
  PROVE  disk'["bag"] = disk["bag"]
<1>1. disk \in [Names -> Files \union {Absent}] /\ "bag" \in Names
  BY DEF TypeInv, Names
<1> QED
  BY <1>1 DEF Before, After, Crash, OrphanCloses, Check, Reserve, Open, OpenFails, OpenLog,
     Spawn, Record, StopRaw, StopRawFails, Close, Merge, MergeFails, Validate, ValidateFails,
     SettlePartial, Unlinks, Unlink, Report, Create, Move, Remove

\* A recorder that takes any step but its first is running.
LEMMA ActorRuns ==
  ASSUME NEW p \in Recorders, Before(p) \/ After(p) \/ Crash(p), ~Check(p)
  PROVE  Running(p)
BY DEF Before, After, Crash, Reserve, Open, OpenFails, OpenLog, Spawn, Record, StopRaw,
   StopRawFails, Close, Merge, MergeFails, Validate, ValidateFails, SettlePartial, Publish,
   Unlinks, Unlink, Report, Running

\* The invariant is inductive as long as recorders do not overlap.
LEMMA InvStep ==
  ASSUME ~Concurrent, IInv, [Next]_vars
  PROVE  IInv'
<1>0. TypeInv /\ OneInv /\ ValidInv /\ BagIsValid
  BY DEF IInv
<1>1. TypeInv'
  BY <1>0, TypeStep
<1>2. ASSUME NEW p \in Recorders, Before(p) \/ After(p) \/ Crash(p)
      PROVE  OneInv' /\ ValidInv' /\ BagIsValid'
  <2>1. \A q \in Recorders : q # p => ~Running(q)
    <3>1. CASE Check(p)
      BY <3>1 DEF Check
    <3>2. CASE ~Check(p)
      BY <1>2, <3>2, <1>0, ActorRuns DEF OneInv
    <3> QED BY <3>1, <3>2
  <2>2. \A q \in Recorders : q # p => ~Running(q)' /\ pc'[q] \notin Phases
    <3> SUFFICES ASSUME NEW q \in Recorders, q # p
                 PROVE  ~Running(q)' /\ pc'[q] \notin Phases
      OBVIOUS
    <3>1. pc'[q] = pc[q]
      BY <1>2, <1>0, OthersStay
    <3> QED BY <3>1, <2>1 DEF Running, Phases
  <2>3. pc \in [Recorders -> Labels] /\ failed \in [Recorders -> BOOLEAN]
        /\ disk \in [Names -> Files \union {Absent}] /\ Candidate \in Names /\ "bag" \in Names
    BY <1>0, CandidateIsName DEF TypeInv, Names
  <2>4. pc'[p] \in Phases => ~Has("bag")'
    <3>1. CASE Publish(p)
      BY <3>1, <2>3 DEF Publish, Goto, Phases
    <3>2. CASE Check(p)
      BY <3>2, <2>3 DEF Check, Goto, Leftovers, Has, Phases
    <3>3. CASE ~Publish(p) /\ ~Check(p)
      <4>1. disk'["bag"] = disk["bag"]
        BY <1>2, <3>3, <1>0, BagStays
      <4>2. pc'[p] \in Phases => pc[p] \in Phases
        BY <1>2, <3>3, <2>3
           DEF Before, After, Crash, Reserve, Open, OpenFails, OpenLog, Spawn, Record,
           StopRaw, StopRawFails, Close, Merge, MergeFails, Validate, ValidateFails,
           SettlePartial, Unlinks, Unlink, Report, Goto, Phases
      <4> QED BY <4>1, <4>2, <1>0 DEF OneInv, Has
    <3> QED BY <3>1, <3>2, <3>3
  <2>5. pc'[p] = "settle" /\ ~failed'[p] => disk'[Candidate] \in valid'
    <3>1. CASE Validate(p)
      BY <3>1 DEF Validate
    <3>2. CASE ~Validate(p)
      <4>1. pc'[p] = "settle" => failed'[p]
        BY <1>2, <3>2, <2>3
           DEF Before, After, Crash, Check, Reserve, Open, OpenFails, OpenLog, Spawn, Record,
           StopRaw, StopRawFails, Close, Merge, MergeFails, ValidateFails, SettlePartial,
           Publish, Unlinks, Unlink, Report, Goto, Fail
      <4> QED BY <4>1
    <3> QED BY <3>1, <3>2
  <2>6. valid \subseteq valid'
    BY <1>2 DEF Before, After, Crash, Check, Reserve, Open, OpenFails, OpenLog, Spawn, Record,
       StopRaw, StopRawFails, Close, Merge, MergeFails, Validate, ValidateFails, SettlePartial,
       Publish, Unlinks, Unlink, Report
  <2>7. BagIsValid'
    <3>1. CASE Publish(p)
      <4>1. disk[Candidate] \in valid
        BY <3>1, <1>0 DEF Publish, MayPublish, ValidInv
      <4>2. disk'["bag"] \in {disk[Candidate], Absent}
        BY <3>1, <2>3 DEF Publish, Move
      <4> QED BY <4>1, <4>2, <2>6 DEF BagIsValid, Has
    <3>2. CASE ~Publish(p)
      <4>1. disk'["bag"] = disk["bag"]
        BY <1>2, <3>2, <1>0, BagStays
      <4> QED BY <4>1, <2>6, <1>0 DEF BagIsValid, Has
    <3> QED BY <3>1, <3>2
  <2>8. OneInv'
    BY <2>2, <2>4 DEF OneInv
  <2>9. ValidInv'
    <3>1. \A q \in Recorders : q # p => pc'[q] # "settle"
      BY <2>2 DEF Phases
    <3> QED BY <3>1, <2>5 DEF ValidInv
  <2> QED BY <2>7, <2>8, <2>9
<1>3. ASSUME NEW p \in Recorders, OrphanCloses(p)
      PROVE  OneInv' /\ ValidInv' /\ BagIsValid'
  <2>1. pc' = pc /\ failed' = failed /\ valid' = valid
    BY <1>3 DEF OrphanCloses
  <2>2. disk'["bag"] = disk["bag"] /\ disk'[Candidate] = disk[Candidate]
    BY <1>3, <1>0 DEF OrphanCloses, Move, TypeInv, Names, Candidate
  <2>3. OneInv'
    BY <2>1, <2>2, <1>0 DEF OneInv, Running, Has
  <2>4. ValidInv'
    <3>1. Candidate' = Candidate
      BY DEF Candidate
    <3> QED BY <2>1, <2>2, <3>1, <1>0 DEF ValidInv
  <2>5. BagIsValid'
    BY <2>1, <2>2, <1>0 DEF BagIsValid, Has
  <2> QED BY <2>3, <2>4, <2>5
<1>4. CASE UNCHANGED vars
  BY <1>4, <1>0, <1>1 DEF vars, IInv, OneInv, ValidInv, BagIsValid, Running, Has, Candidate
<1> QED BY <1>1, <1>2, <1>3, <1>4 DEF Next, Ended, IInv

\* A file under the final name is one check_bag accepted, if the recorders of one name
\* do not overlap, whenever each is killed.
THEOREM FinalNameIsValid ==
  ASSUME ~Concurrent
  PROVE  Spec => []BagIsValid
<1>1. IInv /\ [Next]_vars => IInv'
  BY InvStep
<1>2. IInv => BagIsValid
  BY DEF IInv
<1> QED BY InitInv, <1>1, <1>2, PTL DEF Spec

-----------------------------------------------------------------------------
(* What was recorded stays                                                 *)

\* Each recorded file is under a name of its own, or in a merged bag that was validated.
Merged(r) == disk["bag"] = <<r, "merge">> /\ disk["bag"] \in valid
CoreStays(r) == \/ disk["active"] = <<r, "core">> \/ disk["partial"] = <<r, "core">>
                \/ disk["bag"] = <<r, "core">> \/ Merged(r)
RawStays(r) == \/ disk["raw.active"] = <<r, "raw">> \/ disk["raw"] = <<r, "raw">> \/ Merged(r)
Started(r) == <<r, "core">> \in recorded \/ <<r, "raw">> \in recorded
Recording == Phases \ {"reserve", "open"}

\* Nothing is in the way of a recorder that is running.
KeptOf(r) ==
    /\ <<r, "core">> \in recorded => CoreStays(r)
    /\ <<r, "raw">> \in recorded => RawStays(r)
    /\ pc[r] \in {"start", "reserve", "open"} => ~Started(r)
    /\ pc[r] \in {"log", "spawn"} => <<r, "raw">> \notin recorded
    /\ pc[r] \in Recording /\ <<r, "core">> \in recorded => disk["active"] = <<r, "core">>
    /\ pc[r] = "stop" => disk["raw.active"] = <<r, "raw">>
    /\ pc[r] = "record" /\ Raw => disk["raw.active"] = <<r, "raw">>
    /\ pc[r] \in {"unlink active", "unlink raw", "unlink log"} => Merged(r)
    /\ pc[r] = "settle" /\ Raw /\ ~failed[r] => disk["merge"] = <<r, "merge">>
    /\ pc[r] = "validate" /\ Raw => disk["merge"] = <<r, "merge">>
    /\ disk["raw.active"] = <<r, "raw">> => <<r, "raw">> \in recorded
\* All that is recorded is by one recorder.
OneStarted(p, q) == p # q /\ Started(p) => ~Started(q) /\ ~Running(q)
KeptInv ==
    /\ recorded \subseteq Recorders \X {"core", "raw"}
    /\ \A r \in Recorders : KeptOf(r)
    /\ \A q, r \in Recorders : OneStarted(q, r)
LInv == IInv /\ KeptInv

LEMMA InitKept == Init => KeptInv
  BY DEF Init, KeptInv, KeptOf, OneStarted, Started, Recording, Phases, Names, Absent

LEMMA FilesDiffer ==
  /\ \A r, k : <<r, k>> # Absent
  /\ \A q, r, j, k : <<q, j>> = <<r, k>> => q = r /\ j = k
BY DEF Absent

\* Nobody else is running when a recorder takes a step.
LEMMA Alone ==
  ASSUME ~Concurrent, IInv, NEW p \in Recorders, Before(p) \/ After(p) \/ Crash(p),
         NEW q \in Recorders, q # p
  PROVE  ~Running(q) /\ pc'[q] = pc[q] /\ failed'[q] = failed[q]
<1>1. ~Running(q)
  <2>1. CASE Check(p)
    BY <2>1 DEF Check
  <2>2. CASE ~Check(p)
    BY <2>2, ActorRuns DEF IInv, OneInv
  <2> QED BY <2>1, <2>2
<1> QED BY <1>1, OthersStay DEF IInv

\* Then nobody else has recorded anything, and only the files of p can change.
LEMMA OthersKept ==
  ASSUME ~Concurrent, LInv, NEW p \in Recorders, Before(p) \/ After(p) \/ Crash(p), Running(p),
         recorded \subseteq recorded', recorded' \subseteq recorded \union {<<p, "core">>, <<p, "raw">>},
         disk'["raw.active"] \in {disk["raw.active"], <<p, "raw">>, Absent},
         KeptOf(p)'
  PROVE  KeptInv'
<1>1. recorded' \subseteq Recorders \X {"core", "raw"}
  BY DEF LInv, KeptInv
<1>2. ASSUME NEW q \in Recorders, q # p
      PROVE  KeptOf(q)' /\ ~Started(q)' /\ ~Running(q)'
  <2>1. ~Running(q) /\ pc'[q] = pc[q] /\ failed'[q] = failed[q] /\ ~Started(q) /\ KeptOf(q)
    BY <1>2, Alone DEF LInv, KeptInv, OneStarted
  <2>2. ~Started(q)' /\ ~Running(q)'
    BY <1>2, <2>1 DEF Started, Running
  <2>3. disk'["raw.active"] # <<q, "raw">>
    <3>1. disk["raw.active"] # <<q, "raw">>
      BY <2>1 DEF KeptOf, Started
    <3>2. <<p, "raw">> # <<q, "raw">>
      BY <1>2
    <3>3. Absent # <<q, "raw">>
      BY DEF Absent
    <3> QED BY <3>1, <3>2, <3>3, Zenon
  <2> QED BY <2>1, <2>2, <2>3 DEF KeptOf, Started, Running, Recording, Phases
<1>3. \A q, r \in Recorders : OneStarted(q, r)'
  BY <1>2 DEF OneStarted
<1> QED BY <1>1, <1>2, <1>3 DEF KeptInv

LEMMA Shape ==
  ASSUME LInv, NEW p \in Recorders
  PROVE  /\ pc \in [Recorders -> Labels] /\ failed \in [Recorders -> BOOLEAN] /\ KeptOf(p)
         /\ disk \in [Names -> Files \union {Absent}]
         /\ {"bag", "active", "partial", "report", "raw", "raw.active", "log", "merge"} = Names
  BY DEF LInv, KeptInv, IInv, TypeInv, Names

LEMMA BeforeKept ==
  ASSUME ~Concurrent, LInv, NEW p \in Recorders, Before(p) \/ Crash(p)
  PROVE  KeptInv'
<1> USE DEF KeptOf, CoreStays, RawStays, Merged, Started, Recording, Phases, Running, Goto, Has
<1>1. CASE Check(p)
  <2>1. Leftovers = {} => \A n \in Names : disk[n] = Absent
    BY DEF Leftovers
  <2>2. Leftovers = {} => \A q \in Recorders : ~Started(q)
    <3> SUFFICES ASSUME Leftovers = {}, NEW q \in Recorders  PROVE ~Started(q)
      OBVIOUS
    <3>1. \A n \in Names : disk[n] = Absent
      BY <2>1
    <3>2. \A n \in Names : disk[n] # <<q, "core">> /\ disk[n] # <<q, "raw">> /\ disk[n] # <<q, "merge">>
      BY <3>1 DEF Absent
    <3>3. KeptOf(q)
      BY DEF LInv, KeptInv
    <3> QED BY <3>2, <3>3 DEF Names
  <2>3. /\ pc' = [pc EXCEPT ![p] = IF Leftovers = {} THEN "reserve" ELSE "exited"]
        /\ UNCHANGED <<failed, disk, valid, recorded>>
    BY <1>1 DEF Check
  <2>4. \A q \in Recorders : KeptOf(q)'
    BY <2>2, <2>3, Shape
  <2>5. \A q, r \in Recorders : OneStarted(q, r)'
    BY <2>2, <2>3, Shape DEF OneStarted, LInv, KeptInv
  <2> QED BY <2>3, <2>4, <2>5 DEF LInv, KeptInv
<1>2. CASE Reserve(p)
  BY <1>2, Shape, OthersKept, FilesDiffer DEF Before, Reserve, Create, Fail
<1>3. CASE Open(p)
  <2>1. /\ pc[p] = "open" /\ pc' = [pc EXCEPT ![p] = IF Raw THEN "log" ELSE "record"]
        /\ disk' = [disk EXCEPT !["active"] = <<p, "core">>]
        /\ recorded' = recorded \union {<<p, "core">>} /\ UNCHANGED <<failed, valid>>
    BY <1>3 DEF Open, Create
  <2>2. /\ disk'["active"] = <<p, "core">> /\ disk'["raw.active"] = disk["raw.active"]
        /\ pc'[p] = IF Raw THEN "log" ELSE "record"
    BY <2>1, Shape
  <2>3. disk["raw.active"] # <<p, "raw">> /\ <<p, "raw">> \notin recorded'
    <3>1. <<p, "raw">> # <<p, "core">>
      OBVIOUS
    <3> QED BY <2>1, <3>1, Shape
  <2>4. KeptOf(p)'
    BY <2>2, <2>3, FilesAssumption
  <2> QED BY <1>3, <2>1, <2>2, <2>4, OthersKept DEF Before
<1>4. CASE OpenFails(p)
  BY <1>4, Shape, OthersKept, FilesDiffer DEF Before, OpenFails, Fail
<1>5. CASE OpenLog(p)
  <2>1. /\ pc[p] = "log" /\ pc' = [pc EXCEPT ![p] = "spawn"]
        /\ disk' = [disk EXCEPT !["log"] = <<p, "log">>] /\ UNCHANGED <<failed, valid, recorded>>
    BY <1>5 DEF OpenLog, Create
  <2>2. /\ \A n \in Names \ {"log"} : disk'[n] = disk[n]
        /\ pc'[p] = "spawn"
    BY <2>1, Shape
  <2>3. KeptOf(p)'
    BY <2>1, <2>2, Shape
  <2> QED BY <1>5, <2>1, <2>2, <2>3, OthersKept DEF Before, Names
<1>6. CASE Spawn(p)
  BY <1>6, Shape, OthersKept, FilesDiffer DEF Before, Spawn, Create
<1>7. CASE Crash(p)
  BY <1>7, Shape, OthersKept, FilesDiffer DEF Crash
<1> QED BY <1>1, <1>2, <1>3, <1>4, <1>5, <1>6, <1>7 DEF Before

LEMMA AfterKept ==
  ASSUME ~Concurrent, LInv, NEW p \in Recorders, After(p)
  PROVE  KeptInv'
<1> USE DEF KeptOf, CoreStays, RawStays, Merged, Started, Recording, Phases, Running, Goto, Has,
            Move
<1>1. CASE Record(p)
  BY <1>1, Shape, OthersKept DEF After, Record
<1>2. CASE StopRaw(p)
  BY <1>2, Shape, OthersKept, FilesDiffer DEF After, StopRaw
<1>3. CASE StopRawFails(p)
  BY <1>3, Shape, OthersKept DEF After, StopRawFails, Fail
<1>4. CASE Close(p)
  BY <1>4, Shape, OthersKept DEF After, Close
<1>5. CASE Merge(p)
  BY <1>5, Shape, OthersKept DEF After, Merge, Create
<1>6. CASE MergeFails(p)
  BY <1>6, Shape, OthersKept DEF After, MergeFails, Create, Fail
<1>7. CASE Validate(p)
  BY <1>7, Shape, OthersKept DEF After, Validate
<1>8. CASE ValidateFails(p)
  BY <1>8, Shape, OthersKept DEF After, ValidateFails, Fail
<1>9. CASE SettlePartial(p)
  BY <1>9, Shape, OthersKept DEF After, SettlePartial
<1>10. CASE Publish(p)
  <2>1. CASE Raw
    BY <1>10, <2>1, Shape, OthersKept DEF After, Publish, MayPublish, Candidate, LInv, IInv, ValidInv
  <2>2. CASE ~Raw
    <3>1. /\ pc[p] = "settle" /\ pc'[p] = "report" /\ disk'["bag"] = disk["active"]
          /\ disk'["raw.active"] = disk["raw.active"] /\ disk'["raw"] = disk["raw"]
          /\ UNCHANGED <<failed, valid, recorded>>
      BY <1>10, <2>2, Shape DEF Publish, Candidate
    <3>2. <<p, "raw">> \in recorded => RawStays(p)'
      <4>1. disk["bag"] = Absent
        BY <3>1 DEF LInv, IInv, OneInv
      <4>2. Absent # <<p, "merge">>
        BY DEF Absent
      <4>3. <<p, "raw">> \in recorded => disk["raw.active"] = <<p, "raw">> \/ disk["raw"] = <<p, "raw">>
        BY <4>1, <4>2, Shape
      <4> QED BY <3>1, <4>3
    <3>3. KeptOf(p)'
      BY <3>1, <3>2, Shape
    <3> QED BY <1>10, <3>1, <3>3, OthersKept DEF After
  <2> QED BY <2>1, <2>2
<1>11. CASE Unlinks(p)
  BY <1>11, Shape, OthersKept DEF After, Unlinks, Unlink, Remove
<1>12. CASE Report(p)
  BY <1>12, Shape, OthersKept DEF After, Report, Create
<1> QED BY <1>1, <1>2, <1>3, <1>4, <1>5, <1>6, <1>7, <1>8, <1>9, <1>10, <1>11, <1>12 DEF After

\* A raw recorder that outlives its parent renames its own file.
LEMMA OrphanKept ==
  ASSUME LInv, NEW p \in Recorders, OrphanCloses(p)
  PROVE  KeptInv'
<1>1. /\ disk["raw.active"] = <<p, "raw">> /\ pc[p] = "exited"
      /\ UNCHANGED <<pc, failed, valid, recorded>>
  BY DEF OrphanCloses
<1>2. disk'["raw"] = <<p, "raw">> /\ disk'["raw.active"] = Absent
      /\ disk'["bag"] = disk["bag"] /\ disk'["active"] = disk["active"]
      /\ disk'["partial"] = disk["partial"] /\ disk'["merge"] = disk["merge"]
  BY Shape DEF OrphanCloses, Move
<1>3. Started(p) /\ \A q \in Recorders : q # p => ~Started(q)
  BY <1>1, Shape DEF LInv, KeptInv, OneStarted, KeptOf, Started
<1>4. ASSUME NEW q \in Recorders  PROVE KeptOf(q)'
  <2>1. KeptOf(q) /\ Absent # <<q, "raw">>
    BY Shape DEF Absent
  <2>2. q # p => <<q, "raw">> # <<p, "raw">>
    OBVIOUS
  <2>3. CASE q = p
    BY <1>1, <1>2, <2>1, <2>3
       DEF KeptOf, CoreStays, RawStays, Merged, Started
  <2>4. CASE q # p
    BY <1>1, <1>2, <1>3, <2>1, <2>2, <2>4
       DEF KeptOf, CoreStays, RawStays, Merged, Started
  <2> QED BY <2>3, <2>4
<1>5. \A q, r \in Recorders : OneStarted(q, r)'
  BY <1>1 DEF LInv, KeptInv, OneStarted, Started, Running
<1> QED BY <1>1, <1>4, <1>5 DEF LInv, KeptInv

LEMMA LInvStep ==
  ASSUME ~Concurrent, LInv, [Next]_vars
  PROVE  LInv'
<1>1. IInv'
  BY InvStep DEF LInv
<1>2. CASE UNCHANGED vars
  <2>1. \A q \in Recorders : KeptOf(q)'
    BY <1>2 DEF vars, LInv, KeptInv, KeptOf, Started, CoreStays, RawStays, Merged
  <2>2. \A q, r \in Recorders : OneStarted(q, r)'
    BY <1>2 DEF vars, LInv, KeptInv, OneStarted, Started, Running
  <2> QED BY <1>1, <1>2, <2>1, <2>2 DEF vars, LInv, KeptInv
<1> QED BY <1>1, <1>2, BeforeKept, AfterKept, OrphanKept DEF Next, Ended, LInv

\* Wherever a recorder fails or is killed, what it recorded is on the disk: nothing is
\* overwritten, and no file is removed before a bag that contains it was validated.
THEOREM RecordingsAreKept ==
  ASSUME ~Concurrent
  PROVE  Spec => []NothingLost
<1>1. LInv => NothingLost
  <2> SUFFICES ASSUME LInv, NEW f \in recorded
               PROVE  \/ \E n \in Names : disk[n] = f
                      \/ (\E n \in Names : disk[n] = <<f[1], "merge">>) /\ <<f[1], "merge">> \in valid
    BY DEF NothingLost
  <2>1. PICK r \in Recorders, k \in {"core", "raw"} : f = <<r, k>>
    BY DEF LInv, KeptInv
  <2>2. f[1] = r
    BY <2>1
  <2>3. KeptOf(r)
    BY DEF LInv, KeptInv
  <2> QED BY <2>1, <2>2, <2>3 DEF KeptOf, CoreStays, RawStays, Merged, Names
<1>2. LInv /\ [Next]_vars => LInv'
  BY LInvStep
<1>3. Init => LInv
  BY InitInv, InitKept DEF LInv
<1> QED BY <1>1, <1>2, <1>3, PTL DEF Spec

-----------------------------------------------------------------------------
(* What a recording that passes leaves                                     *)

\* The names in use while a recorder has not failed, by where it is.
Complete(l) == l = "close" \/ l = "merge" \/ l = "validate" \/ l = "settle"
Unlinking(l) == l = "unlink active" \/ l = "unlink raw" \/ l = "unlink log"
NamesInUse(d, l) ==
    /\ d["active"] # Absent <=>
            \/ l = "open" \/ l = "log" \/ l = "spawn" \/ l = "record" \/ l = "stop"
            \/ Complete(l) \/ l = "unlink active"
    /\ d["raw.active"] # Absent <=> Raw /\ (l = "record" \/ l = "stop")
    /\ d["raw"] # Absent <=> Raw /\ (Complete(l) \/ l = "unlink active" \/ l = "unlink raw")
    /\ d["log"] # Absent <=>
            Raw /\ (l = "spawn" \/ l = "record" \/ l = "stop" \/ Complete(l) \/ Unlinking(l))
    /\ d["merge"] # Absent <=> Raw /\ (l = "validate" \/ l = "settle")
    /\ d["bag"] # Absent <=> Unlinking(l) \/ l = "report" \/ l = "done"
    /\ d["report"] # Absent <=> l = "done"
    /\ d["partial"] = Absent
OnlyRaw(l) == l = "log" \/ l = "spawn" \/ l = "stop" \/ l = "merge" \/ Unlinking(l)
PlaceOf(p) ==
    /\ (Running(p) \/ pc[p] = "done") /\ ~failed[p] => NamesInUse(disk, pc[p])
    /\ OnlyRaw(pc[p]) /\ ~failed[p] => Raw
    /\ pc[p] = "done" /\ ~failed[p] => \A q \in Recorders : ~Running(q)
PlaceInv == \A p \in Recorders : PlaceOf(p)

LEMMA InitPlace == Init => PlaceInv
  BY DEF Init, PlaceInv, PlaceOf, Running, OnlyRaw, Unlinking

\* What a step of a recorder that does not fail does to the names in use.
LEMMA PlaceStep ==
  ASSUME LInv, NEW p \in Recorders, PlaceOf(p), Before(p) \/ After(p),
         ~failed'[p], pc'[p] # "exited"
  PROVE  NamesInUse(disk', pc'[p]) /\ (OnlyRaw(pc'[p]) => Raw)
<1>0. ~failed'[p]
  OBVIOUS
<1>1. CASE Check(p)
  <2>1. pc'[p] = "reserve" /\ \A n \in Names : disk'[n] = Absent
    BY <1>1, Shape DEF Check, Goto, Leftovers, Has
  <2> QED BY <2>1 DEF NamesInUse, Complete, Unlinking, OnlyRaw, Names
<1>2. CASE Reserve(p) /\ ~Has("active")
  <2>1. /\ pc[p] = "reserve" /\ pc'[p] = "open" /\ failed'[p] = failed[p]
        /\ disk'["active"] # Absent /\ \A n \in Names \ {"active"} : disk'[n] = disk[n]
    BY <1>2, Shape, FilesDiffer DEF Reserve, Create, Goto
  <2> QED BY <1>0, <2>1, FilesAssumption
          DEF PlaceOf, Running, Has, NamesInUse, Complete, Unlinking, OnlyRaw, Names
<1>3. CASE Reserve(p) /\ Has("active")
  <2>1. failed'[p]
    BY <1>3, Shape DEF Reserve, Fail
  <2> QED BY <1>0, <2>1
<1>4. CASE Open(p)
  <2>1. /\ pc[p] = "open" /\ pc'[p] = (IF Raw THEN "log" ELSE "record") /\ failed'[p] = failed[p]
        /\ disk'["active"] # Absent /\ \A n \in Names \ {"active"} : disk'[n] = disk[n]
    BY <1>4, Shape, FilesDiffer DEF Open, Create, Goto
  <2> QED BY <1>0, <2>1, FilesAssumption
          DEF PlaceOf, Running, Has, NamesInUse, Complete, Unlinking, OnlyRaw, Names
<1>5. CASE OpenFails(p) \/ StopRawFails(p) \/ MergeFails(p) \/ ValidateFails(p) \/ SettlePartial(p)
  <2>1. failed'[p]
    BY <1>5, Shape DEF OpenFails, StopRawFails, MergeFails, ValidateFails, SettlePartial,
       MayPublish, Fail
  <2> QED BY <1>0, <2>1
<1>6. CASE OpenLog(p)
  <2>1. /\ pc[p] = "log" /\ pc'[p] = "spawn" /\ failed'[p] = failed[p]
        /\ disk'["log"] # Absent /\ \A n \in Names \ {"log"} : disk'[n] = disk[n]
    BY <1>6, Shape, FilesDiffer DEF OpenLog, Create, Goto
  <2> QED BY <1>0, <2>1, FilesAssumption
          DEF PlaceOf, Running, Has, NamesInUse, Complete, Unlinking, OnlyRaw, Names
<1>7. CASE Spawn(p)
  <2>1. /\ pc[p] = "spawn" /\ pc'[p] = "record" /\ failed'[p] = failed[p]
        /\ disk'["raw.active"] # Absent /\ \A n \in Names \ {"raw.active"} : disk'[n] = disk[n]
    BY <1>7, Shape, FilesDiffer DEF Spawn, Create, Goto
  <2> QED BY <1>0, <2>1, FilesAssumption
          DEF PlaceOf, Running, Has, NamesInUse, Complete, Unlinking, OnlyRaw, Names
<1>8. CASE Record(p)
  <2>1. /\ pc[p] = "record" /\ pc'[p] = (IF Raw THEN "stop" ELSE "close") /\ (failed[p] => failed'[p])
        /\ \A n \in Names : disk'[n] = disk[n]
    BY <1>8, Shape, FilesDiffer DEF Record, Goto
  <2> QED BY <1>0, <2>1, FilesAssumption
          DEF PlaceOf, Running, Has, NamesInUse, Complete, Unlinking, OnlyRaw, Names
<1>9. CASE StopRaw(p)
  <2>1. /\ pc[p] = "stop" /\ pc'[p] = "close" /\ (failed[p] => failed'[p])
        /\ disk'["raw"] = disk["raw.active"] /\ disk'["raw.active"] = Absent
        /\ disk["raw.active"] # Absent /\ \A n \in Names \ {"raw.active", "raw"} : disk'[n] = disk[n]
    BY <1>9, Shape, FilesDiffer DEF StopRaw, Move, Has, Goto
  <2> QED BY <1>0, <2>1, FilesAssumption
          DEF PlaceOf, Running, Has, NamesInUse, Complete, Unlinking, OnlyRaw, Names
<1>10. CASE Close(p)
  <2>1. /\ pc[p] = "close" /\ pc'[p] = (IF Raw THEN "merge" ELSE "validate") /\ (failed[p] => failed'[p])
        /\ \A n \in Names : disk'[n] = disk[n]
    BY <1>10, Shape, FilesDiffer DEF Close, Goto
  <2> QED BY <1>0, <2>1, FilesAssumption
          DEF PlaceOf, Running, Has, NamesInUse, Complete, Unlinking, OnlyRaw, Names
<1>11. CASE Merge(p)
  <2>1. /\ pc[p] = "merge" /\ pc'[p] = "validate" /\ failed'[p] = failed[p]
        /\ disk'["merge"] # Absent /\ \A n \in Names \ {"merge"} : disk'[n] = disk[n]
    BY <1>11, Shape, FilesDiffer DEF Merge, Create, Goto
  <2> QED BY <1>0, <2>1, FilesAssumption
          DEF PlaceOf, Running, Has, NamesInUse, Complete, Unlinking, OnlyRaw, Names
<1>12. CASE Validate(p)
  <2>1. /\ pc[p] = "validate" /\ pc'[p] = "settle" /\ failed'[p] = failed[p]
        /\ \A n \in Names : disk'[n] = disk[n]
    BY <1>12, Shape, FilesDiffer DEF Validate, Goto
  <2> QED BY <1>0, <2>1, FilesAssumption
          DEF PlaceOf, Running, Has, NamesInUse, Complete, Unlinking, OnlyRaw, Names
<1>13. CASE Publish(p) /\ Raw
  <2>1. /\ pc[p] = "settle" /\ pc'[p] = "unlink active" /\ failed'[p] = failed[p]
        /\ disk'["bag"] = disk["merge"] /\ disk'["merge"] = Absent
        /\ disk["merge"] # Absent /\ \A n \in Names \ {"merge", "bag"} : disk'[n] = disk[n]
    BY <1>13, Shape, FilesDiffer DEF Publish, Candidate, Move, Has, Goto
  <2> QED BY <1>0, <2>1, FilesAssumption
          DEF PlaceOf, Running, Has, NamesInUse, Complete, Unlinking, OnlyRaw, Names
<1>14. CASE Publish(p) /\ ~Raw
  <2>1. /\ pc[p] = "settle" /\ pc'[p] = "report" /\ failed'[p] = failed[p]
        /\ disk'["bag"] = disk["active"] /\ disk'["active"] = Absent
        /\ disk["active"] # Absent /\ \A n \in Names \ {"active", "bag"} : disk'[n] = disk[n]
    BY <1>14, Shape, FilesDiffer DEF Publish, Candidate, Move, Has, Goto
  <2> QED BY <1>0, <1>14, <2>1, FilesAssumption
          DEF PlaceOf, Running, Has, NamesInUse, Complete, Unlinking, OnlyRaw, Names
<1>15. CASE Unlink(p, "active", "unlink active", "unlink raw")
  <2>1. /\ pc[p] = "unlink active" /\ pc'[p] = "unlink raw" /\ failed'[p] = failed[p]
        /\ disk'["active"] = Absent /\ \A n \in Names \ {"active"} : disk'[n] = disk[n]
    BY <1>15, Shape, FilesDiffer DEF Unlink, Remove, Goto
  <2> QED BY <1>0, <2>1, FilesAssumption
          DEF PlaceOf, Running, Has, NamesInUse, Complete, Unlinking, OnlyRaw, Names
<1>16. CASE Unlink(p, "raw", "unlink raw", "unlink log")
  <2>1. /\ pc[p] = "unlink raw" /\ pc'[p] = "unlink log" /\ failed'[p] = failed[p]
        /\ disk'["raw"] = Absent /\ \A n \in Names \ {"raw"} : disk'[n] = disk[n]
    BY <1>16, Shape, FilesDiffer DEF Unlink, Remove, Goto
  <2> QED BY <1>0, <2>1, FilesAssumption
          DEF PlaceOf, Running, Has, NamesInUse, Complete, Unlinking, OnlyRaw, Names
<1>17. CASE Unlink(p, "log", "unlink log", "report")
  <2>1. /\ pc[p] = "unlink log" /\ pc'[p] = "report" /\ failed'[p] = failed[p]
        /\ disk'["log"] = Absent /\ \A n \in Names \ {"log"} : disk'[n] = disk[n]
    BY <1>17, Shape, FilesDiffer DEF Unlink, Remove, Goto
  <2> QED BY <1>0, <2>1, FilesAssumption
          DEF PlaceOf, Running, Has, NamesInUse, Complete, Unlinking, OnlyRaw, Names
<1>18. CASE Report(p)
  <2>1. /\ pc[p] = "report" /\ pc'[p] = "done" /\ failed'[p] = failed[p]
        /\ disk'["report"] # Absent /\ \A n \in Names \ {"report"} : disk'[n] = disk[n]
    BY <1>18, Shape, FilesDiffer DEF Report, Create, Goto
  <2> QED BY <1>0, <2>1, FilesAssumption
          DEF PlaceOf, Running, Has, NamesInUse, Complete, Unlinking, OnlyRaw, Names
<1> QED BY <1>1, <1>2, <1>3, <1>4, <1>5, <1>6, <1>7, <1>8, <1>9, <1>10, <1>11, <1>12, <1>13, <1>14, <1>15, <1>16, <1>17, <1>18
           DEF Before, After, Unlinks


LEMMA PlaceInvStep ==
  ASSUME ~Concurrent, LInv, PlaceInv, [Next]_vars
  PROVE  PlaceInv'
<1>1. ASSUME NEW p \in Recorders, Before(p) \/ After(p) \/ Crash(p)
      PROVE  PlaceInv'
  <2>1. PlaceOf(p)
    BY DEF PlaceInv
  <2>2. \A q \in Recorders : q # p =>
            ~Running(q) /\ ~Running(q)' /\ pc'[q] = pc[q] /\ failed'[q] = failed[q]
    BY <1>1, Alone DEF LInv, Running
  <2>3. PlaceOf(p)'
    <3>1. CASE Crash(p)
      <4>1. pc'[p] = "exited"
        BY <3>1, Shape DEF Crash, Goto
      <4> QED BY <4>1 DEF PlaceOf, Running, OnlyRaw, Unlinking
    <3>2. CASE ~Crash(p) /\ ~failed'[p] /\ pc'[p] # "exited"
      <4>1. NamesInUse(disk', pc'[p]) /\ (OnlyRaw(pc'[p]) => Raw)
        BY <1>1, <2>1, <3>2, PlaceStep
      <4>2. pc'[p] = "done" => \A q \in Recorders : ~Running(q)'
        BY <2>2 DEF Running
      <4> QED BY <4>1, <4>2 DEF PlaceOf
    <3>3. CASE failed'[p]
      BY <3>3 DEF PlaceOf
    <3>4. CASE pc'[p] = "exited"
      BY <3>4 DEF PlaceOf, Running, OnlyRaw, Unlinking
    <3> QED BY <3>1, <3>2, <3>3, <3>4
  <2>4. ASSUME NEW q \in Recorders, q # p  PROVE PlaceOf(q)'
    <3>1. PlaceOf(q) /\ ~Running(q)' /\ pc'[q] = pc[q] /\ failed'[q] = failed[q]
      BY <2>2, <2>4 DEF PlaceInv
    <3>2. CASE pc[q] = "done" /\ ~failed[q]
      <4>1. NamesInUse(disk, "done") /\ \A r \in Recorders : ~Running(r)
        BY <3>1, <3>2 DEF PlaceOf
      <4>2. Check(p)
        BY <1>1, <4>1, ActorRuns
      <4>3. "bag" \in Leftovers
        BY <4>1 DEF NamesInUse, Leftovers, Has, Names
      <4>4. disk' = disk /\ pc'[p] = "exited"
        BY <4>2, <4>3, Shape DEF Check, Goto
      <4>5. \A r \in Recorders : ~Running(r)'
        BY <2>2, <4>4 DEF Running
      <4>6. pc'[q] = "done" /\ NamesInUse(disk', pc'[q])
        BY <3>1, <3>2, <4>1, <4>4
      <4>7. ~OnlyRaw(pc'[q])
        BY <4>6 DEF OnlyRaw, Unlinking
      <4> QED BY <4>5, <4>6, <4>7 DEF PlaceOf
    <3>3. CASE ~(pc[q] = "done" /\ ~failed[q])
      BY <3>1, <3>3 DEF PlaceOf
    <3> QED BY <3>2, <3>3
  <2> QED BY <2>3, <2>4 DEF PlaceInv
<1>2. ASSUME NEW p \in Recorders, OrphanCloses(p)
      PROVE  PlaceInv'
  <2>1. /\ pc[p] = "exited" /\ disk["raw.active"] = <<p, "raw">>
        /\ pc' = pc /\ failed' = failed
    BY <1>2 DEF OrphanCloses
  <2>2. ASSUME NEW q \in Recorders  PROVE PlaceOf(q)'
    <3>1. PlaceOf(q) /\ KeptOf(q)
      BY Shape DEF PlaceInv
    <3>2. CASE (Running(q) \/ pc[q] = "done") /\ ~failed[q]
      <4>1. NamesInUse(disk, pc[q])
        BY <3>1, <3>2 DEF PlaceOf
      <4>2. Raw /\ (pc[q] = "record" \/ pc[q] = "stop")
        <5>1. disk["raw.active"] # Absent
          BY <2>1, FilesDiffer
        <5>2. disk["raw.active"] # Absent <=> Raw /\ (pc[q] = "record" \/ pc[q] = "stop")
          BY <4>1 DEF NamesInUse
        <5> QED BY <5>1, <5>2
      <4>3. disk["raw.active"] = <<q, "raw">>
        BY <3>1, <4>2 DEF KeptOf
      <4>4. q = p
        BY <2>1, <4>3
      <4> QED BY <2>1, <4>2, <4>4
    <3>3. CASE ~((Running(q) \/ pc[q] = "done") /\ ~failed[q])
      BY <2>1, <3>1, <3>3 DEF PlaceOf, Running
    <3> QED BY <3>2, <3>3
  <2> QED BY <2>2 DEF PlaceInv
<1>3. CASE UNCHANGED vars
  BY <1>3 DEF vars, PlaceInv, PlaceOf, Running
<1> QED BY <1>1, <1>2, <1>3 DEF Next, Ended

\* A recording that passes leaves its bag and its report and no other file, also if raw
\* recorders of earlier runs are still closing their bags.
THEOREM OnlyBagIsLeft ==
  ASSUME ~Concurrent
  PROVE  Spec => []LeavesOnlyBag
<1>1. PlaceInv => LeavesOnlyBag
  <2> SUFFICES ASSUME PlaceInv, NEW p \in Recorders, pc[p] = "done", ~failed[p]
               PROVE  {n \in Names : Has(n)} = {"bag", "report"}
    BY DEF LeavesOnlyBag
  <2>1. NamesInUse(disk, "done")
    BY DEF PlaceInv, PlaceOf
  <2> QED BY <2>1 DEF NamesInUse, Complete, Unlinking, Has, Names
<1>2. LInv /\ PlaceInv /\ [Next]_vars => (LInv /\ PlaceInv)'
  BY LInvStep, PlaceInvStep
<1>3. Init => LInv /\ PlaceInv
  BY InitInv, InitKept, InitPlace DEF LInv
<1> QED BY <1>1, <1>2, <1>3, PTL DEF Spec
=============================================================================
