-------------------------- MODULE IkdRebuildProofs ---------------------------
(* Searches and rebuilds exclude each other, the log of a rebuild holds what *)
(* its copy lacks, and an exact rebuild does not change the map: for any     *)
(* number of search threads, any points and any calls.                       *)
EXTENDS IkdRebuildProps, FiniteSetTheorems, SequenceTheorems, TLAPS

Counted == {s \in Searchers : held[s]}
\* from StopSearches to StartBuild, and again until Unlock
Closed == reb \in {"copy", "open", "swap", "unlock"}

Typed ==
    /\ spc \in [Searchers -> {"start", "root", "sub", "done"}]
    /\ held \in [Searchers -> BOOLEAN]
    /\ Rebuild_Ptr \in {"none", "sub", "root"}
\* the counter tells how many searches are counted, unless it locks them out
CounterIsRight == search_mutex_counter = IF Closed THEN -1 ELSE Cardinality(Counted)
NoneCounted == Closed => Counted = {}
\* The threads search only while the odometry waits for them, and while it waits no
\* rebuild is asked for: who enters what is being rebuilt is counted.
SearchInv(s) ==
    /\ held[s] => spc[s] \in {"root", "sub"}
    /\ spc[s] # "done" => odo = "search"
    /\ spc[s] \in {"root", "sub"} /\ Rebuild_Ptr = "root" => held[s]
    /\ Rebuild_Ptr = "sub" => (held[s] <=> spc[s] = "sub")
\* the request that the thread works on is withdrawn by a crash only
RequestStands == reb \notin {"idle", "clear"} => Rebuild_Ptr # "none" \/ odo = "crashed"
IInv ==
    /\ Typed /\ CounterIsRight /\ NoneCounted /\ RequestStands
    /\ \A s \in Searchers : SearchInv(s)
    /\ boxing = "old" => reb = "unlock"

LEMMA InitIInv == Init => IInv
  <1> SUFFICES ASSUME Init  PROVE IInv
    OBVIOUS
  <1>1. Counted = {} /\ ~Closed
    BY DEF Init, Counted, Closed
  <1>2. search_mutex_counter = Cardinality(Counted)
    BY <1>1, FS_EmptySet DEF Init
  <1> QED BY <1>1, <1>2
      DEF Init, IInv, Typed, CounterIsRight, NoneCounted, SearchInv, RequestStands

\* A step of the odometry outside Nearest_Search and Criterion_Check.
LEMMA OdometryAlone ==
  ASSUME IInv, odo # "search" \/ odo' = odo, odo # "crashed", boxing' = "old" => boxing = "old",
         UNCHANGED <<Rebuild_Ptr, search_mutex_counter, sVars, reb>>
  PROVE  IInv'
  <1>1. Counted' = Counted /\ Closed' = Closed
    BY DEF Counted, Closed, sVars
  <1>2. Typed' /\ CounterIsRight' /\ NoneCounted' /\ RequestStands'
    BY <1>1 DEF IInv, Typed, CounterIsRight, NoneCounted, RequestStands, sVars
  <1>3. \A s \in Searchers : SearchInv(s)'
    BY DEF IInv, SearchInv, sVars
  <1> QED BY <1>2, <1>3 DEF IInv

\* Rebuild asks for a subtree, or a request is given up, while nobody searches.
LEMMA CriterionStep ==
  ASSUME IInv, Criterion_Check
  PROVE  IInv'
  <1>1. PICK t \in {"sub", "root"} :
          /\ odo = IF t = "sub" THEN "checksub" ELSE "checkroot"
          /\ \/ Request(t) \/ RebuildNow(t)
             \/ Rebuild_Ptr' = Asked(t) /\ UNCHANGED <<nodes, valid, push>>
          /\ odo' = IF Asked(t) # Rebuild_Ptr /\ reb # "idle" THEN "crashed"
                    ELSE IF t = "sub" THEN "checkroot" ELSE "next"
    BY DEF Criterion_Check
  <1>2. UNCHANGED <<search_mutex_counter, boxing, spc, held, reb>>
    BY DEF Criterion_Check, locks, sVars, rebVars
  <1>3. Counted' = Counted /\ Closed' = Closed
    BY <1>2 DEF Counted, Closed
  <1>4. Asked(t) \in {"none", Rebuild_Ptr}
    BY DEF Asked
  <1>5. \/ Rebuild_Ptr' = t /\ reb = "idle"
        \/ Rebuild_Ptr' = Asked(t)
    BY <1>1 DEF Request, RebuildNow
  <1>6. Typed' /\ CounterIsRight' /\ NoneCounted'
    BY <1>2, <1>3, <1>4, <1>5 DEF IInv, Typed, CounterIsRight, NoneCounted
  <1>7. RequestStands'
    BY <1>1, <1>2, <1>4, <1>5 DEF IInv, RequestStands
  <1>8. odo # "search"
    BY <1>1
  <1>9. \A s \in Searchers : SearchInv(s)'
    <2> SUFFICES ASSUME NEW s \in Searchers  PROVE SearchInv(s)'
      OBVIOUS
    <2>1. spc[s] = "done" /\ ~held[s]
      BY <1>8 DEF IInv, SearchInv
    <2> QED BY <1>2, <2>1 DEF SearchInv
  <1> QED BY <1>2, <1>6, <1>7, <1>9 DEF IInv

\* Threads are started when the odometry is idle, and joined when they are done.
LEMMA StartStep ==
  ASSUME IInv, StartSearches
  PROVE  IInv'
  <1>1. /\ odo = "idle" /\ odo' = "search" /\ spc' = [s \in Searchers |-> "start"]
        /\ UNCHANGED <<Rebuild_Ptr, search_mutex_counter, boxing, held, reb>>
    BY DEF StartSearches, Call, locks, rebVars
  <1>2. Counted' = Counted /\ Closed' = Closed
    BY <1>1 DEF Counted, Closed
  <1>3. Typed' /\ CounterIsRight' /\ NoneCounted' /\ RequestStands'
    BY <1>1, <1>2 DEF IInv, Typed, CounterIsRight, NoneCounted, RequestStands
  <1>4. \A s \in Searchers : SearchInv(s)'
    <2> SUFFICES ASSUME NEW s \in Searchers  PROVE SearchInv(s)'
      OBVIOUS
    <2>1. ~held[s]
      BY <1>1 DEF IInv, SearchInv
    <2> QED BY <1>1, <2>1 DEF SearchInv
  <1> QED BY <1>1, <1>3, <1>4 DEF IInv

LEMMA JoinStep ==
  ASSUME IInv, SearchesJoin
  PROVE  IInv'
  <1>1. /\ odo = "search" /\ odo' = "idle" /\ \A s \in Searchers : spc[s] = "done"
        /\ UNCHANGED <<Rebuild_Ptr, search_mutex_counter, boxing, spc, held, reb>>
    BY DEF SearchesJoin, locks, sVars, rebVars
  <1>2. Counted' = Counted /\ Closed' = Closed
    BY <1>1 DEF Counted, Closed
  <1>3. Typed' /\ CounterIsRight' /\ NoneCounted' /\ RequestStands'
    BY <1>1, <1>2 DEF IInv, Typed, CounterIsRight, NoneCounted, RequestStands
  <1>4. \A s \in Searchers : SearchInv(s)'
    BY <1>1 DEF IInv, SearchInv
  <1> QED BY <1>1, <1>3, <1>4 DEF IInv

\* The number of counted searches when one more is counted, or one no longer.
LEMMA CountOne ==
  ASSUME Typed, NEW s \in Searchers, NEW b \in BOOLEAN, held' = [held EXCEPT ![s] = b]
  PROVE  /\ held' \in [Searchers -> BOOLEAN] /\ Cardinality(Counted) \in Nat
         /\ ~held[s] /\ b => Cardinality(Counted') = Cardinality(Counted) + 1
         /\ held[s] /\ ~b => Cardinality(Counted') = Cardinality(Counted) - 1
         /\ held[s] = b => Counted' = Counted
  <1>1. held' \in [Searchers -> BOOLEAN] /\ held \in [Searchers -> BOOLEAN]
    BY DEF Typed
  <1>2. IsFiniteSet(Counted) /\ IsFiniteSet(Counted')
    BY IkdAssumption, FS_Subset DEF Counted
  <1>3. Cardinality(Counted) \in Nat
    BY <1>2, FS_CardinalityType
  <1>4. ASSUME ~held[s], b  PROVE Cardinality(Counted') = Cardinality(Counted) + 1
    <2>1. Counted' = Counted \union {s} /\ s \notin Counted
      BY <1>1, <1>4 DEF Counted
    <2> QED BY <1>2, <2>1, FS_AddElement
  <1>5. ASSUME held[s], ~b  PROVE Cardinality(Counted') = Cardinality(Counted) - 1
    <2>1. Counted' = Counted \ {s} /\ s \in Counted
      BY <1>1, <1>5 DEF Counted
    <2> QED BY <1>2, <2>1, FS_RemoveElement
  <1>6. ASSUME held[s] = b  PROVE Counted' = Counted
    BY <1>1, <1>6 DEF Counted
  <1> QED BY <1>1, <1>3, <1>4, <1>5, <1>6

\* A search enters the root, or the subtree after it: counted if that is being rebuilt.
LEMMA EnterStep ==
  ASSUME IInv, NEW s \in Searchers, NEW t \in {"root", "sub"}, Enter(s, t),
         spc[s] = IF t = "root" THEN "start" ELSE "root"
  PROVE  IInv'
  <1>1. /\ spc' = [spc EXCEPT ![s] = t]
        /\ UNCHANGED <<Rebuild_Ptr, boxing, odo, reb>> /\ Closed' = Closed
    BY DEF Enter, odoVars, rebVars, Closed
  <1>2. SearchInv(s)
    BY DEF IInv
  <1>3. spc' \in [Searchers -> {"start", "root", "sub", "done"}] /\ spc'[s] = t
        /\ \A u \in Searchers : u # s => spc'[u] = spc[u]
    BY <1>1 DEF IInv, Typed
  <1>4. RequestStands'
    BY <1>1 DEF IInv, RequestStands
  <1>5. CASE Rebuild_Ptr = t
    <2>1. /\ search_mutex_counter # -1 /\ search_mutex_counter' = search_mutex_counter + 1
          /\ held' = [held EXCEPT ![s] = TRUE]
      BY <1>5 DEF Enter
    <2>2. ~held[s] /\ ~Closed
      BY <1>2, <1>5, <2>1 DEF SearchInv, IInv, CounterIsRight
    <2>3. Cardinality(Counted') = Cardinality(Counted) + 1 /\ held' \in [Searchers -> BOOLEAN]
      BY <2>1, <2>2, CountOne DEF IInv
    <2>4. CounterIsRight' /\ NoneCounted' /\ Typed'
      BY <1>1, <1>3, <2>1, <2>2, <2>3 DEF IInv, CounterIsRight, NoneCounted, Typed
    <2>5. held'[s] /\ \A u \in Searchers : u # s => held'[u] = held[u]
      BY <2>1 DEF IInv, Typed
    <2>6. \A u \in Searchers : SearchInv(u)'
      <3> SUFFICES ASSUME NEW u \in Searchers  PROVE SearchInv(u)'
        OBVIOUS
      <3>1. SearchInv(u)
        BY DEF IInv
      <3>2. CASE u = s
        BY <1>1, <1>2, <1>3, <1>5, <2>5, <3>2 DEF SearchInv
      <3>3. CASE u # s
        BY <1>1, <1>3, <2>5, <3>1, <3>3 DEF SearchInv
      <3> QED BY <3>2, <3>3
    <2> QED BY <1>1, <1>4, <2>4, <2>6 DEF IInv
  <1>6. CASE Rebuild_Ptr # t
    <2>1. UNCHANGED <<search_mutex_counter, held>> /\ Counted' = Counted
      BY <1>6 DEF Enter, Counted
    <2>2. CounterIsRight' /\ NoneCounted' /\ Typed'
      BY <1>1, <1>3, <2>1 DEF IInv, CounterIsRight, NoneCounted, Typed
    <2>3. \A u \in Searchers : SearchInv(u)'
      <3> SUFFICES ASSUME NEW u \in Searchers  PROVE SearchInv(u)'
        OBVIOUS
      <3>1. SearchInv(u)
        BY DEF IInv
      <3>2. CASE u = s
        BY <1>1, <1>2, <1>3, <1>6, <2>1, <3>2 DEF SearchInv
      <3>3. CASE u # s
        BY <1>1, <1>3, <2>1, <3>1, <3>3 DEF SearchInv
      <3> QED BY <3>2, <3>3
    <2> QED BY <1>1, <1>4, <2>2, <2>3 DEF IInv
  <1> QED BY <1>5, <1>6

LEMMA ReturnStep ==
  ASSUME IInv, NEW s \in Searchers, SearchReturns(s)
  PROVE  IInv'
  <1>1. /\ spc[s] \in {"root", "sub"} /\ spc' = [spc EXCEPT ![s] = "done"]
        /\ held' = [held EXCEPT ![s] = FALSE]
        /\ search_mutex_counter' = search_mutex_counter - (IF held[s] THEN 1 ELSE 0)
        /\ UNCHANGED <<Rebuild_Ptr, boxing, odo, reb>> /\ Closed' = Closed
    BY DEF SearchReturns, Uncount, odoVars, rebVars, Closed
  <1>2. /\ spc' \in [Searchers -> {"start", "root", "sub", "done"}]
        /\ spc'[s] = "done" /\ ~held'[s]
        /\ \A u \in Searchers : u # s => spc'[u] = spc[u] /\ held'[u] = held[u]
    BY <1>1 DEF IInv, Typed
  <1>3. /\ held' \in [Searchers -> BOOLEAN] /\ Cardinality(Counted) \in Nat
        /\ held[s] => Cardinality(Counted') = Cardinality(Counted) - 1
        /\ ~held[s] => Counted' = Counted
    BY <1>1, CountOne DEF IInv, Typed
  <1>4. held[s] => ~Closed
    BY DEF IInv, NoneCounted, Counted
  <1>5. CounterIsRight' /\ NoneCounted' /\ Typed' /\ RequestStands'
    BY <1>1, <1>2, <1>3, <1>4
       DEF IInv, CounterIsRight, NoneCounted, Typed, RequestStands
  <1>6. \A u \in Searchers : SearchInv(u)'
    <2> SUFFICES ASSUME NEW u \in Searchers  PROVE SearchInv(u)'
      OBVIOUS
    <2>1. SearchInv(u)
      BY DEF IInv
    <2>2. CASE u = s
      BY <1>2, <2>2 DEF SearchInv
    <2>3. CASE u # s
      BY <1>1, <1>2, <2>1, <2>3 DEF SearchInv
    <2> QED BY <2>2, <2>3
  <1> QED BY <1>1, <1>5, <1>6 DEF IInv

LEMMA SearchStepInv ==
  ASSUME IInv, NEW s \in Searchers, SearchStep(s)
  PROVE  IInv'
  <1>1. CASE Nearest_Search(s)
    BY <1>1, EnterStep DEF Nearest_Search
  <1>2. CASE Search(s)
    BY <1>2, EnterStep DEF Search
  <1>3. CASE SearchReturns(s)
    BY <1>3, ReturnStep
  <1> QED BY <1>1, <1>2, <1>3 DEF SearchStep

\* A step of the rebuild thread that neither opens nor closes the searches, nor swaps.
LEMMA RebuildAlone ==
  ASSUME IInv, Closed' = Closed, reb # "unlock",
         reb' \notin {"idle", "clear"} => Rebuild_Ptr # "none" \/ odo = "crashed",
         UNCHANGED <<Rebuild_Ptr, search_mutex_counter, boxing, sVars, odo>>
  PROVE  IInv'
  <1>1. Counted' = Counted
    BY DEF Counted, sVars
  <1>2. Typed' /\ CounterIsRight' /\ NoneCounted' /\ RequestStands'
    BY <1>1 DEF IInv, Typed, CounterIsRight, NoneCounted, RequestStands, sVars
  <1>3. \A s \in Searchers : SearchInv(s)'
    BY DEF IInv, SearchInv, sVars
  <1> QED BY <1>2, <1>3 DEF IInv

\* The searches are locked out when none is counted.
LEMMA CloseStep ==
  ASSUME IInv, CloseSearch, ~Closed, reb \notin {"idle", "clear"}, reb' \in {"copy", "swap"},
         UNCHANGED <<Rebuild_Ptr, boxing, sVars, odo>>
  PROVE  IInv'
  <1>1. Counted' = Counted /\ Closed'
    BY DEF Counted, Closed, sVars
  <1>2. Counted = {}
    <2>1. IsFiniteSet(Counted)
      BY IkdAssumption, FS_Subset DEF Counted
    <2>2. Cardinality(Counted) = 0
      BY DEF IInv, CounterIsRight, CloseSearch
    <2> QED BY <2>1, <2>2, FS_EmptySet
  <1>3. Typed' /\ CounterIsRight' /\ NoneCounted' /\ RequestStands'
    BY <1>1, <1>2
       DEF IInv, Typed, CounterIsRight, NoneCounted, RequestStands, CloseSearch, sVars
  <1>4. \A s \in Searchers : SearchInv(s)'
    BY DEF IInv, SearchInv, sVars
  <1> QED BY <1>3, <1>4 DEF IInv, CloseSearch

\* They are let in again with none counted.
LEMMA OpenStep ==
  ASSUME IInv, OpenSearch, Closed, reb' \in {"replace", "build", "clear"},
         boxing = "no", UNCHANGED <<boxing, sVars, odo>>,
         Rebuild_Ptr' = IF reb' = "clear" THEN "none" ELSE Rebuild_Ptr
  PROVE  IInv'
  <1>1. Counted' = Counted /\ ~Closed' /\ Counted = {}
    BY DEF Counted, Closed, sVars, IInv, NoneCounted
  <1>2. Typed' /\ CounterIsRight' /\ NoneCounted' /\ RequestStands'
    BY <1>1, FS_EmptySet
       DEF IInv, Typed, CounterIsRight, NoneCounted, RequestStands, OpenSearch, sVars, Closed
  <1>3. \A s \in Searchers : SearchInv(s)'
    BY DEF IInv, SearchInv, sVars
  <1> QED BY <1>2, <1>3 DEF IInv

LEMMA RebuildStepInv ==
  ASSUME IInv, RebuildStep
  PROVE  IInv'
  <1> USE DEF Rebuilding, Closed, odoVars, locks
  <1>1. CASE Take
    BY <1>1, RebuildAlone DEF Take
  <1>2. CASE StopSearches
    BY <1>2, CloseStep DEF StopSearches
  <1>3. CASE flatten
    BY <1>3, RebuildAlone DEF flatten, IInv, RequestStands
  <1>4. CASE StartBuild
    BY <1>4, OpenStep DEF StartBuild
  <1>5. CASE Built
    BY <1>5, RebuildAlone DEF Built, IInv, RequestStands
  <1>6. CASE Pop
    BY <1>6, RebuildAlone DEF Pop, IInv, RequestStands
  <1>7. CASE run_operation
    BY <1>7, RebuildAlone DEF run_operation, IInv, RequestStands
  <1>8. CASE StopSearchesAgain
    BY <1>8, CloseStep DEF StopSearchesAgain, Drained
  <1>9. CASE Swap
    <2>1. /\ reb = "swap" /\ reb' = "unlock" /\ Counted' = Counted
          /\ UNCHANGED <<Rebuild_Ptr, search_mutex_counter, spc, held, odo>>
      BY <1>9 DEF Swap, sVars, Counted
    <2>2. Typed' /\ CounterIsRight' /\ NoneCounted' /\ RequestStands'
      BY <2>1 DEF IInv, Typed, CounterIsRight, NoneCounted, RequestStands
    <2>3. \A s \in Searchers : SearchInv(s)'
      BY <2>1 DEF IInv, SearchInv
    <2> QED BY <2>1, <2>2, <2>3 DEF IInv
  <1>10. CASE Unlock
    BY <1>10, OpenStep DEF Unlock
  <1>11. CASE Discard
    BY <1>11, RebuildAlone DEF Discard
  <1> QED BY <1>1, <1>2, <1>3, <1>4, <1>5, <1>6, <1>7, <1>8, <1>9, <1>10, <1>11
          DEF RebuildStep

LEMMA OdometryStepInv ==
  ASSUME IInv, OdometryStep \/ OdometryCall
  PROVE  IInv'
  <1> USE OdometryAlone DEF locks, rebVars
  <1>1. CASE Push_Down
    BY <1>1 DEF Push_Down
  <1>2. CASE Search_by_range
    BY <1>2 DEF Search_by_range
  <1>3. CASE Found
    BY <1>3 DEF Found
  <1>4. CASE Crash
    BY <1>4 DEF Crash
  <1>5. CASE Direct
    BY <1>5 DEF Direct
  <1>6. CASE Descend
    BY <1>6 DEF Descend
  <1>7. CASE ChangeSubtree
    BY <1>7 DEF ChangeSubtree, Lock
  <1>8. CASE ChangeRoot
    BY <1>8 DEF ChangeRoot, Lock
  <1>9. CASE LogChange
    BY <1>9 DEF LogChange
  <1>10. CASE NextOperation
    BY <1>10 DEF NextOperation
  <1>11. ASSUME NEW p \in Points, BuildTree(p) \/ Add_Points(p)  PROVE IInv'
    BY <1>11 DEF BuildTree, Add_Points, Call
  <1>12. ASSUME NEW b \in Boxes, Delete_Point_Boxes(b)  PROVE IInv'
    BY <1>12 DEF Delete_Point_Boxes, Call
  <1>13. CASE AwaitPush
    BY <1>13 DEF AwaitPush
  <1>14. CASE TellFather
    BY <1>14 DEF TellFather, odoVars
  <1> QED BY <1>1, <1>2, <1>3, <1>4, <1>5, <1>6, <1>7, <1>8, <1>9, <1>10, <1>11, <1>12,
             <1>13, <1>14, CriterionStep, JoinStep, StartStep DEF OdometryStep, OdometryCall

LEMMA StepIInv == IInv /\ [Next]_vars => IInv'
  <1> SUFFICES ASSUME IInv, [Next]_vars  PROVE IInv'
    OBVIOUS
  <1>1. CASE UNCHANGED vars
    <2>1. /\ UNCHANGED <<Rebuild_Ptr, search_mutex_counter, boxing, spc, held, odo, reb>>
          /\ Counted' = Counted /\ Closed' = Closed
      BY <1>1 DEF vars, locks, odoVars, sVars, rebVars, Counted, Closed
    <2>2. \A s \in Searchers : SearchInv(s)'
      BY <2>1 DEF IInv, SearchInv
    <2> QED BY <2>1, <2>2 DEF IInv, Typed, CounterIsRight, NoneCounted, RequestStands
  <1> QED BY <1>1, RebuildStepInv, OdometryStepInv, SearchStepInv DEF Next

\* No thread searches nodes that are being copied or swapped, and no nodes are deleted
\* under a box search that holds search_flag_mutex, for any number of search threads.
THEOREM SearchesStayApart == Spec => []SearchesApart
  <1>1. IInv => SearchesApart
    <2> SUFFICES ASSUME IInv  PROVE SearchesApart
      OBVIOUS
    <2>1. ASSUME reb \in {"copy", "swap"}, NEW s \in Searchers
          PROVE  spc[s] # "sub" /\ (Rebuild_Ptr = "root" => spc[s] \notin {"root", "sub"})
      <3>1. ~held[s] /\ (Rebuild_Ptr # "none" \/ odo = "crashed")
        BY <2>1 DEF IInv, NoneCounted, Closed, Counted, RequestStands
      <3> QED BY <3>1 DEF IInv, SearchInv, Typed
    <2> QED BY <2>1 DEF SearchesApart, Visited, IInv
  <1> QED BY <1>1, InitIInv, StepIInv, PTL DEF Spec

-----------------------------------------------------------------------------
(* The shape of the state                                                    *)

Working == {"direct", "addpush", "sublocked", "sublog", "checksub", "checkroot", "next", "locked", "log"}
Adds(o) == o.op = "ADD_POINT"
\* An operation adds one point or deletes a set; one that has descended adds to the subtree.
TodoInv ==
    /\ odo \in Working => Len(todo) \in {1, 2}
    /\ odo \in {"idle", "box", "boxpush", "search"} => todo = <<>>
    /\ \A i \in 1 .. Len(todo) : Adds(todo[i]) => \E p \in Points : todo[i].pts = {p}
    /\ odo \in {"box", "boxpush"} => \E p \in Points : adding = {p}
    /\ odo \in {"sublocked", "sublog"} /\ Adds(todo[1]) => todo[1].pts \subseteq InSub
\* working_flag_mutex is held by who changes the subtree or reads the log; a rebuild that
\* found nothing gives it up without holding it, when nothing is asked for any more.
LockInv ==
    /\ working_flag_mutex = "odo" => odo \in {"sublog", "log"}
    /\ odo \in {"sublog", "log"} => \/ working_flag_mutex = "odo"
                                    \/ Rebuild_Ptr = "none" /\ reb \in {"idle", "clear"}
    /\ reb \in {"close", "copy", "open", "replay"} => working_flag_mutex = "rebuild"
    /\ rebuild_flag <=> reb # "idle"
    /\ IF reb = "run" THEN Len(Operation) = 1 ELSE Operation = <<>>
\* What is asked for while an operation is on its way.
PtrInv ==
    /\ reb = "clear" => Rebuild_Ptr = "none"
    /\ odo \in {"sublocked", "sublog"} => Rebuild_Ptr # "root" /\ Root_Node
    /\ odo \in {"locked", "log"} => Rebuild_Ptr # "sub"
    /\ odo \in {"boxpush", "addpush"} => Rebuild_Ptr # "root"
    /\ ~Root_Node => /\ nodes = {}
                     /\ Rebuild_Ptr = "none" \/ (Rebuild_Ptr = "root" /\ reb = "unlock")
    /\ odo \in {"sublocked", "sublog"} => push = "no"
Shape == TypeOK /\ TodoInv /\ LockInv /\ PtrInv

\* TypeOK by the thread that owns the variables.
TreeType == /\ nodes \in SUBSET Points /\ valid \in SUBSET nodes
            /\ push \in {"no", "marked", "loose"}
            /\ Root_Node \in BOOLEAN
LogType == /\ rebuild_flag \in BOOLEAN /\ Rebuild_Logger \in Seq(Ops)
           /\ Rebuild_Ptr \in {"none", "sub", "root"}
LockType == /\ working_flag_mutex \in {"free", "odo", "rebuild"} /\ search_mutex_counter \in Int
            /\ boxing \in {"no", "yes", "old"}
OdoType ==
    /\ odo \in {"idle", "box", "direct", "sublocked", "sublog", "locked", "log", "checksub",
                "checkroot", "next", "boxpush", "addpush", "search", "crashed"}
    /\ todo \in Seq(Ops) /\ adding \in SUBSET Points /\ calls \in 0 .. MaxOps
    /\ want \in SUBSET Points
SearchType ==
    /\ spc \in [Searchers -> {"start", "root", "sub", "done"}] /\ held \in [Searchers -> BOOLEAN]
RebType ==
    /\ reb \in {"idle", "close", "copy", "open", "build", "replay", "run", "replace", "swap",
                "unlock", "clear"}
    /\ new \in [nodes : SUBSET Points, valid : SUBSET Points] /\ new.valid \subseteq new.nodes
    /\ Operation \in Seq(Ops) /\ exact \in BOOLEAN /\ sound \in BOOLEAN
LEMMA TypeParts ==
    /\ TypeOK <=> TreeType /\ LogType /\ LockType /\ OdoType /\ SearchType /\ RebType
    /\ TypeOK' <=> TreeType' /\ LogType' /\ LockType' /\ OdoType' /\ SearchType' /\ RebType'
<1> USE DEF TypeOK, TreeType, LogType, LockType, OdoType, SearchType, RebType
<1>1. TypeOK <=> TreeType /\ LogType /\ LockType /\ OdoType /\ SearchType /\ RebType
  OBVIOUS
<1>2. TypeOK' <=> TreeType' /\ LogType' /\ LockType' /\ OdoType' /\ SearchType' /\ RebType'
  OBVIOUS
<1> QED BY <1>1, <1>2

\* What a step leaves alone keeps its type.
LEMMA TypeFrame ==
    /\ TreeType /\ UNCHANGED tree => TreeType'
    /\ LogType /\ UNCHANGED <<rebuild_flag, Rebuild_Logger, Rebuild_Ptr>> => LogType'
    /\ LockType /\ UNCHANGED locks => LockType'
    /\ OdoType /\ UNCHANGED odoVars => OdoType'
    /\ SearchType /\ UNCHANGED sVars => SearchType'
    /\ RebType /\ UNCHANGED rebVars => RebType'
BY DEF TreeType, LogType, LockType, OdoType, SearchType, RebType, tree, locks, odoVars, sVars,
       rebVars

LEMMA MapFacts == TypeOK => Map \subseteq valid /\ valid \subseteq nodes /\ nodes \subseteq Points
BY DEF TypeOK, Map, Visible

LEMMA OneElement ==
    ASSUME NEW S, NEW s \in Seq(S), Len(s) = 1
    PROVE  s = <<s[1]>> /\ Tail(s) = <<>> /\ Head(s) = s[1] /\ s[1] \in S
<1>1. s[1] \in S /\ Head(s) = s[1]
  OBVIOUS
<1>2. <<s[1]>> \in Seq(S) /\ Len(<<s[1]>>) = 1 /\ <<s[1]>>[1] = s[1]
  BY <1>1
<1>3. \A i \in 1 .. Len(s) : s[i] = <<s[1]>>[i]
  BY <1>2
<1>4. s = <<s[1]>>
  BY <1>2, <1>3, SeqEqual
<1>5. Tail(s) \in Seq(S) /\ Len(Tail(s)) = 0
  BY HeadTailProperties
<1>6. Tail(s) = <<>>
  BY <1>5, EmptySeq
<1> QED BY <1>1, <1>4, <1>6

LEMMA TwoElements ==
    ASSUME NEW S, NEW s \in Seq(S), Len(s) = 2
    PROVE  /\ s = <<s[1]>> \o <<s[2]>> /\ Tail(s) = <<s[2]>> /\ Head(s) = s[1]
           /\ s[1] \in S /\ s[2] \in S
<1>1. s[1] \in S /\ s[2] \in S /\ Head(s) = s[1]
  <2>1. 1 \in 1 .. Len(s) /\ 2 \in 1 .. Len(s)
    OBVIOUS
  <2>2. s[1] \in S /\ s[2] \in S
    BY <2>1, ElementOfSeq
  <2>3. Head(s) = s[1]
    OBVIOUS
  <2> QED BY <2>2, <2>3
<1>2. Tail(s) \in Seq(S) /\ Len(Tail(s)) = 1 /\ Tail(s)[1] = s[2]
  BY HeadTailProperties
<1>3. Tail(s) = <<s[2]>>
  BY <1>2, OneElement
<1> DEFINE a == <<s[1]>>
           b == <<s[2]>>
<1>4. a \in Seq(S) /\ b \in Seq(S) /\ Len(a) = 1 /\ Len(b) = 1 /\ a[1] = s[1] /\ b[1] = s[2]
  BY <1>1
<1> HIDE DEF a, b
<1>5. a \o b \in Seq(S) /\ Len(a \o b) = 2 /\ (a \o b)[1] = s[1] /\ (a \o b)[2] = s[2]
  BY <1>4, ConcatProperties
<1>6. \A i \in 1 .. Len(s) : s[i] = (a \o b)[i]
  BY <1>5
<1>7. s = a \o b
  BY <1>5, <1>6, SeqEqual
<1> QED BY <1>1, <1>3, <1>7 DEF a, b

LEMMA TodoFacts ==
    ASSUME TypeOK, TodoInv, odo \in Working
    PROVE  /\ todo \in Seq(Ops) /\ Len(todo) \in {1, 2} /\ Head(todo) = todo[1] /\ todo[1] \in Ops
           /\ Tail(todo) \in Seq(Ops) /\ Len(Tail(todo)) = Len(todo) - 1
           /\ Len(todo) = 1 => todo = <<todo[1]>> /\ Tail(todo) = <<>>
           /\ Len(todo) = 2 => /\ todo = <<todo[1]>> \o <<todo[2]>> /\ Tail(todo) = <<todo[2]>>
                               /\ todo[2] \in Ops
<1>1. todo \in Seq(Ops) /\ Len(todo) \in {1, 2}
  BY DEF TypeOK, TodoInv
<1>2. Head(todo) = todo[1] /\ todo[1] \in Ops
  BY <1>1
<1>3. Tail(todo) \in Seq(Ops) /\ Len(Tail(todo)) = Len(todo) - 1
  <2>1. todo # <<>>
    BY <1>1
  <2> QED BY ONLY <1>1, <2>1, HeadTailProperties
<1>4. ASSUME Len(todo) = 1 PROVE todo = <<todo[1]>> /\ Tail(todo) = <<>>
  BY <1>1, <1>4, OneElement
<1>5. ASSUME Len(todo) = 2
      PROVE  /\ todo = <<todo[1]>> \o <<todo[2]>> /\ Tail(todo) = <<todo[2]>>
             /\ todo[2] \in Ops
  BY <1>1, <1>5, TwoElements
<1> QED BY <1>1, <1>2, <1>3, <1>4, <1>5

LEMMA DownsampleFacts ==
    ASSUME NEW p \in Points
    PROVE  /\ Downsample(p) \in Seq(Ops)
           /\ Downsample(p) # <<>> => Len(Downsample(p)) \in {1, 2}
           /\ \A i \in 1 .. Len(Downsample(p)) :
                 Adds(Downsample(p)[i]) => Downsample(p)[i].pts = {p}
<1> DEFINE a == Op("ADD_POINT", {p})
           d == Op("DOWNSAMPLE_DELETE", Voxel[p])
<1>1. Voxel[p] \subseteq Points
  BY IkdAssumption
<1>2. /\ a \in Ops /\ a.op = "ADD_POINT" /\ a.pts = {p}
      /\ d \in Ops /\ d.op = "DOWNSAMPLE_DELETE" /\ d.pts = Voxel[p]
  BY <1>1 DEF Op, Ops
<1>3. Downsample(p) \in {<<a>>, <<d, a>>, <<>>}
  BY DEF Downsample
<1> HIDE DEF a, d
<1>4. CASE Downsample(p) = <<a>>
  BY <1>2, <1>4 DEF Adds
<1>5. CASE Downsample(p) = <<d, a>>
  BY <1>2, <1>5 DEF Adds
<1>6. CASE Downsample(p) = <<>>
  BY <1>6
<1> QED BY <1>3, <1>4, <1>5, <1>6

LEMMA EffectFacts ==
    ASSUME NEW o \in Ops, NEW S \in SUBSET Points
    PROVE  Effect(S, o) \in SUBSET Points /\ Effect(S, o) \subseteq S \union o.pts
BY DEF Effect, Ops

LEMMA ShapeInit == Init => Shape
<1> SUFFICES ASSUME Init PROVE Shape
  OBVIOUS
<1>1. TypeOK
  <2>1. PICK init \in SUBSET Points : nodes = init /\ valid = init /\ want = init
    BY DEF Init
  <2>2. 0 \in 0 .. MaxOps
    BY IkdAssumption
  <2>3. /\ Rebuild_Logger = <<>> /\ todo = <<>> /\ Operation = <<>>
        /\ spc = [s \in Searchers |-> "done"] /\ held = [s \in Searchers |-> FALSE]
    BY DEF Init
  <2>4. /\ spc \in [Searchers -> {"start", "root", "sub", "done"}]
        /\ held \in [Searchers -> BOOLEAN]
    BY <2>3
  <2>5. Rebuild_Logger \in Seq(Ops) /\ todo \in Seq(Ops) /\ Operation \in Seq(Ops)
    BY <2>3, EmptySeq
  <2>6. /\ push \in {"no", "marked", "loose"} /\ Root_Node \in BOOLEAN /\ Rebuild_Ptr \in {"none", "sub", "root"}
        /\ rebuild_flag \in BOOLEAN /\ exact \in BOOLEAN /\ sound \in BOOLEAN
    BY DEF Init
  <2>8. /\ search_mutex_counter \in Int /\ adding \in SUBSET Points
        /\ new \in [nodes : SUBSET Points, valid : SUBSET Points] /\ new.valid \subseteq new.nodes
        /\ calls \in 0 .. MaxOps
    BY <2>2 DEF Init, NoTree
  <2>7. /\ working_flag_mutex = "free" /\ boxing = "no" /\ odo = "idle" /\ reb = "idle"
    BY DEF Init
  <2> QED BY <2>1, <2>4, <2>5, <2>6, <2>7, <2>8 DEF TypeOK
<1>2. TodoInv /\ LockInv /\ PtrInv
  BY DEF Init, TodoInv, LockInv, PtrInv, Working
<1> QED BY <1>1, <1>2 DEF Shape

LEMMA ShapeRebuild ==
    ASSUME IInv, Shape, RebuildStep
    PROVE  Shape'
<1> USE DEF Shape, Rebuilding, Alive
<1>0. TypeOK /\ RequestStands /\ Map \subseteq valid /\ valid \subseteq nodes /\ nodes \subseteq Points
  BY MapFacts DEF IInv
<1>1. UNCHANGED odoVars
  BY DEF RebuildStep, Take, StopSearches, flatten, StartBuild, Built, Pop, run_operation,
         StopSearchesAgain, Swap, Unlock, Discard
<1>2. TodoInv'
  BY <1>1 DEF TodoInv, odoVars
<1>3. LockInv' /\ PtrInv'
  <2> USE <1>0, <1>1 DEF LockInv, PtrInv, odoVars, tree, locks, RequestStands
  <2>1. CASE Take
    BY <2>1 DEF Take
  <2>2. CASE StopSearches
    BY <2>2 DEF StopSearches
  <2>3. CASE flatten
    BY <2>3 DEF flatten
  <2>4. CASE StartBuild
    BY <2>4 DEF StartBuild
  <2>5. CASE Built
    BY <2>5 DEF Built
  <2>6. CASE Pop
    BY <2>6 DEF Pop
  <2>7. CASE run_operation
    BY <2>7 DEF run_operation
  <2>8. CASE StopSearchesAgain
    BY <2>8 DEF StopSearchesAgain, Drained
  <2>9. CASE Swap
    <3>1. /\ reb = "swap" /\ reb' = "unlock" /\ Root_Node' = (Rebuild_Ptr = "root" => new.nodes # {})
          /\ (push = "no" => push' = "no")
          /\ UNCHANGED <<Rebuild_Ptr, rebuild_flag, working_flag_mutex, Operation>>
      BY <2>9 DEF Swap, Undoes
    <3>2. ~Root_Node' => nodes' = {} /\ Rebuild_Ptr = "root"
      <4>1. PICK back : SwapIn(back)
        BY <2>9 DEF Swap
      <4> QED BY <3>1, <4>1 DEF SwapIn, Region
    <3> QED BY <3>1, <3>2
  <2>10. CASE Unlock
    BY <2>10 DEF Unlock
  <2>11. CASE Discard
    BY <2>11 DEF Discard
  <2> QED BY <2>1, <2>2, <2>3, <2>4, <2>5, <2>6, <2>7, <2>8, <2>9, <2>10, <2>11 DEF RebuildStep
<1>4. TypeOK'
  <2>0. /\ TreeType /\ LogType /\ LockType /\ OdoType /\ SearchType /\ RebType
        /\ OdoType' /\ SearchType'
    <3>1. UNCHANGED sVars
      BY DEF RebuildStep, Take, StopSearches, flatten, StartBuild, Built, Pop, run_operation,
             StopSearchesAgain, Swap, Unlock, Discard
    <3> QED BY <1>0, <1>1, <3>1, TypeParts, TypeFrame
  <2>00. Region(Rebuild_Ptr) \subseteq Points
    BY IkdAssumption DEF Region
  <2>. SUFFICES TreeType' /\ LogType' /\ LockType' /\ RebType'
    BY <2>0, TypeParts
  <2> HIDE DEF Shape
  <2>1. CASE Take
    BY <2>0, <2>1, TypeFrame DEF Take, LogType, LockType, RebType, locks
  <2>2. CASE StopSearches
    BY <2>0, <2>2, TypeFrame DEF StopSearches, CloseSearch, LockType, RebType
  <2>3. CASE flatten
    <3>1. valid' \in SUBSET nodes' /\ push' \in {"no", "marked", "loose"}
      BY <1>0, <2>0, <2>3 DEF flatten, TreeType
    <3>3. /\ new' \in [nodes : SUBSET Points, valid : SUBSET Points]
          /\ new'.valid \subseteq new'.nodes
      BY <2>00, <2>3 DEF flatten
    <3>2. exact' \in BOOLEAN
      BY <2>3 DEF flatten
    <3> QED BY <2>0, <2>3, <3>1, <3>2, <3>3, TypeFrame DEF flatten, TreeType, RebType
  <2>4. CASE StartBuild
    BY <2>0, <2>4, TypeFrame DEF StartBuild, OpenSearch, LockType, RebType
  <2>5. CASE Built
    BY <2>0, <2>5, TypeFrame DEF Built, LockType, RebType
  <2>6. CASE Pop
    <3>1. Head(Rebuild_Logger) \in Ops /\ Tail(Rebuild_Logger) \in Seq(Ops)
      BY <2>0, <2>6, HeadTailProperties DEF Pop, LogType
    <3>2. <<Head(Rebuild_Logger)>> \in Seq(Ops)
      BY <3>1
    <3> QED BY <2>0, <2>6, <3>1, <3>2, TypeFrame DEF Pop, LogType, LockType, RebType
  <2>7. CASE run_operation
    <3>1. Operation[1] \in Ops
      <4>1. Len(Operation) = 1
        BY <2>7 DEF run_operation, LockInv, Shape
      <4> QED BY <2>0, <4>1, OneElement DEF RebType
    <3>2. /\ new' \in [nodes : SUBSET Points, valid : SUBSET Points]
          /\ new'.valid \subseteq new'.nodes
      BY <2>0, <2>7, <3>1 DEF run_operation, Effect, Ops, RebType
    <3> QED BY <2>0, <2>7, <3>2, EmptySeq, TypeFrame DEF run_operation, RebType
  <2>8. CASE StopSearchesAgain
    BY <2>0, <2>8, TypeFrame DEF StopSearchesAgain, CloseSearch, LockType, RebType
  <2>9. CASE Swap
    <3>1. nodes' \in SUBSET Points /\ valid' \in SUBSET nodes'
      <4>1. PICK back \in SUBSET ((nodes \ Region(Rebuild_Ptr)) \union new.nodes) : SwapIn(back)
        BY <2>9 DEF Swap, Undoes, Region
      <4> QED BY <2>0, <4>1 DEF SwapIn, TreeType, RebType
    <3>2. /\ push' \in {"no", "marked", "loose"} /\ Root_Node' \in BOOLEAN
          /\ sound' \in BOOLEAN
      BY <2>0, <2>9 DEF Swap, TreeType, RebType
    <3>3. new' = NoTree /\ NoTree \in [nodes : SUBSET Points, valid : SUBSET Points]
          /\ NoTree.valid \subseteq NoTree.nodes
      BY <2>9 DEF Swap, NoTree
    <3> QED BY <2>0, <2>9, <3>1, <3>2, <3>3, TypeFrame DEF Swap, TreeType, LockType, RebType
  <2>10. CASE Unlock
    BY <2>0, <2>10, TypeFrame DEF Unlock, OpenSearch, LogType, LockType, RebType
  <2>11. CASE Discard
    BY <2>0, <2>11, TypeFrame DEF Discard, LogType, RebType
  <2> QED BY <2>1, <2>2, <2>3, <2>4, <2>5, <2>6, <2>7, <2>8, <2>9, <2>10, <2>11 DEF RebuildStep
<1> QED BY <1>2, <1>3, <1>4

LEMMA ShapeSearch ==
    ASSUME IInv, Shape, NEW s \in Searchers, SearchStep(s)
    PROVE  Shape'
<1>1. UNCHANGED <<tree, Rebuild_Ptr, rebuild_flag, Rebuild_Logger, working_flag_mutex, boxing,
                  odoVars, rebVars>>
  BY DEF SearchStep, Nearest_Search, Search, SearchReturns, Enter
<1>2. TodoInv' /\ LockInv' /\ PtrInv'
  BY <1>1 DEF Shape, TodoInv, LockInv, PtrInv, tree, odoVars, rebVars
<1>3. Typed' /\ search_mutex_counter' \in Int
  <2>1. IInv'
    BY SearchStepInv
  <2>2. IsFiniteSet(Counted')
    BY IkdAssumption, FS_Subset DEF Counted
  <2>3. Cardinality(Counted') \in Nat
    BY <2>2, FS_CardinalityType
  <2> QED BY <2>1, <2>3 DEF IInv, CounterIsRight
<1>4. TypeOK'
  BY <1>1, <1>3 DEF Shape, TypeOK, Typed, tree, odoVars, rebVars
<1> QED BY <1>2, <1>4 DEF Shape

\* An operation of the odometry begins: it looks at Rebuild_Ptr.
LEMMA BeginFacts ==
    ASSUME Shape, NEW ops \in Seq(Ops), ops # <<>> => Len(ops) \in {1, 2}, Begin(ops),
           \A i \in 1 .. Len(ops) : Adds(ops[i]) => \E p \in Points : ops[i].pts = {p}
    PROVE  /\ odo' \in {"idle", "locked", "direct"} /\ (odo' = "locked" => Rebuild_Ptr = "root")
           /\ todo' \in Seq(Ops) /\ adding' \in SUBSET Points /\ TodoInv'
<1>1. todo' = ops /\ adding' = {}
      /\ odo' = IF ops = <<>> THEN "idle" ELSE IF Rebuild_Ptr = "root" THEN "locked" ELSE "direct"
  BY DEF Begin
<1>2. CASE ops = <<>>
  <2>1. odo' = "idle" /\ todo' = <<>> /\ Len(todo') = 0 /\ todo' \in Seq(Ops)
    BY <1>1, <1>2
  <2>2. \A i \in 1 .. Len(todo') : FALSE
    BY <2>1
  <2> QED BY <1>1, <2>1, <2>2 DEF TodoInv, Working
<1>3. CASE ops # <<>> /\ Rebuild_Ptr = "root"
  BY <1>1, <1>3 DEF TodoInv, Working
<1>4. CASE ops # <<>> /\ Rebuild_Ptr # "root"
  BY <1>1, <1>4 DEF TodoInv, Working
<1> QED BY <1>2, <1>3, <1>4

Pushes == {"no", "marked", "loose"}
Single(o) == Adds(o) => \E p \in Points : o.pts = {p}
\* Whatever an operation meets on its way, it changes what is visible as it says.
LEMMA OutcomeFacts ==
    ASSUME NEW o \in Ops, Single(o), NEW s, s.push \in Pushes, NEW r \in Outcomes(s, o)
    PROVE  /\ Visible(r.valid, r.push) = Effect(Visible(s.valid, s.push), o)
           /\ r.push \in Pushes /\ r.to \in {"checksub", "checkroot", "next"}
           /\ r.valid \subseteq s.valid \union (IF Adds(o) THEN o.pts ELSE {})
<1> DEFINE map == Visible(s.valid, s.push)
<1>0. map \subseteq s.valid /\ (s.push # "no" => map = s.valid \ InSub) /\ (s.push = "no" => map = s.valid)
  BY DEF Visible
<1>1. CASE Adds(o)
  <2>1. r \in Added(s, o)
    BY <1>1 DEF Outcomes, Adds
  <2>2. CASE r = Out(map \union o.pts, "no", "checksub")
    BY <1>0, <1>1, <2>2 DEF Out, Visible, Effect, Adds, Pushes
  <2>3. CASE r # Out(map \union o.pts, "no", "checksub")
    <3>1. PICK p \in {s.push, "loose"} : r = Out(s.valid \union o.pts, p, "checkroot")
      BY <2>1, <2>3 DEF Added
    <3>2. s.push # "no" /\ ~(o.pts \subseteq InSub)
      BY <2>1, <2>3 DEF Added
    <3>3. o.pts \intersect InSub = {}
      BY <1>1, <3>2 DEF Single
    <3> QED BY <1>0, <1>1, <3>1, <3>2, <3>3 DEF Out, Visible, Effect, Adds, Pushes
  <2> QED BY <2>2, <2>3
<1>2. CASE ~Adds(o)
  <2> DEFINE beside == (s.valid \ o.pts) \union (s.valid \intersect InSub)
  <2>0. r \in Deleted(s, o) /\ Effect(map, o) = map \ o.pts
    BY <1>2 DEF Outcomes, Adds, Effect
  <2>1. \/ map = {} /\ r = Out(s.valid, s.push, "next")
        \/ map \ o.pts = map \intersect {} /\ r = Out(map \ o.pts, "no", "next")
        \/ map \subseteq o.pts /\ r = Out(beside, "marked", "next")
        \/ r = Out(map \ o.pts, "no", "checksub")
        \/ s.push # "no" /\ r = Out(beside, s.push, "checkroot")
        \/ r = Out(map \ o.pts, "no", "checkroot")
        \/ map \intersect InSub \subseteq o.pts /\ r = Out(beside, "marked", "checkroot")
    BY <2>0 DEF Deleted
  <2>2. CASE map = {} /\ r = Out(s.valid, s.push, "next")
    BY <1>2, <2>0, <2>2 DEF Out
  <2>3. CASE \E to \in {"checksub", "checkroot", "next"} : r = Out(map \ o.pts, "no", to)
    BY <1>0, <1>2, <2>0, <2>3 DEF Out, Visible, Pushes
  <2>4. CASE /\ map \intersect InSub \subseteq o.pts
             /\ \E to \in {"checkroot", "next"} : r = Out(beside, "marked", to)
    <3>1. r.valid = beside /\ r.push = "marked" /\ r.to \in {"checkroot", "next"}
      BY <2>4 DEF Out
    <3>2. beside \ InSub = map \ o.pts
      BY <1>0, <2>4 DEF Visible
    <3> QED BY <1>2, <2>0, <3>1, <3>2 DEF Visible, Pushes
  <2>5. CASE s.push # "no" /\ r = Out(beside, s.push, "checkroot")
    <3>1. beside \ InSub = map \ o.pts
      BY <1>0, <2>5
    <3> QED BY <1>2, <2>0, <2>5, <3>1 DEF Out, Visible
  <2> QED BY <2>1, <2>2, <2>3, <2>4, <2>5
<1> QED BY <1>1, <1>2

LEMMA ResultFacts ==
    ASSUME NEW ops \in Seq(Ops), Len(ops) \in {1, 2}, \A i \in 1 .. Len(ops) : Single(ops[i]),
           push \in Pushes, NEW s \in Results(ops)
    PROVE  /\ Visible(s.valid, s.push) =
                  (IF Len(ops) = 1 THEN Effect(Map, ops[1]) ELSE Effect(Effect(Map, ops[1]), ops[2]))
           /\ s.push \in Pushes
           /\ \A p \in s.valid : p \in valid \/ \E i \in 1 .. Len(ops) : Adds(ops[i]) /\ p \in ops[i].pts
<1>1. Here.valid = valid /\ Here.push = push
  BY DEF Here, Out
<1>2. \A i \in 1 .. Len(ops) : ops[i] \in Ops
  BY ElementOfSeq
<1>3. CASE Len(ops) = 1
  <2>1. s \in Outcomes(Here, ops[1]) /\ ops[1] \in Ops /\ Single(ops[1]) /\ 1 \in 1 .. Len(ops)
    BY <1>2, <1>3 DEF Results
  <2> QED BY <1>1, <1>3, <2>1, OutcomeFacts DEF Map
<1>4. CASE Len(ops) = 2
  <2>1. /\ 1 \in 1 .. Len(ops) /\ 2 \in 1 .. Len(ops) /\ ops[1] \in Ops /\ ops[2] \in Ops
        /\ Single(ops[1]) /\ Single(ops[2])
    BY <1>2, <1>4
  <2>2. PICK r \in Outcomes(Here, ops[1]) : s \in Outcomes(r, ops[2])
    BY <1>4 DEF Results
  <2>3. /\ Visible(r.valid, r.push) = Effect(Map, ops[1]) /\ r.push \in Pushes
        /\ r.valid \subseteq valid \union (IF Adds(ops[1]) THEN ops[1].pts ELSE {})
    BY <1>1, <2>1, OutcomeFacts DEF Map
  <2>4. /\ Visible(s.valid, s.push) = Effect(Visible(r.valid, r.push), ops[2]) /\ s.push \in Pushes
        /\ s.valid \subseteq r.valid \union (IF Adds(ops[2]) THEN ops[2].pts ELSE {})
    BY <2>1, <2>2, <2>3, OutcomeFacts
  <2> QED BY <1>4, <2>1, <2>3, <2>4
<1> QED BY <1>3, <1>4

\* A change of the whole map keeps valid points within the nodes.
LEMMA ApplyFacts ==
    ASSUME Shape, odo \in {"direct", "locked"}, ~Null,
           NEW ops \in Seq(Ops), Len(ops) \in {1, 2}, NEW s \in Results(ops), Apply(ops, s),
           \A i \in 1 .. Len(ops) : \E j \in 1 .. Len(todo) : ops[i] = todo[j]
    PROVE  /\ nodes' \in SUBSET Points /\ valid' \in SUBSET nodes' /\ push' \in Pushes
           /\ ~Root_Node => nodes' = nodes
           /\ \A i \in 1 .. Len(ops) : Single(ops[i])
<1>1. /\ valid \subseteq nodes /\ nodes \subseteq Points /\ todo \in Seq(Ops) /\ push \in Pushes
  BY MapFacts DEF Shape, TypeOK, Pushes
<1> DEFINE U == UNION {ops[i].pts : i \in {j \in DOMAIN ops : ops[j].op = "ADD_POINT"}}
<1>2. DOMAIN ops = 1 .. Len(ops) /\ DOMAIN todo = 1 .. Len(todo)
  BY <1>1
<1>3. \A i \in 1 .. Len(ops) : ops[i] \in Ops /\ ops[i].pts \subseteq Points
  <2>1. \A i \in 1 .. Len(ops) : ops[i] \in Ops
    BY ElementOfSeq
  <2> QED BY <2>1 DEF Ops
<1>4. U \subseteq Points
  BY <1>2, <1>3
<1>5. \A i \in 1 .. Len(ops) : Adds(ops[i]) => ops[i].pts \subseteq U
  BY <1>2 DEF Adds
<1>6. nodes' = nodes \union U /\ valid' = s.valid /\ push' = s.push
  BY DEF Apply
<1>7. ~Root_Node => U = {}
  BY <1>2 DEF Null
<1> HIDE DEF U
<1>8. \A i \in 1 .. Len(ops) : Single(ops[i])
  BY DEF Shape, TodoInv, Single
<1>9. /\ s.push \in Pushes
      /\ \A p \in s.valid : p \in valid \/ \E i \in 1 .. Len(ops) : Adds(ops[i]) /\ p \in ops[i].pts
  BY <1>1, <1>8, ResultFacts
<1>10. s.valid \subseteq nodes \union U
  BY <1>1, <1>5, <1>9
<1> QED BY <1>1, <1>4, <1>6, <1>7, <1>8, <1>9, <1>10

LEMMA ShapeFound ==
    ASSUME IInv, Shape, Found
    PROVE  Shape'
<1>1. /\ odo = "box" /\ boxing' = "no"
      /\ (valid' = Map /\ push' = "no") \/ UNCHANGED <<valid, push>>
      /\ UNCHANGED <<nodes, Root_Node, Rebuild_Ptr, rebuild_flag, Rebuild_Logger,
                     working_flag_mutex, search_mutex_counter, calls, want, sVars, rebVars>>
  BY DEF Found
<1>2. PICK p \in Points : Begin(Downsample(p))
  <2>1. PICK p \in adding : Begin(Downsample(p))
    BY DEF Found
  <2>2. adding \subseteq Points
    BY TypeParts DEF Shape, OdoType
  <2> QED BY <2>1, <2>2
<1>3. /\ odo' \in {"idle", "locked", "direct"} /\ (odo' = "locked" => Rebuild_Ptr = "root")
      /\ todo' \in Seq(Ops) /\ adding' \in SUBSET Points /\ TodoInv'
  <2>1. \A i \in 1 .. Len(Downsample(p)) :
           Adds(Downsample(p)[i]) => \E q \in Points : Downsample(p)[i].pts = {q}
    BY DownsampleFacts
  <2> QED BY <1>2, <2>1, DownsampleFacts, BeginFacts
<1>4. TypeOK'
  <2>1. TreeType' /\ LogType' /\ LockType' /\ OdoType' /\ SearchType' /\ RebType'
    BY <1>1, <1>3, MapFacts, TypeParts, TypeFrame
       DEF Shape, TreeType, LogType, LockType, OdoType
  <2> QED BY <2>1, TypeParts
<1>5. LockInv' /\ PtrInv'
  BY <1>1, <1>3 DEF Shape, LockInv, PtrInv, rebVars
<1> QED BY <1>3, <1>4, <1>5 DEF Shape

LEMMA ShapeDelete ==
    ASSUME IInv, Shape, NEW b \in Boxes, Delete_Point_Boxes(b)
    PROVE  Shape'
<1> DEFINE o == Op("DELETE_BOX", b)
           ops == <<o>>
<1>1. /\ odo = "idle" /\ calls < MaxOps /\ calls' = calls + 1 /\ Begin(ops) /\ want' = want \ b
      /\ UNCHANGED <<tree, Rebuild_Ptr, rebuild_flag, Rebuild_Logger, locks, sVars, rebVars>>
  BY DEF Delete_Point_Boxes, Call
<1>2. o \in Ops /\ ~Adds(o)
  BY IkdAssumption DEF Op, Ops, Adds
<1> HIDE DEF o
<1>3. ops \in Seq(Ops) /\ Len(ops) = 1 /\ ops[1] = o
  BY <1>2
<1> HIDE DEF ops
<1>4. /\ odo' \in {"idle", "locked", "direct"} /\ (odo' = "locked" => Rebuild_Ptr = "root")
      /\ todo' \in Seq(Ops) /\ adding' \in SUBSET Points /\ TodoInv'
  <2>1. \A i \in 1 .. Len(ops) : Adds(ops[i]) => \E q \in Points : ops[i].pts = {q}
    BY <1>2, <1>3
  <2> QED BY <1>1, <1>3, <2>1, BeginFacts
<1>5. calls' \in 0 .. MaxOps /\ want' \in SUBSET Points
  <2>1. calls \in 0 .. MaxOps /\ want \in SUBSET Points /\ MaxOps \in Nat
    BY IkdAssumption, TypeParts DEF Shape, OdoType
  <2> QED BY <1>1, <2>1
<1>6. TypeOK'
  <2>1. TreeType' /\ LogType' /\ LockType' /\ OdoType' /\ SearchType' /\ RebType'
    BY <1>1, <1>4, <1>5, TypeParts, TypeFrame DEF Shape, OdoType
  <2> QED BY <2>1, TypeParts
<1>7. LockInv' /\ PtrInv'
  BY <1>1, <1>4 DEF Shape, LockInv, PtrInv, rebVars, locks, tree
<1> QED BY <1>4, <1>6, <1>7 DEF Shape

LEMMA ShapeDirect ==
    ASSUME IInv, Shape, Direct
    PROVE  Shape'
<1>1. PICK r \in Outcomes(Here, Head(todo)) :
        (Rebuild_Ptr = "sub" => PassesBy(r)) /\ Apply(Head1, r) /\ odo' = r.to
  BY DEF Direct
<1>0. /\ odo = "direct" /\ ~Null
      /\ UNCHANGED <<Root_Node, Rebuild_Ptr, rebuild_flag, Rebuild_Logger, locks, todo, adding,
                     calls, want, sVars, rebVars>>
  BY DEF Direct
<1>2. /\ todo \in Seq(Ops) /\ Len(todo) \in {1, 2} /\ Head(todo) = todo[1] /\ todo[1] \in Ops
  BY <1>0, TodoFacts DEF Shape, Working
<1>3. Head1 \in Seq(Ops) /\ Len(Head1) = 1 /\ Head1[1] = todo[1] /\ r \in Results(Head1)
  BY <1>1, <1>2 DEF Head1, Results
<1>4. /\ nodes' \in SUBSET Points /\ valid' \in SUBSET nodes' /\ push' \in Pushes
      /\ (~Root_Node => nodes' = nodes) /\ odo' \in {"checksub", "checkroot", "next"}
  <2>1. \A i \in 1 .. Len(Head1) : \E j \in 1 .. Len(todo) : Head1[i] = todo[j]
    BY <1>2, <1>3
  <2>2. Len(Head1) \in {1, 2}
    BY <1>3
  <2>3. /\ nodes' \in SUBSET Points /\ valid' \in SUBSET nodes' /\ push' \in Pushes
        /\ (~Root_Node => nodes' = nodes) /\ Single(todo[1])
    BY <1>0, <1>1, <1>3, <2>1, <2>2, ApplyFacts
  <2>4. Here.push \in Pushes
    BY TypeParts DEF Shape, TreeType, Here, Out, Pushes
  <2> QED BY <1>1, <1>2, <2>3, <2>4, OutcomeFacts
<1>5. TypeOK'
  <2>1. TreeType' /\ LogType' /\ LockType' /\ OdoType' /\ SearchType' /\ RebType'
    BY <1>0, <1>4, TypeParts, TypeFrame DEF Shape, OdoType, TreeType, Pushes
  <2> QED BY <2>1, TypeParts
<1>6. TodoInv'
  BY <1>0, <1>4 DEF Shape, TodoInv, Working
<1>7. LockInv' /\ PtrInv'
  BY <1>0, <1>4 DEF Shape, LockInv, PtrInv, rebVars, locks
<1> QED BY <1>5, <1>6, <1>7 DEF Shape

LEMMA ShapeDescend ==
    ASSUME IInv, Shape, Descend
    PROVE  Shape'
<1>1. /\ odo = "direct" /\ odo' = "sublocked" /\ Rebuild_Ptr = "sub" /\ push = "no"
      /\ valid' \subseteq valid
      /\ UNCHANGED <<nodes, push, Root_Node, Rebuild_Ptr, rebuild_flag, Rebuild_Logger, locks,
                     todo, adding, calls, want, sVars, rebVars>>
  BY DEF Descend
<1>2. Head(todo) = todo[1] /\ (Adds(todo[1]) => todo[1].pts \subseteq InSub)
  BY <1>1, TodoFacts DEF Shape, Working, Descend, Adds
<1>3. TypeOK'
  <2>1. TreeType' /\ LogType' /\ LockType' /\ OdoType' /\ SearchType' /\ RebType'
    BY <1>1, TypeParts, TypeFrame DEF Shape, OdoType, TreeType
  <2> QED BY <2>1, TypeParts
<1>4. TodoInv'
  BY <1>1, <1>2 DEF Shape, TodoInv, Working, Adds
<1>5. LockInv' /\ PtrInv'
  BY <1>1 DEF Shape, LockInv, PtrInv, rebVars, locks
<1> QED BY <1>3, <1>4, <1>5 DEF Shape

LEMMA ShapeChangeSubtree ==
    ASSUME IInv, Shape, ChangeSubtree
    PROVE  Shape'
<1>1. /\ odo = "sublocked" /\ odo' = "sublog" /\ working_flag_mutex = "free"
      /\ working_flag_mutex' = "odo"
      /\ valid' = (valid \ InSub) \union (Effect(valid, todo[1]) \intersect InSub)
      /\ nodes' = IF todo[1].op = "ADD_POINT" THEN nodes \union todo[1].pts ELSE nodes
      /\ UNCHANGED <<push, Root_Node, Rebuild_Ptr, rebuild_flag, Rebuild_Logger,
                     search_mutex_counter, boxing, todo, adding, calls, want, sVars, rebVars>>
  BY TodoFacts DEF ChangeSubtree, Lock, Shape, Working
<1>2. TypeOK'
  <2>1. todo[1] \in Ops /\ nodes \in SUBSET Points /\ valid \in SUBSET nodes
    BY <1>1, TodoFacts, TypeParts DEF Shape, Working, TreeType
  <2>2. nodes' \in SUBSET Points /\ valid' \in SUBSET nodes'
    BY <1>1, <2>1 DEF Ops, Effect
  <2>3. TreeType' /\ LogType' /\ LockType' /\ OdoType' /\ SearchType' /\ RebType'
    BY <1>1, <2>2, TypeParts, TypeFrame DEF Shape, OdoType, TreeType, LockType
  <2> QED BY <2>3, TypeParts
<1>3. TodoInv'
  BY <1>1 DEF Shape, TodoInv, Working, Adds
<1>4. LockInv' /\ PtrInv'
  BY <1>1 DEF Shape, LockInv, PtrInv, rebVars
<1> QED BY <1>2, <1>3, <1>4 DEF Shape

LEMMA ShapeChangeRoot ==
    ASSUME IInv, Shape, ChangeRoot
    PROVE  Shape'
<1>1. /\ odo = "locked" /\ odo' = "log" /\ working_flag_mutex = "free"
      /\ working_flag_mutex' = "odo" /\ ~Null /\ \E r \in Results(todo) : Apply(todo, r)
      /\ UNCHANGED <<Root_Node, Rebuild_Ptr, rebuild_flag, Rebuild_Logger, search_mutex_counter,
                     boxing, todo, adding, calls, want, sVars, rebVars>>
  BY DEF ChangeRoot, Lock
<1>2. todo \in Seq(Ops) /\ Len(todo) \in {1, 2}
  BY <1>1, TodoFacts DEF Shape, Working
<1>3. /\ nodes' \in SUBSET Points /\ valid' \in SUBSET nodes' /\ push' \in Pushes
      /\ (~Root_Node => nodes' = nodes)
  BY <1>1, <1>2, ApplyFacts
<1>4. TypeOK'
  <2>1. TreeType' /\ LogType' /\ LockType' /\ OdoType' /\ SearchType' /\ RebType'
    BY <1>1, <1>3, TypeParts, TypeFrame DEF Shape, OdoType, TreeType, LockType, Pushes
  <2> QED BY <2>1, TypeParts
<1>5. TodoInv'
  BY <1>1 DEF Shape, TodoInv, Working
<1>6. LockInv' /\ PtrInv'
  BY <1>1, <1>3 DEF Shape, LockInv, PtrInv, rebVars
<1> QED BY <1>4, <1>5, <1>6 DEF Shape

\* What LogChange appends to the log.
LEMMA LogFacts ==
    ASSUME Shape, LogChange
    PROVE  \E ops \in Seq(Ops) :
             /\ Log(ops)
             /\ \/ odo = "sublog" /\ odo' = "checkroot" /\ todo' = todo /\ ops = <<todo[1]>>
                \/ odo = "log" /\ odo' = "idle" /\ todo' = <<>> /\ ops = todo
<1>1. odo \in {"sublog", "log"}
  BY DEF LogChange
<1>2. todo \in Seq(Ops) /\ Head(todo) = todo[1] /\ todo[1] \in Ops
  BY <1>1, TodoFacts DEF Shape, Working
<1>3. <<todo[1]>> \in Seq(Ops) /\ Head1 = <<todo[1]>>
  BY <1>2 DEF Head1
<1> QED BY <1>2, <1>3 DEF LogChange

LEMMA ShapeLogChange ==
    ASSUME IInv, Shape, LogChange
    PROVE  Shape'
<1>1. /\ working_flag_mutex' = "free"
      /\ UNCHANGED <<tree, Rebuild_Ptr, rebuild_flag, search_mutex_counter, boxing, adding, calls,
                     want, sVars, rebVars>>
  BY DEF LogChange
<1>2. PICK ops \in Seq(Ops) :
        /\ Log(ops)
        /\ \/ odo = "sublog" /\ odo' = "checkroot" /\ todo' = todo /\ ops = <<todo[1]>>
           \/ odo = "log" /\ odo' = "idle" /\ todo' = <<>> /\ ops = todo
  BY LogFacts
<1>3. Rebuild_Logger' \in Seq(Ops)
  BY <1>2, TypeParts, ConcatProperties DEF Shape, LogType, Log
<1>4. todo' \in Seq(Ops)
  BY <1>2, TypeParts, EmptySeq DEF Shape, OdoType
<1>5. TypeOK'
  <2>1. TreeType' /\ LogType' /\ LockType' /\ OdoType' /\ SearchType' /\ RebType'
    BY <1>1, <1>2, <1>3, <1>4, TypeParts, TypeFrame DEF Shape, OdoType, LogType, LockType
  <2> QED BY <2>1, TypeParts
<1>6. TodoInv'
  <2>1. CASE odo = "sublog" /\ odo' = "checkroot" /\ todo' = todo
    BY <1>1, <2>1 DEF Shape, TodoInv, Working
  <2>2. CASE odo' = "idle" /\ todo' = <<>>
    <3>1. \A i \in 1 .. Len(todo') : FALSE
      BY <2>2
    <3> QED BY <2>2, <3>1 DEF TodoInv, Working
  <2> QED BY <1>2, <2>1, <2>2
<1>7. LockInv' /\ PtrInv'
  BY <1>1, <1>2 DEF Shape, LockInv, PtrInv, rebVars, tree
<1> QED BY <1>5, <1>6, <1>7 DEF Shape

LEMMA ShapeCriterion ==
    ASSUME IInv, Shape, Criterion_Check
    PROVE  Shape'
<1>1. PICK t \in {"sub", "root"} :
        /\ odo = IF t = "sub" THEN "checksub" ELSE "checkroot"
        /\ \/ Request(t) \/ RebuildNow(t)
           \/ Rebuild_Ptr' = Asked(t) /\ UNCHANGED <<nodes, valid, push>>
        /\ odo' = IF Asked(t) # Rebuild_Ptr /\ reb # "idle" THEN "crashed"
                  ELSE IF t = "sub" THEN "checkroot" ELSE "next"
  BY DEF Criterion_Check
<1>2. UNCHANGED <<Root_Node, rebuild_flag, Rebuild_Logger, locks, todo, adding, calls, want,
                  sVars, rebVars>>
  BY DEF Criterion_Check
<1>3. TreeType /\ nodes \in SUBSET Points /\ valid \in SUBSET nodes /\ Map \subseteq valid
  BY MapFacts, TypeParts DEF Shape, TreeType
<1>4. nodes' \subseteq nodes /\ valid' \subseteq nodes' /\ push' \in {"no", push}
  BY <1>1, <1>3 DEF Request, RebuildNow
<1>5. \/ Rebuild_Ptr' = t /\ reb = "idle" /\ nodes # {}
      \/ Rebuild_Ptr' \in {"none", Rebuild_Ptr}
  <2>1. CASE Request(t)
    <3>1. Size(t) >= Multi_Thread_Rebuild_Point_Num /\ Multi_Thread_Rebuild_Point_Num \in Nat \ {0}
      BY <2>1, IkdAssumption DEF Request
    <3>2. nodes # {}
      <4> SUFFICES ASSUME nodes = {} PROVE FALSE
        OBVIOUS
      <4>1. Size(t) = 0
        BY FS_EmptySet DEF Size
      <4> QED BY <3>1, <4>1
    <3> QED BY <2>1, <3>2 DEF Request
  <2>2. CASE ~Request(t)
    BY <1>1, <2>2 DEF RebuildNow, Asked
  <2> QED BY <2>1, <2>2
<1>6. TypeOK'
  <2>1. TreeType' /\ LogType' /\ LockType' /\ OdoType' /\ SearchType' /\ RebType'
    BY <1>1, <1>2, <1>3, <1>4, <1>5, TypeParts, TypeFrame DEF Shape, OdoType, LogType, TreeType
  <2> QED BY <2>1, TypeParts
<1>7. TodoInv'
  BY <1>1, <1>2 DEF Shape, TodoInv, Working
<1>8. LockInv' /\ PtrInv'
  BY <1>1, <1>2, <1>3, <1>4, <1>5 DEF Shape, LockInv, PtrInv, rebVars, locks
<1> QED BY <1>6, <1>7, <1>8 DEF Shape

LEMMA ShapeNextOperation ==
    ASSUME IInv, Shape, NextOperation
    PROVE  Shape'
<1>1. /\ odo = "next" /\ todo' = Tail(todo)
      /\ odo' = IF Tail(todo) = <<>> THEN "idle" ELSE "direct"
      /\ UNCHANGED <<tree, Rebuild_Ptr, rebuild_flag, Rebuild_Logger, locks, adding, calls, want,
                     sVars, rebVars>>
  BY DEF NextOperation
<1>2. /\ Tail(todo) \in Seq(Ops) /\ Len(todo) \in {1, 2} /\ Len(Tail(todo)) = Len(todo) - 1
      /\ \A i \in 1 .. Len(Tail(todo)) : i + 1 \in 1 .. Len(todo) /\ Tail(todo)[i] = todo[i + 1]
  <2>1. /\ todo \in Seq(Ops) /\ Len(todo) \in {1, 2} /\ Tail(todo) \in Seq(Ops)
        /\ Len(Tail(todo)) = Len(todo) - 1
    BY <1>1, TodoFacts DEF Shape, Working
  <2>2. \A i \in 1 .. Len(Tail(todo)) : Tail(todo)[i] = todo[i + 1]
    BY <2>1, HeadTailProperties
  <2> QED BY <2>1, <2>2
<1>3. TypeOK'
  <2>1. TreeType' /\ LogType' /\ LockType' /\ OdoType' /\ SearchType' /\ RebType'
    BY <1>1, <1>2, TypeParts, TypeFrame DEF Shape, OdoType
  <2> QED BY <2>1, TypeParts
<1>4. TodoInv'
  <2>1. \A i \in 1 .. Len(todo') : Adds(todo'[i]) => \E p \in Points : todo'[i].pts = {p}
    BY <1>1, <1>2 DEF Shape, TodoInv
  <2>2. CASE Tail(todo) = <<>>
    BY <1>1, <2>1, <2>2 DEF TodoInv, Working
  <2>3. CASE Tail(todo) # <<>>
    <3>1. Len(todo') \in {1, 2}
      BY <1>1, <1>2, <2>3, EmptySeq
    <3> QED BY <1>1, <2>1, <2>3, <3>1 DEF TodoInv, Working
  <2> QED BY <2>2, <2>3
<1>5. LockInv' /\ PtrInv'
  BY <1>1 DEF Shape, LockInv, PtrInv, rebVars, locks, tree
<1> QED BY <1>3, <1>4, <1>5 DEF Shape

LEMMA ShapePushDown ==
    ASSUME IInv, Shape, Push_Down
    PROVE  Shape'
<1> DEFINE o == Op("PUSH_DOWN", IF push = "no" THEN {} ELSE Points)
<1>1. /\ odo \in {"boxpush", "addpush"} /\ odo' = IF odo = "boxpush" THEN "box" ELSE "direct"
      /\ valid' = Map /\ push' = "no"
      /\ Rebuild_Logger' = IF rebuild_flag THEN Append(Rebuild_Logger, o) ELSE Rebuild_Logger
      /\ UNCHANGED <<nodes, Root_Node, Rebuild_Ptr, rebuild_flag, locks, todo, adding, calls, want,
                     sVars, rebVars>>
  BY DEF Push_Down
<1>2. o \in Ops
  BY DEF Op, Ops
<1> HIDE DEF o
<1>3. TypeOK'
  <2>1. Rebuild_Logger' \in Seq(Ops)
    BY <1>1, <1>2, TypeParts, AppendProperties DEF Shape, LogType
  <2>2. TreeType' /\ LogType' /\ LockType' /\ OdoType' /\ SearchType' /\ RebType'
    BY <1>1, <2>1, MapFacts, TypeParts, TypeFrame DEF Shape, TreeType, LogType, OdoType
  <2> QED BY <2>2, TypeParts
<1>4. TodoInv' /\ LockInv' /\ PtrInv'
  BY <1>1 DEF Shape, TodoInv, Working, LockInv, PtrInv, rebVars, locks
<1> QED BY <1>3, <1>4 DEF Shape

LEMMA ShapePush ==
    ASSUME IInv, Shape, AwaitPush \/ TellFather
    PROVE  Shape'
<1>1. /\ UNCHANGED <<nodes, valid, Root_Node, Rebuild_Ptr, rebuild_flag, Rebuild_Logger, locks,
                     todo, adding, calls, want, sVars, rebVars>>
      /\ push' \in {push, "loose"} /\ (push = "no" => push' = "no")
      /\ \/ odo' = odo
         \/ odo = "box" /\ odo' = "boxpush" /\ Rebuild_Ptr = "sub"
         \/ odo = "direct" /\ odo' = "addpush" /\ Rebuild_Ptr = "sub"
  BY DEF AwaitPush, TellFather, MustPush, tree, odoVars
<1>2. TypeOK'
  <2>1. TreeType' /\ LogType' /\ LockType' /\ OdoType' /\ SearchType' /\ RebType'
    BY <1>1, TypeParts, TypeFrame DEF Shape, OdoType, TreeType
  <2> QED BY <2>1, TypeParts
<1>3. TodoInv' /\ LockInv' /\ PtrInv'
  BY <1>1 DEF Shape, TodoInv, Working, LockInv, PtrInv, rebVars, locks
<1> QED BY <1>2, <1>3 DEF Shape

LEMMA ShapeStartCall ==
    ASSUME IInv, Shape, NEW p \in Points, BuildTree(p) \/ Add_Points(p)
    PROVE  Shape'
<1>1. /\ odo = "idle" /\ calls < MaxOps /\ calls' = calls + 1 /\ todo' = todo
      /\ UNCHANGED <<Rebuild_Ptr, rebuild_flag, Rebuild_Logger, locks, rebVars>>
  BY DEF BuildTree, Add_Points, Call
<1>2. /\ \/ UNCHANGED tree
         \/ nodes' = {p} /\ valid' = {p} /\ push' = "no" /\ Root_Node' = TRUE
      /\ want' = Wanted(p) /\ UNCHANGED sVars
      /\ \/ adding' = adding /\ odo' = "idle"
         \/ adding' = {p} /\ odo' = "box"
  BY <1>1 DEF BuildTree, Add_Points
<1>3. calls' \in 0 .. MaxOps /\ want' \in SUBSET Points /\ adding' \in SUBSET Points
  <2>1. calls \in 0 .. MaxOps /\ want \in SUBSET Points /\ adding \in SUBSET Points /\ MaxOps \in Nat
    BY IkdAssumption, TypeParts DEF Shape, OdoType
  <2>2. Wanted(p) \in SUBSET Points
    BY <2>1 DEF Wanted
  <2> QED BY <1>1, <1>2, <2>1, <2>2
<1>4. TypeOK'
  <2>1. TreeType' /\ LogType' /\ LockType' /\ OdoType' /\ SearchType' /\ RebType'
    BY <1>1, <1>2, <1>3, TypeParts, TypeFrame DEF Shape, OdoType, TreeType
  <2> QED BY <2>1, TypeParts
<1>5. TodoInv' /\ LockInv' /\ PtrInv'
  BY <1>1, <1>2 DEF Shape, TodoInv, Working, LockInv, PtrInv, rebVars, locks, tree
<1> QED BY <1>4, <1>5 DEF Shape

LEMMA ShapeStartSearches ==
    ASSUME IInv, Shape, StartSearches
    PROVE  Shape'
<1>1. /\ odo = "idle" /\ odo' = "search" /\ calls < MaxOps /\ calls' = calls + 1
      /\ spc' = [s \in Searchers |-> "start"]
      /\ UNCHANGED <<tree, Rebuild_Ptr, rebuild_flag, Rebuild_Logger, locks, todo, adding, want,
                     held, rebVars>>
  BY DEF StartSearches, Call
<1>2. calls' \in 0 .. MaxOps
  <2>1. calls \in 0 .. MaxOps /\ MaxOps \in Nat
    BY IkdAssumption, TypeParts DEF Shape, OdoType
  <2> QED BY <1>1, <2>1
<1>3. TypeOK'
  <2>1. TreeType' /\ LogType' /\ LockType' /\ OdoType' /\ SearchType' /\ RebType'
    BY <1>1, <1>2, TypeParts, TypeFrame DEF Shape, OdoType, SearchType
  <2> QED BY <2>1, TypeParts
<1>4. TodoInv' /\ LockInv' /\ PtrInv'
  BY <1>1 DEF Shape, TodoInv, Working, LockInv, PtrInv, rebVars, locks, tree
<1> QED BY <1>3, <1>4 DEF Shape

LEMMA ShapeOther ==
    ASSUME IInv, Shape, Search_by_range \/ Crash \/ SearchesJoin
    PROVE  Shape'
<1>1. /\ UNCHANGED <<tree, Rebuild_Ptr, rebuild_flag, Rebuild_Logger, working_flag_mutex,
                     search_mutex_counter, todo, adding, calls, want, sVars, rebVars>>
      /\ \/ odo' = odo /\ boxing' = "yes"
         \/ /\ odo \in {"direct", "locked", "boxpush", "addpush"}
            /\ odo' = "crashed" /\ boxing' = boxing
         \/ odo = "search" /\ odo' = "idle" /\ boxing' = boxing
  BY DEF Search_by_range, Crash, SearchesJoin, odoVars, locks
<1>2. TypeOK'
  <2>1. TreeType' /\ LogType' /\ LockType' /\ OdoType' /\ SearchType' /\ RebType'
    BY <1>1, TypeParts, TypeFrame DEF Shape, OdoType, LockType
  <2> QED BY <2>1, TypeParts
<1>3. TodoInv'
  BY <1>1 DEF Shape, TodoInv, Working
<1>4. LockInv' /\ PtrInv'
  BY <1>1 DEF Shape, LockInv, PtrInv, rebVars, tree, Working, TodoInv
<1> QED BY <1>2, <1>3, <1>4 DEF Shape

LEMMA ShapeStep == IInv /\ Shape /\ [Next]_vars => Shape'
<1> SUFFICES ASSUME IInv, Shape, [Next]_vars PROVE Shape'
  OBVIOUS
<1>1. CASE UNCHANGED vars
  <2>1. TypeOK'
    <3>1. TreeType' /\ LogType' /\ LockType' /\ OdoType' /\ SearchType' /\ RebType'
      BY <1>1, TypeParts, TypeFrame DEF Shape, vars
    <3> QED BY <3>1, TypeParts
  <2> QED BY <1>1, <2>1 DEF Shape, TodoInv, LockInv, PtrInv, vars, tree, locks, odoVars, rebVars
<1>2. CASE OdometryStep
  BY <1>2, ShapePushDown, ShapeFound, ShapeOther, ShapeDirect, ShapeDescend, ShapeChangeSubtree,
     ShapeChangeRoot, ShapeLogChange, ShapeCriterion, ShapeNextOperation, ShapePush
     DEF OdometryStep
<1>3. CASE OdometryCall
  <2>1. CASE StartSearches
    BY <2>1, ShapeStartSearches
  <2>2. CASE \E p \in Points : BuildTree(p) \/ Add_Points(p)
    BY <2>2, ShapeStartCall
  <2>3. CASE \E b \in Boxes : Delete_Point_Boxes(b)
    BY <2>3, ShapeDelete
  <2> QED BY <1>3, <2>1, <2>2, <2>3 DEF OdometryCall
<1>4. CASE RebuildStep
  BY <1>4, ShapeRebuild
<1>5. CASE \E s \in Searchers : SearchStep(s)
  BY <1>5, ShapeSearch
<1> QED BY <1>1, <1>2, <1>3, <1>4, <1>5 DEF Next

\* Every state of the map, its callers and its rebuild thread is well typed; in particular no
\* point is valid without a node, whatever Rebuild and Swap remove.
THEOREM TypeCorrect == Spec => []TypeOK
<1>1. IInv /\ Shape /\ [Next]_vars => IInv' /\ Shape'
  BY StepIInv, ShapeStep
<1>2. Shape => TypeOK
  BY DEF Shape
<1> QED BY <1>1, <1>2, InitIInv, ShapeInit, PTL DEF Spec

-----------------------------------------------------------------------------
(* What a sequence of operations makes of a set of points                    *)

Touched(s, p) == \E i \in DOMAIN s : Touches(s[i], p)
AddedLast(s, p) == \E i \in DOMAIN s : /\ Touches(s[i], p) /\ s[i].op = "ADD_POINT"
                                       /\ \A j \in DOMAIN s : j > i => ~Touches(s[j], p)
After(s, set) == {p \in Points : IF Touched(s, p) THEN AddedLast(s, p) ELSE p \in set}

LEMMA AfterEmpty ==
    ASSUME NEW S \in SUBSET Points
    PROVE  After(<<>>, S) = S
BY DEF After, Touched

LEMMA AfterOne ==
    ASSUME NEW S \in SUBSET Points, NEW o \in Ops
    PROVE  After(<<o>>, S) = Effect(S, o)
<1> DEFINE s == <<o>>
<1>1. DOMAIN s = {1} /\ s[1] = o /\ o.pts \subseteq Points
  BY DEF Ops
<1> HIDE DEF s
<1>2. \A p \in Points : Touched(s, p) <=> p \in o.pts
  BY <1>1 DEF Touched, Touches
<1>3. \A p \in Points : AddedLast(s, p) <=> p \in o.pts /\ o.op = "ADD_POINT"
  BY <1>1 DEF AddedLast, Touches
<1>4. After(s, S) = Effect(S, o)
  BY <1>1, <1>2, <1>3 DEF After, Effect
<1> QED BY <1>4 DEF s

\* Operations one after the other.
LEMMA AfterConcat ==
    ASSUME NEW s \in Seq(Ops), NEW t \in Seq(Ops), NEW S
    PROVE  After(s \o t, S) = After(t, After(s, S))
<1> DEFINE st == s \o t
<1>1. /\ Len(s) \in Nat /\ Len(t) \in Nat /\ DOMAIN s = 1 .. Len(s) /\ DOMAIN t = 1 .. Len(t)
      /\ DOMAIN st = 1 .. Len(s) + Len(t)
      /\ \A i \in 1 .. Len(s) : st[i] = s[i]
      /\ \A i \in 1 .. Len(t) : st[Len(s) + i] = t[i]
  <2>1. /\ st \in Seq(Ops) /\ Len(st) = Len(s) + Len(t)
        /\ \A i \in 1 .. Len(s) + Len(t) : st[i] = IF i <= Len(s) THEN s[i] ELSE t[i - Len(s)]
    BY ConcatProperties
  <2> HIDE DEF st
  <2>2. Len(s) \in Nat /\ Len(t) \in Nat
    OBVIOUS
  <2> QED BY <2>1, <2>2
<1> HIDE DEF st
<1>2. ASSUME NEW p \in Points
      PROVE  /\ Touched(st, p) <=> Touched(s, p) \/ Touched(t, p)
             /\ Touched(t, p) => (AddedLast(st, p) <=> AddedLast(t, p))
             /\ ~Touched(t, p) => (AddedLast(st, p) <=> AddedLast(s, p))
  <2>1. \A i \in DOMAIN s : i \in DOMAIN st /\ st[i] = s[i]
    BY <1>1
  <2>2. \A i \in DOMAIN t : Len(s) + i \in DOMAIN st /\ st[Len(s) + i] = t[i]
    BY <1>1
  <2>3. \A k \in DOMAIN st : k \in DOMAIN s \/ (k - Len(s) \in DOMAIN t /\ k = Len(s) + (k - Len(s)))
    BY <1>1
  <2>4. Touched(st, p) <=> Touched(s, p) \/ Touched(t, p)
    BY <2>1, <2>2, <2>3 DEF Touched
  <2>5. ASSUME Touched(t, p)  PROVE AddedLast(st, p) <=> AddedLast(t, p)
    <3>1. ASSUME AddedLast(t, p)  PROVE AddedLast(st, p)
      <4>1. PICK i \in DOMAIN t : /\ Touches(t[i], p) /\ t[i].op = "ADD_POINT"
                                  /\ \A j \in DOMAIN t : j > i => ~Touches(t[j], p)
        BY <3>1 DEF AddedLast
      <4>2. \A k \in DOMAIN st : k > Len(s) + i => ~Touches(st[k], p)
        <5> SUFFICES ASSUME NEW k \in DOMAIN st, k > Len(s) + i  PROVE ~Touches(st[k], p)
          OBVIOUS
        <5>1. k - Len(s) \in DOMAIN t /\ k - Len(s) > i /\ Len(s) + (k - Len(s)) = k
          BY <1>1
        <5>2. st[k] = t[k - Len(s)]
          BY <2>2, <5>1
        <5> QED BY <4>1, <5>1, <5>2
      <4> QED BY <2>2, <4>1, <4>2 DEF AddedLast
    <3>2. ASSUME AddedLast(st, p)  PROVE AddedLast(t, p)
      <4>1. PICK k \in DOMAIN st : /\ Touches(st[k], p) /\ st[k].op = "ADD_POINT"
                                   /\ \A j \in DOMAIN st : j > k => ~Touches(st[j], p)
        BY <3>2 DEF AddedLast
      <4>2. PICK i \in DOMAIN t : Touches(t[i], p)
        BY <2>5 DEF Touched
      <4>3. k > Len(s)
        <5> SUFFICES ASSUME ~(k > Len(s))  PROVE FALSE
          OBVIOUS
        <5>1. Len(s) + i > k
          BY <1>1
        <5> QED BY <2>2, <4>1, <4>2, <5>1
      <4>4. k - Len(s) \in DOMAIN t /\ st[k] = t[k - Len(s)]
        <5>1. k - Len(s) \in DOMAIN t /\ Len(s) + (k - Len(s)) = k
          BY <1>1, <4>3
        <5> QED BY <2>2, <5>1
      <4>5. \A j \in DOMAIN t : j > k - Len(s) => ~Touches(t[j], p)
        <5> SUFFICES ASSUME NEW j \in DOMAIN t, j > k - Len(s)  PROVE ~Touches(t[j], p)
          OBVIOUS
        <5>1. Len(s) + j > k
          BY <1>1
        <5> QED BY <2>2, <4>1, <5>1
      <4> QED BY <4>1, <4>4, <4>5 DEF AddedLast
    <3> QED BY <3>1, <3>2
  <2>6. ASSUME ~Touched(t, p)  PROVE AddedLast(st, p) <=> AddedLast(s, p)
    <3>1. \A k \in DOMAIN st : Touches(st[k], p) => k \in DOMAIN s /\ st[k] = s[k]
      <4> SUFFICES ASSUME NEW k \in DOMAIN st, Touches(st[k], p), k \notin DOMAIN s  PROVE FALSE
        BY <2>1
      <4>1. k - Len(s) \in DOMAIN t /\ st[k] = t[k - Len(s)]
        BY <2>2, <2>3
      <4> QED BY <2>6, <4>1 DEF Touched
    <3> QED BY <2>1, <3>1 DEF AddedLast
  <2> QED BY <2>4, <2>5, <2>6
<1>3. After(st, S) = After(t, After(s, S))
  BY <1>2 DEF After
<1> QED BY <1>3 DEF st

\* Outside a region, what there was before does not matter inside it.
LEMMA AfterLocal ==
    ASSUME NEW s, NEW S \in SUBSET Points, NEW T \in SUBSET Points, NEW R,
           R \intersect S = R \intersect T
    PROVE  R \intersect After(s, S) = R \intersect After(s, T)
BY DEF After

LEMMA AfterType ==
    ASSUME NEW s, NEW S
    PROVE  After(s, S) \in SUBSET Points
BY DEF After

\* Whatever an operation meets, it makes of the map what it says.
LEMMA ApplyMap ==
    ASSUME TypeOK, NEW ops \in Seq(Ops), Len(ops) \in {1, 2}, \A i \in 1 .. Len(ops) : Single(ops[i]),
           NEW s \in Results(ops), Apply(ops, s)
    PROVE  Map' = After(ops, Map)
<1>1. Map \in SUBSET Points /\ push \in Pushes
  BY MapFacts DEF TypeOK, Pushes
<1>2. Map' = (IF Len(ops) = 1 THEN Effect(Map, ops[1]) ELSE Effect(Effect(Map, ops[1]), ops[2]))
  <2>1. Map' = Visible(s.valid, s.push)
    BY DEF Apply, Map
  <2> QED BY <1>1, <2>1, ResultFacts
<1>3. CASE Len(ops) = 1
  <2>1. ops = <<ops[1]>> /\ ops[1] \in Ops
    BY <1>3, OneElement
  <2>2. After(<<ops[1]>>, Map) = Effect(Map, ops[1])
    BY <1>1, <2>1, AfterOne
  <2> QED BY <1>2, <1>3, <2>1, <2>2
<1>4. CASE Len(ops) = 2
  <2>1. ops = <<ops[1]>> \o <<ops[2]>> /\ ops[1] \in Ops /\ ops[2] \in Ops
    BY <1>4, TwoElements
  <2> DEFINE a == ops[1]
             b == ops[2]
  <2>2. a \in Ops /\ b \in Ops /\ <<a>> \in Seq(Ops) /\ <<b>> \in Seq(Ops) /\ ops = <<a>> \o <<b>>
    BY <2>1
  <2>3. Map' = Effect(Effect(Map, a), b)
    BY <1>2, <1>4
  <2> HIDE DEF a, b
  <2>4. After(ops, Map) = After(<<b>>, After(<<a>>, Map))
    <3> DEFINE u == <<a>>
               v == <<b>>
    <3>1. u \in Seq(Ops) /\ v \in Seq(Ops) /\ ops = u \o v
      BY <2>2
    <3> HIDE DEF u, v
    <3>2. After(u \o v, Map) = After(v, After(u, Map))
      BY <3>1, AfterConcat
    <3>3. After(ops, Map) = After(v, After(u, Map))
      BY <3>1, <3>2
    <3> QED BY <3>3 DEF u, v
  <2>5. After(<<a>>, Map) = Effect(Map, a) /\ Effect(Map, a) \in SUBSET Points
    BY <1>1, <2>2, AfterOne, EffectFacts
  <2>6. After(<<b>>, Effect(Map, a)) = Effect(Effect(Map, a), b)
    BY <2>2, <2>5, AfterOne
  <2> QED BY <2>3, <2>4, <2>5, <2>6
<1> QED BY <1>3, <1>4

-----------------------------------------------------------------------------
(* An exact rebuild                                                          *)

Copied == reb \in {"open", "build", "replay", "run", "swap"}
InSubOnly(s) == \A i \in 1 .. Len(s) : Adds(s[i]) => s[i].pts \subseteq InSub
\* The operations that may be under way while the whole tree is rebuilt
Logged == {"idle", "box", "search", "locked", "log", "crashed"}
\* The log is empty when the copy is made and when the subtrees are swapped; only
\* logged operations change what was copied, and only in what was copied.
ExactInv == exact =>
    /\ reb \in {"close", "copy"} => Rebuild_Logger = <<>>
    /\ reb # "replace" /\ (Copied => new.nodes # {})
    /\ Copied /\ Rebuild_Ptr = "root" => odo \in Logged
    /\ Copied /\ Rebuild_Ptr = "sub" =>
          new.nodes \subseteq InSub /\ InSubOnly(Rebuild_Logger) /\ InSubOnly(Operation)
    /\ reb = "swap" => Rebuild_Logger = <<>> /\ working_flag_mutex = "rebuild"

LEMMA InSubConcat ==
    ASSUME NEW s \in Seq(Ops), NEW t \in Seq(Ops), InSubOnly(s), InSubOnly(t)
    PROVE  InSubOnly(s \o t)
<1> DEFINE st == s \o t
<1>1. /\ Len(st) = Len(s) + Len(t) /\ Len(s) \in Nat /\ Len(t) \in Nat
      /\ \A i \in 1 .. Len(s) + Len(t) : st[i] = IF i <= Len(s) THEN s[i] ELSE t[i - Len(s)]
  BY ConcatProperties
<1> HIDE DEF st
<1>2. ASSUME NEW i \in 1 .. Len(st)  PROVE Adds(st[i]) => st[i].pts \subseteq InSub
  <2>1. CASE i <= Len(s)
    BY <1>1, <2>1 DEF InSubOnly
  <2>2. CASE ~(i <= Len(s))
    <3>1. i - Len(s) \in 1 .. Len(t) /\ st[i] = t[i - Len(s)]
      BY <1>1, <2>2
    <3> QED BY <3>1 DEF InSubOnly
  <2> QED BY <2>1, <2>2
<1>3. InSubOnly(st)
  BY <1>2 DEF InSubOnly
<1> QED BY <1>3 DEF st

LEMMA ExactFrame ==
    ASSUME ExactInv, UNCHANGED <<Rebuild_Ptr, Rebuild_Logger, reb, new, Operation, exact>>,
           working_flag_mutex = "rebuild" => working_flag_mutex' = "rebuild",
           Copied /\ Rebuild_Ptr = "root" /\ odo \in Logged => odo' \in Logged
    PROVE  ExactInv'
BY DEF ExactInv, Copied, Logged, InSubOnly

LEMMA ExactLogChange ==
    ASSUME IInv, Shape, ExactInv, LogChange
    PROVE  ExactInv'
<1>1. /\ working_flag_mutex' = "free"
      /\ UNCHANGED <<Rebuild_Ptr, rebuild_flag, reb, new, Operation, exact>>
  BY DEF LogChange, rebVars
<1>2. PICK ops \in Seq(Ops) :
        /\ Log(ops)
        /\ \/ odo = "sublog" /\ odo' = "checkroot" /\ todo' = todo /\ ops = <<todo[1]>>
           \/ odo = "log" /\ odo' = "idle" /\ todo' = <<>> /\ ops = todo
  BY LogFacts
<1>3. reb \notin {"close", "copy", "open", "replay"}
  BY <1>2 DEF Shape, LockInv
<1>4. exact => reb # "swap"
  BY <1>2 DEF Shape, LockInv, ExactInv
<1>5. Copied /\ Rebuild_Ptr = "root" /\ exact => odo' \in Logged
  BY <1>2 DEF ExactInv, Logged
<1>6. Copied /\ Rebuild_Ptr = "sub" /\ exact => InSubOnly(Rebuild_Logger')
  <2> SUFFICES ASSUME Copied, Rebuild_Ptr = "sub", exact  PROVE InSubOnly(Rebuild_Logger')
    OBVIOUS
  <2>1. odo = "sublog" /\ ops = <<todo[1]>>
    BY <1>2 DEF Shape, PtrInv
  <2>2. InSubOnly(ops)
    BY <2>1 DEF Shape, TodoInv, InSubOnly
  <2>3. InSubOnly(Rebuild_Logger) /\ Rebuild_Logger \in Seq(Ops)
    BY TypeParts DEF ExactInv, Shape, LogType
  <2>4. InSubOnly(Rebuild_Logger \o ops)
    BY <2>2, <2>3, InSubConcat
  <2> QED BY <1>2, <2>3, <2>4 DEF Log
<1> QED BY <1>1, <1>3, <1>4, <1>5, <1>6 DEF ExactInv, Copied, InSubOnly

LEMMA ExactPushDown ==
    ASSUME IInv, Shape, ExactInv, Push_Down
    PROVE  ExactInv'
<1> DEFINE o == Op("PUSH_DOWN", IF push = "no" THEN {} ELSE Points)
<1>1. /\ odo \in {"boxpush", "addpush"} /\ working_flag_mutex = "free"
      /\ Rebuild_Logger' = IF rebuild_flag THEN Append(Rebuild_Logger, o) ELSE Rebuild_Logger
      /\ UNCHANGED <<Rebuild_Ptr, locks, reb, new, Operation, exact>>
  BY DEF Push_Down, rebVars
<1>2. o \in Ops /\ ~Adds(o)
  BY DEF Op, Ops, Adds
<1> HIDE DEF o
<1>3. reb \notin {"close", "copy"} /\ (exact => reb # "swap") /\ Rebuild_Ptr # "root"
  BY <1>1 DEF Shape, LockInv, PtrInv, ExactInv
<1>4. InSubOnly(Rebuild_Logger) => InSubOnly(Rebuild_Logger')
  <2> DEFINE t == <<o>>
  <2>1. t \in Seq(Ops) /\ InSubOnly(t)
    BY <1>2 DEF InSubOnly
  <2>2. Rebuild_Logger \in Seq(Ops) /\ Append(Rebuild_Logger, o) = Rebuild_Logger \o t
    BY <1>2, TypeParts, AppendIsConcat DEF Shape, LogType
  <2> HIDE DEF t
  <2>3. InSubOnly(Rebuild_Logger) => InSubOnly(Rebuild_Logger \o t)
    BY <2>1, <2>2, InSubConcat
  <2> QED BY <1>1, <2>2, <2>3
<1> QED BY <1>1, <1>3, <1>4 DEF ExactInv, Copied, InSubOnly, locks

LEMMA ExactCriterion ==
    ASSUME IInv, Shape, ExactInv, Criterion_Check
    PROVE  ExactInv'
<1>1. PICK t \in {"sub", "root"} :
        /\ odo = IF t = "sub" THEN "checksub" ELSE "checkroot"
        /\ \/ Request(t) \/ RebuildNow(t)
           \/ Rebuild_Ptr' = Asked(t) /\ UNCHANGED <<nodes, valid, push>>
        /\ odo' = IF Asked(t) # Rebuild_Ptr /\ reb # "idle" THEN "crashed"
                  ELSE IF t = "sub" THEN "checkroot" ELSE "next"
  BY DEF Criterion_Check
<1>2. UNCHANGED <<Rebuild_Logger, working_flag_mutex, reb, new, Operation, exact>>
  BY DEF Criterion_Check, locks, rebVars
<1>3. reb = "idle" \/ Rebuild_Ptr' \in {"none", Rebuild_Ptr}
  BY <1>1 DEF Request, RebuildNow, Asked
<1>4. exact => ~(Copied /\ Rebuild_Ptr = "root")
  BY <1>1 DEF ExactInv, Logged
<1> QED BY <1>2, <1>3, <1>4 DEF ExactInv, Copied, InSubOnly

LEMMA ExactCall ==
    ASSUME IInv, Shape, ExactInv,
           OdometryCall \/ Search_by_range \/ Found \/ Crash \/ SearchesJoin \/ AwaitPush \/ TellFather
    PROVE  ExactInv'
<1>1. /\ UNCHANGED <<Rebuild_Ptr, Rebuild_Logger, reb, new, Operation, exact, working_flag_mutex>>
      /\ odo' \in Logged \/ odo' = odo \/ Rebuild_Ptr # "root"
  <2> USE DEF locks, odoVars, rebVars, Logged
  <2>1. CASE OdometryCall
    <3>1. CASE StartSearches
      BY <3>1 DEF StartSearches
    <3>2. ASSUME NEW p \in Points, BuildTree(p) \/ Add_Points(p)  PROVE <1>1!1 /\ <1>1!2
      BY <3>2 DEF BuildTree, Add_Points, Call
    <3>3. ASSUME NEW b \in Boxes, Delete_Point_Boxes(b)  PROVE <1>1!1 /\ <1>1!2
      BY <3>3 DEF Delete_Point_Boxes, Begin
    <3> QED BY <2>1, <3>1, <3>2, <3>3 DEF OdometryCall
  <2>2. CASE Search_by_range
    BY <2>2 DEF Search_by_range
  <2>3. CASE Found
    BY <2>3 DEF Found, Begin
  <2>4. CASE Crash
    BY <2>4 DEF Crash
  <2>5. CASE SearchesJoin
    BY <2>5 DEF SearchesJoin
  <2>6. CASE AwaitPush
    BY <2>6 DEF AwaitPush, MustPush
  <2>7. CASE TellFather
    BY <2>7 DEF TellFather
  <2> QED BY <2>1, <2>2, <2>3, <2>4, <2>5, <2>6, <2>7
<1> QED BY <1>1, ExactFrame

LEMMA ExactChange ==
    ASSUME IInv, Shape, ExactInv,
           Direct \/ Descend \/ ChangeSubtree \/ ChangeRoot \/ NextOperation
    PROVE  ExactInv'
<1>1. /\ UNCHANGED <<Rebuild_Ptr, Rebuild_Logger, reb, new, Operation, exact>>
      /\ working_flag_mutex = "rebuild" => working_flag_mutex' = "rebuild"
      /\ odo \in Logged => odo' \in Logged
  BY DEF Direct, Descend, ChangeSubtree, ChangeRoot, NextOperation, Lock, locks, rebVars, Logged
<1> QED BY <1>1, ExactFrame

LEMMA ExactRebuild ==
    ASSUME IInv, Shape, ExactInv, RebuildStep
    PROVE  ExactInv'
<1> USE DEF Rebuilding, Alive
<1>0. UNCHANGED odo
  BY DEF RebuildStep, Take, StopSearches, flatten, StartBuild, Built, Pop, run_operation,
         StopSearchesAgain, Swap, Unlock, Discard, odoVars
<1> USE <1>0 DEF ExactInv, Copied, InSubOnly
<1>1. CASE Take
  BY <1>1 DEF Take
<1>2. CASE StopSearches
  BY <1>2 DEF StopSearches
<1>3. CASE flatten
  <2>1. /\ reb = "copy" /\ reb' = "open" /\ new'.nodes \subseteq Region(Rebuild_Ptr)
        /\ exact' = (exact /\ new'.nodes # {} /\ ~Unlogged)
        /\ UNCHANGED <<Rebuild_Ptr, Rebuild_Logger, working_flag_mutex, odo, Operation>>
    BY <1>3 DEF flatten, locks, odoVars
  <2>2. Operation = <<>> /\ odo \notin {"sublog", "log"}
    BY <2>1 DEF Shape, LockInv
  <2>3. Rebuild_Ptr = "root" /\ ~Unlogged => odo \in Logged
    BY <2>2, TypeParts DEF Unlogged, Logged, Shape, PtrInv, OdoType
  <2>4. Rebuild_Ptr = "sub" => new'.nodes \subseteq InSub
    BY <2>1 DEF Region
  <2>5. exact => Rebuild_Logger = <<>>
    BY <2>1
  <2>6. exact' => exact /\ new'.nodes # {} /\ ~Unlogged
    BY <2>1
  <2>7. exact' => InSubOnly(Rebuild_Logger)' /\ InSubOnly(Operation)'
    <3>1. exact' => Len(Rebuild_Logger') = 0 /\ Len(Operation') = 0
      BY <2>1, <2>2, <2>5, <2>6
    <3> QED BY <3>1
  <2> HIDE DEF InSubOnly
  <2> QED BY <2>1, <2>3, <2>4, <2>6, <2>7
<1>4. CASE StartBuild
  BY <1>4 DEF StartBuild
<1>5. CASE Built
  BY <1>5 DEF Built
<1>6. CASE Pop
  <2>1. /\ reb = "replay" /\ reb' = "run" /\ Rebuild_Logger # <<>>
        /\ Operation' = <<Rebuild_Logger[1]>> /\ Rebuild_Logger' = Tail(Rebuild_Logger)
        /\ UNCHANGED <<Rebuild_Ptr, odo, new, exact>>
    BY <1>6, TypeParts DEF Pop, odoVars, Shape, LogType
  <2>2. /\ Rebuild_Logger \in Seq(Ops) /\ Len(Rebuild_Logger) \in Nat \ {0}
        /\ Len(Rebuild_Logger') = Len(Rebuild_Logger) - 1
        /\ \A i \in 1 .. Len(Rebuild_Logger') : Rebuild_Logger'[i] = Rebuild_Logger[i + 1]
    <3>1. Rebuild_Logger \in Seq(Ops) /\ Len(Rebuild_Logger) # 0
      BY <2>1, TypeParts, EmptySeq DEF Shape, LogType
    <3> QED BY <2>1, <3>1, HeadTailProperties
  <2>3. InSubOnly(Rebuild_Logger) => InSubOnly(Rebuild_Logger') /\ InSubOnly(Operation')
    <3>1. Len(Operation') = 1 /\ Operation'[1] = Rebuild_Logger[1]
      BY <2>1
    <3>2. \A i \in 1 .. Len(Rebuild_Logger') : i + 1 \in 1 .. Len(Rebuild_Logger)
      BY <2>2
    <3> QED BY <2>2, <3>1, <3>2
  <2> QED BY <2>1, <2>3
<1>7. CASE run_operation
  <2>1. /\ reb = "run" /\ reb' = "build" /\ Operation' = <<>>
        /\ new'.nodes = IF Adds(Operation[1]) THEN new.nodes \union Operation[1].pts ELSE new.nodes
        /\ UNCHANGED <<Rebuild_Ptr, Rebuild_Logger, odo, exact>> /\ Len(Operation) = 1
    BY <1>7 DEF run_operation, odoVars, Shape, LockInv, Adds
  <2>2. /\ new.nodes \subseteq InSub /\ InSubOnly(Operation) => new'.nodes \subseteq InSub
        /\ new.nodes # {} => new'.nodes # {}
    BY <2>1
  <2>3. Len(Operation') = 0
    BY <2>1
  <2> QED BY <2>1, <2>2, <2>3
<1>8. CASE StopSearchesAgain
  BY <1>8 DEF StopSearchesAgain, Drained, Shape, LockInv
<1>9. CASE Swap
  BY <1>9 DEF Swap
<1>10. CASE Unlock
  BY <1>10 DEF Unlock
<1>11. CASE Discard
  BY <1>11 DEF Discard
<1> QED BY <1>1, <1>2, <1>3, <1>4, <1>5, <1>6, <1>7, <1>8, <1>9, <1>10, <1>11 DEF RebuildStep

LEMMA ExactStep == IInv /\ Shape /\ ExactInv /\ [Next]_vars => ExactInv'
<1> SUFFICES ASSUME IInv, Shape, ExactInv, [Next]_vars PROVE ExactInv'
  OBVIOUS
<1>1. CASE UNCHANGED vars
  BY <1>1, ExactFrame DEF vars, locks, odoVars, rebVars
<1>2. CASE OdometryStep \/ OdometryCall
  BY <1>2, ExactPushDown, ExactCall, ExactChange, ExactLogChange, ExactCriterion DEF OdometryStep
<1>3. CASE RebuildStep
  BY <1>3, ExactRebuild
<1>4. CASE \E s \in Searchers : SearchStep(s)
  <2>1. UNCHANGED <<Rebuild_Ptr, Rebuild_Logger, working_flag_mutex, odoVars, rebVars>>
    BY <1>4 DEF SearchStep, Nearest_Search, Search, SearchReturns, Enter
  <2> QED BY <2>1, ExactFrame DEF odoVars, rebVars
<1> QED BY <1>1, <1>2, <1>3, <1>4 DEF Next

\* A subtree that is asked for stays large until it is swapped.
SizeInv == Rebuild_Ptr = "sub" /\ reb # "unlock" => Size("sub") >= Multi_Thread_Rebuild_Point_Num

LEMMA SizeFacts ==
    ASSUME Shape, Shape'
    PROVE  /\ Size("sub") \in Nat /\ Size("root") \in Nat /\ Size("sub")' \in Nat
           /\ Size("sub") <= Size("root")
           /\ SubtreeNodes \subseteq nodes' => Size("sub") <= Size("sub")'
<1> DEFINE A == nodes \intersect InSub
           B == nodes \intersect Points
           C == nodes' \intersect InSub
<1>1. /\ A \subseteq Points /\ B \subseteq Points /\ C \subseteq Points /\ A \subseteq B
      /\ SubtreeNodes \subseteq nodes' => A \subseteq C
  BY IkdAssumption, TypeParts DEF Shape, TreeType, SubtreeNodes
<1>2. /\ Size("sub") = Cardinality(A) /\ Size("root") = Cardinality(B)
      /\ Size("sub")' = Cardinality(C)
  BY DEF Size, Region
<1> HIDE DEF A, B, C
<1>3. IsFiniteSet(A) /\ IsFiniteSet(B) /\ IsFiniteSet(C)
  BY <1>1, IkdAssumption, FS_Subset
<1>4. Cardinality(A) \in Nat /\ Cardinality(B) \in Nat /\ Cardinality(C) \in Nat
  BY <1>3, FS_CardinalityType
<1>5. Cardinality(A) <= Cardinality(B)
  BY <1>1, <1>3, FS_Subset
<1>6. A \subseteq C => Cardinality(A) <= Cardinality(C)
  BY <1>3, FS_Subset
<1> QED BY <1>1, <1>2, <1>4, <1>5, <1>6

LEMMA SizeFrame ==
    ASSUME Shape, Shape', SizeInv, SubtreeNodes \subseteq nodes',
           Rebuild_Ptr' \in {Rebuild_Ptr, "none", "root"}, reb = "unlock" => reb' = "unlock"
    PROVE  SizeInv'
<1>1. Size("sub") \in Nat /\ Size("sub")' \in Nat /\ Size("sub") <= Size("sub")'
  BY SizeFacts
<1>2. Multi_Thread_Rebuild_Point_Num \in Nat
  BY IkdAssumption
<1> QED BY <1>1, <1>2 DEF SizeInv

LEMMA SizeCriterion ==
    ASSUME Shape, Shape', SizeInv, Criterion_Check
    PROVE  SizeInv'
<1>1. PICK t \in {"sub", "root"} :
        \/ Request(t) \/ RebuildNow(t)
        \/ Rebuild_Ptr' = Asked(t) /\ UNCHANGED <<nodes, valid, push>>
  BY DEF Criterion_Check
<1>2. UNCHANGED reb
  BY DEF Criterion_Check, rebVars
<1>3. CASE Request(t)
  <2>1. Size(t) >= Multi_Thread_Rebuild_Point_Num /\ Rebuild_Ptr' = t /\ nodes' = nodes
    BY <1>3 DEF Request
  <2>2. Size("sub")' = Size("sub")
    BY <2>1 DEF Size, Region
  <2> QED BY <2>1, <2>2 DEF SizeInv
<1>4. CASE RebuildNow(t)
  <2>1. Size(t) < Multi_Thread_Rebuild_Point_Num /\ Rebuild_Ptr' \in {Rebuild_Ptr, "none"}
    BY <1>4 DEF RebuildNow, Asked
  <2>2. reb # "unlock" => Rebuild_Ptr # "sub"
    <3>1. Size("sub") \in Nat /\ Size("root") \in Nat /\ Size("sub") <= Size("root")
      BY SizeFacts
    <3> QED BY <2>1, <3>1, IkdAssumption DEF SizeInv
  <2> QED BY <1>2, <2>1, <2>2 DEF SizeInv
<1>5. CASE Rebuild_Ptr' = Asked(t) /\ UNCHANGED <<nodes, valid, push>>
  <2>1. SubtreeNodes \subseteq nodes' /\ Rebuild_Ptr' \in {Rebuild_Ptr, "none"}
    BY <1>5 DEF SubtreeNodes, Asked
  <2> QED BY <1>2, <2>1, SizeFrame
<1> QED BY <1>1, <1>3, <1>4, <1>5

LEMMA SizeStep == Shape /\ Shape' /\ SizeInv /\ [Next]_vars => SizeInv'
<1> SUFFICES ASSUME Shape, Shape', SizeInv, [Next]_vars PROVE SizeInv'
  OBVIOUS
<1> USE DEF SubtreeNodes
<1>1. CASE UNCHANGED vars
  BY <1>1, SizeFrame DEF vars, tree, rebVars
<1>2. CASE OdometryStep
  <2>1. CASE Criterion_Check
    BY <2>1, SizeCriterion
  <2>2. CASE ~Criterion_Check
    <3>1. SubtreeNodes \subseteq nodes' /\ UNCHANGED <<Rebuild_Ptr, reb>>
      BY <1>2, <2>2
         DEF OdometryStep, AwaitPush, Push_Down, TellFather, Search_by_range, Found, Crash, Direct,
             Descend, ChangeSubtree, ChangeRoot, LogChange, NextOperation, SearchesJoin, tree,
             rebVars, Apply
    <3> QED BY <3>1, SizeFrame
  <2> QED BY <2>1, <2>2
<1>3. CASE OdometryCall
  <2>1. CASE \E p \in Points : BuildTree(p)
    <3>1. ~Root_Node /\ UNCHANGED Rebuild_Ptr
      BY <2>1 DEF BuildTree
    <3> QED BY <3>1 DEF Shape, PtrInv, SizeInv
  <2>2. CASE ~\E p \in Points : BuildTree(p)
    <3>1. SubtreeNodes \subseteq nodes' /\ UNCHANGED <<Rebuild_Ptr, reb>>
      BY <1>3, <2>2 DEF OdometryCall, Add_Points, Delete_Point_Boxes, StartSearches, tree, rebVars
    <3> QED BY <3>1, SizeFrame
  <2> QED BY <2>1, <2>2
<1>4. CASE RebuildStep
  <2>1. CASE Swap
    BY <2>1 DEF Swap, SizeInv
  <2>2. CASE Unlock
    BY <2>2 DEF Unlock, SizeInv
  <2>3. CASE ~Swap /\ ~Unlock
    <3>1. /\ SubtreeNodes \subseteq nodes' /\ UNCHANGED Rebuild_Ptr
          /\ reb # "unlock"
      BY <1>4, <2>3
         DEF RebuildStep, Take, StopSearches, flatten, StartBuild, Built, Pop, run_operation,
             StopSearchesAgain, Drained, Discard, Rebuilding, tree
    <3> QED BY <3>1, SizeFrame
  <2> QED BY <2>1, <2>2, <2>3
<1>5. CASE \E s \in Searchers : SearchStep(s)
  <2>1. SubtreeNodes \subseteq nodes' /\ UNCHANGED <<Rebuild_Ptr, reb>>
    BY <1>5 DEF SearchStep, Nearest_Search, Search, SearchReturns, Enter, tree, rebVars
  <2> QED BY <2>1, SizeFrame
<1> QED BY <1>1, <1>2, <1>3, <1>4, <1>5 DEF Next

-----------------------------------------------------------------------------
(* The log holds what the copy lacks                                         *)

\* what the odometry has changed under the lock and not logged yet
InHand == IF rebuild_flag /\ odo = "sublog" THEN Head1
          ELSE IF rebuild_flag /\ odo = "log" THEN todo ELSE <<>>
Old == IF Rebuild_Ptr = "root" THEN Map ELSE valid
LogInv == Copied /\ exact =>
    Region(Rebuild_Ptr) \intersect Old = Region(Rebuild_Ptr) \intersect After(Pending, new.valid)

LEMMA PendingParts ==
    ASSUME Shape
    PROVE  /\ Operation \in Seq(Ops) /\ Rebuild_Logger \in Seq(Ops) /\ InHand \in Seq(Ops)
           /\ Operation \o Rebuild_Logger \in Seq(Ops)
           /\ Pending = (Operation \o Rebuild_Logger) \o InHand /\ Pending \in Seq(Ops)
           /\ new.valid \in SUBSET Points /\ valid \in SUBSET Points /\ Map \in SUBSET Points
<1>1. Operation \in Seq(Ops) /\ Rebuild_Logger \in Seq(Ops) /\ todo \in Seq(Ops)
      /\ new.valid \in SUBSET Points /\ valid \in SUBSET Points /\ Map \in SUBSET Points
  BY MapFacts DEF Shape, TypeOK
<1>2. odo = "sublog" => Head1 \in Seq(Ops)
  <2> SUFFICES ASSUME odo = "sublog"  PROVE Head1 \in Seq(Ops)
    OBVIOUS
  <2>1. Head(todo) \in Ops
    BY TodoFacts DEF Shape, Working
  <2> QED BY <2>1 DEF Head1
<1>3. <<>> \in Seq(Ops)
  BY EmptySeq
<1>4. InHand \in Seq(Ops)
  BY <1>1, <1>2, <1>3 DEF InHand
<1>5. Operation \o Rebuild_Logger \in Seq(Ops)
  BY <1>1, ConcatProperties
<1>6. (Operation \o Rebuild_Logger) \o InHand \in Seq(Ops)
  BY <1>4, <1>5, ConcatProperties
<1>7. Pending = (Operation \o Rebuild_Logger) \o InHand
  BY DEF Pending, InHand
<1> QED BY <1>1, <1>4, <1>5, <1>6, <1>7

\* A step that changes neither what is pending nor what is in the old subtree.
LEMMA LogFrame ==
    ASSUME LogInv, Copied' => Copied, UNCHANGED <<Rebuild_Ptr, exact, new>>,
           Copied /\ exact => Pending' = Pending,
           Copied /\ exact => Region(Rebuild_Ptr) \intersect Old' = Region(Rebuild_Ptr) \intersect Old
    PROVE  LogInv'
<1>1. Region(Rebuild_Ptr)' = Region(Rebuild_Ptr)
  BY DEF Region
<1>2. Copied /\ exact => After(Pending, new.valid)' = After(Pending, new.valid)
  BY DEF After, Touched, AddedLast
<1> QED BY <1>1, <1>2 DEF LogInv

LEMMA LogStill ==
    ASSUME LogInv, odo \notin {"sublog", "log"}, odo' \notin {"sublog", "log"},
           UNCHANGED <<Rebuild_Ptr, Rebuild_Logger, reb, new, Operation, exact>>,
           Region(Rebuild_Ptr) \intersect Old' = Region(Rebuild_Ptr) \intersect Old
    PROVE  LogInv'
<1>1. Pending' = Pending
  BY DEF Pending
<1> QED BY <1>1, LogFrame DEF Copied

LEMMA LogCall ==
    ASSUME IInv, Shape, LogInv,
           \/ OdometryCall \/ Search_by_range \/ Crash \/ SearchesJoin \/ NextOperation
           \/ AwaitPush \/ TellFather
    PROVE  LogInv'
<1>1. /\ odo \notin {"sublog", "log"} /\ odo' \notin {"sublog", "log"}
      /\ UNCHANGED <<Rebuild_Ptr, Rebuild_Logger, reb, new, Operation, exact>>
      /\ \/ UNCHANGED <<valid, Map>>
         \/ odo = "idle" /\ ~Root_Node
  <2> USE DEF locks, odoVars, rebVars, tree, Map
  <2>1. CASE OdometryCall
    <3>1. CASE StartSearches
      BY <3>1 DEF StartSearches, Call
    <3>2. ASSUME NEW p \in Points, BuildTree(p) \/ Add_Points(p)  PROVE <1>1!1 /\ <1>1!2 /\ <1>1!3
      BY <3>2 DEF BuildTree, Add_Points, Call
    <3>3. ASSUME NEW b \in Boxes, Delete_Point_Boxes(b)  PROVE <1>1!1 /\ <1>1!2 /\ <1>1!3
      BY <3>3 DEF Delete_Point_Boxes, Begin, Call
    <3> QED BY <2>1, <3>1, <3>2, <3>3 DEF OdometryCall
  <2>2. CASE Search_by_range
    BY <2>2 DEF Search_by_range
  <2>3. CASE NextOperation
    BY <2>3 DEF NextOperation
  <2>4. CASE Crash
    BY <2>4 DEF Crash
  <2>5. CASE SearchesJoin
    BY <2>5 DEF SearchesJoin
  <2>6. CASE AwaitPush
    BY <2>6 DEF AwaitPush
  <2>7. CASE TellFather
    <3>1. push = "marked" /\ push' = "loose" /\ odo \in {"box", "search", "direct"}
          /\ UNCHANGED <<valid, odo, Rebuild_Ptr, Rebuild_Logger, reb, new, Operation, exact>>
      BY <2>7 DEF TellFather
    <3>2. Map' = Map
      BY <3>1 DEF Visible
    <3> QED BY <3>1, <3>2
  <2> QED BY <2>1, <2>2, <2>3, <2>4, <2>5, <2>6, <2>7
<1>2. CASE UNCHANGED <<valid, Map>>
  <2>1. Old' = Old
    BY <1>1, <1>2 DEF Old
  <2> QED BY <1>1, <2>1, LogStill
<1>3. CASE odo = "idle" /\ ~Root_Node
  <2>1. Rebuild_Ptr = "none" \/ reb = "unlock"
    BY <1>3 DEF Shape, PtrInv
  <2> QED BY <1>1, <2>1 DEF LogInv, Region, Copied
<1> QED BY <1>1, <1>2, <1>3

LEMMA LogFound ==
    ASSUME IInv, Shape, LogInv, Found
    PROVE  LogInv'
<1>1. /\ odo = "box" /\ odo' \notin {"sublog", "log"}
      /\ (~MustPush /\ valid' = Map /\ push' = "no") \/ UNCHANGED <<valid, push>>
      /\ UNCHANGED <<Rebuild_Ptr, Rebuild_Logger, reb, new, Operation, exact>>
  BY DEF Found, Begin, rebVars
<1>2. Region(Rebuild_Ptr) \intersect Old' = Region(Rebuild_Ptr) \intersect Old
  <2>1. CASE Rebuild_Ptr = "root"
    BY <1>1, <2>1 DEF Old, Map, Visible
  <2>2. CASE Rebuild_Ptr = "sub"
    BY <1>1, <2>2 DEF Old, Map, Visible, MustPush
  <2>3. CASE Rebuild_Ptr = "none"
    BY <2>3 DEF Region
  <2> QED BY <2>1, <2>2, <2>3, TypeParts DEF Shape, LogType
<1> QED BY <1>1, <1>2, LogStill

\* A subtree that is being rebuilt is too large to be rebuilt at once.
LEMMA LogCriterion ==
    ASSUME IInv, Shape, Shape', SizeInv, ExactInv, LogInv, Criterion_Check
    PROVE  LogInv'
<1>1. PICK t \in {"sub", "root"} :
        /\ odo = IF t = "sub" THEN "checksub" ELSE "checkroot"
        /\ \/ Request(t) \/ RebuildNow(t)
           \/ Rebuild_Ptr' = Asked(t) /\ UNCHANGED <<nodes, valid, push>>
        /\ odo' = IF Asked(t) # Rebuild_Ptr /\ reb # "idle" THEN "crashed"
                  ELSE IF t = "sub" THEN "checkroot" ELSE "next"
  BY DEF Criterion_Check
<1>2. UNCHANGED <<Rebuild_Logger, reb, new, Operation, exact>>
  BY DEF Criterion_Check, rebVars
<1>3. \/ reb = "idle" \/ Rebuild_Ptr' = "none" \/ UNCHANGED Rebuild_Ptr
  BY <1>1 DEF Request, RebuildNow, Asked
<1>4. CASE UNCHANGED Rebuild_Ptr /\ Copied /\ exact
  <2>1. Rebuild_Ptr # "root"
    BY <1>1, <1>4 DEF ExactInv, Logged
  <2>2. Rebuild_Ptr = "sub" => UNCHANGED valid
    <3>1. Size("sub") \in Nat /\ Size("root") \in Nat /\ Size("sub") <= Size("root")
      BY SizeFacts
    <3>2. Rebuild_Ptr = "sub" => Size("sub") >= Multi_Thread_Rebuild_Point_Num
      BY <1>4 DEF SizeInv, Copied
    <3>3. RebuildNow(t) => Size(t) < Multi_Thread_Rebuild_Point_Num
      BY DEF RebuildNow
    <3>4. Rebuild_Ptr = "sub" => ~RebuildNow(t)
      BY <3>1, <3>2, <3>3, IkdAssumption
    <3> QED BY <1>1, <3>4 DEF Request
  <2>3. Region(Rebuild_Ptr) \intersect Old' = Region(Rebuild_Ptr) \intersect Old
    BY <1>4, <2>1, <2>2, TypeParts DEF Old, Region, Shape, LogType
  <2>4. odo \notin {"sublog", "log"} /\ odo' \notin {"sublog", "log"}
    BY <1>1
  <2> QED BY <1>2, <1>4, <2>3, <2>4, LogStill
<1> QED BY <1>2, <1>3, <1>4 DEF LogInv, Region, Copied

LEMMA LogPushDown ==
    ASSUME IInv, Shape, LogInv, Push_Down
    PROVE  LogInv'
<1> DEFINE o == Op("PUSH_DOWN", IF push = "no" THEN {} ELSE Points)
           t == <<o>>
<1>1. /\ odo \in {"boxpush", "addpush"} /\ odo' \in {"box", "direct"}
      /\ valid' = Map /\ push' = "no"
      /\ Rebuild_Logger' = IF rebuild_flag THEN Append(Rebuild_Logger, o) ELSE Rebuild_Logger
      /\ UNCHANGED <<Rebuild_Ptr, todo, rebuild_flag, reb, new, Operation, exact>>
  BY DEF Push_Down, rebVars
<1>2. o \in Ops /\ o.op # "ADD_POINT" /\ o.pts = IF push = "no" THEN {} ELSE Points
  BY DEF Op, Ops
<1> HIDE DEF o
<1>3. t \in Seq(Ops)
  BY <1>2
<1>4. SUFFICES ASSUME Copied, exact, Rebuild_Ptr = "sub"
               PROVE  InSub \intersect valid' = InSub \intersect After(Pending', new.valid)
  <2>1. Copied' = Copied /\ Rebuild_Ptr # "root"
    BY <1>1 DEF Copied, Shape, PtrInv
  <2>2. After(Pending, new.valid)' = After(Pending', new.valid)
    BY <1>1 DEF After, Touched, AddedLast
  <2>3. CASE Rebuild_Ptr = "sub"
    BY <1>1, <2>1, <2>2, <2>3 DEF LogInv, Region, Old
  <2>4. CASE Rebuild_Ptr = "none"
    BY <1>1, <2>4 DEF LogInv, Region
  <2> QED BY <2>1, <2>3, <2>4, TypeParts DEF Shape, LogType
<1>5. odo \notin {"sublog", "log"} /\ InHand = <<>>
  BY <1>1 DEF InHand
<1>6. rebuild_flag
  BY <1>4 DEF Shape, LockInv, Copied
<1> DEFINE u == Operation \o Rebuild_Logger
<1>7. Pending' = u \o t
  <2>1. InHand' = <<>>
    BY <1>1 DEF InHand
  <2>2. Operation \in Seq(Ops) /\ Rebuild_Logger \in Seq(Ops) /\ u \in Seq(Ops)
    BY PendingParts
  <2>3. Rebuild_Logger' = Rebuild_Logger \o t
    BY <1>1, <1>2, <1>6, <2>2, AppendIsConcat
  <2>4. Operation' \o Rebuild_Logger' = u \o t
    <3> HIDE DEF t
    <3>1. Operation \o (Rebuild_Logger \o t) = (Operation \o Rebuild_Logger) \o t
      BY <1>3, <2>2, ConcatAssociative
    <3> QED BY <1>1, <2>3, <3>1
  <2>5. Pending' = (Operation' \o Rebuild_Logger') \o InHand'
    BY DEF Pending, InHand
  <2> HIDE DEF u, t
  <2>6. u \o t \in Seq(Ops)
    BY <1>3, <2>2, ConcatProperties
  <2> QED BY <2>1, <2>4, <2>5, <2>6, ConcatEmptySeq
<1>8. u \in Seq(Ops) /\ Pending = u
  <2>1. u \in Seq(Ops) /\ Pending = u \o <<>>
    BY <1>5, PendingParts
  <2> HIDE DEF u
  <2> QED BY <2>1, ConcatEmptySeq
<1> HIDE DEF u
<1> DEFINE A == After(u, new.valid)
<1>9. After(Pending', new.valid) = Effect(A, o)
  <2>1. A \in SUBSET Points
    BY AfterType
  <2>2. After(u \o t, new.valid) = After(t, A)
    <3> HIDE DEF t
    <3> QED BY <1>3, <1>8, AfterConcat
  <2> HIDE DEF A
  <2>3. After(t, A) = Effect(A, o)
    BY <1>2, <2>1, AfterOne
  <2> QED BY <1>7, <2>2, <2>3
<1>10. InSub \intersect valid = InSub \intersect A
  BY <1>4, <1>8 DEF LogInv, Region, Old
<1>11. A \subseteq Points
  BY AfterType
<1> HIDE DEF A
<1>12. CASE push = "no"
  <2>1. Effect(A, o) = A /\ valid' = valid
    BY <1>1, <1>2, <1>12 DEF Effect, Map, Visible
  <2> QED BY <1>9, <1>10, <2>1
<1>13. CASE push # "no"
  <2>1. Effect(A, o) = {} /\ InSub \intersect valid' = {}
    BY <1>1, <1>2, <1>11, <1>13 DEF Effect, Map, Visible
  <2> QED BY <1>9, <2>1
<1> QED BY <1>12, <1>13

LEMMA LogDirect ==
    ASSUME IInv, Shape, ExactInv, LogInv, Direct
    PROVE  LogInv'
<1>1. PICK s : (Rebuild_Ptr = "sub" => PassesBy(s)) /\ Apply(Head1, s) /\ odo' = s.to
               /\ s \in Outcomes(Here, Head(todo))
  BY DEF Direct
<1>2. /\ odo = "direct" /\ odo' \in {"next", "checksub", "checkroot"}
      /\ UNCHANGED <<Rebuild_Ptr, Rebuild_Logger, reb, new, Operation, exact>>
  BY <1>1 DEF Direct, rebVars, Outcomes, Added, Deleted, Out
<1>3. Copied /\ exact => Rebuild_Ptr # "root"
  BY <1>2 DEF ExactInv, Logged
<1>4. Pending' = Pending
  BY <1>2 DEF Pending
<1>5. Rebuild_Ptr = "sub" => InSub \intersect valid' = InSub \intersect valid
  BY <1>1 DEF PassesBy, Apply
<1>6. Copied /\ exact => Region(Rebuild_Ptr) \intersect Old' = Region(Rebuild_Ptr) \intersect Old
  BY <1>2, <1>3, <1>5, TypeParts DEF Region, Old, Shape, LogType
<1> QED BY <1>2, <1>4, <1>6, LogFrame DEF Copied

LEMMA LogDescend ==
    ASSUME IInv, Shape, LogInv, Descend
    PROVE  LogInv'
<1>1. /\ odo = "direct" /\ odo' = "sublocked" /\ Rebuild_Ptr = "sub"
      /\ InSub \intersect valid' = InSub \intersect valid
      /\ UNCHANGED <<Rebuild_Ptr, Rebuild_Logger, reb, new, Operation, exact>>
  BY DEF Descend, rebVars
<1>2. Region(Rebuild_Ptr) \intersect Old' = Region(Rebuild_Ptr) \intersect Old
  BY <1>1 DEF Region, Old
<1> QED BY <1>1, <1>2, LogStill

\* A change under the lock, in the hand of the odometry, is pending at once.
LEMMA InHandPending ==
    ASSUME Shape, odo \notin {"sublog", "log"}, NEW ops \in Seq(Ops), InHand' = ops,
           UNCHANGED <<Rebuild_Logger, new, Operation>>
    PROVE  /\ Pending \in Seq(Ops) /\ Pending' = Pending \o ops
           /\ After(Pending', new.valid) = After(ops, After(Pending, new.valid))
<1> DEFINE u == Operation \o Rebuild_Logger
<1>1. u \in Seq(Ops) /\ Pending = u \o InHand /\ InHand = <<>>
  BY PendingParts DEF InHand
<1>2. Pending' = u \o ops
  BY DEF Pending, InHand
<1> HIDE DEF u
<1>3. Pending = u
  BY <1>1, ConcatEmptySeq
<1> QED BY <1>1, <1>2, <1>3, AfterConcat

LEMMA LogChangeSubtree ==
    ASSUME IInv, Shape, LogInv, ChangeSubtree
    PROVE  LogInv'
<1> DEFINE h == todo[1]
           ops == <<h>>
<1>1. /\ odo = "sublocked" /\ odo' = "sublog"
      /\ valid' = (valid \ InSub) \union (Effect(valid, h) \intersect InSub)
      /\ UNCHANGED <<Rebuild_Ptr, rebuild_flag, Rebuild_Logger, todo, reb, new, Operation, exact>>
  BY TodoFacts DEF ChangeSubtree, Lock, Shape, Working, rebVars
<1>2. h \in Ops /\ Head(todo) = h
  BY <1>1, TodoFacts DEF Shape, Working
<1> HIDE DEF h
<1>3. ops \in Seq(Ops)
  BY <1>2
<1>4. SUFFICES ASSUME Copied, exact, Rebuild_Ptr = "sub"
               PROVE  InSub \intersect valid' = InSub \intersect After(Pending', new.valid)
  <2>1. CASE Rebuild_Ptr = "sub"
    <3>1. Region(Rebuild_Ptr') = InSub /\ Old' = valid' /\ Copied' = Copied
      BY <1>1, <2>1 DEF Region, Old, Copied
    <3>2. After(Pending, new.valid)' = After(Pending', new.valid)
      BY <1>1 DEF After, Touched, AddedLast
    <3> QED BY <1>1, <2>1, <3>1, <3>2 DEF LogInv
  <2>2. CASE Rebuild_Ptr = "none"
    BY <1>1, <2>2 DEF LogInv, Region
  <2> QED BY <1>1, <2>1, <2>2, TypeParts DEF Shape, LogType, PtrInv
<1>5. rebuild_flag
  BY <1>4 DEF Shape, LockInv, Copied
<1>6. InHand' = ops
  BY <1>1, <1>2, <1>5 DEF InHand, Head1
<1> DEFINE A == After(Pending, new.valid)
<1>7. InSub \intersect valid = InSub \intersect A
  BY <1>4 DEF LogInv, Region, Old
<1>8. After(Pending', new.valid) = After(ops, A)
  <2> HIDE DEF ops
  <2> QED BY <1>1, <1>3, <1>6, InHandPending
<1>9. A \in SUBSET Points
  BY AfterType
<1> HIDE DEF A
<1>10. After(ops, A) = Effect(A, h)
  BY <1>2, <1>9, AfterOne
<1> QED BY <1>1, <1>7, <1>8, <1>10 DEF Effect

LEMMA LogChangeRoot ==
    ASSUME IInv, Shape, LogInv, ChangeRoot
    PROVE  LogInv'
<1>1. /\ odo = "locked" /\ odo' = "log" /\ \E s \in Results(todo) : Apply(todo, s)
      /\ UNCHANGED <<Rebuild_Ptr, rebuild_flag, Rebuild_Logger, todo, reb, new, Operation, exact>>
  BY DEF ChangeRoot, Lock, rebVars
<1>2. /\ todo \in Seq(Ops) /\ Len(todo) \in {1, 2} /\ TypeOK
      /\ \A i \in 1 .. Len(todo) : Single(todo[i])
  BY <1>1, TodoFacts DEF Shape, Working, TodoInv, Single
<1>3. SUFFICES ASSUME Copied, exact, Rebuild_Ptr = "root"
               PROVE  Points \intersect Map' = Points \intersect After(Pending', new.valid)
  <2>1. CASE Rebuild_Ptr = "root"
    <3>1. Region(Rebuild_Ptr') = Points /\ Old' = Map' /\ Copied' = Copied
      BY <1>1, <2>1 DEF Region, Old, Copied
    <3>2. After(Pending, new.valid)' = After(Pending', new.valid)
      BY <1>1 DEF After, Touched, AddedLast
    <3> QED BY <1>1, <2>1, <3>1, <3>2 DEF LogInv
  <2>2. CASE Rebuild_Ptr = "none"
    BY <1>1, <2>2 DEF LogInv, Region
  <2> QED BY <1>1, <2>1, <2>2, TypeParts DEF Shape, LogType, PtrInv
<1>4. rebuild_flag
  BY <1>3 DEF Shape, LockInv, Copied
<1>5. InHand' = todo
  BY <1>1, <1>4 DEF InHand
<1>6. After(Pending', new.valid) = After(todo, After(Pending, new.valid))
  BY <1>1, <1>2, <1>5, InHandPending
<1>7. Map = After(Pending, new.valid)
  <2>1. Map \in SUBSET Points /\ After(Pending, new.valid) \in SUBSET Points
    BY PendingParts, AfterType
  <2>2. Points \intersect Map = Points \intersect After(Pending, new.valid)
    BY <1>3 DEF LogInv, Region, Old
  <2> QED BY <2>1, <2>2
<1>8. Map' = After(todo, Map)
  BY <1>1, <1>2, ApplyMap
<1> QED BY <1>6, <1>7, <1>8

LEMMA LogLogChange ==
    ASSUME IInv, Shape, LogInv, LogChange
    PROVE  LogInv'
<1>1. UNCHANGED <<valid, push, Rebuild_Ptr, rebuild_flag, reb, new, Operation, exact>>
  BY DEF LogChange, tree, rebVars
<1>2. PICK ops \in Seq(Ops) :
        /\ Log(ops)
        /\ \/ odo = "sublog" /\ odo' = "checkroot" /\ todo' = todo /\ ops = <<todo[1]>>
           \/ odo = "log" /\ odo' = "idle" /\ todo' = <<>> /\ ops = todo
  BY LogFacts
<1>3. ASSUME rebuild_flag  PROVE Pending' = Pending
  <2>1. InHand = ops /\ InHand' = <<>>
    BY <1>1, <1>2, <1>3, TodoFacts DEF InHand, Head1, Shape, Working
  <2>2. Rebuild_Logger' = Rebuild_Logger \o ops
    BY <1>2, <1>3 DEF Log
  <2>3. Operation \in Seq(Ops) /\ Rebuild_Logger \in Seq(Ops)
        /\ Pending = (Operation \o Rebuild_Logger) \o ops
    BY <2>1, PendingParts
  <2>4. Pending' = (Operation' \o Rebuild_Logger') \o InHand'
    BY DEF Pending, InHand
  <2> DEFINE v == Operation \o (Rebuild_Logger \o ops)
  <2>5. v = Pending
    BY <2>3, ConcatAssociative
  <2>6. v \in Seq(Ops)
    BY <2>5, PendingParts
  <2>7. Pending' = v \o <<>>
    BY <1>1, <2>1, <2>2, <2>4
  <2> HIDE DEF v
  <2> QED BY <2>5, <2>6, <2>7, ConcatEmptySeq
<1>4. Copied => rebuild_flag
  BY DEF Shape, LockInv, Copied
<1>5. Old' = Old
  BY <1>1 DEF Old, Map
<1> QED BY <1>1, <1>3, <1>4, <1>5, LogFrame DEF Copied

\* The copy is made when nothing is pending.
LEMMA LogFlatten ==
    ASSUME IInv, Shape, ExactInv, flatten
    PROVE  LogInv'
<1>1. /\ reb = "copy" /\ new'.valid = valid' \intersect Region(Rebuild_Ptr)
      /\ IF Rebuild_Ptr = "root" THEN valid' = Map /\ push' = "no" ELSE UNCHANGED <<valid, push>>
      /\ exact' => exact
      /\ UNCHANGED <<Rebuild_Ptr, Rebuild_Logger, rebuild_flag, Operation, odo, todo>>
  BY DEF flatten, Rebuilding, odoVars
<1>2. SUFFICES ASSUME exact'
               PROVE  Region(Rebuild_Ptr') \intersect Old' = Region(Rebuild_Ptr') \intersect After(Pending', new'.valid)
  BY DEF LogInv, After, Touched, AddedLast
<1>3. Operation' = <<>> /\ Rebuild_Logger' = <<>> /\ InHand' = <<>>
  BY <1>1, <1>2 DEF ExactInv, Shape, LockInv, InHand
<1>4. Pending' = <<>>
  <2>1. Pending' = (Operation' \o Rebuild_Logger') \o InHand'
    BY DEF Pending, InHand
  <2>2. <<>> \in Seq(Ops)
    BY EmptySeq
  <2>3. <<>> \o <<>> = <<>>
    BY <2>2, ConcatEmptySeq
  <2> QED BY <1>3, <2>1, <2>3
<1>5. valid' \in SUBSET Points /\ new'.valid \in SUBSET Points
  BY <1>1, PendingParts
<1>6. After(Pending', new'.valid) = new'.valid
  BY <1>4, <1>5, AfterEmpty
<1>7. CASE Rebuild_Ptr = "root"
  <2>1. Old' = valid' /\ Region(Rebuild_Ptr) = Points
    BY <1>1, <1>7 DEF Old, Map, Visible, Region
  <2> QED BY <1>1, <1>6, <1>7, <2>1 DEF Region
<1>8. CASE Rebuild_Ptr = "sub"
  BY <1>1, <1>6, <1>8 DEF Old, Region
<1>9. CASE Rebuild_Ptr = "none"
  BY <1>1, <1>9 DEF Region
<1> QED BY <1>7, <1>8, <1>9, TypeParts DEF Shape, LogType

\* What is pending is the operation popped, and then the rest.
LEMMA LogRunOperation ==
    ASSUME IInv, Shape, LogInv, run_operation
    PROVE  LogInv'
<1> DEFINE o == Operation[1]
           t == <<o>>
           rest == Rebuild_Logger \o InHand
<1>1. /\ reb = "run" /\ reb' = "build" /\ new'.valid = Effect(new.valid, o) /\ Operation' = <<>>
      /\ UNCHANGED <<valid, push, Rebuild_Ptr, Rebuild_Logger, rebuild_flag, odo, todo, exact>>
  BY DEF run_operation, Rebuilding, tree, odoVars
<1>2. Operation = t /\ o \in Ops
  <2>1. Len(Operation) = 1 /\ Operation \in Seq(Ops)
    BY <1>1, PendingParts DEF Shape, LockInv
  <2> QED BY <2>1, OneElement
<1> HIDE DEF o
<1>3. t \in Seq(Ops)
  BY <1>2
<1> HIDE DEF t
<1>4. InHand' = InHand
  BY <1>1 DEF InHand, Head1
<1>5. rest \in Seq(Ops) /\ Pending = t \o rest
  <2>1. /\ Rebuild_Logger \in Seq(Ops) /\ InHand \in Seq(Ops)
        /\ Pending = (t \o Rebuild_Logger) \o InHand
    BY <1>2, PendingParts
  <2>2. rest \in Seq(Ops)
    BY <2>1, ConcatProperties
  <2>3. (t \o Rebuild_Logger) \o InHand = t \o (Rebuild_Logger \o InHand)
    BY <1>3, <2>1, ConcatAssociative
  <2> QED BY <2>1, <2>2, <2>3
<1>6. Pending' = rest
  <2>1. Pending' = (Operation' \o Rebuild_Logger') \o InHand'
    BY DEF Pending, InHand
  <2>2. <<>> \o Rebuild_Logger = Rebuild_Logger
    BY PendingParts, ConcatEmptySeq
  <2> QED BY <1>1, <1>4, <2>1, <2>2
<1> HIDE DEF rest
<1>7. After(Pending, new.valid) = After(rest, After(t, new.valid))
  BY <1>3, <1>5, AfterConcat
<1>8. After(t, new.valid) = new'.valid
  BY <1>1, <1>2, PendingParts, AfterOne DEF t
<1>9. After(Pending, new.valid)' = After(Pending', new'.valid)
  BY DEF After, Touched, AddedLast
<1>10. Region(Rebuild_Ptr)' = Region(Rebuild_Ptr) /\ Old' = Old /\ Copied
  BY <1>1 DEF Region, Old, Map, Copied
<1> QED BY <1>1, <1>6, <1>7, <1>8, <1>9, <1>10 DEF LogInv

LEMMA HeadThenTail ==
    ASSUME NEW S, NEW s \in Seq(S), s # <<>>
    PROVE  <<Head(s)>> \o Tail(s) = s
<1> DEFINE h == Head(s)
           t == <<h>>
           r == Tail(s)
<1>1. /\ h \in S /\ r \in Seq(S) /\ Len(r) = Len(s) - 1
      /\ \A i \in 1 .. Len(r) : r[i] = s[i + 1]
  BY HeadTailProperties
<1>2. Len(s) \in Nat /\ s[1] = h
  OBVIOUS
<1> HIDE DEF h, r
<1>3. t \in Seq(S) /\ Len(t) = 1 /\ t[1] = h
  BY <1>1
<1>4. r \in Seq(S)
  BY <1>1
<1> HIDE DEF t
<1> DEFINE u == t \o r
<1>5. /\ u \in Seq(S) /\ Len(u) = Len(t) + Len(r)
      /\ \A i \in 1 .. Len(t) + Len(r) : u[i] = IF i <= Len(t) THEN t[i] ELSE r[i - Len(t)]
  BY <1>3, <1>4, ConcatProperties
<1> HIDE DEF u
<1>6. Len(u) = Len(s)
  BY <1>1, <1>2, <1>3, <1>5
<1>7. \A i \in 1 .. Len(s) : s[i] = u[i]
  <2> SUFFICES ASSUME NEW i \in 1 .. Len(s)  PROVE s[i] = u[i]
    OBVIOUS
  <2>1. CASE i = 1
    BY <1>1, <1>2, <1>3, <1>5, <2>1
  <2>2. CASE i # 1
    <3>1. i - 1 \in 1 .. Len(r) /\ (i - 1) + 1 = i
      BY <1>1, <1>2, <2>2
    <3>2. u[i] = r[i - 1]
      BY <1>1, <1>2, <1>3, <1>5, <2>2
    <3> QED BY <1>1, <3>1, <3>2
  <2> QED BY <2>1, <2>2
<1>8. s = u
  BY <1>5, <1>6, <1>7, SeqEqual
<1> QED BY <1>8 DEF h, t, r, u

LEMMA LogPop ==
    ASSUME IInv, Shape, LogInv, Pop
    PROVE  LogInv'
<1>1. /\ reb = "replay" /\ reb' = "run" /\ Rebuild_Logger # <<>>
      /\ Operation' = <<Head(Rebuild_Logger)>> /\ Rebuild_Logger' = Tail(Rebuild_Logger)
      /\ UNCHANGED <<valid, push, Rebuild_Ptr, rebuild_flag, odo, todo, new, exact>>
  BY DEF Pop, Rebuilding, tree, odoVars
<1>2. Operation = <<>>
  BY <1>1 DEF Shape, LockInv
<1>3. <<>> \o Rebuild_Logger = Rebuild_Logger /\ Rebuild_Logger \in Seq(Ops)
  BY PendingParts, ConcatEmptySeq
<1>4. Operation' \o Rebuild_Logger' = Rebuild_Logger
  BY <1>1, <1>3, HeadThenTail
<1>5. Pending' = Pending
  <2>1. InHand' = InHand
    BY <1>1 DEF InHand, Head1
  <2>2. Pending = (Operation \o Rebuild_Logger) \o InHand
        /\ Pending' = (Operation' \o Rebuild_Logger') \o InHand'
    BY DEF Pending, InHand
  <2> QED BY <1>2, <1>3, <1>4, <2>1, <2>2
<1>6. Old' = Old /\ Copied
  BY <1>1 DEF Old, Map, Copied
<1> QED BY <1>1, <1>5, <1>6, LogFrame

LEMMA LogRebuild ==
    ASSUME IInv, Shape, ExactInv, LogInv, RebuildStep
    PROVE  LogInv'
<1>1. CASE StartBuild \/ Built \/ StopSearchesAgain
  <2>1. /\ reb \in {"open", "build", "replay", "replace"}
        /\ UNCHANGED <<valid, push, Rebuild_Ptr, Rebuild_Logger, rebuild_flag, odo, todo, new,
                       Operation, exact>>
    BY <1>1 DEF StartBuild, Built, StopSearchesAgain, Drained, Rebuilding, tree, odoVars
  <2>2. Pending' = Pending /\ Old' = Old
    BY <2>1 DEF Pending, Head1, Old, Map
  <2>3. CASE reb = "replace"
    BY <2>1, <2>3 DEF ExactInv, LogInv
  <2>4. CASE reb # "replace"
    BY <2>1, <2>2, <2>4, LogFrame DEF Copied
  <2> QED BY <2>3, <2>4
<1>2. CASE Take \/ StopSearches \/ Swap \/ Unlock \/ Discard
  BY <1>2 DEF LogInv, Copied, Take, StopSearches, Swap, Unlock, Discard
<1> QED BY <1>1, <1>2, LogFlatten, LogPop, LogRunOperation DEF RebuildStep

LEMMA LogStep ==
    IInv /\ Shape /\ Shape' /\ SizeInv /\ ExactInv /\ LogInv /\ [Next]_vars => LogInv'
<1> SUFFICES ASSUME IInv, Shape, Shape', SizeInv, ExactInv, LogInv, [Next]_vars PROVE LogInv'
  OBVIOUS
<1>1. CASE OdometryStep \/ OdometryCall
  BY <1>1, LogPushDown, LogCall, LogFound, LogDirect, LogDescend, LogChangeSubtree, LogChangeRoot,
     LogLogChange, LogCriterion DEF OdometryStep
<1>2. CASE RebuildStep
  BY <1>2, LogRebuild
<1>3. CASE UNCHANGED vars \/ \E s \in Searchers : SearchStep(s)
  <2>1. UNCHANGED <<tree, Rebuild_Ptr, rebuild_flag, Rebuild_Logger, odoVars, rebVars>>
    BY <1>3 DEF SearchStep, Nearest_Search, Search, SearchReturns, Enter, vars
  <2>2. /\ UNCHANGED <<valid, push, Rebuild_Ptr, rebuild_flag, Rebuild_Logger, odo, todo, reb, new,
                       Operation, exact>>
    BY <2>1 DEF tree, odoVars, rebVars
  <2>3. Pending' = Pending /\ Old' = Old
    BY <2>2 DEF Pending, Head1, Old, Map
  <2> QED BY <2>2, <2>3, LogFrame DEF Copied
<1> QED BY <1>1, <1>2, <1>3 DEF Next

LEMMA LogImplies == Shape /\ LogInv => LogIsExact
<1> SUFFICES ASSUME LogInv, Shape, Copied, exact, NEW p \in Region(Rebuild_Ptr)
             PROVE  p \in Old <=> LastWord(p)
  BY DEF LogIsExact, Copied, Old
<1>1. p \in Points
  BY IkdAssumption DEF Region
<1>2. p \in After(Pending, new.valid) <=> LastWord(p)
  BY <1>1 DEF After, Touched, AddedLast, LastWord
<1> QED BY <1>2 DEF LogInv

LEMMA ExactInit == Init => SizeInv /\ ExactInv /\ LogInv
BY DEF Init, SizeInv, ExactInv, LogInv, Copied

\* While an exact rebuild is under way, the copy and the operations logged since, in their
\* order, determine the old subtree, whatever the odometry does meanwhile.
THEOREM LogsAreExact == Spec => []LogIsExact
<1>1. IInv /\ Shape /\ SizeInv /\ ExactInv /\ LogInv /\ [Next]_vars
        => IInv' /\ Shape' /\ SizeInv' /\ ExactInv' /\ LogInv'
  BY StepIInv, ShapeStep, SizeStep, ExactStep, LogStep
<1> QED BY <1>1, LogImplies, InitIInv, ShapeInit, ExactInit, PTL DEF Spec

-----------------------------------------------------------------------------
(* The map between calls                                                     *)

\* what the call under way has still to do
ToDo == CASE odo \in {"direct", "addpush", "sublocked", "locked"} -> todo
          [] odo \in {"sublog", "checksub", "checkroot", "next"} -> Tail(todo)
          [] OTHER -> <<>>
Downsampled(p, m) == IF ~Closest(p, m \intersect Voxel[p]) THEN m ELSE (m \ Voxel[p]) \union {p}
\* A call under way comes to what it would do in a single step; a deletion that waits for
\* the subtree has reached all else.
WantInv == sound =>
    /\ odo \notin {"box", "boxpush", "crashed"} => want = After(ToDo, Map)
    /\ odo \in {"box", "boxpush"} => \A p \in adding : want = Downsampled(p, Map)
    /\ odo = "sublocked" /\ ~Adds(todo[1]) => valid \intersect (todo[1].pts \ InSub) = {}

LEMMA WantFrame ==
    ASSUME WantInv, sound' => sound, UNCHANGED <<odo, todo, adding, want>>,
           sound' => Map' = Map /\ valid' \subseteq valid
    PROVE  WantInv'
<1> SUFFICES ASSUME sound'  PROVE WantInv'
  BY DEF WantInv
<1>1. ToDo' = ToDo /\ Map' = Map /\ valid' \subseteq valid /\ sound
  BY DEF ToDo
<1>2. After(ToDo, Map)' = After(ToDo, Map)
  BY <1>1 DEF After, Touched, AddedLast
<1>3. \A p \in adding : Downsampled(p, Map)' = Downsampled(p, Map)
  BY <1>1 DEF Downsampled, Closest
<1> QED BY <1>1, <1>2, <1>3 DEF WantInv, Adds, Downsampled, Closest

LEMMA WantShown ==
    ASSUME odo' \notin {"box", "boxpush", "sublocked"}, sound' /\ odo' # "crashed" => want' = After(ToDo', Map')
    PROVE  WantInv'
<1>1. After(ToDo, Map)' = After(ToDo', Map')
  BY DEF After, Touched, AddedLast
<1> QED BY <1>1 DEF WantInv

\* Two operations to do are the first, and then the second.
LEMMA TodoAfter ==
    ASSUME TypeOK, TodoInv, odo \in Working, NEW S \in SUBSET Points
    PROVE  /\ After(todo, S) = After(Tail(todo), Effect(S, todo[1]))
           /\ Effect(S, todo[1]) \in SUBSET Points
<1> DEFINE h == todo[1]
           a == <<h>>
<1>1. h \in Ops /\ Len(todo) \in {1, 2} /\ Effect(S, h) \in SUBSET Points
  BY TodoFacts, EffectFacts
<1>2. After(a, S) = Effect(S, h)
  BY <1>1, AfterOne
<1>3. CASE Len(todo) = 1
  <2>1. todo = a /\ Tail(todo) = <<>>
    BY <1>3, TodoFacts
  <2>2. After(<<>>, Effect(S, h)) = Effect(S, h)
    BY <1>1, AfterEmpty
  <2> QED BY <1>1, <1>2, <2>1, <2>2
<1>4. CASE Len(todo) = 2
  <2>1. todo = a \o Tail(todo) /\ Tail(todo) \in Seq(Ops) /\ a \in Seq(Ops)
    <3>1. a \in Seq(Ops)
      BY <1>1
    <3> QED BY <1>4, <3>1, TodoFacts
  <2> DEFINE t == Tail(todo)
  <2>2. t \in Seq(Ops) /\ todo = a \o t
    BY <2>1
  <2> HIDE DEF a, t
  <2>3. After(a \o t, S) = After(t, After(a, S))
    BY <2>1, <2>2, AfterConcat
  <2> QED BY <1>1, <1>2, <2>2, <2>3 DEF t
<1> QED BY <1>1, <1>3, <1>4

LEMMA DownsampleAfter ==
    ASSUME NEW p \in Points, TypeOK
    PROVE  After(Downsample(p), Map) = Downsampled(p, Map)
<1> DEFINE found == Map \intersect Voxel[p]
           a == Op("ADD_POINT", {p})
           d == Op("DOWNSAMPLE_DELETE", Voxel[p])
<1>1. /\ a \in Ops /\ a.op = "ADD_POINT" /\ a.pts = {p}
      /\ d \in Ops /\ d.op = "DOWNSAMPLE_DELETE" /\ d.pts = Voxel[p]
  BY IkdAssumption DEF Op, Ops
<1>2. Map \in SUBSET Points
  BY MapFacts
<1>3. Downsample(p) = CASE found = {} -> <<a>>
                        [] found # {} /\ Closest(p, found) -> <<d, a>>
                        [] OTHER -> <<>>
  BY DEF Downsample
<1> HIDE DEF a, d
<1>4. CASE found = {}
  <2>1. After(<<a>>, Map) = Map \union {p}
    BY <1>1, <1>2, AfterOne DEF Effect
  <2>2. Downsampled(p, Map) = Map \union {p}
    BY <1>4 DEF Downsampled, Closest
  <2> QED BY <1>3, <1>4, <2>1, <2>2
<1>5. CASE found # {} /\ Closest(p, found)
  <2> DEFINE u == <<d>>
             v == <<a>>
             m == Map \ Voxel[p]
  <2>1. u \in Seq(Ops) /\ v \in Seq(Ops) /\ <<d, a>> = u \o v
    BY <1>1
  <2>2. After(u, Map) = m /\ m \in SUBSET Points
    BY <1>1, <1>2, AfterOne DEF Effect
  <2>3. After(v, m) = m \union {p}
    BY <1>1, <2>2, AfterOne DEF Effect
  <2>4. Downsampled(p, Map) = m \union {p}
    BY <1>5 DEF Downsampled
  <2> HIDE DEF u, v, m
  <2>5. After(u \o v, Map) = After(v, After(u, Map))
    BY <2>1, AfterConcat
  <2> QED BY <1>3, <1>5, <2>1, <2>2, <2>3, <2>4, <2>5
<1>6. CASE found # {} /\ ~Closest(p, found)
  BY <1>2, <1>3, <1>6, AfterEmpty DEF Downsampled
<1> QED BY <1>4, <1>5, <1>6

LEMMA WantDirect ==
    ASSUME IInv, Shape, WantInv, Direct
    PROVE  WantInv'
<1>1. PICK s \in Outcomes(Here, Head(todo)) : Apply(Head1, s) /\ odo' = s.to
  BY DEF Direct
<1>2. /\ odo = "direct" /\ odo' \in {"next", "checksub", "checkroot"}
      /\ UNCHANGED <<todo, want, sound>>
  BY <1>1 DEF Direct, rebVars, Outcomes, Added, Deleted, Out
<1>6. /\ TypeOK /\ TodoInv /\ todo[1] \in Ops /\ Head(todo) = todo[1] /\ Head1 = <<todo[1]>>
      /\ Map \in SUBSET Points /\ Single(todo[1])
  <2>1. todo[1] \in Ops /\ 1 \in 1 .. Len(todo) /\ Head(todo) = todo[1]
    BY <1>2, TodoFacts DEF Shape, Working
  <2> QED BY <2>1, PendingParts DEF Shape, Head1, TodoInv, Single
<1>3. Map' = Effect(Map, todo[1])
  <2> DEFINE h == todo[1]
             ops == <<h>>
  <2>1. h \in Ops /\ Single(h)
    BY <1>6
  <2> HIDE DEF h
  <2>2. ops \in Seq(Ops) /\ Len(ops) = 1 /\ ops[1] = h
    BY <2>1
  <2>3. ops = Head1 /\ Head(todo) = h
    BY <1>6 DEF h
  <2> HIDE DEF ops
  <2>4. s \in Results(ops) /\ Apply(ops, s)
    BY <1>1, <2>2, <2>3 DEF Results
  <2>5. \A i \in 1 .. Len(ops) : Single(ops[i])
    BY <2>1, <2>2
  <2>6. Map' = After(ops, Map)
    BY <1>6, <2>2, <2>4, <2>5, ApplyMap
  <2>7. After(ops, Map) = Effect(Map, h)
    BY <1>6, <2>1, AfterOne DEF ops
  <2> QED BY <2>6, <2>7 DEF h
<1>4. After(todo, Map) = After(Tail(todo), Map')
  BY <1>2, <1>3, <1>6, TodoAfter DEF Working
<1>5. ToDo = todo /\ ToDo' = Tail(todo)
  BY <1>2 DEF ToDo
<1> QED BY <1>2, <1>4, <1>5, WantShown DEF WantInv

LEMMA WantDescend ==
    ASSUME IInv, Shape, WantInv, Descend
    PROVE  WantInv'
<1> DEFINE h == todo[1]
<1>1. /\ odo = "direct" /\ odo' = "sublocked" /\ push = "no" /\ push' = "no" /\ UNCHANGED <<todo, want, sound>>
      /\ valid' = IF Adds(h) THEN valid ELSE valid \ (h.pts \ InSub)
  BY TodoFacts DEF Descend, rebVars, Adds, Shape, Working
<1>2. TypeOK /\ TodoInv /\ h \in Ops /\ Map \in SUBSET Points /\ Map' \in SUBSET Points
  BY <1>1, TodoFacts, PendingParts DEF Shape, Working, Map, Visible
<1>3. Effect(Map', h) = Effect(Map, h)
  BY <1>1 DEF Map, Visible, Effect, Adds
<1>4. After(todo, Map') = After(todo, Map)
  BY <1>1, <1>2, <1>3, TodoAfter DEF Working
<1>5. ToDo = todo /\ ToDo' = todo
  BY <1>1 DEF ToDo
<1>6. After(ToDo, Map)' = After(ToDo', Map')
  BY DEF After, Touched, AddedLast
<1>7. ~Adds(h) => valid' \intersect (h.pts \ InSub) = {}
  BY <1>1
<1> QED BY <1>1, <1>4, <1>5, <1>6, <1>7 DEF WantInv, Adds

LEMMA WantChangeSubtree ==
    ASSUME IInv, Shape, WantInv, ChangeSubtree
    PROVE  WantInv'
<1> DEFINE h == todo[1]
<1>1. /\ odo = "sublocked" /\ odo' = "sublog" /\ UNCHANGED <<push, todo, want, sound>>
      /\ valid' = (valid \ InSub) \union (Effect(valid, h) \intersect InSub)
  BY TodoFacts DEF ChangeSubtree, Lock, Shape, Working, rebVars
<1>2. TypeOK /\ TodoInv /\ Map \in SUBSET Points /\ push = "no" /\ (Adds(h) => h.pts \subseteq InSub)
  BY <1>1, PendingParts DEF Shape, PtrInv, TodoInv
<1>3. sound => Map' = Effect(Map, h)
  BY <1>1, <1>2 DEF WantInv, Map, Visible, Effect, Adds
<1>4. sound => After(todo, Map) = After(Tail(todo), Map')
  BY <1>1, <1>2, <1>3, TodoAfter DEF Working
<1>5. ToDo = todo /\ ToDo' = Tail(todo)
  BY <1>1 DEF ToDo
<1> QED BY <1>1, <1>4, <1>5, WantShown DEF WantInv

LEMMA WantChangeRoot ==
    ASSUME IInv, Shape, WantInv, ChangeRoot
    PROVE  WantInv'
<1>1. /\ odo = "locked" /\ odo' = "log" /\ \E s \in Results(todo) : Apply(todo, s)
      /\ UNCHANGED <<todo, want, sound>>
  BY DEF ChangeRoot, Lock, rebVars
<1>2. /\ TypeOK /\ todo \in Seq(Ops) /\ Len(todo) \in {1, 2}
      /\ \A i \in 1 .. Len(todo) : Single(todo[i])
  BY <1>1, TodoFacts DEF Shape, Working, TodoInv, Single
<1>3. Map' = After(todo, Map) /\ Map' \in SUBSET Points
  BY <1>1, <1>2, ApplyMap, AfterType
<1>4. ToDo = todo /\ ToDo' = <<>>
  BY <1>1 DEF ToDo
<1>5. After(<<>>, Map') = Map'
  BY <1>3, AfterEmpty
<1> QED BY <1>1, <1>3, <1>4, <1>5, WantShown DEF WantInv

\* The steps between changes.
LEMMA WantBetween ==
    ASSUME IInv, Shape, WantInv,
           LogChange \/ Criterion_Check \/ NextOperation \/ Crash \/ SearchesJoin \/ StartSearches
    PROVE  WantInv'
<1>1. /\ odo' \notin {"box", "boxpush", "sublocked"}
      /\ odo \notin {"box", "crashed"} /\ (odo = "boxpush" => odo' = "crashed")
      /\ UNCHANGED <<Map, want, sound>>
      /\ odo' # "crashed" => ToDo' = ToDo
  <2> USE DEF ToDo, tree, rebVars, Map
  <2>1. CASE LogChange
    BY <2>1 DEF LogChange
  <2>2. CASE Criterion_Check
    <3>1. UNCHANGED <<valid, push>> \/ (valid' = Map /\ push' = "no")
      BY <2>2 DEF Criterion_Check, Request, RebuildNow
    <3>2. Map' = Map
      BY <3>1 DEF Visible
    <3> HIDE DEF Map
    <3> QED BY <2>2, <3>2 DEF Criterion_Check
  <2>3. CASE NextOperation
    BY <2>3 DEF NextOperation
  <2>4. CASE Crash
    BY <2>4 DEF Crash
  <2>5. CASE SearchesJoin
    BY <2>5 DEF SearchesJoin
  <2>6. CASE StartSearches
    BY <2>6 DEF StartSearches, Call
  <2> QED BY <2>1, <2>2, <2>3, <2>4, <2>5, <2>6
<1> QED BY <1>1, WantShown DEF WantInv

\* Telling the subtree what its father, or a node above, has kept back shows no change.
LEMMA WantPush ==
    ASSUME IInv, Shape, WantInv, AwaitPush \/ Push_Down \/ TellFather
    PROVE  WantInv'
<1>1. /\ UNCHANGED <<todo, adding, want, sound>> /\ valid' \subseteq valid
      /\ \/ UNCHANGED odo
         \/ odo \in {"box", "boxpush"} /\ odo' \in {"box", "boxpush"}
         \/ odo \in {"direct", "addpush"} /\ odo' \in {"direct", "addpush"}
  <2>1. CASE AwaitPush
    BY <2>1 DEF AwaitPush, tree, rebVars
  <2>2. CASE Push_Down
    BY <2>2, MapFacts DEF Push_Down, rebVars, Shape
  <2>3. CASE TellFather
    BY <2>3 DEF TellFather, odoVars, rebVars
  <2> QED BY <2>1, <2>2, <2>3
<1>2. Map' = Map
  <2>1. \/ UNCHANGED <<valid, push>>
        \/ valid' = Map /\ push' = "no"
        \/ UNCHANGED valid /\ push = "marked" /\ push' = "loose"
    BY DEF AwaitPush, Push_Down, TellFather, tree
  <2> QED BY <2>1 DEF Map, Visible
<1>3. ToDo' = ToDo
  BY <1>1 DEF ToDo
<1>4. After(ToDo, Map)' = After(ToDo, Map)
  BY <1>2, <1>3 DEF After, Touched, AddedLast
<1>5. \A p : Downsampled(p, Map)' = Downsampled(p, Map)
  BY <1>2 DEF Downsampled, Closest
<1> QED BY <1>1, <1>4, <1>5 DEF WantInv, Adds, Downsampled, Closest

LEMMA WantFound ==
    ASSUME IInv, Shape, WantInv, Found
    PROVE  WantInv'
<1>1. odo = "box" /\ Map' = Map /\ UNCHANGED <<want, sound>>
  BY DEF Found, Map, Visible, rebVars
<1>2. PICK p \in adding : Begin(Downsample(p))
  BY <1>1 DEF Found
<1>3. p \in Points /\ TypeOK
  BY DEF Shape, TypeOK
<1>4. odo' \in {"idle", "locked", "direct"} /\ ToDo' = Downsample(p)
  BY <1>2 DEF Begin, ToDo
<1>5. After(Downsample(p), Map) = Downsampled(p, Map)
  BY <1>3, DownsampleAfter
<1> QED BY <1>1, <1>2, <1>4, <1>5, WantShown DEF WantInv

LEMMA WantCall ==
    ASSUME IInv, Shape, WantInv, OdometryCall
    PROVE  WantInv'
<1>1. odo = "idle" /\ Map \in SUBSET Points /\ UNCHANGED sound
  <2>1. odo = "idle" /\ UNCHANGED sound
    BY DEF OdometryCall, BuildTree, Add_Points, Delete_Point_Boxes, StartSearches, Call, rebVars
  <2> QED BY <2>1, PendingParts
<1>2. sound => want = Map
  <2>1. ToDo = <<>>
    BY <1>1 DEF ToDo
  <2> QED BY <1>1, <2>1, AfterEmpty DEF WantInv
<1>3. ASSUME NEW p \in Points, BuildTree(p)  PROVE WantInv'
  <2>1. /\ ~Root_Node /\ valid' = {p} /\ push' = "no" /\ want' = Wanted(p)
        /\ UNCHANGED <<odo, todo>>
    BY <1>3 DEF BuildTree
  <2>2. Map = {}
    BY <2>1, MapFacts DEF Shape, PtrInv
  <2>3. Map' = {p}
    BY <2>1 DEF Map, Visible
  <2>4. sound => want' = {p}
    BY <1>2, <2>1, <2>2 DEF Wanted, Closest
  <2>5. ToDo' = <<>> /\ odo' = "idle"
    BY <1>1, <2>1 DEF ToDo
  <2>6. After(<<>>, {p}) = {p}
    BY AfterEmpty
  <2> QED BY <1>1, <2>3, <2>4, <2>5, <2>6, WantShown
<1>4. ASSUME NEW p \in Points, Add_Points(p)  PROVE WantInv'
  <2>1. odo' = "box" /\ adding' = {p} /\ want' = Wanted(p) /\ Map' = Map
    BY <1>4 DEF Add_Points, tree, Map
  <2>2. sound => want' = Downsampled(p, Map)
    BY <1>2, <2>1 DEF Wanted, Downsampled
  <2>3. \A q \in adding' : Downsampled(q, Map)' = Downsampled(p, Map)
    BY <2>1 DEF Downsampled, Closest
  <2> QED BY <1>1, <2>1, <2>2, <2>3 DEF WantInv, Downsampled, Closest
<1>5. ASSUME NEW b \in Boxes, Delete_Point_Boxes(b)  PROVE WantInv'
  <2> DEFINE o == Op("DELETE_BOX", b)
  <2>1. want' = want \ b /\ Map' = Map /\ Begin(<<o>>)
    BY <1>5 DEF Delete_Point_Boxes, tree, Map
  <2>2. odo' \in {"locked", "direct"} /\ ToDo' = <<o>>
    BY <2>1 DEF Begin, ToDo
  <2>3. o \in Ops /\ o.op # "ADD_POINT" /\ o.pts = b
    BY IkdAssumption DEF Op, Ops
  <2> HIDE DEF o
  <2>4. After(<<o>>, Map) = Map \ b
    BY <1>1, <2>3, AfterOne DEF Effect
  <2> QED BY <1>1, <1>2, <2>1, <2>2, <2>4, WantShown
<1> QED BY <1>3, <1>4, <1>5, WantBetween DEF OdometryCall

\* An exact rebuild swaps a subtree for its equal.
LEMMA SwapKeepsMap ==
    ASSUME IInv, Shape, ExactInv, LogInv, Swap, sound'
    PROVE  sound /\ Map' = Map /\ valid' \subseteq valid
<1>1. /\ reb = "swap" /\ odo # "crashed" /\ SwapIn({}) /\ sound /\ exact
      /\ push' = IF Rebuild_Ptr = "sub" /\ new.nodes # {} THEN push ELSE "no"
  BY DEF Swap, Rebuilding, Alive
<1>2. /\ Rebuild_Logger = <<>> /\ Operation = <<>> /\ InHand = <<>> /\ new.nodes # {}
      /\ (Rebuild_Ptr = "sub" => new.nodes \subseteq InSub)
  BY <1>1 DEF ExactInv, Copied, Shape, LockInv, InHand
<1>8. valid' = (valid \intersect (nodes \ Region(Rebuild_Ptr))) \union new.valid
  BY <1>1 DEF SwapIn
<1>3. Pending = <<>>
  <2>1. <<>> \in Seq(Ops)
    BY EmptySeq
  <2>2. <<>> \o <<>> = <<>>
    BY <2>1, ConcatEmptySeq
  <2> QED BY <1>2, <2>2, PendingParts
<1>5. /\ valid \in SUBSET nodes /\ nodes \in SUBSET Points /\ new.valid \in SUBSET Points
      /\ Map \in SUBSET valid /\ new.valid \subseteq new.nodes
  BY MapFacts DEF Shape, TypeOK
<1>4. Region(Rebuild_Ptr) \intersect Old = Region(Rebuild_Ptr) \intersect new.valid
  <2>1. After(<<>>, new.valid) = new.valid
    BY <1>5, AfterEmpty
  <2> QED BY <1>1, <1>3, <2>1 DEF LogInv, Copied
<1>6. CASE Rebuild_Ptr = "root"
  <2>1. new.valid = Map /\ valid' = new.valid /\ push' = "no"
    BY <1>1, <1>4, <1>5, <1>6, <1>8 DEF Region, Old
  <2> QED BY <1>1, <1>5, <2>1 DEF Map, Visible
<1>7. CASE Rebuild_Ptr = "sub"
  <2>1. valid' = valid /\ push' = push
    BY <1>1, <1>2, <1>4, <1>5, <1>7, <1>8 DEF Region, Old
  <2> QED BY <1>1, <2>1 DEF Map
<1> QED BY <1>1, <1>6, <1>7 DEF IInv, RequestStands, Typed

LEMMA WantRebuild ==
    ASSUME IInv, Shape, ExactInv, LogInv, WantInv, RebuildStep
    PROVE  WantInv'
<1>1. UNCHANGED <<odo, todo, adding, want>>
  BY DEF RebuildStep, Take, StopSearches, flatten, StartBuild, Built, Pop, run_operation,
         StopSearchesAgain, Swap, Unlock, Discard, odoVars
<1>2. CASE Swap
  BY <1>1, <1>2, SwapKeepsMap, WantFrame
<1>3. CASE flatten
  <2>1. UNCHANGED sound /\ (UNCHANGED <<valid, push>> \/ (valid' = Map /\ push' = "no"))
    BY <1>3 DEF flatten
  <2>2. Map' = Map /\ valid' \subseteq valid
    BY <2>1 DEF Map, Visible
  <2> QED BY <1>1, <2>1, <2>2, WantFrame
<1>4. CASE ~Swap /\ ~flatten
  <2>1. UNCHANGED <<valid, push, sound>>
    BY <1>4 DEF RebuildStep, Take, StopSearches, StartBuild, Built, Pop, run_operation,
                StopSearchesAgain, Unlock, Discard, tree
  <2> QED BY <1>1, <2>1, WantFrame DEF Map
<1> QED BY <1>2, <1>3, <1>4

LEMMA WantStep == IInv /\ Shape /\ ExactInv /\ LogInv /\ WantInv /\ [Next]_vars => WantInv'
<1> SUFFICES ASSUME IInv, Shape, ExactInv, LogInv, WantInv, [Next]_vars PROVE WantInv'
  OBVIOUS
<1>1. CASE OdometryCall
  BY <1>1, WantCall
<1>2. CASE RebuildStep
  BY <1>2, WantRebuild
<1>3. CASE AwaitPush \/ Push_Down \/ TellFather
  BY <1>3, WantPush
<1>4. CASE UNCHANGED vars \/ Search_by_range \/ \E s \in Searchers : SearchStep(s)
  <2>1. UNCHANGED <<tree, odoVars, rebVars>>
    BY <1>4 DEF Search_by_range, SearchStep, Nearest_Search, Search, SearchReturns, Enter, vars
  <2> QED BY <2>1, WantFrame DEF tree, odoVars, rebVars, Map
<1>5. CASE OdometryStep /\ ~AwaitPush /\ ~Push_Down /\ ~TellFather /\ ~Search_by_range
  BY <1>5, WantDirect, WantDescend, WantChangeSubtree, WantChangeRoot, WantBetween, WantFound
     DEF OdometryStep
<1> QED BY <1>1, <1>2, <1>3, <1>4, <1>5 DEF Next

LEMMA WantInit == Init => WantInv
<1> SUFFICES ASSUME Init PROVE WantInv
  OBVIOUS
<1>1. odo = "idle" /\ ToDo = <<>> /\ Map = want /\ want \in SUBSET Points
  BY DEF Init, ToDo, Map, Visible
<1> QED BY <1>1, AfterEmpty DEF WantInv

\* As long as every rebuild that has ended was exact and undid no pending deletion, the
\* rebuild thread is invisible: between calls the map holds what the calls of the odometry,
\* each as a single step, have made of it.
THEOREM MapStaysWanted == Spec => []MapIsWanted
<1> DEFINE Inv == IInv /\ Shape /\ SizeInv /\ ExactInv /\ LogInv /\ WantInv
<1>1. Init => Inv
  BY InitIInv, ShapeInit, ExactInit, WantInit
<1>2. Inv /\ [Next]_vars => Inv'
  BY StepIInv, ShapeStep, SizeStep, ExactStep, LogStep, WantStep
<1>3. Inv => MapIsWanted
  <2> SUFFICES ASSUME Shape, WantInv, odo \in {"idle", "search"}, sound  PROVE Map = want
    BY DEF MapIsWanted
  <2>1. ToDo = <<>> /\ Map \in SUBSET Points
    BY PendingParts DEF ToDo
  <2> QED BY <2>1, AfterEmpty DEF WantInv
<1> QED BY <1>1, <1>2, <1>3, PTL DEF Spec


-----------------------------------------------------------------------------
(* Waiting.  Three locks are shared by the odometry, its searches and the   *)
(* rebuild thread: working_flag_mutex, the count of searches and            *)
(* search_flag_mutex (boxing).  Who waits is said by the negated guards of  *)
(* the steps at which a lock is taken.                                      *)

OdometryWaits ==
    odo \in {"sublocked", "locked", "boxpush", "addpush"} /\ working_flag_mutex # "free"
SearchWaits(s) ==
    /\ \/ spc[s] = "start" /\ Rebuild_Ptr = "root"
       \/ spc[s] = "root" /\ Rebuild_Ptr = "sub"   \* if it is to enter the subtree
    /\ search_mutex_counter = -1 \/ boxing # "no"
Searched == search_mutex_counter # 0 \/ boxing # "no"
RebuildWaits ==
    \/ (reb = "build" \/ (reb = "idle" /\ Rebuild_Ptr # "none")) /\ working_flag_mutex # "free"
    \/ (reb \in {"close", "replace"} \/ (reb = "replay" /\ Rebuild_Logger = <<>>)) /\ Searched
    \/ reb \in {"open", "unlock"} /\ boxing # "no"
RebuildRuns == reb # "idle" /\ ~RebuildWaits

\* Whoever waits, waits for a thread that runs.
NoCircularWait ==
    odo # "crashed" =>
        /\ OdometryWaits => RebuildRuns
        /\ \A s \in Searchers : SearchWaits(s) => RebuildRuns
        /\ RebuildWaits => \/ odo \in {"sublog", "log", "box"}
                           \/ \E s \in Searchers : spc[s] \in {"root", "sub"} /\ ~SearchWaits(s)

\* A thread that waits does not move: the definitions above are not too wide.
LEMMA WaitingStands ==
  ASSUME Shape, [Next]_vars
  PROVE  /\ RebuildWaits => ~RebuildStep
         /\ \A s \in Searchers : SearchWaits(s) => ~Nearest_Search(s) /\ ~Search(s)
         /\ OdometryWaits => ~OdometryStep
  <1>1. ASSUME RebuildWaits, RebuildStep PROVE FALSE
    BY <1>1 DEF RebuildWaits, RebuildStep, Searched, Take, StopSearches, flatten, StartBuild,
       Built, Pop, run_operation, StopSearchesAgain, Swap, Unlock, Discard, Rebuilding, Drained,
       CloseSearch
  <1>2. ASSUME NEW s \in Searchers, SearchWaits(s), Nearest_Search(s) \/ Search(s) PROVE FALSE
    BY <1>2 DEF SearchWaits, Nearest_Search, Search, Enter
  <1>3. ASSUME OdometryWaits, OdometryStep PROVE FALSE
    BY <1>3 DEF OdometryWaits, OdometryStep, AwaitPush, Push_Down, TellFather, Search_by_range,
       Found, Crash, Direct, Descend, ChangeSubtree, ChangeRoot, Lock, LogChange,
       Criterion_Check, NextOperation, SearchesJoin
  <1> QED BY <1>1, <1>2, <1>3

\* A box search holds search_flag_mutex only while it runs, and the mutex has a holder.
HolderInv ==
    /\ boxing # "no" => odo = "box"
    /\ working_flag_mutex = "rebuild" =>
           reb \in {"close", "copy", "open", "replay", "swap", "unlock"}

LEMMA HolderRebuild ==
  ASSUME Shape, HolderInv, RebuildStep
  PROVE  HolderInv'
  <1>1. UNCHANGED odo /\ (boxing' # "no" => boxing # "no")
    BY DEF RebuildStep, Take, StopSearches, flatten, StartBuild, Built, Pop, run_operation,
       StopSearchesAgain, Swap, Unlock, Discard, locks, odoVars
  <1>2. working_flag_mutex' = "rebuild" =>
           reb' \in {"close", "copy", "open", "replay", "swap", "unlock"}
    BY DEF RebuildStep, Take, StopSearches, flatten, StartBuild, Built, Pop, run_operation,
       StopSearchesAgain, Swap, Unlock, Discard, locks, Rebuilding, Drained, HolderInv
  <1> QED BY <1>1, <1>2 DEF HolderInv

LEMMA HolderOdometry ==
  ASSUME Shape, HolderInv, OdometryStep \/ OdometryCall
  PROVE  HolderInv'
  <1>1. UNCHANGED reb /\ (working_flag_mutex' = "rebuild" => working_flag_mutex = "rebuild")
    BY DEF OdometryStep, AwaitPush, Push_Down, TellFather, Search_by_range, Found, Crash, Direct,
       Descend, ChangeSubtree, ChangeRoot, LogChange, Criterion_Check, NextOperation,
       SearchesJoin, OdometryCall, BuildTree, Add_Points, Delete_Point_Boxes, StartSearches,
       Lock, locks, rebVars
  <1>2. boxing' # "no" => odo' = "box"
    <2>1. CASE Search_by_range
      BY <2>1 DEF Search_by_range, odoVars
    <2>2. CASE Found
      BY <2>2 DEF Found
    <2>3. CASE AwaitPush \/ Push_Down \/ TellFather
      BY <2>3 DEF AwaitPush, Push_Down, TellFather, HolderInv, locks, odoVars
    <2>4. CASE ~Search_by_range /\ ~Found /\ ~(AwaitPush \/ Push_Down \/ TellFather)
      <3>1. odo # "box" /\ UNCHANGED boxing
        BY <2>4 DEF OdometryStep, Crash, Direct, Descend, ChangeSubtree, ChangeRoot, LogChange,
           Criterion_Check, NextOperation, SearchesJoin, OdometryCall, BuildTree, Add_Points,
           Delete_Point_Boxes, StartSearches, Call, Lock, locks
      <3> QED BY <3>1 DEF HolderInv
    <2> QED BY <2>1, <2>2, <2>3, <2>4
  <1> QED BY <1>1, <1>2 DEF HolderInv

LEMMA HolderStep == Shape /\ HolderInv /\ [Next]_vars => HolderInv'
  <1> SUFFICES ASSUME Shape, HolderInv, [Next]_vars PROVE HolderInv'
    OBVIOUS
  <1>1. CASE UNCHANGED vars \/ \E s \in Searchers : SearchStep(s)
    <2>1. UNCHANGED <<boxing, odo, working_flag_mutex, reb>>
      BY <1>1 DEF vars, locks, odoVars, rebVars, SearchStep, Nearest_Search, Search,
         SearchReturns, Enter
    <2> QED BY <2>1 DEF HolderInv
  <1> QED BY <1>1, HolderRebuild, HolderOdometry DEF Next

\* Nobody waits in a circle, whatever the odometry, its searches and the rebuild thread
\* are doing when they meet: the safety half of RebuildEnds and CallsEnd.
THEOREM NobodyWaitsInACircle == Spec => []NoCircularWait
<1>1. Init => HolderInv
  BY DEF Init, HolderInv
<1>2. IInv /\ Shape /\ HolderInv => NoCircularWait
  <2> SUFFICES ASSUME IInv, Shape, HolderInv, odo # "crashed"
               PROVE  /\ OdometryWaits => RebuildRuns
                      /\ \A s \in Searchers : SearchWaits(s) => RebuildRuns
                      /\ RebuildWaits =>
                            \/ odo \in {"sublog", "log", "box"}
                            \/ \E s \in Searchers : spc[s] \in {"root", "sub"} /\ ~SearchWaits(s)
    BY DEF NoCircularWait
  <2>1. IsFiniteSet(Counted)
    BY IkdAssumption, FS_Subset DEF Counted
  <2>2. ~Closed => search_mutex_counter \in Nat
                   /\ (search_mutex_counter # 0 =>
                          \E s \in Searchers : spc[s] \in {"root", "sub"} /\ ~SearchWaits(s))
    <3> SUFFICES ASSUME ~Closed
                 PROVE  search_mutex_counter \in Nat
                   /\ (search_mutex_counter # 0 =>
                          \E s \in Searchers : spc[s] \in {"root", "sub"} /\ ~SearchWaits(s))
      OBVIOUS
    <3>1. search_mutex_counter = Cardinality(Counted)
      BY DEF IInv, CounterIsRight
    <3>2. search_mutex_counter \in Nat
      BY <2>1, <3>1, FS_CardinalityType
    <3>3. search_mutex_counter # 0 => Counted # {}
      BY <3>1, FS_EmptySet
    <3>4. Counted # {} => \E s \in Searchers : spc[s] \in {"root", "sub"} /\ ~SearchWaits(s)
      BY DEF Counted, IInv, SearchInv, SearchWaits
    <3> QED BY <3>2, <3>3, <3>4
  <2>3. \A s \in Searchers : spc[s] # "done" => odo = "search"
    BY DEF IInv, SearchInv
  <2>4. boxing # "no" => odo = "box"
    BY DEF HolderInv
  <2>5. /\ working_flag_mutex \in {"free", "odo", "rebuild"}
        /\ working_flag_mutex = "odo" => odo \in {"sublog", "log"}
        /\ working_flag_mutex = "rebuild" =>
               reb \in {"close", "copy", "open", "replay", "swap", "unlock"}
    BY TypeParts DEF Shape, LockType, LockInv, HolderInv
  <2>6. OdometryWaits => RebuildRuns
    <3> SUFFICES ASSUME OdometryWaits PROVE RebuildRuns
      OBVIOUS
    <3>2. odo \in {"sublocked", "locked", "boxpush", "addpush"} /\ boxing = "no"
      BY <2>4 DEF OdometryWaits
    <3>3. working_flag_mutex = "rebuild"
      BY <2>5, <3>2 DEF OdometryWaits
    <3>4. ~Closed => search_mutex_counter = 0
      BY <2>2, <2>3, <3>2
    <3> QED BY <2>5, <3>2, <3>3, <3>4 DEF RebuildRuns, RebuildWaits, Searched, Closed
  <2>7. ASSUME NEW s \in Searchers, SearchWaits(s) PROVE RebuildRuns
    <3>1. odo = "search" /\ boxing = "no"
      BY <2>3, <2>4, <2>7 DEF SearchWaits
    <3>2. Closed
      BY <2>2, <2>7, <3>1 DEF SearchWaits
    <3> QED BY <3>1, <3>2 DEF RebuildRuns, RebuildWaits, Closed
  <2>8. ASSUME RebuildWaits
        PROVE  \/ odo \in {"sublog", "log", "box"}
               \/ \E s \in Searchers : spc[s] \in {"root", "sub"} /\ ~SearchWaits(s)
    BY <2>2, <2>4, <2>5, <2>8 DEF RebuildWaits, Searched, Closed
  <2> QED BY <2>6, <2>7, <2>8
<1> QED BY <1>1, <1>2, HolderStep, StepIInv, ShapeStep, InitIInv, ShapeInit, PTL DEF Spec
=============================================================================
