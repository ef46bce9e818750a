----------------------------- MODULE IkdRebuild -----------------------------
(***************************************************************************)
(* The map of the odometry (ikd_Tree.cpp): a k-d tree that the odometry    *)
(* thread changes and searches while the thread of multi_thread_rebuild    *)
(* replaces an unbalanced subtree.  That thread copies the valid points of *)
(* the subtree, builds a new one from them without a lock, replays the     *)
(* operations that were logged meanwhile and swaps the subtrees.           *)
(*                                                                         *)
(* The tree is a root and one subtree, either of which may be rebuilt; the *)
(* subtree's father and the nodes above hold the other points.  A range is *)
(* that of the valid points; balance is only what a rebuild may be asked   *)
(* for.  A step ends where a thread takes or gives up a lock, or reads     *)
(* Rebuild_Ptr without one.  The odometry calls Add_Points,                *)
(* Delete_Point_Boxes and, from parallel threads that join before the map  *)
(* is changed, Nearest_Search.                                             *)
(***************************************************************************)
EXTENDS Integers, Sequences, FiniteSets

CONSTANTS
    Points, InSub,  \* all points, and those that are routed to the subtree
    Voxel,          \* the downsampling box of a point, as the points in it
    Rank,           \* the distance of a point from the centre of its voxel
    Boxes,          \* what Delete_Point_Boxes may be called with
    Searchers,      \* the threads of the parallel search
    Multi_Thread_Rebuild_Point_Num, \* nodes from which the thread rebuilds
    MaxOps          \* bound: calls of the odometry

ASSUME IkdAssumption ==
    /\ IsFiniteSet(Points) /\ InSub \subseteq Points
    /\ Voxel \in [Points -> SUBSET Points] /\ \A p \in Points : p \in Voxel[p]
    /\ Rank \in [Points -> Nat] /\ Boxes \subseteq SUBSET Points /\ IsFiniteSet(Searchers)
    /\ Multi_Thread_Rebuild_Point_Num \in Nat \ {0} /\ MaxOps \in Nat

VARIABLES
    nodes, valid,   \* points with a node in the tree, and those not point_deleted
    push,           \* "no", or what is tree_deleted and has yet to tell the subtree:
                    \* "loose", its father, whose working_flag is clear; else "marked"
    Root_Node,      \* FALSE if Root_Node is null
    Rebuild_Ptr,    \* "none", "sub" or "root"
    rebuild_flag, Rebuild_Logger, working_flag_mutex, search_mutex_counter,
    boxing,         \* "yes" while a box search of the subtree holds search_flag_mutex,
                    \* and (history) "old" once that subtree was swapped
    odo, todo, adding, calls, \* the odometry thread, its operations to do
    spc, held,      \* the search threads, and those that are counted
    reb, new, Operation,      \* the rebuild thread, the tree of new_root_node (no nodes
                              \* if it is null), the popped operation
    want,           \* history: the map if each call were a single step
    exact,          \* history: this rebuild missed nothing so far; see Copy
    sound           \* history: every swap so far was exact

tree    == <<nodes, valid, push, Root_Node>>
locks   == <<working_flag_mutex, search_mutex_counter, boxing>>
odoVars == <<odo, todo, adding, calls, want>>
sVars   == <<spc, held>>
rebVars == <<reb, new, Operation, exact, sound>>
vars    == <<tree, Rebuild_Ptr, rebuild_flag, Rebuild_Logger, locks, odoVars, sVars, rebVars>>

Op(op, pts) == [op |-> op, pts |-> pts]
Effect(set, o) == IF o.op = "ADD_POINT" THEN set \union o.pts ELSE set \ o.pts
Region(t) == CASE t = "root" -> Points [] t = "sub" -> InSub [] OTHER -> {}
Visible(v, p) == IF p = "no" THEN v ELSE v \ InSub
Map == Visible(valid, push)
NoTree == [nodes |-> {}, valid |-> {}]

Init == \E init \in SUBSET Points :     \* Build
    /\ init # {}
    /\ nodes = init /\ valid = init /\ push = "no" /\ Root_Node = TRUE
    /\ Rebuild_Ptr = "none" /\ rebuild_flag = FALSE /\ Rebuild_Logger = <<>>
    /\ working_flag_mutex = "free" /\ search_mutex_counter = 0 /\ boxing = "no"
    /\ odo = "idle" /\ todo = <<>> /\ adding = {} /\ calls = 0 /\ want = init
    /\ spc = [s \in Searchers |-> "done"] /\ held = [s \in Searchers |-> FALSE]
    /\ reb = "idle" /\ new = NoTree /\ Operation = <<>>
    /\ exact = TRUE /\ sound = TRUE

-----------------------------------------------------------------------------
(* The odometry thread.                                                     *)

Alive == odo # "crashed"
SubtreeNodes == nodes \intersect InSub
\* Push_Down of the subtree's father, met by a search or an addition, waits for the lock
\* if that subtree is being rebuilt, and may find it swapped for another or for none, or
\* its own deletion undone.
MustPush == push # "no" /\ Rebuild_Ptr = "sub"
AwaitPush ==
    /\ MustPush
    /\ \/ odo = "box" /\ boxing = "no" /\ odo' = "boxpush"
       \/ odo = "direct" /\ Head(todo).op = "ADD_POINT" /\ odo' = "addpush"
    /\ UNCHANGED <<tree, Rebuild_Ptr, rebuild_flag, Rebuild_Logger, locks, todo, adding, calls,
                   want, sVars, rebVars>>
Push_Down ==
    /\ odo \in {"boxpush", "addpush"} /\ working_flag_mutex = "free" /\ SubtreeNodes # {}
    /\ odo' = IF odo = "boxpush" THEN "box" ELSE "direct"
    /\ valid' = Map /\ push' = "no"
    /\ LET pushed == Op("PUSH_DOWN", IF push = "no" THEN {} ELSE Points)
       IN  Rebuild_Logger' = IF rebuild_flag THEN Append(Rebuild_Logger, pushed)
                             ELSE Rebuild_Logger
    /\ UNCHANGED <<nodes, Root_Node, Rebuild_Ptr, rebuild_flag, locks, todo, adding, calls, want,
                   sVars, rebVars>>
\* a node above the father tells it, and needs no lock for that
TellFather ==
    /\ push = "marked" /\ push' = "loose"
    /\ odo \in {"box", "search"} \/ (odo = "direct" /\ Head(todo).op = "ADD_POINT")
    /\ UNCHANGED <<nodes, valid, Root_Node, Rebuild_Ptr, rebuild_flag, Rebuild_Logger, locks,
                   odoVars, sVars, rebVars>>

Call == odo = "idle" /\ calls < MaxOps /\ calls' = calls + 1
Closest(p, found) == \A q \in found : Rank[p] <= Rank[q]
Wanted(p) == IF ~Closest(p, want \intersect Voxel[p]) THEN want
             ELSE (want \ Voxel[p]) \union {p}

\* on a null root Add_Points builds a tree
BuildTree(p) ==
    /\ Call /\ ~Root_Node
    /\ nodes' = {p} /\ valid' = {p} /\ push' = "no" /\ Root_Node' = TRUE /\ want' = Wanted(p)
    /\ UNCHANGED <<Rebuild_Ptr, rebuild_flag, Rebuild_Logger, locks, odo, todo, adding,
                   sVars, rebVars>>

Add_Points(p) ==
    /\ Call /\ Root_Node
    /\ odo' = "box" /\ adding' = {p} /\ want' = Wanted(p)
    /\ UNCHANGED <<tree, Rebuild_Ptr, rebuild_flag, Rebuild_Logger, locks, todo, sVars, rebVars>>

\* Search_by_range takes search_flag_mutex for the subtree that is being rebuilt
Search_by_range ==
    /\ odo = "box" /\ boxing = "no" /\ ~MustPush
    /\ Rebuild_Ptr = "sub" /\ adding \intersect InSub # {}
    /\ boxing' = "yes"
    /\ UNCHANGED <<tree, Rebuild_Ptr, rebuild_flag, Rebuild_Logger, working_flag_mutex,
                   search_mutex_counter, odoVars, sVars, rebVars>>

\* the unlocked look at Rebuild_Ptr that each operation starts with
Begin(ops) ==
    /\ todo' = ops /\ adding' = {}
    /\ odo' = IF ops = <<>> THEN "idle" ELSE IF Rebuild_Ptr = "root" THEN "locked" ELSE "direct"

Downsample(p) ==
    LET found == Map \intersect Voxel[p]
    IN  CASE found = {} -> <<Op("ADD_POINT", {p})>>
          [] found # {} /\ Closest(p, found) ->
                <<Op("DOWNSAMPLE_DELETE", Voxel[p]), Op("ADD_POINT", {p})>>
          [] OTHER -> <<>>
\* the search may pass a deleted father by
Found ==
    /\ odo = "box" /\ boxing' = "no"
    /\ \/ /\ ~MustPush /\ valid' = Map /\ push' = "no"
          /\ boxing # "no" \/ ~(Rebuild_Ptr = "sub" /\ adding \intersect InSub # {})
       \/ push # "no" /\ UNCHANGED <<valid, push>>
    /\ \E p \in adding : Begin(Downsample(p))
    /\ UNCHANGED <<nodes, Root_Node, Rebuild_Ptr, rebuild_flag, Rebuild_Logger,
                   working_flag_mutex, search_mutex_counter, calls, want, sVars, rebVars>>

Delete_Point_Boxes(b) ==
    /\ Call /\ Root_Node
    /\ Begin(<<Op("DELETE_BOX", b)>>) /\ want' = want \ b
    /\ UNCHANGED <<tree, Rebuild_Ptr, rebuild_flag, Rebuild_Logger, locks, sVars, rebVars>>

\* an addition to a root that was swapped for null reads its division_axis
Null == ~Root_Node /\ \E i \in DOMAIN todo : todo[i].op = "ADD_POINT"
\* and so does Push_Down of the son that it waited for
Crash ==
    /\ \/ odo \in {"direct", "locked"} /\ Null
       \/ odo \in {"boxpush", "addpush"} /\ SubtreeNodes = {}
    /\ odo # "direct" => working_flag_mutex = "free"
    /\ odo' = "crashed"
    /\ UNCHANGED <<tree, Rebuild_Ptr, rebuild_flag, Rebuild_Logger, locks, todo, adding, calls,
                   want, sVars, rebVars>>

\* What an operation makes of the points, in the order of the tree: which node it looks
\* at last depends on the shape.  Additions tell the nodes they pass; a deletion leaves
\* a deleted node alone, and a box around the father, or a node above, marks that only.
Out(v, p, to) == [valid |-> v, push |-> p, to |-> to]
Added(s, o) ==
    {Out(Visible(s.valid, s.push) \union o.pts, "no", "checksub")} \union
    (IF s.push = "no" \/ o.pts \subseteq InSub THEN {}
     ELSE {Out(s.valid \union o.pts, p, "checkroot") : p \in {s.push, "loose"}})
Deleted(s, o) ==
    LET map    == Visible(s.valid, s.push)
        beside == (s.valid \ o.pts) \union (s.valid \intersect InSub)
        Marked(to) == IF SubtreeNodes = {} \/ nodes \subseteq InSub
                      THEN Out(map \ o.pts, "no", to) ELSE Out(beside, "marked", to)
        Reached == IF s.push = "no" THEN Out(map \ o.pts, "no", "checksub")
                   ELSE Out(beside, s.push, "checkroot")
    IN  CASE map = {} -> {Out(s.valid, s.push, "next")}
          [] map # {} /\ map \subseteq o.pts -> {Marked("next")}
          [] OTHER -> {Reached} \union
                      (IF map \intersect InSub \subseteq o.pts /\ map \intersect o.pts # {}
                       THEN {Marked("checkroot")} ELSE {})
Outcomes(s, o) == IF o.op = "ADD_POINT" THEN Added(s, o) ELSE Deleted(s, o)
Here == Out(valid, push, "")
Results(ops) ==
    IF Len(ops) = 1 THEN Outcomes(Here, ops[1])
    ELSE UNION {Outcomes(s, ops[2]) : s \in Outcomes(Here, ops[1])}
Apply(ops, s) ==
    /\ nodes' = nodes \union UNION {ops[i].pts : i \in {j \in DOMAIN ops :
                                                         ops[j].op = "ADD_POINT"}}
    /\ valid' = s.valid /\ push' = s.push

Head1 == <<Head(todo)>>
\* an operation that does not reach a subtree which is being rebuilt
PassesBy(s) ==
    /\ Head(todo).op = "ADD_POINT" => ~(Head(todo).pts \subseteq InSub)
    /\ s.valid \intersect InSub = valid \intersect InSub /\ (s.push = "no" => push = "no")
Direct ==
    /\ odo = "direct" /\ ~Null
    /\ \E s \in Outcomes(Here, Head(todo)) :
          (Rebuild_Ptr = "sub" => PassesBy(s)) /\ Apply(Head1, s) /\ odo' = s.to
    /\ UNCHANGED <<Root_Node, Rebuild_Ptr, rebuild_flag, Rebuild_Logger, locks, todo, adding,
                   calls, want, sVars, rebVars>>
\* the operation reaches the subtree, and finds that it is being rebuilt
Descend ==
    /\ odo = "direct" /\ ~Null /\ Rebuild_Ptr = "sub" /\ push = "no"
    /\ IF Head(todo).op = "ADD_POINT" THEN Head(todo).pts \subseteq InSub /\ valid' = valid
       ELSE /\ valid # {} /\ (valid \subseteq Head(todo).pts => nodes \subseteq InSub)
            /\ valid' = valid \ (Head(todo).pts \ InSub)
    /\ odo' = "sublocked"
    /\ UNCHANGED <<nodes, push, Root_Node, Rebuild_Ptr, rebuild_flag, Rebuild_Logger, locks,
                   todo, adding, calls, want, sVars, rebVars>>

\* working_flag_mutex: change the subtree, then log the change if a copy was made
Lock(at) == odo = at /\ working_flag_mutex = "free" /\ working_flag_mutex' = "odo"
ChangeSubtree ==
    /\ Lock("sublocked")
    /\ valid' = (valid \ InSub) \union (Effect(valid, Head(todo)) \intersect InSub)
    /\ nodes' = IF Head(todo).op = "ADD_POINT" THEN nodes \union Head(todo).pts ELSE nodes
    /\ odo' = "sublog"
    /\ UNCHANGED <<push, Root_Node, Rebuild_Ptr, rebuild_flag, Rebuild_Logger,
                   search_mutex_counter, boxing, todo, adding, calls, want, sVars, rebVars>>
ChangeRoot ==
    /\ Lock("locked") /\ ~Null
    /\ \E s \in Results(todo) : Apply(todo, s)
    /\ odo' = "log"
    /\ UNCHANGED <<Root_Node, Rebuild_Ptr, rebuild_flag, Rebuild_Logger, search_mutex_counter,
                   boxing, todo, adding, calls, want, sVars, rebVars>>
\* mutated: a deletion is logged without the addition that follows it
Log_First(ops) == Rebuild_Logger' = IF rebuild_flag THEN Append(Rebuild_Logger, ops[1]) ELSE Rebuild_Logger
Log(ops) == Rebuild_Logger' = IF rebuild_flag THEN Rebuild_Logger \o ops ELSE Rebuild_Logger
LogChange ==
    /\ \/ odo = "sublog" /\ Log(Head1) /\ odo' = "checkroot" /\ todo' = todo
       \/ odo = "log" /\ Log(todo) /\ odo' = "idle" /\ todo' = <<>>
    /\ working_flag_mutex' = "free"
    /\ UNCHANGED <<tree, Rebuild_Ptr, rebuild_flag, search_mutex_counter, boxing, adding, calls,
                   want, sVars, rebVars>>

\* Rebuild: small subtrees at once, larger ones by the thread unless it is at work
Size(t) == Cardinality(nodes \intersect Region(t))
Request(t) ==
    /\ Size(t) >= Multi_Thread_Rebuild_Point_Num /\ reb = "idle"
    /\ t = "sub" => ~(nodes \subseteq InSub)
    /\ Rebuild_Ptr = "none" \/ (Rebuild_Ptr = "sub" /\ t = "root" /\ Size("root") > Size("sub"))
    /\ Rebuild_Ptr' = t /\ UNCHANGED <<nodes, valid, push>>
\* a subtree that has become small is no longer asked for
Asked(t) == IF Rebuild_Ptr = t /\ Size(t) < Multi_Thread_Rebuild_Point_Num THEN "none"
            ELSE Rebuild_Ptr
RebuildNow_Deleted(t) ==   \* mutated: keeps the points it should drop
    /\ Size(t) < Multi_Thread_Rebuild_Point_Num
    /\ nodes' = nodes \ (Region(t) \intersect Map) /\ valid' = Map /\ push' = "no"
    /\ Rebuild_Ptr' = Asked(t)
RebuildNow(t) ==
    /\ Size(t) < Multi_Thread_Rebuild_Point_Num
    /\ nodes' = nodes \ (Region(t) \ Map) /\ valid' = Map /\ push' = "no"
    /\ Rebuild_Ptr' = Asked(t)
\* the thread that is rebuilding it would find a null Rebuild_Ptr
Criterion_Check ==
    /\ \E t \in {"sub", "root"} :
         /\ odo = IF t = "sub" THEN "checksub" ELSE "checkroot"
         /\ Request(t) \/ RebuildNow(t) \/ (Rebuild_Ptr' = Asked(t) /\ UNCHANGED <<nodes, valid, push>>)
         /\ odo' = IF Asked(t) # Rebuild_Ptr /\ reb # "idle" THEN "crashed"
                   ELSE IF t = "sub" THEN "checkroot" ELSE "next"
    /\ UNCHANGED <<Root_Node, rebuild_flag, Rebuild_Logger, locks, todo, adding, calls, want,
                   sVars, rebVars>>
NextOperation ==
    /\ odo = "next" /\ todo' = Tail(todo)
    /\ odo' = IF Tail(todo) = <<>> THEN "idle" ELSE "direct"
    /\ UNCHANGED <<tree, Rebuild_Ptr, rebuild_flag, Rebuild_Logger, locks, adding, calls, want,
                   sVars, rebVars>>

-----------------------------------------------------------------------------
(* Nearest_Search by parallel threads.  A search in the subtree that is     *)
(* being rebuilt, or under a root that is, is counted.                      *)

StartSearches ==
    /\ Call /\ odo' = "search" /\ spc' = [s \in Searchers |-> "start"]
    /\ UNCHANGED <<tree, Rebuild_Ptr, rebuild_flag, Rebuild_Logger, locks, todo, adding, want,
                   held, rebVars>>
Enter(s, t) ==
    /\ IF Rebuild_Ptr = t
       THEN /\ search_mutex_counter # -1 /\ boxing = "no"
            /\ search_mutex_counter' = search_mutex_counter + 1 /\ held' = [held EXCEPT ![s] = TRUE]
       ELSE UNCHANGED <<search_mutex_counter, held>>
    /\ spc' = [spc EXCEPT ![s] = t]
    /\ UNCHANGED <<tree, Rebuild_Ptr, rebuild_flag, Rebuild_Logger, working_flag_mutex, boxing,
                   odoVars, rebVars>>
Nearest_Search(s) == spc[s] = "start" /\ Enter(s, "root")
Search(s) == spc[s] = "root" /\ push = "no" /\ valid # {} /\ Enter(s, "sub")
Uncount_Kept(s) == search_mutex_counter   \* mutated: a search stays counted
Uncount(s) == search_mutex_counter - (IF held[s] THEN 1 ELSE 0)
SearchReturns(s) ==
    /\ spc[s] \in {"root", "sub"} /\ spc' = [spc EXCEPT ![s] = "done"]
    /\ held' = [held EXCEPT ![s] = FALSE]
    /\ search_mutex_counter' = Uncount(s)
    /\ UNCHANGED <<tree, Rebuild_Ptr, rebuild_flag, Rebuild_Logger, working_flag_mutex, boxing,
                   odoVars, rebVars>>
SearchesJoin ==
    /\ odo = "search" /\ \A s \in Searchers : spc[s] = "done"
    /\ odo' = "idle"
    /\ UNCHANGED <<tree, Rebuild_Ptr, rebuild_flag, Rebuild_Logger, locks, todo, adding, calls,
                   want, sVars, rebVars>>

-----------------------------------------------------------------------------
(* multi_thread_rebuild.  It holds rebuild_ptr_mutex_lock, which Rebuild    *)
(* only tries, whenever reb is not "idle".                                  *)

Rebuilding(at) == Alive /\ reb = at
\* search_mutex_counter is set to -1 when no counted search is left
CloseSearch_NoWait == boxing = "no" /\ search_mutex_counter' = -1   \* mutated: searches go on
CloseSearch == search_mutex_counter = 0 /\ boxing = "no" /\ search_mutex_counter' = -1

OpenSearch_Forgotten == UNCHANGED search_mutex_counter   \* mutated: searches stay locked out
OpenSearch == search_mutex_counter' = 0
Take ==
    /\ Rebuilding("idle") /\ Rebuild_Ptr # "none" /\ working_flag_mutex = "free"
    /\ working_flag_mutex' = "rebuild" /\ rebuild_flag' = TRUE /\ reb' = "close"
    /\ exact' = (Rebuild_Logger = <<>>)
    /\ UNCHANGED <<tree, Rebuild_Ptr, Rebuild_Logger, search_mutex_counter, boxing, odoVars,
                   sVars, new, Operation, sound>>
StopSearches ==
    /\ Rebuilding("close") /\ CloseSearch /\ reb' = "copy"
    /\ UNCHANGED <<tree, Rebuild_Ptr, rebuild_flag, Rebuild_Logger, working_flag_mutex, boxing,
                   odoVars, sVars, new, Operation, exact, sound>>

\* the operations in progress that have looked at Rebuild_Ptr too early, as the
\* addition after a deletion that asked for the root to be rebuilt
Unlogged == /\ odo \in {"direct", "checksub", "checkroot", "next"}
            /\ Rebuild_Ptr = "root"
\* what the nodes of the subtree have not been told is copied as it is
flatten ==
    /\ Rebuilding("copy") /\ reb' = "open"
    /\ IF Rebuild_Ptr = "root" THEN valid' = Map /\ push' = "no" ELSE UNCHANGED <<valid, push>>
    /\ LET copied == valid' \intersect Region(Rebuild_Ptr)
       IN  /\ new' = [nodes |-> copied, valid |-> copied]
           /\ exact' = (exact /\ copied # {} /\ ~Unlogged)
    /\ UNCHANGED <<nodes, Root_Node, Rebuild_Ptr, rebuild_flag, Rebuild_Logger, locks, odoVars,
                   sVars, Operation, sound>>
\* with nothing to build the lock is not taken again, nor the log read
StartBuild ==
    /\ Rebuilding("open") /\ boxing = "no"
    /\ OpenSearch /\ working_flag_mutex' = "free"
    /\ reb' = IF new.nodes = {} THEN "replace" ELSE "build"
    /\ UNCHANGED <<tree, Rebuild_Ptr, rebuild_flag, Rebuild_Logger, boxing, odoVars, sVars, new,
                   Operation, exact, sound>>
Built ==
    /\ Rebuilding("build") /\ working_flag_mutex = "free"
    /\ working_flag_mutex' = "rebuild" /\ reb' = "replay"
    /\ UNCHANGED <<tree, Rebuild_Ptr, rebuild_flag, Rebuild_Logger, search_mutex_counter, boxing,
                   odoVars, sVars, new, Operation, exact, sound>>
Pop ==
    /\ Rebuilding("replay") /\ Rebuild_Logger # <<>>
    /\ Operation' = <<Head(Rebuild_Logger)>> /\ Rebuild_Logger' = Tail(Rebuild_Logger)
    /\ working_flag_mutex' = "free" /\ reb' = "run"
    /\ UNCHANGED <<tree, Rebuild_Ptr, rebuild_flag, search_mutex_counter, boxing, odoVars, sVars,
                   new, exact, sound>>
run_operation ==
    /\ Rebuilding("run") /\ reb' = "build" /\ Operation' = <<>>
    /\ new' = [nodes |-> IF Operation[1].op = "ADD_POINT" THEN new.nodes \union Operation[1].pts
                         ELSE new.nodes,
               valid |-> Effect(new.valid, Operation[1])]
    /\ UNCHANGED <<tree, Rebuild_Ptr, rebuild_flag, Rebuild_Logger, locks, odoVars, sVars, exact,
                   sound>>
Drained_Once == reb \in {"replace", "replay"}   \* mutated: the log is read once
Drained == reb = "replace" \/ (reb = "replay" /\ Rebuild_Logger = <<>>)
StopSearchesAgain ==
    /\ Alive /\ Drained /\ CloseSearch /\ reb' = "swap"
    /\ UNCHANGED <<tree, Rebuild_Ptr, rebuild_flag, Rebuild_Logger, working_flag_mutex, boxing,
                   odoVars, sVars, new, Operation, exact, sound>>
\* Update of the father recomputes its tree_deleted from the new subtree, unless an
\* operation has left or set its working_flag, or a node above has yet to tell it.  A deletion
\* that the father has yet to tell is undone, and Push_Down of the flags that it keeps
\* may then bring back any deleted node.
Undoes == Rebuild_Ptr = "sub" /\ new.nodes # {} /\ push = "loose" /\ odo # "addpush"
SwapIn(back) ==
    LET rest == nodes \ Region(Rebuild_Ptr)
    IN  /\ nodes' = rest \union new.nodes
        /\ valid' = (valid \intersect rest) \union new.valid \union back
Swap ==
    /\ Rebuilding("swap") /\ reb' = "unlock"
    /\ \/ /\ Undoes => new.valid = {}
          /\ SwapIn({})
          /\ push' = IF Rebuild_Ptr = "sub" /\ new.nodes # {} THEN push ELSE "no"
          /\ sound' = (sound /\ exact)
       \/ /\ Undoes
          /\ \E back \in SUBSET ((nodes \ InSub) \union new.nodes) : SwapIn(back)
          /\ push' = "no" /\ sound' = FALSE
    /\ Root_Node' = (Rebuild_Ptr = "root" => new.nodes # {})
    /\ boxing' = IF boxing = "yes" THEN "old" ELSE boxing
    /\ new' = NoTree
    /\ UNCHANGED <<Rebuild_Ptr, rebuild_flag, Rebuild_Logger, working_flag_mutex,
                   search_mutex_counter, odoVars, sVars, Operation, exact>>
Unlock ==
    /\ Rebuilding("unlock") /\ boxing = "no"
    /\ OpenSearch /\ Rebuild_Ptr' = "none" /\ working_flag_mutex' = "free"
    /\ reb' = "clear"
    /\ UNCHANGED <<tree, rebuild_flag, Rebuild_Logger, boxing, odoVars, sVars, new, Operation,
                   exact, sound>>
\* rebuild_flag falls after the lock is given up; then the old nodes are deleted
Discard ==
    /\ Rebuilding("clear") /\ rebuild_flag' = FALSE /\ reb' = "idle"
    /\ UNCHANGED <<tree, Rebuild_Ptr, Rebuild_Logger, locks, odoVars, sVars, new, Operation,
                   exact, sound>>

RebuildStep ==
    \/ Take \/ StopSearches \/ flatten \/ StartBuild \/ Built \/ Pop \/ run_operation
    \/ StopSearchesAgain \/ Swap \/ Unlock \/ Discard
OdometryStep ==
    \/ AwaitPush \/ Push_Down \/ TellFather \/ Search_by_range \/ Found \/ Crash \/ Direct \/ Descend
    \/ ChangeSubtree \/ ChangeRoot \/ LogChange \/ Criterion_Check \/ NextOperation \/ SearchesJoin
OdometryCall ==
    \/ \E p \in Points : BuildTree(p) \/ Add_Points(p)
    \/ \E b \in Boxes : Delete_Point_Boxes(b)
    \/ StartSearches
SearchStep(s) == Nearest_Search(s) \/ Search(s) \/ SearchReturns(s)

Next == RebuildStep \/ OdometryStep \/ OdometryCall \/ \E s \in Searchers : SearchStep(s)
Spec == Init /\ [][Next]_vars
\* neither thread is stopped for good, and no lock is withheld for ever
FairSpec == Spec /\ WF_vars(RebuildStep) /\ WF_vars(OdometryStep)
                 /\ \A s \in Searchers : WF_vars(SearchStep(s))
=============================================================================
