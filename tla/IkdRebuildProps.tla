-------------------------- MODULE IkdRebuildProps ---------------------------
(* What the map promises the odometry while a part of it is rebuilt. *)
EXTENDS IkdRebuild

Ops == [op : {"ADD_POINT", "DELETE_BOX", "DOWNSAMPLE_DELETE", "PUSH_DOWN"}, pts : SUBSET Points]
TypeOK ==
    /\ nodes \in SUBSET Points /\ valid \in SUBSET nodes
    /\ push \in {"no", "marked", "loose"}
    /\ Root_Node \in BOOLEAN /\ Rebuild_Ptr \in {"none", "sub", "root"}
    /\ rebuild_flag \in BOOLEAN /\ Rebuild_Logger \in Seq(Ops)
    /\ working_flag_mutex \in {"free", "odo", "rebuild"}
    /\ search_mutex_counter \in Int /\ boxing \in {"no", "yes", "old"}
    /\ odo \in {"idle", "box", "direct", "sublocked", "sublog", "locked", "log", "checksub",
                "checkroot", "next", "boxpush", "addpush", "search", "crashed"}
    /\ todo \in Seq(Ops) /\ adding \in SUBSET Points /\ calls \in 0 .. MaxOps
    /\ spc \in [Searchers -> {"start", "root", "sub", "done"}] /\ held \in [Searchers -> BOOLEAN]
    /\ reb \in {"idle", "close", "copy", "open", "build", "replay", "run", "replace", "swap",
                "unlock", "clear"}
    /\ new \in [nodes : SUBSET Points, valid : SUBSET Points] /\ new.valid \subseteq new.nodes
    /\ Operation \in Seq(Ops)
    /\ want \in SUBSET Points /\ exact \in BOOLEAN /\ sound \in BOOLEAN

\* The log of a rebuild is exactly what the copy lacks: the last operation on a point,
\* or the copy where there is none, says whether the point is in the old subtree.
Touches(o, p) == p \in o.pts
Pending == Operation \o Rebuild_Logger \o
           (IF rebuild_flag /\ odo = "sublog" THEN Head1
            ELSE IF rebuild_flag /\ odo = "log" THEN todo ELSE <<>>)
LastWord(p) ==
    IF \E i \in DOMAIN Pending : Touches(Pending[i], p)
    THEN \E i \in DOMAIN Pending : /\ Touches(Pending[i], p) /\ Pending[i].op = "ADD_POINT"
                                   /\ \A j \in DOMAIN Pending : j > i => ~Touches(Pending[j], p)
    ELSE p \in new.valid
LogIsExact ==
    reb \in {"open", "build", "replay", "run", "swap"} /\ exact =>
        \A p \in Region(Rebuild_Ptr) :
            p \in (IF Rebuild_Ptr = "root" THEN Map ELSE valid) <=> LastWord(p)

\* A rebuild that began with an empty log, found points to copy, overtook no unlogged
\* operation and undid no pending deletion is invisible: while no other has ended, the map
\* between calls is what the calls have made of it.
MapIsWanted == odo \in {"idle", "search"} /\ sound => Map = want

\* A search and the copying or swapping of the nodes that it visits exclude each other
\* ("Lock Search"), though searches only look at Rebuild_Ptr without a lock; and old
\* nodes are not deleted under a box search that has taken search_flag_mutex.
Visited == {t \in {"sub", "root"} : \E s \in Searchers : spc[s] = t}
SearchesApart ==
    /\ reb \in {"copy", "swap"} => "sub" \notin Visited /\ (Rebuild_Ptr = "root" => Visited = {})
    /\ reb = "clear" => boxing # "old"

\* A rebuild that was asked for ends, whatever is searched and changed meanwhile.
RebuildEnds == Rebuild_Ptr # "none" ~> Rebuild_Ptr = "none" \/ odo = "crashed"
\* No call of the odometry waits for ever for the rebuild thread.
CallsEnd == odo # "idle" ~> odo \in {"idle", "crashed"}

\* "Rebuild and update missed operations": no operation is lost in a rebuild.
OperationsKept == odo \in {"idle", "search"} /\ reb = "idle" => Map = want
=============================================================================
