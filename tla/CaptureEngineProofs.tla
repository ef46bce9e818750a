------------------------ MODULE CaptureEngineProofs ------------------------
(***************************************************************************)
(* The frame engine's types, and what it guarantees of the odometry under  *)
(* its frames, for every value of the constants.  The inductive invariant  *)
(* says that the queue self.odoms is a suffix of the odometry written to   *)
(* the bag, that the bag's odometry is strictly increasing, that what was  *)
(* trimmed is not needed, and that every group lies between neighbours.    *)
(***************************************************************************)
EXTENDS CaptureEngineProps, SequenceTheorems, TLAPS

-----------------------------------------------------------------------------
(* Types                                                                   *)

\* The types of the sequences of the engine, one by one.
LEMMA SequenceTypes ==
    ASSUME TypeOK
    PROVE  /\ pending \in Seq(Pairs) /\ frames \in Seq(Frames) /\ odoms \in Seq(OdomStamps)
           /\ infos["rgb"] \in Seq(Infos)
           /\ Len(frames) \in Nat
<1>1. pending \in Seq(Pairs) /\ frames \in Seq(Frames) /\ odoms \in Seq(OdomStamps)
  BY Zenon DEF TypeOK
<1>2. infos \in [{"rgb", "depth"} -> Seq(Infos)]
  BY Zenon DEF TypeOK
<1>3. infos["rgb"] \in Seq(Infos)
  BY ONLY <1>2
<1>4. Len(frames) \in Nat
  BY ONLY <1>1, LenProperties
<1> QED
  BY <1>1, <1>3, <1>4

\* Appending to a bounded deque keeps the type of its elements (the image and
\* CameraInfo deques of ingest).
LEMMA AppendBoundedType ==
    ASSUME NEW S, NEW s \in Seq(S), NEW x \in S, NEW max \in Nat \ {0}
    PROVE  AppendBounded(s, x, max) \in Seq(S)
BY DEF AppendBounded

\* Deleting one element of a deque keeps the type of the others (_pair).
LEMMA WithoutType ==
    ASSUME NEW S, NEW s \in Seq(S), NEW i \in DOMAIN s
    PROVE  Without(s, i) \in Seq(S)
BY DEF Without

\* The next rate slot is a time (next_due in _pair).
LEMMA NextSlotType ==
    ASSUME NEW due \in Int, NEW t \in Int
    PROVE  NextSlot(due, t) \in Int
BY ConfigAssumption DEF NextSlot

\* A call's wall times stay within the bound (the arguments of ingest).
LEMMA ArrivalType ==
    ASSUME TypeOK, NEW w, Arrival(w)
    PROVE  call' \in [wall : Walls, latest : Walls, final : BOOLEAN]
BY DEF TypeOK, Arrival, Later

\* A fresh stamp becomes the newest of its topic (self.last in ingest).
LEMMA FreshType ==
    ASSUME TypeOK, NEW t \in {"rgb", "depth", "odom"}, NEW s \in Nat, Fresh(t, s)
    PROVE  last' \in [{"rgb", "depth", "odom"} -> Nat]
BY DEF TypeOK, Fresh

\* Appending a sample and trimming keeps the type of the odometry deque (ingest).
LEMMA TrimType ==
    ASSUME NEW S, NEW o \in Seq(S), NEW s \in S, NEW n \in 0 .. Len(o)
    PROVE  SubSeq(Append(o, s), n + 1, Len(Append(o, s))) \in Seq(S)
<1>1. Append(o, s) \in Seq(S) /\ Len(Append(o, s)) = Len(o) + 1
  OBVIOUS
<1> QED
  BY <1>1, SubSeqProperties

\* What _make_group returns is a frame group.
LEMMA GroupType ==
    ASSUME NEW n \in Nat, NEW p \in Pairs, NEW o \in Seq(OdomStamps), NEW j \in Nat,
           j - 1 \in DOMAIN o, j \in DOMAIN o, NEW e \in Extrinsics,
           NEW f \in Seq(Infos), NEW i \in DOMAIN f
    PROVE  [index |-> n, rgb |-> p.rgb, dep |-> p.dep, before |-> o[j - 1],
            after |-> o[j], ext |-> e, cal |-> f[i].cal] \in Frames
<1>1. p.rgb \in RgbStamps /\ p.dep \in DepthStamps
  BY DEF Pairs
<1>2. o[j - 1] \in OdomStamps /\ o[j] \in OdomStamps
  OBVIOUS
<1>3. f[i].cal \in Calibrations
  <2>1. f[i] \in Infos
    OBVIOUS
  <2> QED
    BY <2>1 DEF Infos
<1> QED
  BY <1>1, <1>2, <1>3 DEF Frames

\* The state keeps its types (the attributes Engine.__init__ creates).
THEOREM TypeCorrect == Spec => []TypeOK
<1>1. Init => TypeOK
  <2> SUFFICES ASSUME Init PROVE TypeOK
    OBVIOUS
  <2>1. pc \in {"idle", "pair", "drain", "done"} /\ raised \in BOOLEAN
    BY DEF Init
  <2>2. call \in [wall : Walls, latest : Walls, final : BOOLEAN]
    BY ConfigAssumption DEF Init, Walls
  <2>3. last \in [{"rgb", "depth", "odom"} -> Nat]
    BY DEF Init
  <2>4. rgbs \in Seq(RgbStamps) /\ depths \in Seq(Images) /\ odoms \in Seq(OdomStamps)
    BY DEF Init
  <2>5. infos \in [{"rgb", "depth"} -> Seq(Infos)]
    BY DEF Init
  <2>6. extrinsic \in MaybeExtrinsic /\ accepted \in MaybeExtrinsic /\ nextDue \in Int
    BY DEF Init, MaybeExtrinsic
  <2>7. /\ pending \in Seq(Pairs) /\ frames \in Seq(Frames) /\ odomLog \in Seq(OdomStamps)
        /\ kept \subseteq RgbStamps /\ paired \subseteq RgbStamps /\ tf = "none"
    BY DEF Init
  <2> QED
    BY <2>1, <2>2, <2>3, <2>4, <2>5, <2>6, <2>7 DEF TypeOK
<1>2. TypeOK /\ [Next]_vars => TypeOK'
  <2> SUFFICES ASSUME TypeOK, [Next]_vars PROVE TypeOK'
    OBVIOUS
  <2> USE DEF vars, inputs, outputs, history
  <2>1. ASSUME NEW w \in Walls, NEW s \in RgbStamps, IngestRgb(s, w) PROVE TypeOK'
    <3>1. CASE Reject("rgb", s) \/ Duplicate("rgb", s)
      BY <2>1, <3>1, ArrivalType DEF IngestRgb, Reject, Duplicate, Raise, TypeOK
    <3>2. CASE ~(Reject("rgb", s) \/ Duplicate("rgb", s))
      <4>1. rgbs' = AppendBounded(rgbs, s, ImageBuffer) /\ Fresh("rgb", s) /\ Arrival(w)
        BY <2>1, <3>2 DEF IngestRgb
      <4>2. rgbs' \in Seq(RgbStamps)
        BY <4>1, AppendBoundedType, ConfigAssumption DEF TypeOK
      <4>3. last' \in [{"rgb", "depth", "odom"} -> Nat]
        BY <4>1, FreshType, StampsAssumption
      <4> QED
        BY <2>1, <3>2, <4>1, <4>2, <4>3, ArrivalType DEF IngestRgb, TypeOK
    <3> QED
      BY <3>1, <3>2
  <2>2. ASSUME NEW w \in Walls, NEW m \in Images, IngestDepth(m, w) PROVE TypeOK'
    <3>1. CASE Reject("depth", m.stamp) \/ Duplicate("depth", m.stamp)
      BY <2>2, <3>1, ArrivalType DEF IngestDepth, Reject, Duplicate, Raise, TypeOK
    <3>2. CASE ~(Reject("depth", m.stamp) \/ Duplicate("depth", m.stamp))
      <4>1. depths' = AppendBounded(depths, m, ImageBuffer) /\ Fresh("depth", m.stamp) /\ Arrival(w)
        BY <2>2, <3>2 DEF IngestDepth
      <4>2. depths' \in Seq(Images)
        BY <4>1, AppendBoundedType, ConfigAssumption DEF TypeOK
      <4>3. last' \in [{"rgb", "depth", "odom"} -> Nat]
        <5>1. m.stamp \in Nat
          BY StampsAssumption DEF Images
        <5> QED
          BY <5>1, <4>1, FreshType
      <4> QED
        BY <2>2, <3>2, <4>1, <4>2, <4>3, ArrivalType DEF IngestDepth, TypeOK
    <3> QED
      BY <3>1, <3>2
  <2>3. ASSUME NEW w \in Walls, NEW s \in OdomStamps, NEW f \in BOOLEAN, IngestOdom(s, f, w)
        PROVE  TypeOK'
    <3>1. CASE Reject("odom", s) \/ Duplicate("odom", s)
      BY <2>3, <3>1, ArrivalType DEF IngestOdom, Reject, Duplicate, Raise, TypeOK
    <3>2. CASE ~(Reject("odom", s) \/ Duplicate("odom", s)) /\ ~f
      BY <2>3, <3>2, ArrivalType, FreshType, StampsAssumption DEF IngestOdom, Raise, TypeOK
    <3>3. CASE ~(Reject("odom", s) \/ Duplicate("odom", s)) /\ f
      <4>1. odoms' \in Seq(OdomStamps)
        <5>1. PICK n \in 0 .. Len(odoms) :
                odoms' = SubSeq(Append(odoms, s), n + 1, Len(Append(odoms, s)))
          BY <2>3, <3>3 DEF IngestOdom
        <5> QED
          BY <5>1, TrimType DEF TypeOK
      <4>2. odomLog' \in Seq(OdomStamps)
        <5>1. odomLog' = Append(odomLog, s)
          BY <2>3, <3>3 DEF IngestOdom
        <5> QED
          BY <5>1 DEF TypeOK
      <4> QED
        BY <4>1, <4>2, <2>3, <3>3, ArrivalType, FreshType, StampsAssumption DEF IngestOdom, TypeOK
    <3> QED
      BY <3>1, <3>2, <3>3
  <2>4. ASSUME NEW w \in Walls, NEW t \in {"rgb", "depth"}, NEW m \in Infos, IngestInfo(t, m, w)
        PROVE  TypeOK'
    BY <2>4, AppendBoundedType, ArrivalType, ConfigAssumption DEF IngestInfo, TypeOK
  <2>5. ASSUME NEW w \in Walls, NEW e \in MaybeExtrinsic, NEW v \in BOOLEAN,
               IngestStatic(e, v, w)
        PROVE  TypeOK'
    BY <2>5, ArrivalType DEF IngestStatic, Raise, TypeOK
  <2>15. ASSUME NEW w \in Walls, NEW kind \in TfKinds, IngestTf(kind, w) PROVE TypeOK'
    BY <2>15, ArrivalType, ConfigAssumption DEF IngestTf, TypeOK
  <2>6. ASSUME NEW w \in Walls, Poll(w) PROVE TypeOK'
    BY <2>6 DEF Poll, TypeOK
  <2>7. CASE Finish
    BY <2>7 DEF Finish, TypeOK
  <2>8. CASE PairFound
    <3>1. PICK i \in DOMAIN depths :
            /\ depths' = Without(depths, i)
            /\ \/ UNCHANGED <<nextDue, pending, kept>>
               \/ /\ nextDue' = NextSlot(IF nextDue = 0 THEN rgbs[1] ELSE nextDue, rgbs[1])
                  /\ pending' = Append(pending, [rgb |-> rgbs[1], dep |-> depths[i].stamp,
                                                 ok |-> depths[i].ok, wall |-> call.wall])
                  /\ kept' = kept \union {rgbs[1]}
      BY <2>8 DEF PairFound
    <3>2. rgbs[1] \in RgbStamps /\ rgbs[1] \in Int /\ rgbs' \in Seq(RgbStamps)
      <4>1. rgbs \in Seq(RgbStamps) /\ rgbs # <<>> /\ rgbs' = Tail(rgbs)
        BY <2>8 DEF PairFound, TypeOK
      <4>2. rgbs[1] \in RgbStamps
        BY <4>1
      <4>3. rgbs[1] \in Int
        <5>1. \A t \in RgbStamps : t \in Int
          BY StampsAssumption
        <5> QED
          BY <4>2, <5>1
      <4>4. Tail(rgbs) \in Seq(RgbStamps)
        BY <4>1, HeadTailProperties
      <4> QED
        BY <4>1, <4>2, <4>3, <4>4
    <3>3. depths' \in Seq(Images)
      BY <3>1, WithoutType DEF TypeOK
    <3>4. nextDue' \in Int /\ kept' \subseteq RgbStamps
      <4>1. nextDue \in Int /\ kept \subseteq RgbStamps
        BY Zenon DEF TypeOK
      <4>2. NextSlot(IF nextDue = 0 THEN rgbs[1] ELSE nextDue, rgbs[1]) \in Int
        BY ONLY <4>1, <3>2, NextSlotType
      <4>3. nextDue' \in Int
        BY ONLY <3>1, <4>1, <4>2
      <4>4. kept' \subseteq RgbStamps
        BY ONLY <3>1, <3>2, <4>1
      <4> QED
        BY ONLY <4>3, <4>4
    <3>5. pending' \in Seq(Pairs)
      <4>1. depths[i] \in Images /\ call.wall \in Walls
        BY <3>1 DEF TypeOK
      <4>2. [rgb |-> rgbs[1], dep |-> depths[i].stamp, ok |-> depths[i].ok, wall |-> call.wall]
              \in Pairs
        BY <4>1, <3>2 DEF Images, Pairs
      <4> QED
        <5>1. pending \in Seq(Pairs)
          BY SequenceTypes
        <5> QED
          BY <3>1, <4>2, <5>1, AppendProperties
    <3> QED
      BY <2>8, <3>2, <3>3, <3>4, <3>5 DEF PairFound, TypeOK
  <2>9. CASE PairFails
    <3>1. rgbs' \in Seq(RgbStamps) /\ depths' \in Seq(Images)
      <4>1. rgbs \in Seq(RgbStamps) /\ rgbs # <<>> /\ depths \in Seq(Images) /\ depths # <<>>
        BY <2>9 DEF PairFails, TypeOK
      <4>2. Tail(rgbs) \in Seq(RgbStamps) /\ Tail(depths) \in Seq(Images)
        BY <4>1, HeadTailProperties
      <4>3. rgbs' \in {rgbs, Tail(rgbs)} /\ depths' \in {depths, Tail(depths)}
        BY <2>9 DEF PairFails
      <4> QED
        BY <4>1, <4>2, <4>3
    <3> QED
      BY <2>9, <3>1 DEF PairFails, TypeOK
  <2>10. CASE PairReturns
    BY <2>10 DEF PairReturns, TypeOK
  <2>11. CASE DrainHolds \/ DrainRaises \/ DrainReturns
    BY <2>11 DEF DrainHolds, DrainRaises, DrainReturns, Returned, TypeOK
  <2>12. CASE DrainDrops
    BY <2>12 DEF DrainDrops, Draining, TypeOK
  <2>13. CASE DrainWrites
    <3> DEFINE p == pending[1]
    <3>1. PICK j \in UsableBrackets(Target(p)), i \in InfoFor("rgb", p.rgb) :
            frames' = Append(frames, Group(p, j, i))
      BY <2>13 DEF DrainWrites
    <3>2. p \in Pairs /\ extrinsic \in Extrinsics
      BY <2>13 DEF DrainWrites, Draining, Complete, MaybeExtrinsic, TypeOK
    <3>3. j \in Nat /\ j - 1 \in DOMAIN odoms /\ j \in DOMAIN odoms
      BY SequenceTypes DEF UsableBrackets, Brackets
    <3>4. i \in DOMAIN infos["rgb"] /\ infos["rgb"] \in Seq(Infos)
      BY SequenceTypes DEF InfoFor
    <3>5. Len(frames) \in Nat /\ odoms \in Seq(OdomStamps)
      BY SequenceTypes
    <3>6. Group(p, j, i) \in Frames
      BY ONLY <3>2, <3>3, <3>4, <3>5, GroupType DEF Group
    <3>7. frames' \in Seq(Frames)
      <4>1. frames \in Seq(Frames)
        BY SequenceTypes
      <4> QED
        BY <3>1, <3>6, <4>1
    <3>8. pending' \in Seq(Pairs)
      BY <2>13 DEF DrainWrites, Draining, TypeOK
    <3> QED
      BY <3>7, <3>8, <2>13 DEF DrainWrites, TypeOK
  <2>14. CASE Terminated \/ UNCHANGED vars
    BY <2>14 DEF Terminated, TypeOK
  <2> QED
    BY <2>1, <2>2, <2>3, <2>4, <2>5, <2>6, <2>7, <2>8, <2>9, <2>10, <2>11, <2>12, <2>13, <2>14, <2>15
    DEF Next, Ingest, Pair, Drain
<1> QED
  BY <1>1, <1>2, PTL DEF Spec

-----------------------------------------------------------------------------
(* The odometry deque                                                      *)
\* The deque o holds the newest samples of the log g.
SuffixOf(o, g) ==
    /\ Len(o) <= Len(g)
    /\ \A i \in 1 .. Len(o) : o[i] = g[Len(g) - Len(o) + i]

\* The log is strictly increasing, up to the newest stamp seen.
Ordered(g, newest) ==
    /\ \A i, k \in 1 .. Len(g) : i < k => g[i] < g[k]
    /\ \A i \in 1 .. Len(g) : g[i] <= newest

\* The bracket that ends at sample k is too old, or beyond the count limit.
NotNeeded(g, k) ==
    g[k] < g[Len(g)] - Keep \/ Len(g) - k + 2 > OdomBuffer

\* What ingest keeps true of the deque, the log and the newest stamp.
OdomQueue(o, g, newest) ==
    /\ SuffixOf(o, g)
    /\ Ordered(g, newest)
    /\ Len(o) = 0 => Len(g) = 0
    /\ \A k \in 2 .. Len(g) : k - 1 <= Len(g) - Len(o) => NotNeeded(g, k)

\* A sample appended to the deque and written to the bag (ingest, ODOM branch).
LEMMA AppendSuffix ==
    ASSUME NEW o \in Seq(Int), NEW g \in Seq(Int), NEW s \in Int, SuffixOf(o, g)
    PROVE  SuffixOf(Append(o, s), Append(g, s))
<1>a. /\ Len(Append(o, s)) = Len(o) + 1 /\ Len(Append(g, s)) = Len(g) + 1
      /\ Len(o) \in Nat /\ Len(g) \in Nat /\ Len(o) <= Len(g)
  BY DEF SuffixOf
<1>1. ASSUME NEW i \in 1 .. Len(o) + 1
      PROVE  Append(o, s)[i] = Append(g, s)[Len(g) - Len(o) + i]
  <2>1. CASE i \in 1 .. Len(o)
    <3>1. Len(g) - Len(o) + i \in 1 .. Len(g) /\ o[i] = g[Len(g) - Len(o) + i]
      BY <2>1 DEF SuffixOf
    <3> QED
      BY <2>1, <3>1
  <2>2. CASE i = Len(o) + 1
    BY <2>2, <1>a
  <2>3. i \in 1 .. Len(o) \/ i = Len(o) + 1
    BY ONLY <1>a, i \in 1 .. Len(o) + 1
  <2> QED
    BY ONLY <2>1, <2>2, <2>3
<1>2. ASSUME NEW i \in 1 .. Len(Append(o, s))
      PROVE  Append(o, s)[i] = Append(g, s)[Len(Append(g, s)) - Len(Append(o, s)) + i]
  <2>1. i \in 1 .. Len(o) + 1 /\ Len(Append(g, s)) - Len(Append(o, s)) + i = Len(g) - Len(o) + i
    BY <1>a
  <2> QED
    BY <2>1, <1>1
<1>3. Len(Append(o, s)) <= Len(Append(g, s))
  BY <1>a
<1> QED
  BY <1>2, <1>3, Zenon DEF SuffixOf

\* Samples popped from the left of the deque (the trimming loop).
LEMMA DropSuffix ==
    ASSUME NEW o \in Seq(Int), NEW g \in Seq(Int), SuffixOf(o, g), NEW n \in 0 .. Len(o)
    PROVE  /\ SubSeq(o, n + 1, Len(o)) \in Seq(Int)
           /\ Len(SubSeq(o, n + 1, Len(o))) = Len(o) - n
           /\ SuffixOf(SubSeq(o, n + 1, Len(o)), g)
<1>1. \A i \in n + 1 .. Len(o) : o[i] \in Int
  OBVIOUS
<1>2. /\ SubSeq(o, n + 1, Len(o)) \in Seq(Int)
      /\ Len(SubSeq(o, n + 1, Len(o))) = Len(o) - n
      /\ \A i \in 1 .. Len(o) - n : SubSeq(o, n + 1, Len(o))[i] = o[n + i]
  BY <1>1, SubSeqProperties
<1>3. ASSUME NEW i \in 1 .. Len(o) - n
      PROVE  SubSeq(o, n + 1, Len(o))[i] = g[Len(g) - (Len(o) - n) + i]
  <2>1. n + i \in 1 .. Len(o) /\ Len(g) - (Len(o) - n) + i = Len(g) - Len(o) + (n + i)
    OBVIOUS
  <2>2. o[n + i] = g[Len(g) - Len(o) + (n + i)]
    BY <2>1 DEF SuffixOf
  <2> QED
    BY <2>1, <2>2, <1>2
<1> QED
  <2>1. Len(g) \in Nat /\ Len(o) \in Nat /\ Len(o) <= Len(g)
    BY DEF SuffixOf
  <2> DEFINE q == SubSeq(o, n + 1, Len(o))
  <2>2. \A i \in 1 .. Len(q) : q[i] = g[Len(g) - Len(q) + i]
    BY <1>2, <1>3
  <2>3. Len(q) <= Len(g)
    BY <1>2, <2>1
  <2> HIDE DEF q
  <2>4. SuffixOf(q, g)
    BY <2>2, <2>3 DEF SuffixOf
  <2> QED
    BY <2>4, <1>2 DEF q

\* A sample past the newest stamp keeps the log increasing (the clock check).
LEMMA AppendOrdered ==
    ASSUME NEW g \in Seq(Int), NEW newest \in Int, NEW s \in Int, Ordered(g, newest), newest < s
    PROVE  Ordered(Append(g, s), s)
BY DEF Ordered

\* Later samples of the log are not older.
LEMMA OrderedLeq ==
    ASSUME NEW g \in Seq(Int), NEW newest \in Int, Ordered(g, newest),
           NEW i \in 1 .. Len(g), NEW k \in 1 .. Len(g), i <= k
    PROVE  g[i] <= g[k]
<1>1. CASE i = k
  BY <1>1
<1>2. CASE i < k
  BY <1>2 DEF Ordered
<1> QED
  BY <1>1, <1>2

\* What the newest sample makes too old stays too old.
LEMMA AppendNotNeeded ==
    ASSUME NEW g \in Seq(Int), NEW newest \in Int, NEW s \in Int, Ordered(g, newest), newest < s,
           NEW k \in 2 .. Len(g), NotNeeded(g, k)
    PROVE  NotNeeded(Append(g, s), k)
<1>1. g[Len(g)] <= newest
  BY DEF Ordered
<1>2. Append(g, s)[k] = g[k] /\ Append(g, s)[Len(g) + 1] = s /\ Len(Append(g, s)) = Len(g) + 1
  OBVIOUS
<1> QED
  BY <1>1, <1>2, ConfigAssumption DEF NotNeeded

\* Whatever the loop has popped was not needed: it pops only while the second
\* sample is older than the cutoff or the deque is too long.
LEMMA TrimmedNotNeeded ==
    ASSUME NEW o \in Seq(Int), NEW g \in Seq(Int), NEW s \in Int, SuffixOf(o, g), Ordered(g, s),
           o # <<>>, g[Len(g)] = s,
           NEW n \in 1 .. Len(o) - 1, ~TrimStops(o, n - 1, s - Keep),
           NEW k \in 2 .. Len(g), k - 1 <= Len(g) - Len(o) + n
    PROVE  NotNeeded(g, k)
<1>1. o[n + 1] = g[Len(g) - Len(o) + n + 1]
  <2>1. n + 1 \in 1 .. Len(o)
    OBVIOUS
  <2>2. o[n + 1] = g[Len(g) - Len(o) + (n + 1)]
    BY ONLY <2>1, SuffixOf(o, g) DEF SuffixOf
  <2>3. Len(g) \in Int /\ Len(o) \in Int /\ n \in Int
    OBVIOUS
  <2>4. Len(g) - Len(o) + (n + 1) = Len(g) - Len(o) + n + 1
    BY ONLY <2>3
  <2> QED
    BY ONLY <2>2, <2>4
<1>2. k <= Len(g) - Len(o) + n + 1
  OBVIOUS
<1>3. Len(g) - Len(o) + n + 1 \in 1 .. Len(g)
  <2>1. Len(o) <= Len(g)
    BY ONLY SuffixOf(o, g) DEF SuffixOf
  <2>2. Len(g) \in Int /\ Len(o) \in Int /\ n \in Int /\ n >= 1 /\ n <= Len(o) - 1
    OBVIOUS
  <2> QED
    BY ONLY <2>1, <2>2
<1>5. g[k] <= g[Len(g) - Len(o) + n + 1]
  <2>1. k \in 1 .. Len(g)
    OBVIOUS
  <2> QED
    BY ONLY <1>2, <1>3, <2>1, g \in Seq(Int), s \in Int, Ordered(g, s), OrderedLeq
<1>4. o[n + 1] < s - Keep \/ Len(o) - (n - 1) > OdomBuffer
  <2>1. n - 1 + 2 = n + 1 /\ o[n + 1] \in Int
    OBVIOUS
  <2>2. Keep \in Int /\ OdomBuffer \in Int /\ Len(o) \in Int /\ n \in Int /\ s \in Int
    BY ConfigAssumption
  <2>3. ~(o[n - 1 + 2] >= s - Keep /\ Len(o) - (n - 1) <= OdomBuffer)
    BY ONLY ~TrimStops(o, n - 1, s - Keep) DEF TrimStops
  <2>4. ~(o[n + 1] >= s - Keep /\ Len(o) - (n - 1) <= OdomBuffer)
    BY ONLY <2>1, <2>3
  <2> QED
    BY ONLY <2>1, <2>2, <2>4
<1> QED
  <2>1. CASE o[n + 1] < s - Keep
    <3>1. g[k] \in Int /\ o[n + 1] \in Int /\ Keep \in Int /\ s \in Int
      <4>1. k \in 1 .. Len(g) /\ n + 1 \in 1 .. Len(o)
        OBVIOUS
      <4>2. g[k] \in Int /\ o[n + 1] \in Int
        BY ONLY <4>1, g \in Seq(Int), o \in Seq(Int)
      <4> QED BY ONLY <4>2, s \in Int, ConfigAssumption
    <3>3. g[Len(g)] = s
      OBVIOUS
    <3>4. g[k] <= o[n + 1]
      BY ONLY <1>1, <1>5
    <3>2. g[k] < g[Len(g)] - Keep
      BY ONLY <2>1, <3>1, <3>3, <3>4
    <3> QED
      BY <3>2 DEF NotNeeded
  <2>2. CASE Len(o) - (n - 1) > OdomBuffer
    <3>1. Len(g) - k + 2 >= Len(o) - (n - 1)
      BY <1>2
    <3> QED
      BY <2>2, <3>1, ConfigAssumption DEF NotNeeded
  <2> QED
    BY <1>4, <2>1, <2>2

\* One accepted odometry message keeps the deque right (ingest, ODOM branch).
LEMMA OdomAccepted ==
    ASSUME NEW o \in Seq(Int), NEW g \in Seq(Int), NEW newest \in Int, OdomQueue(o, g, newest),
           NEW s \in Int, newest < s,
           NEW n \in 0 .. Len(o), Trimmed(Append(o, s), n, s - Keep)
    PROVE  OdomQueue(SubSeq(Append(o, s), n + 1, Len(Append(o, s))), Append(g, s), s)
<1>1. SuffixOf(o, g) /\ Ordered(g, newest)
  BY DEF OdomQueue
<1>2. /\ Append(o, s) \in Seq(Int) /\ Len(Append(o, s)) = Len(o) + 1
      /\ Append(g, s) \in Seq(Int) /\ Len(Append(g, s)) = Len(g) + 1
      /\ Append(g, s)[Len(g) + 1] = s
  OBVIOUS
<1>3. SuffixOf(Append(o, s), Append(g, s)) /\ Ordered(Append(g, s), s)
  BY <1>1, AppendSuffix, AppendOrdered
<1>4. \A all, h \in Seq(Int) :
        /\ Len(all) = Len(o) + 1 /\ Len(h) = Len(g) + 1 /\ h[Len(g) + 1] = s
        /\ SuffixOf(all, h) /\ Ordered(h, s) /\ Trimmed(all, n, s - Keep) /\ h = Append(g, s)
        => OdomQueue(SubSeq(all, n + 1, Len(all)), h, s)
  <2> SUFFICES ASSUME NEW all \in Seq(Int), NEW h \in Seq(Int),
                      Len(all) = Len(o) + 1, Len(h) = Len(g) + 1, h[Len(g) + 1] = s,
                      SuffixOf(all, h), Ordered(h, s), Trimmed(all, n, s - Keep), h = Append(g, s)
               PROVE  OdomQueue(SubSeq(all, n + 1, Len(all)), h, s)
    OBVIOUS
  <2>1. n \in 0 .. Len(all) /\ n <= Len(o) /\ Len(o) \in Nat /\ Len(g) \in Nat /\ n \in Nat
    OBVIOUS
  <2>2. /\ SuffixOf(SubSeq(all, n + 1, Len(all)), h)
        /\ Len(SubSeq(all, n + 1, Len(all))) = Len(o) + 1 - n
    <3>1. /\ SuffixOf(SubSeq(all, n + 1, Len(all)), h)
          /\ Len(SubSeq(all, n + 1, Len(all))) = Len(all) - n
      BY <2>1, DropSuffix
    <3> QED
      BY <3>1
  <2>3. ASSUME NEW k \in 2 .. Len(h), k - 1 <= Len(h) - (Len(o) + 1 - n)
        PROVE  NotNeeded(h, k)
    <3>1. CASE n = 0
      <4>1. k \in 2 .. Len(g)
        BY <3>1, <2>1, <2>3 DEF OdomQueue
      <4>2. NotNeeded(g, k)
        BY <3>1, <4>1, <2>1, <2>3 DEF OdomQueue
      <4> QED
        BY <4>1, <4>2, <1>1, AppendNotNeeded
    <3>2. CASE n # 0
      <4>1. n \in 1 .. Len(all) - 1 /\ k - 1 <= Len(h) - Len(all) + n /\ all # <<>>
        BY <3>2, <2>1, <2>3
      <4>2. ~TrimStops(all, n - 1, s - Keep)
        BY <4>1 DEF Trimmed
      <4>3. h[Len(h)] = s
        OBVIOUS
      <4> QED
        BY <4>1, <4>2, <4>3, <2>3, TrimmedNotNeeded
    <3> QED
      BY <3>1, <3>2
  <2>4. Len(SubSeq(all, n + 1, Len(all))) # 0
    BY <2>1, <2>2
  <2> QED
    BY <2>2, <2>3, <2>4 DEF OdomQueue
<1> QED
  BY <1>2, <1>3, <1>4

-----------------------------------------------------------------------------
(* The groups and the inductive invariant                                  *)

OdomInv == OdomQueue(odoms, odomLog, last["odom"])
FramesInv == \A n \in 1 .. Len(frames) : Bag!Between(frames[n], odomLog)

\* Stamps are integers.
LEMMA OdomTypes ==
    ASSUME TypeOK
    PROVE  odoms \in Seq(Int) /\ odomLog \in Seq(Int) /\ last["odom"] \in Int
<1>1. OdomStamps \subseteq Int
  BY StampsAssumption
<1>2. odoms \in Seq(OdomStamps) /\ odomLog \in Seq(OdomStamps) /\ last["odom"] \in Nat
  BY DEF TypeOK
<1>3. odoms \in Seq(Int)
  BY <1>1, <1>2, SeqMonotonic
<1>4. odomLog \in Seq(Int)
  BY <1>1, <1>2, SeqMonotonic
<1> QED
  BY <1>2, <1>3, <1>4

\* Only an odometry message touches the deque, the log or their newest stamp.
LEMMA OdomUntouched ==
    ASSUME TypeOK, [Next]_vars,
           ~\E w \in Walls, s \in OdomStamps, f \in BOOLEAN : IngestOdom(s, f, w)
    PROVE  odoms' = odoms /\ odomLog' = odomLog /\ last'["odom"] = last["odom"]
<1> USE DEF vars, inputs, outputs, history
<1>1. ASSUME NEW w \in Walls, NEW s \in RgbStamps, IngestRgb(s, w)
      PROVE  odoms' = odoms /\ odomLog' = odomLog /\ last'["odom"] = last["odom"]
  BY <1>1 DEF IngestRgb, Reject, Duplicate, Fresh, TypeOK
<1>2. ASSUME NEW w \in Walls, NEW m \in Images, IngestDepth(m, w)
      PROVE  odoms' = odoms /\ odomLog' = odomLog /\ last'["odom"] = last["odom"]
  BY <1>2 DEF IngestDepth, Reject, Duplicate, Fresh, TypeOK
<1>3. ASSUME NEW w \in Walls, NEW t \in {"rgb", "depth"}, NEW m \in Infos, IngestInfo(t, m, w)
      PROVE  odoms' = odoms /\ odomLog' = odomLog /\ last'["odom"] = last["odom"]
  BY <1>3 DEF IngestInfo
<1>4. ASSUME NEW w \in Walls, NEW e \in MaybeExtrinsic, NEW v \in BOOLEAN, IngestStatic(e, v, w)
      PROVE  odoms' = odoms /\ odomLog' = odomLog /\ last'["odom"] = last["odom"]
  BY <1>4 DEF IngestStatic
<1>5. CASE \/ \E w \in Walls : Poll(w) \/ \E kind \in TfKinds : IngestTf(kind, w)
           \/ Finish \/ Terminated \/ UNCHANGED vars
  BY <1>5 DEF Poll, IngestTf, Finish, Terminated
<1>6. CASE Pair
  BY <1>6 DEF Pair, PairFound, PairFails, PairReturns
<1>7. CASE Drain
  BY <1>7 DEF Drain, DrainHolds, DrainDrops, DrainRaises, DrainWrites, DrainReturns
<1> QED
  BY <1>1, <1>2, <1>3, <1>4, <1>5, <1>6, <1>7 DEF Next, Ingest

\* The deque is right after every step (ingest).
LEMMA OdomStep ==
    ASSUME TypeOK, OdomInv, [Next]_vars
    PROVE  OdomInv'
<1>1. CASE ~\E w \in Walls, s \in OdomStamps, f \in BOOLEAN : IngestOdom(s, f, w)
  BY <1>1, OdomUntouched DEF OdomInv
<1>2. ASSUME NEW w \in Walls, NEW s \in OdomStamps, NEW f \in BOOLEAN, IngestOdom(s, f, w)
      PROVE  OdomInv'
  <2> USE DEF inputs, history
  <2>1. s \in Int
    BY StampsAssumption
  <2>2. CASE Reject("odom", s) \/ Duplicate("odom", s)
    BY <2>2 DEF Reject, Duplicate, OdomInv
  <2>3. CASE Fresh("odom", s) /\ UNCHANGED <<odoms, odomLog>>
    <3>1. last'["odom"] = s /\ last["odom"] < s
      BY <2>1, <2>3, OdomTypes DEF Fresh, BadStamp, TypeOK
    <3>2. Ordered(odomLog, s)
      BY <3>1, <2>1, OdomTypes DEF OdomInv, OdomQueue, Ordered
    <3> QED
      BY <2>3, <3>1, <3>2 DEF OdomInv, OdomQueue
  <2>4. CASE /\ Fresh("odom", s)
             /\ odomLog' = Append(odomLog, s)
             /\ \E n \in 0 .. Len(odoms) :
                    /\ Trimmed(Append(odoms, s), n, s - Keep)
                    /\ odoms' = SubSeq(Append(odoms, s), n + 1, Len(Append(odoms, s)))
    <3>1. last'["odom"] = s /\ last["odom"] < s
      BY <2>1, <2>4, OdomTypes DEF Fresh, BadStamp, TypeOK
    <3>2. PICK n \in 0 .. Len(odoms) :
            /\ Trimmed(Append(odoms, s), n, s - Keep)
            /\ odoms' = SubSeq(Append(odoms, s), n + 1, Len(Append(odoms, s)))
      BY <2>4
    <3>3. OdomQueue(SubSeq(Append(odoms, s), n + 1, Len(Append(odoms, s))), Append(odomLog, s), s)
      BY <2>1, <3>1, <3>2, OdomTypes, OdomAccepted DEF OdomInv
    <3> QED
      BY <2>4, <3>1, <3>2, <3>3 DEF OdomInv
  <2> QED
    BY <1>2, <2>2, <2>3, <2>4 DEF IngestOdom
<1> QED
  BY <1>1, <1>2

\* A group stays between its neighbours when the log grows.
LEMMA BetweenGrows ==
    ASSUME NEW f, NEW g \in Seq(Int), NEW s \in Int, Bag!Between(f, g)
    PROVE  Bag!Between(f, Append(g, s))
<1>1. PICK b \in 2 .. Len(g) :
        /\ f.before = g[b - 1] /\ f.after = g[b]
        /\ f.before <= f.rgb + Offset /\ f.rgb + Offset <= f.after
        /\ f.after - f.before <= MaxOdomGap
  BY DEF Bag!Between
<1>2. b \in 2 .. Len(Append(g, s)) /\ Append(g, s)[b - 1] = g[b - 1] /\ Append(g, s)[b] = g[b]
  BY <1>1
<1> QED
  BY <1>1, <1>2 DEF Bag!Between

\* A written group takes its bracket from neighbours of the log (_make_group).
LEMMA WrittenBetween ==
    ASSUME TypeOK, OdomInv, NEW p \in Pairs, NEW j \in UsableBrackets(Target(p)), NEW i
    PROVE  Bag!Between(Group(p, j, i), odomLog)
<1> DEFINE b == Len(odomLog) - Len(odoms) + j
<1>1. /\ j \in 2 .. Len(odoms) /\ odoms[j] - odoms[j - 1] <= MaxOdomGap
      /\ odoms[j - 1] < Target(p) \/ (j = 2 /\ Target(p) = odoms[1])
      /\ Target(p) <= odoms[j]
  BY DEF UsableBrackets, Brackets
<1>2. /\ odoms \in Seq(Int) /\ odomLog \in Seq(Int) /\ Target(p) \in Int
      /\ Target(p) = p.rgb + Offset
  <2>1. p.rgb \in RgbStamps
    BY DEF Pairs
  <2>2. p.rgb \in Int /\ Offset \in Int
    <3>1. \A t \in RgbStamps : t \in Int
      BY StampsAssumption
    <3> QED
      BY <2>1, <3>1, ConfigAssumption
  <2> QED
    BY <2>2, OdomTypes DEF Target
<1>3. Len(odoms) <= Len(odomLog)
  BY DEF OdomInv, OdomQueue, SuffixOf
<1>4. b \in 2 .. Len(odomLog) /\ b - 1 = Len(odomLog) - Len(odoms) + (j - 1)
  BY <1>1, <1>2, <1>3
<1>5. odoms[j] = odomLog[b] /\ odoms[j - 1] = odomLog[b - 1]
  <2>1. j \in 1 .. Len(odoms) /\ j - 1 \in 1 .. Len(odoms)
    BY <1>1
  <2> QED
    BY <1>4, <2>1 DEF OdomInv, OdomQueue, SuffixOf
<1>6. odoms[j - 1] <= Target(p)
  BY <1>1, <1>2
<1>7. /\ Group(p, j, i).before = odoms[j - 1] /\ Group(p, j, i).after = odoms[j]
      /\ Group(p, j, i).rgb = p.rgb
  BY DEF Group
<1> HIDE DEF b
<1> QED
  BY <1>1, <1>2, <1>4, <1>5, <1>6, <1>7 DEF Bag!Between

\* Every group lies between neighbours after every step (drain).
LEMMA FramesStep ==
    ASSUME TypeOK, OdomInv, FramesInv, [Next]_vars
    PROVE  FramesInv'
<1> USE DEF vars, inputs, outputs, history
<1>1. CASE frames' = frames /\ odomLog' = odomLog
  BY <1>1 DEF FramesInv
<1>2. ASSUME NEW w \in Walls, NEW s \in OdomStamps, NEW f \in BOOLEAN, IngestOdom(s, f, w)
      PROVE  FramesInv'
  <2>1. frames' = frames /\ (odomLog' = odomLog \/ odomLog' = Append(odomLog, s))
    BY <1>2 DEF IngestOdom, Reject, Duplicate
  <2>2. s \in Int
    BY StampsAssumption
  <2> QED
    BY <2>1, <2>2, OdomTypes, BetweenGrows DEF FramesInv
<1>3. CASE DrainWrites
  <2>1. PICK j \in UsableBrackets(Target(pending[1])), i \in InfoFor("rgb", pending[1].rgb) :
            frames' = Append(frames, Group(pending[1], j, i))
    BY <1>3 DEF DrainWrites
  <2>2. pending[1] \in Pairs /\ odomLog' = odomLog
    BY <1>3 DEF DrainWrites, Draining, TypeOK
  <2>3. Bag!Between(Group(pending[1], j, i), odomLog)
    BY <2>1, <2>2, WrittenBetween
  <2>4. frames \in Seq(Frames)
    BY DEF TypeOK
  <2>5. \A x : \A n \in 1 .. Len(Append(frames, x)) :
            Append(frames, x)[n] = (IF n = Len(frames) + 1 THEN x ELSE frames[n])
    BY <2>4
  <2>6. \A n \in 1 .. Len(frames') : n \in 1 .. Len(frames) \/ n = Len(frames) + 1
    BY <2>1, <2>4
  <2> HIDE DEF FramesInv
  <2>7. ASSUME NEW n \in 1 .. Len(frames')
        PROVE  Bag!Between(frames'[n], odomLog)
    BY <2>1, <2>3, <2>5, <2>6, <2>7 DEF FramesInv
  <2> QED
    BY <2>2, <2>7 DEF FramesInv
<1> QED
  <2>1. CASE \E w \in Walls, s \in OdomStamps, f \in BOOLEAN : IngestOdom(s, f, w)
    BY <2>1, <1>2
  <2>2. CASE ~DrainWrites /\ ~\E w \in Walls, s \in OdomStamps, f \in BOOLEAN : IngestOdom(s, f, w)
    <3>1. odomLog' = odomLog
      BY <2>2, OdomUntouched
    <3>2. frames' = frames
      BY <2>2 DEF Next, Ingest, IngestRgb, IngestDepth, IngestInfo, IngestStatic, IngestTf, Reject,
                  Duplicate, Poll, Finish, Pair, PairFound, PairFails, PairReturns, Drain,
                  DrainHolds, DrainDrops, DrainRaises, DrainReturns, Terminated
    <3> QED
      BY <3>1, <3>2, <1>1
  <2> QED
    BY <2>1, <2>2, <1>3

\* The inductive invariant holds of every behaviour of the engine.
THEOREM OdometryInvariant == Spec => [](TypeOK /\ OdomInv /\ FramesInv)
<1>1. Init => OdomInv /\ FramesInv
  <2> SUFFICES ASSUME Init PROVE OdomInv /\ FramesInv
    OBVIOUS
  <2>1. odoms = <<>> /\ odomLog = <<>> /\ frames = <<>>
    BY DEF Init
  <2> QED
    BY <2>1 DEF OdomInv, OdomQueue, SuffixOf, Ordered, FramesInv
<1>2. TypeOK /\ OdomInv /\ FramesInv /\ [Next]_vars => (OdomInv /\ FramesInv)'
  BY OdomStep, FramesStep
<1> QED
  BY <1>1, <1>2, TypeCorrect, PTL DEF Spec

-----------------------------------------------------------------------------
(* The properties                                                          *)

\* No odometry ever written lies strictly inside a group's bracket: the pose
\* interpolates the closest samples (_make_group, trimming in ingest).
THEOREM BracketsAreTight == Spec => []BracketTight
<1>1. TypeOK /\ OdomInv /\ FramesInv => BracketTight
  <2> SUFFICES ASSUME TypeOK, OdomInv, FramesInv, NEW n \in DOMAIN frames, NEW k \in DOMAIN odomLog,
                      frames[n].before < odomLog[k], odomLog[k] < frames[n].after
               PROVE  FALSE
    BY DEF BracketTight
  <2>1. odomLog \in Seq(Int) /\ Ordered(odomLog, last["odom"]) /\ last["odom"] \in Int
    BY OdomTypes DEF OdomInv, OdomQueue
  <2>2. PICK b \in 2 .. Len(odomLog) : frames[n].before = odomLog[b - 1] /\ frames[n].after = odomLog[b]
    <3>1. n \in 1 .. Len(frames)
      BY DEF TypeOK
    <3>2. Bag!Between(frames[n], odomLog)
      BY <3>1 DEF FramesInv
    <3> QED
      BY <3>2 DEF Bag!Between
  <2>3. k \in 1 .. Len(odomLog) /\ b \in 1 .. Len(odomLog) /\ b - 1 \in 1 .. Len(odomLog)
    <3>1. Len(odomLog) \in Nat /\ DOMAIN odomLog = 1 .. Len(odomLog)
      BY ONLY <2>1
    <3>2. b \in 1 .. Len(odomLog) /\ b - 1 \in 1 .. Len(odomLog)
      BY ONLY <3>1, b \in 2 .. Len(odomLog)
    <3> QED BY ONLY <3>1, <3>2, k \in DOMAIN odomLog
  <2>4. CASE k <= b - 1
    <3>1. odomLog[k] <= odomLog[b - 1]
      BY <2>1, <2>3, <2>4, OrderedLeq
    <3> QED
      BY <2>1, <2>2, <2>3, <3>1
  <2>5. CASE b <= k
    <3>1. odomLog[b] <= odomLog[k]
      BY <2>1, <2>3, <2>5, OrderedLeq
    <3> QED
      BY <2>1, <2>2, <2>3, <3>1
  <2> QED
    BY <2>3, <2>4, <2>5
<1> QED
  BY <1>1, OdometryInvariant, PTL

\* Trimming keeps every bracket that is not older than Keep behind the newest
\* odometry, within the count limit (the trimming loop of ingest).
THEOREM TrimmingIsSafe == Spec => []TrimKeepsBrackets
<1>1. TypeOK /\ OdomInv => TrimKeepsBrackets
  <2> SUFFICES ASSUME TypeOK, OdomInv, NEW k \in 2 .. Len(odomLog), ~NotNeeded(odomLog, k)
               PROVE  {odomLog[k - 1], odomLog[k]} \subseteq Stamps(odoms)
    BY DEF TrimKeepsBrackets, NotNeeded
  <2>1. odomLog \in Seq(Int) /\ odoms \in Seq(Int)
    BY OdomTypes
  <2>2. k - 1 > Len(odomLog) - Len(odoms)
    BY <2>1 DEF OdomInv, OdomQueue
  <2> DEFINE i == k - (Len(odomLog) - Len(odoms))
  <2>3. i \in 1 .. Len(odoms) /\ i - 1 \in 1 .. Len(odoms)
    BY <2>1, <2>2
  <2>4. /\ Len(odomLog) - Len(odoms) + i = k
        /\ Len(odomLog) - Len(odoms) + (i - 1) = k - 1
    BY <2>1
  <2> HIDE DEF i
  <2>5. odoms[i] = odomLog[k] /\ odoms[i - 1] = odomLog[k - 1]
    BY <2>3, <2>4 DEF OdomInv, OdomQueue, SuffixOf
  <2>6. i \in DOMAIN odoms /\ i - 1 \in DOMAIN odoms
    BY <2>1, <2>3
  <2> QED
    BY <2>5, <2>6 DEF Stamps
<1> QED
  BY <1>1, OdometryInvariant, PTL

-----------------------------------------------------------------------------
(* The wait.  drain gives up on the head of pending alone; the pairs behind *)
(* it are not older than Jitter, because each was paired at the wall time   *)
(* of a call, and calls step back by Jitter at most.                        *)
WaitInv ==
    /\ call.latest - Jitter <= call.wall /\ call.wall <= call.latest
    /\ \A i \in DOMAIN pending :
          /\ pending[i].wall <= call.latest
          /\ \A k \in DOMAIN pending : i < k => pending[i].wall - Jitter <= pending[k].wall

\* What a call does to pending: nothing, take its head, or add a pair seen at call.wall.
LEMMA PendingSteps ==
    ASSUME TypeOK, [Next]_vars
    PROVE  \/ /\ pending' = pending
              /\ \/ call' = [call EXCEPT !.final = TRUE] \/ call' = call
                 \/ \E w \in Walls :
                       /\ call.latest - Jitter <= w
                       /\ call'.wall = w /\ call'.latest = Later(w, call.latest)
           \/ pending # <<>> /\ pending' = Tail(pending) /\ call' = call
           \/ /\ call' = call
              /\ \E p \in Pairs : pending' = Append(pending, p) /\ p.wall = call.wall
<1>1. CASE Ingest
  <2>1. PICK w \in Walls : Arrival(w)
    BY <1>1 DEF Ingest, IngestRgb, IngestDepth, IngestOdom, IngestInfo, IngestStatic, IngestTf
  <2>2. pending' = pending
    BY <1>1 DEF Ingest, IngestRgb, IngestDepth, IngestOdom, IngestInfo, IngestStatic, IngestTf,
       Reject, Duplicate, Raise
  <2> QED BY <2>1, <2>2 DEF Arrival
<1>2. ASSUME NEW w \in Walls, Poll(w)
      PROVE  /\ pending' = pending /\ call.latest - Jitter <= w
             /\ call'.wall = w /\ call'.latest = Later(w, call.latest)
  <2>1. pending' = pending /\ call' = [wall |-> w, latest |-> w, final |-> FALSE]
    BY <1>2 DEF Poll
  <2>2. w = call.latest + 1 /\ call.latest \in Nat /\ Jitter \in Nat
    BY <1>2, ConfigAssumption DEF Poll, TypeOK, Walls
  <2>3. call.latest - Jitter <= w /\ Later(w, call.latest) = w
    BY <2>2 DEF Later
  <2> QED BY <2>1, <2>3
<1>3. CASE Finish \/ PairFails \/ PairReturns \/ DrainHolds \/ DrainRaises \/ DrainReturns
           \/ Terminated \/ UNCHANGED vars
  BY <1>3 DEF Finish, PairFails, PairReturns, DrainHolds, DrainRaises, DrainReturns, Terminated,
     vars, history
<1>4. CASE PairFound
  <2>1. PICK i \in DOMAIN depths :
          \/ pending' = pending
          \/ pending' = Append(pending, [rgb |-> rgbs[1], dep |-> depths[i].stamp,
                                         ok |-> depths[i].ok, wall |-> call.wall])
    BY <1>4 DEF PairFound
  <2>2. call' = call /\ rgbs[1] \in RgbStamps
    BY <1>4 DEF PairFound, TypeOK
  <2>3. depths[i] \in Images /\ call.wall \in Walls
    BY DEF TypeOK
  <2>4. [rgb |-> rgbs[1], dep |-> depths[i].stamp, ok |-> depths[i].ok, wall |-> call.wall]
          \in Pairs
    BY <2>2, <2>3 DEF Images, Pairs
  <2> QED BY <2>1, <2>2, <2>4
<1>5. CASE DrainDrops \/ DrainWrites
  BY <1>5 DEF DrainDrops, DrainWrites, Draining
<1> QED BY <1>1, <1>2, <1>3, <1>4, <1>5 DEF Next, Pair, Drain

\* Pairs keep their wall times when the head is taken or one is added.
LEMMA WaitStep ==
    ASSUME TypeOK, WaitInv, [Next]_vars
    PROVE  WaitInv'
<1> DEFINE Walled(c, s) ==
        /\ c.latest - Jitter <= c.wall /\ c.wall <= c.latest
        /\ \A i \in DOMAIN s :
              /\ s[i].wall <= c.latest
              /\ \A k \in DOMAIN s : i < k => s[i].wall - Jitter <= s[k].wall
<1>0. /\ call.wall \in Nat /\ call.latest \in Nat /\ Jitter \in Nat
      /\ pending \in Seq(Pairs) /\ \A w \in Walls : w \in Nat
  BY ConfigAssumption DEF TypeOK, Walls
<1>1. Walled(call, pending)
  BY DEF WaitInv
<1>2. \A i \in DOMAIN pending : pending[i].wall \in Nat
  <2> SUFFICES ASSUME NEW i \in DOMAIN pending PROVE pending[i].wall \in Nat
    OBVIOUS
  <2>1. pending[i] \in Pairs
    BY <1>0
  <2> QED BY <1>0, <2>1 DEF Pairs
<1>3. CASE pending' = pending
           /\ (call' = [call EXCEPT !.final = TRUE] \/ call' = call)
  <2>1. call'.wall = call.wall /\ call'.latest = call.latest
    BY <1>3 DEF TypeOK
  <2> QED BY <1>1, <1>3, <2>1 DEF WaitInv
<1>4. ASSUME pending' = pending,
             NEW w \in Walls, call.latest - Jitter <= w,
             call'.wall = w, call'.latest = Later(w, call.latest)
      PROVE  WaitInv'
  <2>1. /\ call'.latest - Jitter <= call'.wall /\ call'.wall <= call'.latest
        /\ call.latest <= call'.latest /\ call'.latest \in Nat
    BY <1>0, <1>4 DEF Later
  <2>2. \A i \in DOMAIN pending : pending[i].wall <= call'.latest
    BY <1>0, <1>1, <1>2, <2>1
  <2> QED BY <1>1, <1>4, <2>1, <2>2 DEF WaitInv
<1>5. CASE pending # <<>> /\ pending' = Tail(pending) /\ call' = call
  <2>1. \A i \in DOMAIN pending' : i \in Nat /\ i + 1 \in DOMAIN pending
                                   /\ pending'[i] = pending[i + 1]
    BY <1>0, <1>5
  <2> QED BY <1>1, <1>5, <2>1 DEF WaitInv
<1>6. ASSUME call' = call, NEW p \in Pairs, pending' = Append(pending, p), p.wall = call.wall
      PROVE  WaitInv'
  <2> DEFINE n == Len(pending)
  <2>1. /\ n \in Nat /\ DOMAIN pending = 1 .. n /\ DOMAIN pending' = 1 .. n + 1
        /\ pending'[n + 1] = p /\ \A i \in 1 .. n : pending'[i] = pending[i]
    BY <1>0, <1>6, AppendProperties
  <2>2. \A i \in 1 .. n + 1 : pending'[i].wall <= call.latest
    BY <1>1, <1>6, <2>1
  <2>3. ASSUME NEW i \in 1 .. n + 1, NEW k \in 1 .. n + 1, i < k
        PROVE  pending'[i].wall - Jitter <= pending'[k].wall
    <3>1. i \in 1 .. n /\ pending'[i].wall = pending[i].wall
      BY <2>1, <2>3
    <3>2. CASE k \in 1 .. n
      BY <1>1, <2>1, <2>3, <3>1, <3>2
    <3>3. CASE k = n + 1
      BY <1>0, <1>1, <1>2, <1>6, <2>1, <3>1, <3>3
    <3> QED BY <2>1, <3>2, <3>3
  <2> QED BY <1>1, <1>6, <2>1, <2>2, <2>3 DEF WaitInv
<1> QED BY <1>3, <1>4, <1>5, <1>6, PendingSteps

\* When a drain returns normally no pair in pending has waited Wait or longer, up to
\* the jitter of the arrival times, though only the head was looked at (drain).
THEOREM WaitIsBounded == Spec => WaitBounded
<1>1. Init => WaitInv
  BY ConfigAssumption DEF Init, WaitInv
<1>2. TypeOK /\ WaitInv /\ [Next]_vars => WaitInv'
  BY WaitStep
<1>3. TypeOK /\ WaitInv /\ [Next]_vars
      => (pc = "drain" /\ pc' = "idle" /\ ~raised' =>
             \A i \in DOMAIN pending' : call.wall - pending'[i].wall < Wait + Jitter)
  <2> SUFFICES ASSUME TypeOK, WaitInv, [Next]_vars, pc = "drain", pc' = "idle", ~raised',
                      NEW i \in DOMAIN pending'
               PROVE  call.wall - pending'[i].wall < Wait + Jitter
    OBVIOUS
  <2>1. DrainHolds \/ DrainReturns
    <3>1. ~Ingest
      BY DEF Ingest, IngestRgb, IngestDepth, IngestOdom, IngestInfo, IngestStatic, IngestTf, Arrival
    <3> QED
      BY <3>1 DEF Next, Poll, Finish, Pair, PairFound, PairFails, PairReturns, Drain, DrainDrops,
         DrainRaises, DrainWrites, Terminated, vars
  <2>2. CASE DrainReturns
    BY <2>2 DEF DrainReturns
  <2>3. CASE DrainHolds
    <3>1. /\ pending' = pending /\ pending # <<>> /\ pending \in Seq(Pairs)
          /\ ~(call.wall - pending[1].wall >= Wait)
      BY <2>3 DEF DrainHolds, Draining, Expired, TypeOK
    <3>2. /\ i \in Nat /\ 1 \in DOMAIN pending /\ (i = 1 \/ 1 < i)
          /\ pending[1] \in Pairs /\ pending[i] \in Pairs
      BY <3>1
    <3>3. /\ pending[1].wall \in Nat /\ pending[i].wall \in Nat
          /\ call.wall \in Nat /\ Wait \in Nat /\ Jitter \in Nat
      <4>1. pending[1].wall \in Walls /\ pending[i].wall \in Walls
        BY <3>2 DEF Pairs
      <4>2. call.wall \in Walls
        BY DEF TypeOK
      <4>3. Wait \in Nat /\ Jitter \in Nat /\ \A w \in Walls : w \in Nat
        BY ConfigAssumption DEF Walls
      <4> QED BY <4>1, <4>2, <4>3
    <3>4. i = 1 \/ pending[1].wall - Jitter <= pending[i].wall
      BY <3>1, <3>2 DEF WaitInv
    <3> DEFINE a == pending[1].wall
               b == pending[i].wall
               c == call.wall
    <3>5. /\ a \in Nat /\ b \in Nat /\ c \in Nat /\ Wait \in Nat /\ Jitter \in Nat
          /\ b = a \/ a - Jitter <= b
          /\ ~(c - a >= Wait) /\ pending'[i].wall = b
      BY <3>1, <3>3, <3>4
    <3> HIDE DEF a, b, c
    <3>6. c - b < Wait + Jitter
      BY ONLY <3>5
    <3> QED BY <3>5, <3>6 DEF c
  <2> QED BY <2>1, <2>2, <2>3
<1> QED BY <1>1, <1>2, <1>3, TypeCorrect, PTL DEF Spec, WaitBounded
=============================================================================
