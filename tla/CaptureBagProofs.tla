------------------------- MODULE CaptureBagProofs --------------------------
(***************************************************************************)
(* What is in a bag: the frame engine implements FrameLog, and what it has *)
(* written passes check_bag after every call, for every value of the       *)
(* constants.  Images move in one direction, from the deque of their topic *)
(* over pending to the bag; the invariant orders them along that way.      *)
(***************************************************************************)
EXTENDS CaptureEngineProofs, FiniteSetTheorems, FunctionTheorems

-----------------------------------------------------------------------------
(* Sequences of stamps                                                     *)

Below(A, B) == \A x \in A, y \in B : x < y
Distinct(s) == \A i, k \in DOMAIN s : i # k => s[i] # s[k]

\* What append, popleft and del leave of a deque.
LEMMA AppendElements ==
    ASSUME NEW S, NEW s \in Seq(S), NEW x \in S
    PROVE  /\ Append(s, x) \in Seq(S)
           /\ \A i \in DOMAIN Append(s, x) :
                \/ i \in DOMAIN s /\ Append(s, x)[i] = s[i]
                \/ i = Len(s) + 1 /\ Append(s, x)[i] = x
           /\ \A i \in DOMAIN s : i < Len(s) + 1
OBVIOUS

LEMMA TailElements ==
    ASSUME NEW S, NEW s \in Seq(S), s # <<>>
    PROVE  /\ Tail(s) \in Seq(S)
           /\ \A i \in DOMAIN Tail(s) : i \in Nat /\ i + 1 \in DOMAIN s /\ Tail(s)[i] = s[i + 1]
                                        /\ i + 1 # 1 /\ 1 < i + 1
           /\ 1 \in DOMAIN s
OBVIOUS

LEMMA WithoutElements ==
    ASSUME NEW S, NEW s \in Seq(S), NEW i \in DOMAIN s
    PROVE  /\ Without(s, i) \in Seq(S)
           /\ Len(Without(s, i)) = Len(s) - 1
           /\ \A k \in DOMAIN Without(s, i) :
                LET m == IF k < i THEN k ELSE k + 1
                IN  m \in DOMAIN s /\ m # i /\ Without(s, i)[k] = s[m]
<1> DEFINE a == SubSeq(s, 1, i - 1)
           b == SubSeq(s, i + 1, Len(s))
<1>1. i \in 1 .. Len(s) /\ Len(s) \in Nat /\ i \in Nat
  OBVIOUS
<1>2. a \in Seq(S) /\ Len(a) = i - 1 /\ \A k \in 1 .. i - 1 : a[k] = s[k]
  BY <1>1
<1>3. b \in Seq(S) /\ Len(b) = Len(s) - i /\ \A k \in 1 .. Len(s) - i : b[k] = s[i + k]
  BY <1>1
<1> HIDE DEF a, b
<1>4. /\ a \o b \in Seq(S) /\ Len(a \o b) = Len(s) - 1
      /\ \A k \in 1 .. Len(s) - 1 : (a \o b)[k] = IF k <= i - 1 THEN a[k] ELSE b[k - (i - 1)]
  <2>0. a \in Seq(S) /\ b \in Seq(S) /\ Len(a) = i - 1 /\ Len(b) = Len(s) - i
    BY ONLY <1>2, <1>3
  <2>1. a \o b \in Seq(S) /\ Len(a \o b) = (i - 1) + (Len(s) - i)
    BY ONLY <2>0, ConcatProperties
  <2>2. \A k \in 1 .. Len(a) + Len(b) : (a \o b)[k] = IF k <= Len(a) THEN a[k] ELSE b[k - Len(a)]
    BY ONLY <2>0, ConcatProperties
  <2>3. (i - 1) + (Len(s) - i) = Len(s) - 1 /\ Len(a) + Len(b) = Len(s) - 1 /\ Len(a) = i - 1
    BY <1>1, <1>2, <1>3
  <2>4. Len(a \o b) = Len(s) - 1
    BY ONLY <2>1, <2>3
  <2>5. \A k \in 1 .. Len(s) - 1 : (a \o b)[k] = IF k <= i - 1 THEN a[k] ELSE b[k - (i - 1)]
    BY ONLY <2>2, <2>3
  <2> QED BY <2>1, <2>4, <2>5
<1>5. Without(s, i) = a \o b
  BY DEF Without, a, b
<1>6. ASSUME NEW k \in 1 .. Len(s) - 1
      PROVE  LET m == IF k < i THEN k ELSE k + 1
             IN  m \in DOMAIN s /\ m # i /\ (a \o b)[k] = s[m]
  <2>1. CASE k < i
    BY <1>1, <1>2, <1>4, <2>1
  <2>2. CASE ~(k < i)
    <3>1. k - (i - 1) \in 1 .. Len(s) - i /\ i + (k - (i - 1)) = k + 1
      BY <1>1, <2>2
    <3>2. (a \o b)[k] = b[k - (i - 1)]
      BY <1>1, <1>4, <2>2
    <3>3. (a \o b)[k] = s[k + 1]
      BY <3>1, <3>2, <1>3
    <3> QED BY <1>1, <2>2, <3>3
  <2> QED BY <2>1, <2>2
<1>7. DOMAIN (a \o b) = 1 .. Len(s) - 1
  BY <1>4
<1> QED BY <1>4, <1>5, <1>6, <1>7

\* A stamp that goes to the end, or leaves the front, of an increasing sequence.
LEMMA IncreasingAppend ==
    ASSUME NEW s \in Seq(Int), NEW x \in Int, Increasing(s), Below(Stamps(s), {x})
    PROVE  Increasing(Append(s, x)) /\ Stamps(Append(s, x)) = Stamps(s) \union {x}
<1>1. \A i \in DOMAIN s : i \in DOMAIN Append(s, x) /\ Append(s, x)[i] = s[i]
  OBVIOUS
<1>2. Len(s) + 1 \in DOMAIN Append(s, x) /\ Append(s, x)[Len(s) + 1] = x
  OBVIOUS
<1>3. Stamps(Append(s, x)) = Stamps(s) \union {x}
  BY <1>1, <1>2, AppendElements DEF Stamps
<1>4. ASSUME NEW i \in DOMAIN Append(s, x), NEW k \in DOMAIN Append(s, x), i < k
      PROVE  Append(s, x)[i] < Append(s, x)[k]
  <2>1. i \in 1 .. Len(s) + 1 /\ k \in 1 .. Len(s) + 1 /\ DOMAIN s = 1 .. Len(s)
    OBVIOUS
  <2>2. i \in DOMAIN s
    BY <2>1, <1>4
  <2>3. CASE k \in DOMAIN s
    BY <1>1, <1>4, <2>2, <2>3 DEF Increasing
  <2>4. CASE k = Len(s) + 1
    BY <1>1, <1>2, <2>2, <2>4 DEF Below, Stamps
  <2> QED BY <2>1, <2>3, <2>4
<1> QED BY <1>3, <1>4 DEF Increasing

LEMMA IncreasingTail ==
    ASSUME NEW s \in Seq(Int), s # <<>>, Increasing(s)
    PROVE  /\ Increasing(Tail(s)) /\ Stamps(Tail(s)) \subseteq Stamps(s)
           /\ Below({s[1]}, Stamps(Tail(s))) /\ s[1] \in Stamps(s)
BY TailElements DEF Increasing, Stamps, Below

\* A stamp that goes to the end, or leaves, a sequence without repetition.
LEMMA DistinctAppend ==
    ASSUME NEW s \in Seq(Int), NEW x \in Int, Distinct(s), x \notin Stamps(s)
    PROVE  Distinct(Append(s, x)) /\ Stamps(Append(s, x)) = Stamps(s) \union {x}
<1>1. \A i \in DOMAIN s : i \in DOMAIN Append(s, x) /\ Append(s, x)[i] = s[i]
  OBVIOUS
<1>2. Len(s) + 1 \in DOMAIN Append(s, x) /\ Append(s, x)[Len(s) + 1] = x
  OBVIOUS
<1> QED BY <1>1, <1>2, AppendElements DEF Distinct, Stamps

LEMMA DistinctTail ==
    ASSUME NEW s \in Seq(Int), s # <<>>, Distinct(s)
    PROVE  /\ Distinct(Tail(s)) /\ Stamps(Tail(s)) \subseteq Stamps(s)
           /\ s[1] \notin Stamps(Tail(s)) /\ s[1] \in Stamps(s)
BY TailElements DEF Distinct, Stamps

LEMMA DistinctWithout ==
    ASSUME NEW s \in Seq(Int), NEW i \in DOMAIN s, Distinct(s)
    PROVE  /\ Distinct(Without(s, i)) /\ Stamps(Without(s, i)) \subseteq Stamps(s)
           /\ s[i] \notin Stamps(Without(s, i)) /\ s[i] \in Stamps(s)
<1> DEFINE t == Without(s, i)
           At(k) == IF k < i THEN k ELSE k + 1
<1>1. /\ t \in Seq(Int)
      /\ \A k \in DOMAIN t : At(k) \in DOMAIN s /\ At(k) # i /\ t[k] = s[At(k)]
  BY WithoutElements
<1>2. \A j, k \in DOMAIN t : j # k => At(j) # At(k)
  <2>1. \A j \in DOMAIN t : j \in Int
    BY <1>1
  <2>2. i \in Int
    OBVIOUS
  <2> HIDE DEF t
  <2> QED BY ONLY <2>1, <2>2
<1> HIDE DEF t, At
<1>3. Distinct(t)
  BY <1>1, <1>2 DEF Distinct
<1>4. Stamps(t) \subseteq Stamps(s) /\ s[i] \notin Stamps(t)
  BY <1>1 DEF Distinct, Stamps
<1> QED BY <1>3, <1>4 DEF t, Stamps

-----------------------------------------------------------------------------
(* The way of the images: r or d is the deque of a topic, p is pending, f  *)
(* is the bag, and m the newest stamp of the topic                         *)

ColorInv(f, p, r, m) ==
    /\ Increasing(f) /\ Increasing(p) /\ Increasing(r)
    /\ Below(Stamps(f), Stamps(p)) /\ Below(Stamps(f), Stamps(r)) /\ Below(Stamps(p), Stamps(r))
    /\ \A x \in Stamps(f) \union Stamps(p) \union Stamps(r) : x <= m

DepthInv(f, p, d, m) ==
    /\ Distinct(f) /\ Distinct(p) /\ Distinct(d)
    /\ Stamps(f) \intersect Stamps(p) = {} /\ Stamps(f) \intersect Stamps(d) = {}
    /\ Stamps(p) \intersect Stamps(d) = {}
    /\ \A x \in Stamps(f) \union Stamps(p) \union Stamps(d) : x <= m

LEMMA StampsAreIntegers ==
    ASSUME NEW s \in Seq(Int)
    PROVE  Stamps(s) \subseteq Int
BY DEF Stamps

LEMMA TailType ==
    ASSUME NEW s \in Seq(Int), s # <<>>
    PROVE  Tail(s) \in Seq(Int) /\ s[1] \in Int
OBVIOUS

\* A color image arrives, and may push out the oldest (ingest).
LEMMA ColorArrives ==
    ASSUME NEW f \in Seq(Int), NEW p \in Seq(Int), NEW r \in Seq(Int), NEW m \in Int,
           NEW x \in Int, m < x, ColorInv(f, p, r, m), NEW max \in Nat, max >= 2
    PROVE  ColorInv(f, p, AppendBounded(r, x, max), x)
<1>1. ASSUME NEW q \in Seq(Int), Increasing(q), Stamps(q) \subseteq Stamps(r)
      PROVE  ColorInv(f, p, Append(q, x), x)
  <2>1. Stamps(f) \subseteq Int /\ Stamps(p) \subseteq Int /\ Stamps(q) \subseteq Int
    BY StampsAreIntegers
  <2>2. \A y \in Stamps(f) \union Stamps(p) \union Stamps(q) : y < x
    BY <1>1, <2>1 DEF ColorInv
  <2>3. Increasing(Append(q, x)) /\ Stamps(Append(q, x)) = Stamps(q) \union {x}
    BY <1>1, <2>2, IncreasingAppend DEF Below
  <2> QED BY <1>1, <2>1, <2>2, <2>3 DEF ColorInv, Below
<1>2. CASE Len(r) < max
  BY <1>1, <1>2 DEF AppendBounded, ColorInv
<1>3. CASE ~(Len(r) < max)
  <2>1. r # <<>>
    BY <1>3
  <2>2. Increasing(Tail(r)) /\ Stamps(Tail(r)) \subseteq Stamps(r) /\ Tail(r) \in Seq(Int)
    BY <2>1, IncreasingTail, TailType DEF ColorInv
  <2> QED BY <1>1, <1>3, <2>2 DEF AppendBounded
<1> QED BY <1>2, <1>3

\* The oldest color image is paired and kept, or it is dropped (_pair).
LEMMA ColorPaired ==
    ASSUME NEW f \in Seq(Int), NEW p \in Seq(Int), NEW r \in Seq(Int), NEW m \in Int,
           ColorInv(f, p, r, m), r # <<>>
    PROVE  ColorInv(f, Append(p, r[1]), Tail(r), m) /\ ColorInv(f, p, Tail(r), m)
<1>1. /\ Increasing(Tail(r)) /\ Stamps(Tail(r)) \subseteq Stamps(r)
      /\ Below({r[1]}, Stamps(Tail(r))) /\ r[1] \in Stamps(r)
  BY IncreasingTail DEF ColorInv
<1>2. Increasing(Append(p, r[1])) /\ Stamps(Append(p, r[1])) = Stamps(p) \union {r[1]}
  BY <1>1, IncreasingAppend, TailType DEF ColorInv, Below
<1> QED BY <1>1, <1>2 DEF ColorInv, Below

\* The oldest pair is written or dropped (drain).
LEMMA ColorWritten ==
    ASSUME NEW f \in Seq(Int), NEW p \in Seq(Int), NEW r \in Seq(Int), NEW m \in Int,
           ColorInv(f, p, r, m), p # <<>>
    PROVE  ColorInv(Append(f, p[1]), Tail(p), r, m) /\ ColorInv(f, Tail(p), r, m)
<1>1. /\ Increasing(Tail(p)) /\ Stamps(Tail(p)) \subseteq Stamps(p)
      /\ Below({p[1]}, Stamps(Tail(p))) /\ p[1] \in Stamps(p)
  BY IncreasingTail DEF ColorInv
<1>2. Increasing(Append(f, p[1])) /\ Stamps(Append(f, p[1])) = Stamps(f) \union {p[1]}
  BY <1>1, IncreasingAppend, TailType DEF ColorInv, Below
<1> QED BY <1>1, <1>2 DEF ColorInv, Below

\* The same for depth images, any of which may be paired.
LEMMA DepthArrives ==
    ASSUME NEW f \in Seq(Int), NEW p \in Seq(Int), NEW d \in Seq(Int), NEW m \in Int,
           NEW x \in Int, m < x, DepthInv(f, p, d, m), NEW max \in Nat, max >= 2
    PROVE  DepthInv(f, p, AppendBounded(d, x, max), x)
<1>1. ASSUME NEW q \in Seq(Int), Distinct(q), Stamps(q) \subseteq Stamps(d)
      PROVE  DepthInv(f, p, Append(q, x), x)
  <2>1. Stamps(f) \subseteq Int /\ Stamps(p) \subseteq Int /\ Stamps(q) \subseteq Int
    BY StampsAreIntegers
  <2>2. \A y \in Stamps(f) \union Stamps(p) \union Stamps(q) : y < x
    BY <1>1, <2>1 DEF DepthInv
  <2>3. x \notin Stamps(f) \union Stamps(p) \union Stamps(q)
    BY <2>1, <2>2
  <2>4. Distinct(Append(q, x)) /\ Stamps(Append(q, x)) = Stamps(q) \union {x}
    BY <1>1, <2>3, DistinctAppend
  <2>5. \A y \in Stamps(f) \union Stamps(p) \union Stamps(q) \union {x} : y <= x
    BY <2>1, <2>2
  <2> QED BY <1>1, <2>3, <2>4, <2>5 DEF DepthInv
<1>2. CASE Len(d) < max
  BY <1>1, <1>2 DEF AppendBounded, DepthInv
<1>3. CASE ~(Len(d) < max)
  <2>1. d # <<>>
    BY <1>3
  <2>2. Distinct(Tail(d)) /\ Stamps(Tail(d)) \subseteq Stamps(d) /\ Tail(d) \in Seq(Int)
    BY <2>1, DistinctTail, TailType DEF DepthInv
  <2> QED BY <1>1, <1>3, <2>2 DEF AppendBounded
<1> QED BY <1>2, <1>3

LEMMA DepthPaired ==
    ASSUME NEW f \in Seq(Int), NEW p \in Seq(Int), NEW d \in Seq(Int), NEW m \in Int,
           DepthInv(f, p, d, m), NEW i \in DOMAIN d
    PROVE  DepthInv(f, Append(p, d[i]), Without(d, i), m) /\ DepthInv(f, p, Without(d, i), m)
<1>1. /\ Distinct(Without(d, i)) /\ Stamps(Without(d, i)) \subseteq Stamps(d)
      /\ d[i] \notin Stamps(Without(d, i)) /\ d[i] \in Stamps(d) /\ d[i] \in Int
  BY DistinctWithout DEF DepthInv
<1>2. Distinct(Append(p, d[i])) /\ Stamps(Append(p, d[i])) = Stamps(p) \union {d[i]}
  BY <1>1, DistinctAppend DEF DepthInv
<1> QED BY <1>1, <1>2 DEF DepthInv

LEMMA DepthDropped ==
    ASSUME NEW f \in Seq(Int), NEW p \in Seq(Int), NEW d \in Seq(Int), NEW m \in Int,
           DepthInv(f, p, d, m), d # <<>>
    PROVE  DepthInv(f, p, Tail(d), m)
<1>1. Distinct(Tail(d)) /\ Stamps(Tail(d)) \subseteq Stamps(d)
  BY DistinctTail DEF DepthInv
<1> QED BY <1>1 DEF DepthInv

LEMMA DepthWritten ==
    ASSUME NEW f \in Seq(Int), NEW p \in Seq(Int), NEW d \in Seq(Int), NEW m \in Int,
           DepthInv(f, p, d, m), p # <<>>
    PROVE  DepthInv(Append(f, p[1]), Tail(p), d, m) /\ DepthInv(f, Tail(p), d, m)
<1>1. /\ Distinct(Tail(p)) /\ Stamps(Tail(p)) \subseteq Stamps(p)
      /\ p[1] \notin Stamps(Tail(p)) /\ p[1] \in Stamps(p) /\ p[1] \in Int
  BY DistinctTail, TailType DEF DepthInv
<1>2. Distinct(Append(f, p[1])) /\ Stamps(Append(f, p[1])) = Stamps(f) \union {p[1]}
  BY <1>1, DistinctAppend DEF DepthInv
<1> QED BY <1>1, <1>2 DEF DepthInv

-----------------------------------------------------------------------------
(* The images of the engine                                                *)

Colors(s) == [i \in DOMAIN s |-> s[i].rgb]
Depths(s) == [i \in DOMAIN s |-> s[i].dep]
Stamped(s) == [i \in DOMAIN s |-> s[i].stamp]

ImagesInv ==
    /\ ColorInv(Colors(frames), Colors(pending), rgbs, last["rgb"])
    /\ DepthInv(Depths(frames), Depths(pending), Stamped(depths), last["depth"])

\* Groups and pairs are known by two stamps, in the order of their queue.
LEMMA ColorsOf ==
    ASSUME NEW S, \A x \in S : x.rgb \in Int, NEW s \in Seq(S)
    PROVE  /\ Colors(s) \in Seq(Int) /\ Len(Colors(s)) = Len(s)
           /\ \A x \in S : Colors(Append(s, x)) = Append(Colors(s), x.rgb)
           /\ s # <<>> => /\ Colors(s) # <<>> /\ Colors(s)[1] = s[1].rgb
                          /\ Colors(Tail(s)) = Tail(Colors(s))
BY DEF Colors

LEMMA DepthsOf ==
    ASSUME NEW S, \A x \in S : x.dep \in Int, NEW s \in Seq(S)
    PROVE  /\ Depths(s) \in Seq(Int) /\ Len(Depths(s)) = Len(s)
           /\ \A x \in S : Depths(Append(s, x)) = Append(Depths(s), x.dep)
           /\ s # <<>> => /\ Depths(s) # <<>> /\ Depths(s)[1] = s[1].dep
                          /\ Depths(Tail(s)) = Tail(Depths(s))
BY DEF Depths

LEMMA StampedOf ==
    ASSUME NEW S, \A x \in S : x.stamp \in Int, NEW s \in Seq(S)
    PROVE  /\ Stamped(s) \in Seq(Int) /\ Len(Stamped(s)) = Len(s)
           /\ \A x \in S : Stamped(Append(s, x)) = Append(Stamped(s), x.stamp)
           /\ s # <<>> => /\ Stamped(s) # <<>> /\ Stamped(s)[1] = s[1].stamp
                          /\ Stamped(Tail(s)) = Tail(Stamped(s))
           /\ \A i \in DOMAIN s : i \in DOMAIN Stamped(s) /\ Stamped(s)[i] = s[i].stamp
                /\ Stamped(Without(s, i)) = Without(Stamped(s), i)
<1>1. /\ Stamped(s) \in Seq(Int) /\ Len(Stamped(s)) = Len(s)
      /\ \A i \in DOMAIN s : i \in DOMAIN Stamped(s) /\ Stamped(s)[i] = s[i].stamp
  BY DEF Stamped
<1>2. /\ \A x \in S : Stamped(Append(s, x)) = Append(Stamped(s), x.stamp)
      /\ s # <<>> => /\ Stamped(s) # <<>> /\ Stamped(s)[1] = s[1].stamp
                     /\ Stamped(Tail(s)) = Tail(Stamped(s))
  BY DEF Stamped
<1>3. ASSUME NEW i \in DOMAIN s
      PROVE  Stamped(Without(s, i)) = Without(Stamped(s), i)
  <2>1. /\ Without(s, i) \in Seq(S) /\ Len(Without(s, i)) = Len(s) - 1
        /\ \A k \in DOMAIN Without(s, i) :
             LET m == IF k < i THEN k ELSE k + 1
             IN  m \in DOMAIN s /\ Without(s, i)[k] = s[m]
    BY WithoutElements
  <2>2. /\ Without(Stamped(s), i) \in Seq(Int) /\ Len(Without(Stamped(s), i)) = Len(s) - 1
        /\ \A k \in DOMAIN Without(Stamped(s), i) :
             LET m == IF k < i THEN k ELSE k + 1
             IN  m \in DOMAIN Stamped(s) /\ Without(Stamped(s), i)[k] = Stamped(s)[m]
    <3>1. Len(Stamped(s)) = Len(s) /\ Stamped(s) \in Seq(Int) /\ i \in DOMAIN Stamped(s)
      BY <1>1
    <3>2. \A u \in Seq(Int) : \A j \in DOMAIN u :
            /\ Without(u, j) \in Seq(Int) /\ Len(Without(u, j)) = Len(u) - 1
            /\ \A k \in DOMAIN Without(u, j) :
                 LET m == IF k < j THEN k ELSE k + 1
                 IN  m \in DOMAIN u /\ Without(u, j)[k] = u[m]
      BY WithoutElements
    <3> QED BY ONLY <3>1, <3>2
  <2> DEFINE w == Without(s, i)
             v == Without(Stamped(s), i)
  <2> HIDE DEF w, v
  <2>3. DOMAIN w = DOMAIN v /\ v = [k \in DOMAIN v |-> v[k]]
    BY <2>1, <2>2 DEF w, v
  <2>4. \A k \in DOMAIN v : v[k] = w[k].stamp
    BY <1>1, <2>1, <2>2, <2>3 DEF w, v
  <2>5. Stamped(w) = v
    BY <2>3, <2>4 DEF Stamped
  <2> QED BY <2>5 DEF w, v
<1> QED BY <1>1, <1>2, <1>3

\* The fields of what the engine holds.
LEMMA ImageTypes ==
    ASSUME TypeOK
    PROVE  /\ \A x \in Frames : x.rgb \in Int /\ x.dep \in Int
           /\ \A x \in Pairs : x.rgb \in Int /\ x.dep \in Int
           /\ \A x \in Images : x.stamp \in Int
           /\ frames \in Seq(Frames) /\ pending \in Seq(Pairs)
           /\ depths \in Seq(Images) /\ rgbs \in Seq(Int)
           /\ last["rgb"] \in Int /\ last["depth"] \in Int
<1>1. RgbStamps \subseteq Int /\ DepthStamps \subseteq Int
  BY StampsAssumption
<1>2. /\ frames \in Seq(Frames) /\ pending \in Seq(Pairs) /\ depths \in Seq(Images)
      /\ rgbs \in Seq(RgbStamps)
  BY Zenon DEF TypeOK
<1>3. rgbs \in Seq(Int)
  BY <1>1, <1>2, SeqMonotonic
<1>4. last["rgb"] \in Int /\ last["depth"] \in Int
  BY DEF TypeOK
<1> QED BY <1>1, <1>2, <1>3, <1>4 DEF Frames, Pairs, Images

\* The stamps of what is appended to pending, to the bag and to the depth images.
LEMMA FieldsAppended ==
    ASSUME TypeOK
    PROVE  /\ \A x \in Frames : /\ Colors(Append(frames, x)) = Append(Colors(frames), x.rgb)
                                /\ Depths(Append(frames, x)) = Append(Depths(frames), x.dep)
           /\ \A x \in Pairs : /\ Colors(Append(pending, x)) = Append(Colors(pending), x.rgb)
                               /\ Depths(Append(pending, x)) = Append(Depths(pending), x.dep)
           /\ \A x \in Images : \A s \in Seq(Images) :
                Stamped(Append(s, x)) = Append(Stamped(s), x.stamp)
<1>1. \A x \in Frames : Colors(Append(frames, x)) = Append(Colors(frames), x.rgb)
  BY ImageTypes, ColorsOf
<1>2. \A x \in Frames : Depths(Append(frames, x)) = Append(Depths(frames), x.dep)
  BY ImageTypes, DepthsOf
<1>3. \A x \in Pairs : Colors(Append(pending, x)) = Append(Colors(pending), x.rgb)
  BY ImageTypes, ColorsOf
<1>4. \A x \in Pairs : Depths(Append(pending, x)) = Append(Depths(pending), x.dep)
  BY ImageTypes, DepthsOf
<1>5. \A s \in Seq(Images) : \A x \in Images : Stamped(Append(s, x)) = Append(Stamped(s), x.stamp)
  <2> SUFFICES ASSUME NEW s \in Seq(Images)
               PROVE  \A x \in Images : Stamped(Append(s, x)) = Append(Stamped(s), x.stamp)
    OBVIOUS
  <2> QED BY ImageTypes, StampedOf
<1> QED BY <1>1, <1>2, <1>3, <1>4, <1>5

LEMMA FreshStep ==
    ASSUME TypeOK, NEW t \in {"rgb", "depth", "odom"}, NEW s \in Nat, Fresh(t, s)
    PROVE  /\ last'[t] = s /\ last[t] < s
           /\ \A u \in {"rgb", "depth", "odom"} \ {t} : last'[u] = last[u]
BY DEF TypeOK, Fresh, BadStamp

\* Only these steps move an image.
Moves == \/ \E w \in Walls, s \in RgbStamps : IngestRgb(s, w)
         \/ \E w \in Walls, m \in Images : IngestDepth(m, w)
         \/ PairFound \/ PairFails \/ DrainDrops \/ DrainWrites

LEMMA ImagesUntouched ==
    ASSUME TypeOK, [Next]_vars, ~Moves
    PROVE  /\ UNCHANGED <<frames, pending, rgbs, depths, accepted>>
           /\ last'["rgb"] = last["rgb"] /\ last'["depth"] = last["depth"]
<1> USE DEF vars, inputs, outputs, history
<1>1. ASSUME NEW w \in Walls, NEW s \in OdomStamps, NEW f \in BOOLEAN, IngestOdom(s, f, w)
      PROVE  /\ UNCHANGED <<frames, pending, rgbs, depths, accepted>>
             /\ last'["rgb"] = last["rgb"] /\ last'["depth"] = last["depth"]
  BY <1>1 DEF IngestOdom, Reject, Duplicate, Fresh, TypeOK
<1>2. ASSUME NEW w \in Walls, NEW t \in {"rgb", "depth"}, NEW m \in Infos, IngestInfo(t, m, w)
      PROVE  UNCHANGED <<frames, pending, rgbs, depths, accepted, last>>
  BY <1>2 DEF IngestInfo
<1>3. ASSUME NEW w \in Walls, NEW e \in MaybeExtrinsic, NEW v \in BOOLEAN, IngestStatic(e, v, w)
      PROVE  UNCHANGED <<frames, pending, rgbs, depths, accepted, last>>
  BY <1>3 DEF IngestStatic
<1>4. CASE \/ \E w \in Walls : Poll(w) \/ \E kind \in TfKinds : IngestTf(kind, w)
           \/ Finish \/ Terminated \/ UNCHANGED vars
  BY <1>4 DEF Poll, IngestTf, Finish, Terminated
<1>5. CASE PairReturns \/ DrainHolds \/ DrainRaises \/ DrainReturns
  BY <1>5 DEF PairReturns, DrainHolds, DrainRaises, DrainReturns
<1> QED BY <1>1, <1>2, <1>3, <1>4, <1>5 DEF Next, Ingest, Moves, Pair, Drain

\* The group that drain writes.
LEMMA WrittenGroup ==
    ASSUME TypeOK, DrainWrites
    PROVE  \E j \in UsableBrackets(Target(pending[1])), f \in Frames :
             /\ frames' = Append(frames, f)
             /\ f.index = Len(frames) /\ f.rgb = pending[1].rgb /\ f.dep = pending[1].dep
             /\ f.before = odoms[j - 1] /\ f.after = odoms[j] /\ f.ext = extrinsic
<1>1. PICK j \in UsableBrackets(Target(pending[1])), i \in InfoFor("rgb", pending[1].rgb) :
        frames' = Append(frames, Group(pending[1], j, i))
  BY DEF DrainWrites
<1>2. /\ pending[1] \in Pairs /\ extrinsic \in Extrinsics
  BY DEF DrainWrites, Draining, Complete, TypeOK, MaybeExtrinsic
<1>3. j \in 2 .. Len(odoms) /\ i \in DOMAIN infos["rgb"]
  BY <1>1 DEF UsableBrackets, Brackets, InfoFor
<1>4. j \in Nat /\ j - 1 \in DOMAIN odoms /\ j \in DOMAIN odoms
  BY <1>3, SequenceTypes
<1>5. Group(pending[1], j, i) \in Frames
  BY <1>2, <1>3, <1>4, SequenceTypes, GroupType DEF Group
<1> QED BY <1>1, <1>5 DEF Group

LEMMA ImagesStep ==
    ASSUME TypeOK, ImagesInv, [Next]_vars
    PROVE  ImagesInv'
<1> USE DEF inputs, outputs, history
<1> DEFINE fc == Colors(frames)  pc1 == Colors(pending)
           fd == Depths(frames)  pd == Depths(pending)  dd == Stamped(depths)
<1>0. /\ fc \in Seq(Int) /\ pc1 \in Seq(Int) /\ fd \in Seq(Int) /\ pd \in Seq(Int)
      /\ dd \in Seq(Int) /\ rgbs \in Seq(Int) /\ last["rgb"] \in Int /\ last["depth"] \in Int
      /\ Len(pc1) = Len(pending) /\ Len(dd) = Len(depths) /\ Len(pd) = Len(pending)
  BY ImageTypes, ColorsOf, DepthsOf, StampedOf
<1>1. ASSUME NEW w \in Walls, NEW s \in RgbStamps, IngestRgb(s, w)
      PROVE  ImagesInv'
  <2>1. CASE Fresh("rgb", s) /\ rgbs' = AppendBounded(rgbs, s, ImageBuffer)
    <3>1. /\ UNCHANGED <<frames, pending, depths>> /\ last'["rgb"] = s /\ last["rgb"] < s
          /\ last'["depth"] = last["depth"] /\ s \in Int
      <4>1. s \in Nat /\ s \in Int
        BY StampsAssumption
      <4>2. last'["rgb"] = s /\ last["rgb"] < s /\ last'["depth"] = last["depth"]
        BY <2>1, <4>1, FreshStep
      <4>3. last["rgb"] < s => ~Reject("rgb", s) /\ ~Duplicate("rgb", s)
        BY <2>1 DEF Reject, Duplicate, Fresh
      <4> QED BY <1>1, <4>1, <4>2, <4>3 DEF IngestRgb
    <3>2. ColorInv(fc, pc1, AppendBounded(rgbs, s, ImageBuffer), s)
      BY <1>0, <3>1, ColorArrives, ConfigAssumption DEF ImagesInv
    <3> QED BY <2>1, <3>1, <3>2 DEF ImagesInv
  <2>2. CASE UNCHANGED <<frames, pending, rgbs, depths, last>>
    BY <2>2 DEF ImagesInv
  <2> QED BY <1>1, <2>1, <2>2 DEF IngestRgb, Reject, Duplicate
<1>2. ASSUME NEW w \in Walls, NEW m \in Images, IngestDepth(m, w)
      PROVE  ImagesInv'
  <2>1. CASE Fresh("depth", m.stamp) /\ depths' = AppendBounded(depths, m, ImageBuffer)
    <3>1. /\ UNCHANGED <<frames, pending, rgbs>> /\ last'["depth"] = m.stamp
          /\ last["depth"] < m.stamp /\ last'["rgb"] = last["rgb"] /\ m.stamp \in Int
      <4>1. m.stamp \in Nat /\ m.stamp \in Int
        <5>1. m.stamp \in DepthStamps
          BY DEF Images
        <5>2. \A t \in DepthStamps : t \in Nat /\ t \in Int
          BY StampsAssumption
        <5> QED BY <5>1, <5>2
      <4>2. /\ last'["depth"] = m.stamp /\ last["depth"] < m.stamp
            /\ last'["rgb"] = last["rgb"]
        BY <2>1, <4>1, FreshStep
      <4>3. ~Reject("depth", m.stamp) /\ ~Duplicate("depth", m.stamp)
        BY <2>1 DEF Reject, Duplicate, Fresh
      <4> QED BY <1>2, <4>1, <4>2, <4>3 DEF IngestDepth
    <3>2. DepthInv(fd, pd, AppendBounded(dd, m.stamp, ImageBuffer), m.stamp)
      BY <1>0, <3>1, DepthArrives, ConfigAssumption DEF ImagesInv
    <3>3. Stamped(depths') = AppendBounded(dd, m.stamp, ImageBuffer)
      <4>1. CASE Len(depths) < ImageBuffer
        BY <1>0, <2>1, <4>1, ImageTypes, FieldsAppended DEF AppendBounded
      <4>2. CASE ~(Len(depths) < ImageBuffer)
        <5>1. depths # <<>>
          BY <4>2, ConfigAssumption
        <5>2. Tail(depths) \in Seq(Images) /\ Stamped(Tail(depths)) = Tail(dd)
          <6>1. depths \in Seq(Images) /\ depths # <<>>
            BY <5>1, ImageTypes
          <6>2. \A x \in Images : x.stamp \in Int
            BY ImageTypes
          <6>3. Stamped(Tail(depths)) = Tail(Stamped(depths))
            BY <6>1, <6>2, StampedOf
          <6>4. Tail(depths) \in Seq(Images)
            BY ONLY <6>1
          <6> QED BY <6>3, <6>4
        <5>3. Stamped(Append(Tail(depths), m)) = Append(Tail(dd), m.stamp)
          <6> DEFINE t == Tail(depths)
          <6> HIDE DEF t
          <6>1. Stamped(Append(t, m)) = Append(Stamped(t), m.stamp)
            BY <5>2, FieldsAppended DEF t
          <6> QED BY ONLY <5>2, <6>1 DEF t
        <5>4. depths' = Append(Tail(depths), m)
          BY <2>1, <4>2 DEF AppendBounded
        <5>5. AppendBounded(dd, m.stamp, ImageBuffer) = Append(Tail(dd), m.stamp)
          <6>1. Len(dd) = Len(depths)
            BY <1>0
          <6> QED BY <4>2, <6>1 DEF AppendBounded
        <5> QED BY <5>3, <5>4, <5>5
      <4> QED BY <4>1, <4>2
    <3> QED BY <2>1, <3>1, <3>2, <3>3 DEF ImagesInv
  <2>2. CASE UNCHANGED <<frames, pending, rgbs, depths, last>>
    BY <2>2 DEF ImagesInv
  <2> QED BY <1>2, <2>1, <2>2 DEF IngestDepth, Reject, Duplicate
<1>3. CASE PairFound
  <2>1. PICK i \in DOMAIN depths :
          /\ depths' = Without(depths, i) /\ rgbs' = Tail(rgbs) /\ rgbs # <<>>
          /\ UNCHANGED <<frames, last>>
          /\ \/ pending' = pending
             \/ pending' = Append(pending, [rgb |-> rgbs[1], dep |-> depths[i].stamp,
                                            ok |-> depths[i].ok, wall |-> call.wall])
    BY <1>3 DEF PairFound
  <2>2. /\ Stamped(depths') = Without(dd, i) /\ i \in DOMAIN dd /\ dd[i] = depths[i].stamp
    BY <2>1, ImageTypes, StampedOf
  <2>3. /\ ColorInv(fc, Append(pc1, rgbs[1]), Tail(rgbs), last["rgb"])
        /\ ColorInv(fc, pc1, Tail(rgbs), last["rgb"])
    BY <1>0, <2>1, ColorPaired DEF ImagesInv
  <2>4. /\ DepthInv(fd, Append(pd, dd[i]), Without(dd, i), last["depth"])
        /\ DepthInv(fd, pd, Without(dd, i), last["depth"])
    BY <1>0, <2>2, DepthPaired DEF ImagesInv
  <2>5. CASE pending' = pending
    BY <2>1, <2>2, <2>3, <2>4, <2>5 DEF ImagesInv
  <2>6. CASE pending' # pending
    <3> DEFINE p == [rgb |-> rgbs[1], dep |-> depths[i].stamp, ok |-> depths[i].ok,
                     wall |-> call.wall]
    <3>1. p \in Pairs /\ p.rgb = rgbs[1] /\ p.dep = dd[i] /\ pending' = Append(pending, p)
      <4>1. rgbs[1] \in RgbStamps /\ depths[i] \in Images /\ call.wall \in Walls
        BY <2>1 DEF TypeOK
      <4> QED BY <2>1, <2>2, <2>6, <4>1 DEF Pairs, Images
    <3> HIDE DEF p
    <3>2. Colors(pending') = Append(pc1, rgbs[1]) /\ Depths(pending') = Append(pd, dd[i])
      BY <3>1, FieldsAppended
    <3> QED BY <2>1, <2>2, <2>3, <2>4, <3>2 DEF ImagesInv
  <2> QED BY <2>5, <2>6
<1>4. CASE PairFails
  <2>1. UNCHANGED <<frames, pending, last>> /\ depths # <<>> /\ rgbs # <<>>
    BY <1>4 DEF PairFails
  <2>2. CASE depths' = Tail(depths) /\ rgbs' = rgbs
    <3>1. Stamped(depths') = Tail(dd) /\ dd # <<>>
      BY <2>1, <2>2, ImageTypes, StampedOf
    <3> QED BY <1>0, <2>1, <2>2, <3>1, DepthDropped DEF ImagesInv
  <2>3. CASE rgbs' = Tail(rgbs) /\ depths' = depths
    BY <1>0, <2>1, <2>3, ColorPaired DEF ImagesInv
  <2> QED BY <1>4, <2>2, <2>3 DEF PairFails
<1>5. CASE DrainDrops \/ DrainWrites
  <2>1. /\ pending # <<>> /\ pending' = Tail(pending) /\ UNCHANGED <<rgbs, depths, last>>
    BY <1>5 DEF DrainDrops, DrainWrites, Draining
  <2>2. /\ Colors(pending') = Tail(pc1) /\ pc1 # <<>> /\ pc1[1] = pending[1].rgb
        /\ Depths(pending') = Tail(pd) /\ pd # <<>> /\ pd[1] = pending[1].dep
    BY <2>1, ImageTypes, ColorsOf, DepthsOf
  <2>3. /\ ColorInv(Append(fc, pc1[1]), Tail(pc1), rgbs, last["rgb"])
        /\ ColorInv(fc, Tail(pc1), rgbs, last["rgb"])
    BY <1>0, <2>2, ColorWritten DEF ImagesInv
  <2>4. /\ DepthInv(Append(fd, pd[1]), Tail(pd), dd, last["depth"])
        /\ DepthInv(fd, Tail(pd), dd, last["depth"])
    BY <1>0, <2>2, DepthWritten DEF ImagesInv
  <2>5. CASE DrainDrops
    BY <2>1, <2>2, <2>3, <2>4, <2>5 DEF ImagesInv, DrainDrops
  <2>6. CASE DrainWrites
    <3>1. PICK f \in Frames : /\ frames' = Append(frames, f)
                              /\ f.rgb = pending[1].rgb /\ f.dep = pending[1].dep
      BY <2>6, WrittenGroup
    <3>2. Colors(frames') = Append(fc, pc1[1]) /\ Depths(frames') = Append(fd, pd[1])
      BY <2>2, <3>1, FieldsAppended
    <3> QED BY <2>1, <2>2, <2>3, <2>4, <3>2 DEF ImagesInv
  <2> QED BY <1>5, <2>5, <2>6
<1>6. CASE ~Moves
  BY <1>6, ImagesUntouched DEF ImagesInv
<1> QED BY <1>1, <1>2, <1>3, <1>4, <1>5, <1>6 DEF Moves

-----------------------------------------------------------------------------
(* The groups                                                              *)

Near(x) == x.dep - x.rgb <= Slop /\ x.rgb - x.dep <= Slop

\* Pairs are near, and groups are numbered and share the geometry that was accepted.
GroupsInv ==
    /\ \A k \in DOMAIN pending : Near(pending[k])
    /\ \A n \in DOMAIN frames : /\ Near(frames[n]) /\ frames[n].index = n - 1
                                /\ frames[n].ext = accepted /\ accepted \in Extrinsics

LEMMA PairIsNear ==
    ASSUME NEW a \in Int, NEW b \in Int, Abs(a - b) <= Slop
    PROVE  a - b <= Slop /\ b - a <= Slop
BY ConfigAssumption DEF Abs

LEMMA GroupsStep ==
    ASSUME TypeOK, GroupsInv, [Next]_vars
    PROVE  GroupsInv'
<1> USE DEF inputs, outputs, history
<1>0. frames \in Seq(Frames) /\ pending \in Seq(Pairs)
  BY ImageTypes
<1>1. CASE PairFound
  <2>1. PICK i \in DOMAIN depths :
          /\ Distance(i) <= Slop /\ UNCHANGED <<frames, accepted>> /\ rgbs # <<>>
          /\ \/ pending' = pending
             \/ pending' = Append(pending, [rgb |-> rgbs[1], dep |-> depths[i].stamp,
                                            ok |-> depths[i].ok, wall |-> call.wall])
    BY <1>1 DEF PairFound
  <2>2. CASE pending' = pending
    BY <2>1, <2>2 DEF GroupsInv
  <2>3. CASE pending' # pending
    <3> DEFINE p == [rgb |-> rgbs[1], dep |-> depths[i].stamp, ok |-> depths[i].ok,
                     wall |-> call.wall]
    <3>1. p \in Pairs /\ p.rgb = rgbs[1] /\ p.dep = depths[i].stamp
      <4>1. rgbs[1] \in RgbStamps /\ depths[i] \in Images /\ call.wall \in Walls
        BY <2>1 DEF TypeOK
      <4> QED BY <4>1 DEF Pairs, Images
    <3>2. pending' = Append(pending, p)
      BY <2>1, <2>3
    <3> HIDE DEF p
    <3>3. p.rgb \in Int /\ p.dep \in Int
      BY <3>1, ImageTypes
    <3>4. Near(p)
      <4>1. Abs(p.dep - p.rgb) <= Slop
        BY <2>1, <3>1 DEF Distance
      <4> QED BY <3>3, <4>1, PairIsNear DEF Near
    <3>5. \A k \in DOMAIN Append(pending, p) :
            \/ k \in DOMAIN pending /\ Append(pending, p)[k] = pending[k]
            \/ Append(pending, p)[k] = p
      BY <1>0, <3>1, AppendElements
    <3>6. \A k \in DOMAIN pending' : Near(pending'[k])
      BY <3>2, <3>4, <3>5 DEF GroupsInv
    <3> QED BY <2>1, <3>6 DEF GroupsInv, Near
  <2> QED BY <2>2, <2>3
<1>2. ASSUME DrainDrops \/ DrainWrites
      PROVE  /\ \A k \in DOMAIN pending' : Near(pending'[k])
             /\ Near(pending[1])
  <2>1. pending # <<>> /\ pending' = Tail(pending)
    BY <1>2 DEF DrainDrops, DrainWrites, Draining
  <2>2. \A k \in DOMAIN pending' : k + 1 \in DOMAIN pending /\ pending'[k] = pending[k + 1]
    BY <1>0, <2>1, TailElements
  <2>3. 1 \in DOMAIN pending
    BY <1>0, <2>1, TailElements
  <2> QED BY <2>2, <2>3 DEF GroupsInv
<1>3. CASE DrainDrops
  BY <1>2, <1>3 DEF DrainDrops, GroupsInv, Near
<1>4. CASE DrainWrites
  <2>1. PICK f \in Frames :
          /\ frames' = Append(frames, f) /\ f.index = Len(frames) /\ f.ext = extrinsic
          /\ f.rgb = pending[1].rgb /\ f.dep = pending[1].dep
    BY <1>4, WrittenGroup
  <2>2. accepted' = extrinsic /\ extrinsic \in Extrinsics
    BY <1>4 DEF DrainWrites, Complete, TypeOK, MaybeExtrinsic
  <2>3. \A n \in DOMAIN frames : frames[n].ext = accepted'
    BY <1>4, <2>2, ConfigAssumption DEF DrainWrites, GroupsInv
  <2>4. Near(f)
    BY <1>2, <1>4, <2>1 DEF Near
  <2>5. \A n \in DOMAIN Append(frames, f) :
          \/ n \in DOMAIN frames /\ Append(frames, f)[n] = frames[n]
          \/ n = Len(frames) + 1 /\ Append(frames, f)[n] = f
    BY <1>0, AppendElements
  <2>6. ASSUME NEW n \in DOMAIN frames'
        PROVE  /\ Near(frames'[n]) /\ frames'[n].index = n - 1 /\ frames'[n].ext = accepted'
    <3>1. CASE n \in DOMAIN frames /\ frames'[n] = frames[n]
      BY <2>3, <3>1 DEF GroupsInv
    <3>2. CASE n = Len(frames) + 1 /\ frames'[n] = f
      <4>1. Len(frames) \in Nat
        BY <1>0
      <4> QED BY <2>1, <2>2, <2>4, <3>2, <4>1
    <3> QED BY <2>1, <2>5, <2>6, <3>1, <3>2
  <2> QED BY <1>2, <1>4, <2>2, <2>6 DEF GroupsInv, Near
<1>5. CASE ~PairFound /\ ~DrainDrops /\ ~DrainWrites
  <2>1. UNCHANGED <<frames, pending, accepted>>
    BY <1>5, ImagesUntouched DEF Moves, IngestRgb, IngestDepth, PairFails, Reject, Duplicate
  <2> QED BY <2>1 DEF GroupsInv, Near
<1> QED BY <1>1, <1>3, <1>4, <1>5

BagInv == TypeOK /\ OdomInv /\ FramesInv /\ ImagesInv /\ GroupsInv

\* The inductive invariant of the bag: where the images are, and what the groups share.
THEOREM BagInvariant == Spec => []BagInv
<1>1. Init => ImagesInv /\ GroupsInv
  <2> SUFFICES ASSUME Init  PROVE ImagesInv /\ GroupsInv
    OBVIOUS
  <2>1. /\ frames = <<>> /\ pending = <<>> /\ rgbs = <<>> /\ depths = <<>>
    BY DEF Init
  <2>2. Stamps(<<>>) = {} /\ Colors(<<>>) = <<>> /\ Depths(<<>>) = <<>> /\ Stamped(<<>>) = <<>>
    BY DEF Stamps, Colors, Depths, Stamped
  <2>3. ImagesInv
    BY <2>1, <2>2 DEF ImagesInv, ColorInv, DepthInv, Increasing, Distinct, Below
  <2> QED BY <2>1, <2>3 DEF GroupsInv
<1>2. TypeOK /\ ImagesInv /\ GroupsInv /\ [Next]_vars => (ImagesInv /\ GroupsInv)'
  BY ImagesStep, GroupsStep
<1> QED BY <1>1, <1>2, OdometryInvariant, PTL DEF Spec, BagInv

-----------------------------------------------------------------------------
(* The properties                                                          *)

\* When nothing has raised, check_bag rejects a bag with a group for two reasons only: its
\* /tf lacks a good world-to-body edge, or the static geometry is no longer the one of the
\* groups (ingest, drain, _make_group).
THEOREM BagsValidate == Spec => []BagValidates
<1>1. BagInv => BagValidates
  <2> SUFFICES ASSUME BagInv, ~raised, frames # <<>>
               PROVE  CheckBag(odomLog, frames, extrinsic, tf) <=> tf = "edge" /\ extrinsic = accepted
    BY DEF BagValidates
  <2>1. /\ odomLog \in Seq(Int) /\ frames \in Seq(Frames) /\ Ordered(odomLog, last["odom"])
    BY OdomTypes, ImageTypes DEF BagInv, OdomInv, OdomQueue
  <2>2. Increasing(odomLog)
    BY <2>1 DEF Ordered, Increasing
  <2>3. Increasing([n \in DOMAIN frames |-> frames[n].rgb])
    BY DEF BagInv, ImagesInv, ColorInv, Colors
  <2>4. ASSUME NEW n \in DOMAIN frames
        PROVE  FrameChecks(frames[n], n, odomLog, accepted)
    <3> DEFINE f == frames[n]
    <3>1. PICK b \in 2 .. Len(odomLog) :
            /\ f.before = odomLog[b - 1] /\ f.after = odomLog[b]
            /\ f.before <= f.rgb + Offset /\ f.rgb + Offset <= f.after
            /\ f.after - f.before <= MaxOdomGap
      <4>1. n \in 1 .. Len(frames)
        BY <2>1
      <4> QED BY <4>1 DEF BagInv, FramesInv, Bag!Between
    <3>2. b \in 1 .. Len(odomLog) /\ b - 1 \in 1 .. Len(odomLog) /\ b - 1 < b
      BY <2>1
    <3>3. f.before < f.after
      BY <2>1, <3>1, <3>2 DEF Ordered
    <3>4. {f.before, f.after} \subseteq Stamps(odomLog)
      BY <2>1, <3>1, <3>2 DEF Stamps
    <3>5. f \in Frames
      BY <2>1
    <3>6. f.rgb \in Int /\ f.dep \in Int
      BY <3>5, ImageTypes DEF BagInv
    <3>7. f.dep - f.rgb <= Slop /\ f.rgb - f.dep <= Slop /\ f.index = n - 1 /\ f.ext = accepted
      BY DEF BagInv, GroupsInv, Near
    <3> HIDE DEF f
    <3>8. Abs(f.dep - f.rgb) <= Slop
      BY <3>6, <3>7 DEF Abs
    <3>9. FrameChecks(f, n, odomLog, accepted)
      BY <3>1, <3>3, <3>4, <3>7, <3>8 DEF FrameChecks
    <3> QED BY <3>9 DEF f
  <2>5. 1 \in DOMAIN frames /\ frames[1].ext = accepted /\ accepted # NoExtrinsic
    <3>1. 1 \in DOMAIN frames
      BY <2>1
    <3>2. frames[1] \in Frames
      BY <2>1
    <3> QED BY <3>1, <3>2, ConfigAssumption DEF BagInv, GroupsInv, Frames
  <2>6. ASSUME tf = "edge", extrinsic = accepted
        PROVE  CheckBag(odomLog, frames, extrinsic, tf)
    BY <2>2, <2>3, <2>4, <2>5, <2>6 DEF CheckBag
  <2>7. ASSUME CheckBag(odomLog, frames, extrinsic, tf)
        PROVE  tf = "edge" /\ extrinsic = accepted
    BY <2>5, <2>7 DEF CheckBag, FrameChecks
  <2> QED BY <2>6, <2>7
<1> QED BY <1>1, BagInvariant, PTL

\* The engine implements FrameLog: each step is a step of it or leaves the bag alone.
THEOREM ImplementsFrameLog == Spec => WritesFrameLog
<1>1. Init => Bag!Init
  BY DEF Init, Bag!Init
<1>2. BagInv /\ BagInv' /\ [Next]_vars
        => [Bag!RecordOdometry \/ Bag!RecordGroup]_<<odomLog, frames>>
  <2> SUFFICES ASSUME BagInv, BagInv', [Next]_vars
               PROVE  [Bag!RecordOdometry \/ Bag!RecordGroup]_<<odomLog, frames>>
    OBVIOUS
  <2>1. ASSUME NEW w \in Walls, NEW s \in OdomStamps, NEW f \in BOOLEAN, IngestOdom(s, f, w)
        PROVE  [Bag!RecordOdometry \/ Bag!RecordGroup]_<<odomLog, frames>>
    <3>1. CASE odomLog' = odomLog
      BY <2>1, <3>1 DEF IngestOdom, Reject, Duplicate, history, outputs
    <3>2. CASE odomLog' # odomLog
      <4>1. odomLog' = Append(odomLog, s) /\ Fresh("odom", s) /\ frames' = frames
        BY <2>1, <3>2 DEF IngestOdom, Reject, Duplicate, history, outputs
      <4>2. s \in Nat /\ s \in Int
        BY StampsAssumption
      <4>3. last["odom"] < s
        BY <4>1, <4>2, FreshStep DEF BagInv
      <4>4. /\ odomLog \in Seq(Int) /\ last["odom"] \in Int
            /\ \A k \in 1 .. Len(odomLog) : odomLog[k] <= last["odom"]
        BY OdomTypes DEF BagInv, OdomInv, OdomQueue, Ordered
      <4>5. \A k \in DOMAIN odomLog : odomLog[k] < s
        BY <4>2, <4>3, <4>4
      <4>6. odomLog' # <<>> /\ odomLog'[Len(odomLog')] = s
        BY <4>1, <4>2, <4>4
      <4> QED BY <4>1, <4>5, <4>6 DEF Bag!RecordOdometry
    <3> QED BY <3>1, <3>2
  <2>2. CASE DrainWrites
    <3>1. PICK j \in UsableBrackets(Target(pending[1])), f \in Frames :
            /\ frames' = Append(frames, f) /\ f.index = Len(frames)
      BY <2>2, WrittenGroup DEF BagInv
    <3>2. odomLog' = odomLog /\ frames \in Seq(Frames)
      BY <2>2, ImageTypes DEF BagInv, DrainWrites, history
    <3> DEFINE n == Len(frames) + 1
    <3>3. /\ n \in DOMAIN frames' /\ frames'[n] = f /\ frames' # <<>> /\ Len(frames') = n
          /\ n \in 1 .. Len(frames')
          /\ \A i \in DOMAIN frames : i \in DOMAIN frames' /\ frames'[i] = frames[i] /\ i < n /\ i # n
      BY <3>1, <3>2
    <3> HIDE DEF n
    <3>4. Bag!Between(f, odomLog)
      BY <3>2, <3>3 DEF BagInv, FramesInv
    <3>5. Near(f) /\ f.ext = accepted' /\ \A i \in DOMAIN frames : frames[i].ext = accepted'
      BY <3>3 DEF BagInv, GroupsInv, Near
    <3>6. \A i \in DOMAIN frames : frames[i].rgb < f.rgb
      <4>1. Increasing(Colors(frames'))
        BY DEF BagInv, ImagesInv, ColorInv
      <4> QED BY <3>3, <4>1 DEF Increasing, Colors
    <3>7. \A i \in DOMAIN frames : frames[i].dep # f.dep
      <4>1. Distinct(Depths(frames'))
        BY DEF BagInv, ImagesInv, DepthInv
      <4> QED BY <3>3, <4>1 DEF Distinct, Depths
    <3>8. Bag!Follows(f, frames)
      BY <3>1, <3>5, <3>6, <3>7 DEF Bag!Follows, Near
    <3> QED BY <3>1, <3>2, <3>3, <3>4, <3>8 DEF Bag!RecordGroup
  <2>3. CASE ~DrainWrites /\ ~\E w \in Walls, s \in OdomStamps, f \in BOOLEAN : IngestOdom(s, f, w)
    <3>1. odomLog' = odomLog
      BY <2>3, OdomUntouched DEF BagInv
    <3>2. frames' = frames
      BY <2>3, ImagesUntouched
         DEF BagInv, Moves, IngestRgb, IngestDepth, PairFound, PairFails, DrainDrops, Reject,
             Duplicate, outputs
    <3> QED BY <3>1, <3>2
  <2> QED BY <2>1, <2>2, <2>3
<1> QED BY <1>1, <1>2, BagInvariant, PTL DEF Spec, WritesFrameLog, Bag!Spec

\* No color and no depth image is used by two of the pairs that are kept, and none
\* that is used is still queued (the depth pop of _pair, the duplicate check).
THEOREM ImagesAreUsedOnce == Spec => []UsedOnce
<1>1. BagInv => UsedOnce
  <2> SUFFICES ASSUME BagInv  PROVE UsedOnce
    OBVIOUS
  <2> DEFINE n == Len(frames)
             m == Len(pending)
             Used == {<<f.rgb, f.dep>> : f \in {frames[i] : i \in DOMAIN frames}}
                       \union {<<p.rgb, p.dep>> : p \in {pending[i] : i \in DOMAIN pending}}
             use == [i \in 1 .. n + m |->
                       IF i <= n THEN <<frames[i].rgb, frames[i].dep>>
                       ELSE <<pending[i - n].rgb, pending[i - n].dep>>]
  <2>1. n \in Nat /\ m \in Nat /\ DOMAIN frames = 1 .. n /\ DOMAIN pending = 1 .. m
    BY ImageTypes DEF BagInv
  <2>2. /\ \A i \in 1 .. n : frames[i].rgb \in Int /\ frames[i].dep \in Int
        /\ \A i \in 1 .. m : pending[i].rgb \in Int /\ pending[i].dep \in Int
    BY <2>1, ImageTypes DEF BagInv
  <2>3. /\ \A i, j \in 1 .. n : i # j => /\ frames[i].rgb # frames[j].rgb
                                        /\ frames[i].dep # frames[j].dep
        /\ \A i, j \in 1 .. m : i # j => /\ pending[i].rgb # pending[j].rgb
                                        /\ pending[i].dep # pending[j].dep
    <3>1. ASSUME NEW i \in 1 .. n, NEW j \in 1 .. n, i # j
          PROVE  frames[i].rgb # frames[j].rgb /\ frames[i].dep # frames[j].dep
      <4>1. i < j => frames[i].rgb < frames[j].rgb
        BY <2>1 DEF BagInv, ImagesInv, ColorInv, Increasing, Colors
      <4>2. j < i => frames[j].rgb < frames[i].rgb
        BY <2>1 DEF BagInv, ImagesInv, ColorInv, Increasing, Colors
      <4>3. frames[i].dep # frames[j].dep
        BY <2>1, <3>1 DEF BagInv, ImagesInv, DepthInv, Distinct, Depths
      <4>4. frames[i].rgb \in Int /\ frames[j].rgb \in Int /\ (i < j \/ j < i)
        BY <2>1, <2>2, <3>1
      <4> HIDE DEF n, m
      <4> QED BY ONLY <4>1, <4>2, <4>3, <4>4
    <3>2. ASSUME NEW i \in 1 .. m, NEW j \in 1 .. m, i # j
          PROVE  pending[i].rgb # pending[j].rgb /\ pending[i].dep # pending[j].dep
      <4>1. i < j => pending[i].rgb < pending[j].rgb
        BY <2>1 DEF BagInv, ImagesInv, ColorInv, Increasing, Colors
      <4>2. j < i => pending[j].rgb < pending[i].rgb
        BY <2>1 DEF BagInv, ImagesInv, ColorInv, Increasing, Colors
      <4>3. pending[i].dep # pending[j].dep
        BY <2>1, <3>2 DEF BagInv, ImagesInv, DepthInv, Distinct, Depths
      <4>4. pending[i].rgb \in Int /\ pending[j].rgb \in Int /\ (i < j \/ j < i)
        BY <2>1, <2>2, <3>2
      <4> HIDE DEF n, m
      <4> QED BY ONLY <4>1, <4>2, <4>3, <4>4
    <3> HIDE DEF n, m
    <3> QED BY <3>1, <3>2, Zenon
  <2>4. \A i \in 1 .. n, j \in 1 .. m : /\ frames[i].rgb # pending[j].rgb
                                       /\ frames[i].dep # pending[j].dep
    <3>1. \A i \in 1 .. n, j \in 1 .. m : frames[i].rgb < pending[j].rgb
      BY <2>1 DEF BagInv, ImagesInv, ColorInv, Below, Stamps, Colors
    <3>2. \A i \in 1 .. n, j \in 1 .. m : frames[i].dep # pending[j].dep
      BY <2>1 DEF BagInv, ImagesInv, DepthInv, Stamps, Depths
    <3> QED BY <2>2, <3>1, <3>2
  <2>5. \A i, j \in 1 .. n + m : i # j => use[i][1] # use[j][1] /\ use[i][2] # use[j][2]
    <3> SUFFICES ASSUME NEW i \in 1 .. n + m, NEW j \in 1 .. n + m, i < j
                 PROVE  use[i][1] # use[j][1] /\ use[i][2] # use[j][2]
      BY <2>1
    <3>1. CASE j <= n
      BY <2>1, <2>3, <3>1
    <3>2. CASE i <= n /\ ~(j <= n)
      <4>1. i \in 1 .. n /\ j - n \in 1 .. m
        BY <2>1, <3>2
      <4> QED BY <2>4, <3>2, <4>1
    <3>3. CASE ~(i <= n)
      <4>1. i - n \in 1 .. m /\ j - n \in 1 .. m /\ i - n # j - n /\ ~(j <= n)
        BY <2>1, <3>3
      <4> QED BY <2>3, <3>3, <4>1
    <3> QED BY <2>1, <3>1, <3>2, <3>3
  <2>6. \A u \in Used : \E i \in 1 .. n + m : use[i] = u
    <3>1. \A i \in 1 .. n : i \in 1 .. n + m /\ use[i] = <<frames[i].rgb, frames[i].dep>>
      BY <2>1
    <3>2. ASSUME NEW i \in 1 .. m
          PROVE  i + n \in 1 .. n + m /\ use[i + n] = <<pending[i].rgb, pending[i].dep>>
      <4>1. i + n \in 1 .. n + m /\ ~(i + n <= n) /\ (i + n) - n = i
        <5> HIDE DEF n, m
        <5> QED BY <2>1
      <4>2. use[i + n] = IF i + n <= n THEN <<frames[i + n].rgb, frames[i + n].dep>>
                         ELSE <<pending[(i + n) - n].rgb, pending[(i + n) - n].dep>>
        BY <4>1
      <4> HIDE DEF use
      <4> QED BY <4>1, <4>2
    <3> SUFFICES ASSUME NEW u \in Used PROVE \E i \in 1 .. n + m : use[i] = u
      OBVIOUS
    <3>3. \/ \E i \in 1 .. n : u = <<frames[i].rgb, frames[i].dep>>
          \/ \E i \in 1 .. m : u = <<pending[i].rgb, pending[i].dep>>
      <4>1. DOMAIN frames = 1 .. n /\ DOMAIN pending = 1 .. m
        BY <2>1
      <4> HIDE DEF n, m, use
      <4> QED BY <4>1
    <3> HIDE DEF n, m, use, Used
    <3> QED BY <3>1, <3>2, <3>3
  <2>7. \A i \in 1 .. n + m : use[i] \in Used
    <3> SUFFICES ASSUME NEW i \in 1 .. n + m  PROVE use[i] \in Used
      OBVIOUS
    <3>1. CASE i <= n
      BY <2>1, <3>1
    <3>2. CASE ~(i <= n)
      <4>1. i - n \in DOMAIN pending
        BY <2>1, <3>2
      <4> QED BY <3>2, <4>1
    <3> QED BY <3>1, <3>2
  <2>8. Cardinality(Used) = n + m
    <3>1. use \in [1 .. n + m -> Used] /\ \A i, j \in 1 .. n + m : use[i] = use[j] => i = j
      BY <2>5, <2>7
    <3> HIDE DEF n, m, Used, use
    <3>2. use \in Bijection(1 .. n + m, Used)
      BY <2>6, <3>1, Fun_IsBij
    <3>3. ExistsBijection(1 .. n + m, Used) /\ n + m \in Nat
      BY <2>1, <3>2 DEF ExistsBijection
    <3> QED BY <3>3, FS_CountingElements
  <2>9. \A u, v \in Used : u # v => u[1] # v[1] /\ u[2] # v[2]
    <3> HIDE DEF n, m, Used, use
    <3> QED BY <2>5, <2>6
  <2>10. \A u \in Used : /\ u[1] \notin Stamps(rgbs)
                         /\ \A i \in DOMAIN depths : depths[i].stamp # u[2]
    <3>1. /\ \A i \in 1 .. n : frames[i].rgb \notin Stamps(rgbs)
          /\ \A i \in 1 .. m : pending[i].rgb \notin Stamps(rgbs)
      <4>1. Stamps(rgbs) \subseteq Int
        BY ImageTypes, StampsAreIntegers DEF BagInv
      <4>2. /\ \A i \in 1 .. n, x \in Stamps(rgbs) : frames[i].rgb < x
            /\ \A i \in 1 .. m, x \in Stamps(rgbs) : pending[i].rgb < x
        BY <2>1 DEF BagInv, ImagesInv, ColorInv, Below, Stamps, Colors
      <4> QED BY <2>2, <4>1, <4>2
    <3>2. /\ \A i \in 1 .. n, j \in DOMAIN depths : depths[j].stamp # frames[i].dep
          /\ \A i \in 1 .. m, j \in DOMAIN depths : depths[j].stamp # pending[i].dep
      BY <2>1 DEF BagInv, ImagesInv, DepthInv, Stamps, Stamped, Depths
    <3> QED BY <2>1, <3>1, <3>2
  <2> HIDE DEF Used
  <2>11. Cardinality(Used) = Len(frames) + Len(pending)
    BY <2>8
  <2> QED BY <2>9, <2>10, <2>11 DEF UsedOnce, Used
<1> QED BY <1>1, BagInvariant, PTL

-----------------------------------------------------------------------------
(* Rate slots                                                              *)

\* Division by the period rounds down, also of negative times.
LEMMA DivBounds ==
    ASSUME NEW a \in Int
    PROVE  /\ a \div Period \in Int
           /\ Period * (a \div Period) <= a /\ a < Period * (a \div Period) + Period
BY ConfigAssumption

LEMMA Product ==
    ASSUME NEW x \in Int, NEW y \in Int, x < y
    PROVE  Period * x + Period <= Period * y
<1>1. PICK d \in Nat : y = x + 1 + d
  <2>1. y - x - 1 \in Nat /\ y = x + 1 + (y - x - 1)
    OBVIOUS
  <2> QED BY <2>1
<1>2. Period * y = Period * x + Period + Period * d
  BY <1>1, ConfigAssumption
<1>3. Period * d >= 0 /\ Period * d \in Int /\ Period * x \in Int
  BY ConfigAssumption
<1> QED BY <1>2, <1>3, ConfigAssumption

\* A time is in slot q if it is between its ends.
LEMMA DivUnique ==
    ASSUME NEW a \in Int, NEW q \in Int, Period * q <= a, a < Period * q + Period
    PROVE  a \div Period = q
<1> DEFINE b == a \div Period
<1>1. b \in Int /\ Period * b <= a /\ a < Period * b + Period
  BY DivBounds
<1> HIDE DEF b
<1>2. ~(b < q)
  <2> SUFFICES ASSUME b < q  PROVE FALSE
    OBVIOUS
  <2>1. Period * b + Period <= Period * q
    BY <1>1, Product
  <2>2. Period * b \in Int /\ Period * q \in Int /\ Period \in Int
    BY <1>1, ConfigAssumption
  <2> QED BY <1>1, <2>1, <2>2
<1>3. ~(q < b)
  <2> SUFFICES ASSUME q < b  PROVE FALSE
    OBVIOUS
  <2>1. Period * q + Period <= Period * b
    BY <1>1, Product
  <2>2. Period * b \in Int /\ Period * q \in Int /\ Period \in Int
    BY <1>1, ConfigAssumption
  <2> QED BY <1>1, <2>1, <2>2
<1>4. b = q
  BY <1>1, <1>2, <1>3
<1> QED BY <1>4 DEF b

SlotFrom(k0, s) == (s - k0) \div Period

\* A time after one of slot q, and before the slot's end, is in slot q.
LEMMA SameSlot ==
    ASSUME NEW k0 \in Int, NEW q \in Int, NEW k \in Int, NEW s \in Int,
           SlotFrom(k0, k) = q, k < s, s < k0 + Period * q + Period
    PROVE  SlotFrom(k0, s) = q
<1>1. Period * q <= k - k0
  BY DivBounds DEF SlotFrom
<1>2. Period * q \in Int /\ Period \in Int
  BY ConfigAssumption
<1>3. Period * q <= s - k0 /\ s - k0 < Period * q + Period
  BY <1>1, <1>2
<1> QED BY <1>3, DivUnique DEF SlotFrom

\* The slot that next_due advances to ends where the slot of the kept image ends.
LEMMA NextSlotEnds ==
    ASSUME NEW k0 \in Int, NEW q \in Int, NEW due \in Int, NEW s \in Int,
           due = k0 + Period * q + Period, due <= s
    PROVE  /\ SlotFrom(k0, s) > q
           /\ NextSlot(due, s) = k0 + Period * SlotFrom(k0, s) + Period
<1> DEFINE d == (s - due) \div Period
           e == q + 1 + d
<1>1. d \in Int /\ Period * d <= s - due /\ s - due < Period * d + Period
  BY DivBounds
<1>2. NextSlot(due, s) = due + (d + 1) * Period
  BY DEF NextSlot
<1> HIDE DEF d
<1>3. d >= 0
  <2> SUFFICES ASSUME d < 0  PROVE FALSE
    BY <1>1
  <2>1. Period * d + Period <= Period * 0
    BY <1>1, Product
  <2>2. Period * d \in Int /\ Period * 0 = 0 /\ Period \in Int
    BY <1>1, ConfigAssumption
  <2> QED BY <1>1, <2>1, <2>2
<1>4. /\ Period * e = Period * q + Period + Period * d /\ (d + 1) * Period = Period * d + Period
      /\ Period * q \in Int /\ Period * d \in Int /\ Period \in Int /\ e \in Int /\ e > q
  BY <1>1, <1>3, ConfigAssumption
<1> HIDE DEF e
<1>5. SlotFrom(k0, s) = e
  <2>1. Period * e <= s - k0 /\ s - k0 < Period * e + Period
    BY <1>1, <1>4
  <2>2. s - k0 \in Int /\ e \in Int
    BY <1>4
  <2>3. (s - k0) \div Period = e
    BY ONLY <2>1, <2>2, DivUnique
  <2> QED BY <2>3 DEF SlotFrom
<1>6. NextSlot(due, s) = k0 + Period * e + Period
  BY <1>2, <1>4
<1> QED BY <1>4, <1>5, <1>6

LEMMA FirstSlot ==
    ASSUME NEW s \in Int
    PROVE  SlotFrom(s, s) = 0 /\ NextSlot(s, s) = s + Period * 0 + Period
<1>1. (s - s) \div Period = 0
  <2>1. s - s \in Int /\ Period * 0 <= s - s /\ s - s < Period * 0 + Period
    BY ConfigAssumption
  <2> QED BY <2>1, DivUnique
<1>2. NextSlot(s, s) = s + (0 + 1) * Period
  BY <1>1 DEF NextSlot
<1> QED BY <1>1, <1>2, ConfigAssumption DEF SlotFrom

\* Slots are counted from k0; the last image kept is in slot q, which next_due ends.
FirstIn(k0, s) ==
    \/ s \in kept /\ \A k \in kept : SlotFrom(k0, k) = SlotFrom(k0, s) => k = s
    \/ s \notin kept /\ \E k \in kept : SlotFrom(k0, k) = SlotFrom(k0, s) /\ k < s
SlotsFrom(k0, q) ==
    /\ nextDue = k0 + Period * q + Period
    /\ \E k \in kept : SlotFrom(k0, k) = q
    /\ \A s \in paired : k0 <= s /\ SlotFrom(k0, s) <= q /\ FirstIn(k0, s)
SlotInv ==
    /\ kept \subseteq paired
    /\ \A s \in paired : s <= last["rgb"] /\ \A r \in Stamps(rgbs) : s < r
    /\ kept = {} => paired = {} /\ nextDue = 0
    /\ kept # {} => \E k0 \in kept, q \in Nat : SlotsFrom(k0, q)

LEMMA SlotTypes ==
    ASSUME TypeOK
    PROVE  /\ kept \subseteq Nat /\ paired \subseteq Nat /\ nextDue \in Int
           /\ Stamps(rgbs) \subseteq Nat /\ last["rgb"] \in Nat
<1>1. kept \subseteq RgbStamps /\ paired \subseteq RgbStamps /\ nextDue \in Int
  BY DEF TypeOK
<1>2. \A i \in DOMAIN rgbs : rgbs[i] \in RgbStamps
  BY DEF TypeOK
<1>3. last["rgb"] \in Nat
  BY DEF TypeOK
<1> QED BY <1>1, <1>2, <1>3, StampsAssumption DEF Stamps

\* The next color image is thinned out, or begins a slot (_pair).
LEMMA SlotsGoOn ==
    ASSUME TypeOK, SlotInv, rgbs # <<>>, NEW s, s = rgbs[1],
           paired' = paired \union {s}, last' = last,
           \/ nextDue # 0 /\ s < nextDue /\ UNCHANGED <<kept, nextDue>>
           \/ /\ ~(nextDue # 0 /\ s < nextDue) /\ kept' = kept \union {s}
              /\ nextDue' = NextSlot(IF nextDue = 0 THEN s ELSE nextDue, s)
    PROVE  kept' # {} /\ \E k0 \in kept', q \in Nat : SlotsFrom(k0, q)'
<1>1. s \in Nat /\ s \in Int /\ s \in Stamps(rgbs) /\ \A k \in paired : k < s
  <2>1. 1 \in DOMAIN rgbs
    BY DEF TypeOK
  <2>2. s \in Stamps(rgbs)
    BY <2>1 DEF Stamps
  <2> QED BY <2>2, SlotTypes DEF SlotInv
<1>2. kept \subseteq Nat /\ paired \subseteq Nat /\ kept \subseteq paired /\ s \notin paired
  BY <1>1, SlotTypes DEF SlotInv
<1>3. CASE kept = {}
  <2>1. nextDue = 0 /\ paired = {}
    BY <1>3 DEF SlotInv
  <2>2. kept' = {s} /\ paired' = {s} /\ nextDue' = NextSlot(s, s)
    BY <1>3, <2>1
  <2>3. SlotsFrom(s, 0)'
    <3>1. SlotFrom(s, s) = 0 /\ nextDue' = s + Period * 0 + Period
      BY <1>1, <2>2, FirstSlot
    <3> QED BY <1>1, <2>2, <3>1 DEF SlotsFrom, FirstIn, SlotFrom
  <2> QED BY <2>2, <2>3
<1>4. CASE kept # {}
  <2>1. PICK k0 \in kept, q \in Nat : SlotsFrom(k0, q)
    BY <1>4 DEF SlotInv
  <2>2. k0 \in Int /\ q \in Int /\ k0 < s /\ k0 \in paired
    BY <1>1, <1>2
  <2>3. nextDue = k0 + Period * q + Period /\ nextDue \in Int
    BY <2>1, SlotTypes DEF SlotsFrom
  <2>4. nextDue # 0
    <3>1. Period * q \in Nat /\ Period \in Nat \ {0} /\ k0 \in Nat
      BY <1>2, ConfigAssumption
    <3> QED BY <2>3, <3>1
  <2>5. PICK k1 \in kept : SlotFrom(k0, k1) = q
    BY <2>1 DEF SlotsFrom
  <2>6. \A k \in paired : k0 <= k /\ SlotFrom(k0, k) <= q /\ FirstIn(k0, k)
    BY <2>1 DEF SlotsFrom
  <2>7. k0 \in kept' /\ kept' # {}
    BY <2>1
  <2>8. CASE s < nextDue
    <3>1. kept' = kept /\ nextDue' = nextDue
      BY <2>4, <2>8
    <3>2. k1 \in Int /\ k1 < s
      BY <1>1, <1>2
    <3>3. SlotFrom(k0, s) = q
      BY <1>1, <2>2, <2>3, <2>5, <2>8, <3>2, SameSlot
    <3>4. FirstIn(k0, s)
      BY <1>2, <2>5, <3>2, <3>3 DEF FirstIn
    <3>5. ASSUME NEW k \in paired'
          PROVE  k0 <= k /\ SlotFrom(k0, k) <= q /\ FirstIn(k0, k)
      BY <1>1, <2>2, <2>6, <3>3, <3>4, <3>5
    <3>6. SlotsFrom(k0, q)'
      BY <2>3, <2>5, <3>1, <3>5 DEF SlotsFrom, FirstIn, SlotFrom
    <3> QED BY <2>7, <3>6
  <2>9. CASE ~(s < nextDue)
    <3> DEFINE e == SlotFrom(k0, s)
    <3>1. kept' = kept \union {s} /\ nextDue' = NextSlot(nextDue, s)
      BY <2>4, <2>9
    <3>2. e > q /\ nextDue' = k0 + Period * e + Period
      BY <1>1, <2>2, <2>3, <2>9, <3>1, NextSlotEnds
    <3>3. e \in Nat
      <4>1. s - k0 \in Int
        BY <1>1, <2>2
      <4>2. e \in Int
        BY <4>1, DivBounds DEF SlotFrom
      <4> HIDE DEF e
      <4> QED BY <2>2, <3>2, <4>2
    <3> HIDE DEF e
    <3>4. ASSUME NEW k \in paired
          PROVE  /\ k0 <= k /\ SlotFrom(k0, k) <= e /\ SlotFrom(k0, k) # e
                 /\ \/ k \in kept' /\ \A j \in kept' : SlotFrom(k0, j) = SlotFrom(k0, k) => j = k
                    \/ k \notin kept' /\ \E j \in kept' : SlotFrom(k0, j) = SlotFrom(k0, k) /\ j < k
      <4>1. SlotFrom(k0, k) \in Int /\ SlotFrom(k0, k) <= q /\ k0 <= k
        <5>1. k - k0 \in Int
          BY <1>2, <2>2
        <5> QED BY <2>6, <5>1, DivBounds DEF SlotFrom
      <4>2. SlotFrom(k0, k) <= e /\ SlotFrom(k0, k) # e
        BY <2>2, <3>2, <3>3, <4>1
      <4>3. k # s /\ FirstIn(k0, k) /\ e = SlotFrom(k0, s)
        BY <1>2, <2>6 DEF e
      <4> QED BY <3>1, <4>1, <4>2, <4>3 DEF FirstIn
    <3>5. \A j \in kept' : SlotFrom(k0, j) = e => j = s
      BY <1>2, <3>1, <3>4
    <3>6. s \in kept' /\ SlotFrom(k0, s) = e /\ k0 <= s /\ e <= e
      <4>1. SlotFrom(k0, s) = e
        BY DEF e
      <4>2. k0 <= s /\ e <= e
        BY <1>1, <2>2, <3>3
      <4> QED BY <3>1, <4>1, <4>2
    <3>7. SlotsFrom(k0, e)'
      BY <3>2, <3>4, <3>5, <3>6 DEF SlotsFrom, FirstIn, SlotFrom
    <3> QED BY <2>7, <3>3, <3>7
  <2> QED BY <2>8, <2>9
<1> QED BY <1>3, <1>4

LEMMA SlotStep ==
    ASSUME TypeOK, ImagesInv, SlotInv, [Next]_vars
    PROVE  SlotInv'
<1> USE DEF inputs, outputs, history
<1>0. rgbs \in Seq(Int)
  BY ImageTypes
<1>1. ASSUME UNCHANGED <<kept, paired, nextDue>>, last["rgb"] <= last'["rgb"],
             \A r \in Stamps(rgbs') : r \in Stamps(rgbs) \/ (last["rgb"] < r /\ r \in Nat),
             last'["rgb"] \in Nat
      PROVE  SlotInv'
  <2>1. \A s \in paired' : s <= last'["rgb"] /\ \A r \in Stamps(rgbs') : s < r
    <3> SUFFICES ASSUME NEW s \in paired, NEW r \in Stamps(rgbs')
                 PROVE  s < r
      BY <1>1, SlotTypes DEF SlotInv
    <3> QED BY <1>1, SlotTypes DEF SlotInv
  <2> QED BY <1>1, <2>1 DEF SlotInv, SlotsFrom, FirstIn
<1>2. ASSUME NEW w \in Walls, NEW s \in RgbStamps, IngestRgb(s, w)
      PROVE  SlotInv'
  <2>1. CASE UNCHANGED <<kept, paired, nextDue, rgbs, last>>
    BY <1>1, <2>1, SlotTypes
  <2>2. CASE Fresh("rgb", s) /\ rgbs' = AppendBounded(rgbs, s, ImageBuffer)
    <3>1. s \in Nat /\ s \in Int
      BY StampsAssumption
    <3>2. last'["rgb"] = s /\ last["rgb"] < s
      BY <2>2, <3>1, FreshStep
    <3>3. ~Reject("rgb", s) /\ ~Duplicate("rgb", s)
      BY <2>2 DEF Reject, Duplicate, Fresh
    <3>4. UNCHANGED <<kept, paired, nextDue>>
      BY <1>2, <3>3 DEF IngestRgb
    <3>5. Stamps(rgbs') \subseteq Stamps(rgbs) \union {s}
      <4>1. \A q \in Seq(Int) : Stamps(Append(q, s)) \subseteq Stamps(q) \union {s}
        BY <3>1, AppendElements DEF Stamps
      <4>2. rgbs # <<>> => Tail(rgbs) \in Seq(Int) /\ Stamps(Tail(rgbs)) \subseteq Stamps(rgbs)
        BY <1>0, TailElements DEF Stamps
      <4>3. rgbs = <<>> => Len(rgbs) < ImageBuffer
        BY ConfigAssumption
      <4> QED BY <1>0, <2>2, <4>1, <4>2, <4>3 DEF AppendBounded
    <3>6. \A r \in Stamps(rgbs') : r \in Stamps(rgbs) \/ (last["rgb"] < r /\ r \in Nat)
      BY <3>1, <3>2, <3>5
    <3>7. last["rgb"] <= last'["rgb"] /\ last'["rgb"] \in Nat
      BY <3>1, <3>2, SlotTypes
    <3> QED BY <1>1, <3>4, <3>6, <3>7
  <2> QED BY <1>2, <2>1, <2>2 DEF IngestRgb, Reject, Duplicate
<1>3. CASE PairFound
  <2> DEFINE s == rgbs[1]
  <2>1. /\ rgbs # <<>> /\ rgbs' = Tail(rgbs) /\ paired' = paired \union {s} /\ last' = last
        /\ \/ nextDue # 0 /\ s < nextDue /\ UNCHANGED <<kept, nextDue>>
           \/ /\ ~(nextDue # 0 /\ s < nextDue) /\ kept' = kept \union {s}
              /\ nextDue' = NextSlot(IF nextDue = 0 THEN s ELSE nextDue, s)
    BY <1>3 DEF PairFound
  <2>2. kept' # {} /\ \E k0 \in kept', q \in Nat : SlotsFrom(k0, q)'
    BY <2>1, SlotsGoOn
  <2>3. /\ Stamps(Tail(rgbs)) \subseteq Stamps(rgbs) /\ Below({s}, Stamps(Tail(rgbs)))
        /\ s \in Stamps(rgbs)
    BY <1>0, <2>1, IncreasingTail DEF ImagesInv, ColorInv
  <2>4. s <= last["rgb"]
    BY <2>3 DEF ImagesInv, ColorInv
  <2>5. kept' \subseteq paired'
    BY <2>1 DEF SlotInv
  <2>6. \A k \in paired' : k <= last'["rgb"] /\ \A r \in Stamps(rgbs') : k < r
    BY <2>1, <2>3, <2>4 DEF SlotInv, Below
  <2> QED BY <2>2, <2>5, <2>6 DEF SlotInv
<1>4. CASE PairFails
  <2>1. /\ UNCHANGED <<kept, paired, nextDue, last>>
        /\ rgbs # <<>> /\ (rgbs' = rgbs \/ rgbs' = Tail(rgbs))
    BY <1>4 DEF PairFails
  <2>2. Stamps(rgbs') \subseteq Stamps(rgbs)
    BY <1>0, <2>1, TailElements DEF Stamps
  <2> QED BY <1>1, <2>1, <2>2, SlotTypes
<1>5. CASE ~PairFound /\ ~PairFails /\ ~\E w \in Walls, s \in RgbStamps : IngestRgb(s, w)
  <2>1. UNCHANGED <<kept, paired, nextDue>>
    BY <1>5 DEF vars, Next, Ingest, IngestDepth, IngestOdom, IngestInfo, IngestStatic, IngestTf, Reject,
                Duplicate, Poll, Finish, Pair, PairReturns, Drain, DrainHolds, DrainDrops,
                DrainRaises, DrainWrites, DrainReturns, Terminated
  <2>2. rgbs' = rgbs /\ last'["rgb"] = last["rgb"]
    <3>1. ASSUME NEW w \in Walls, NEW m \in Images, IngestDepth(m, w)
          PROVE  rgbs' = rgbs /\ last'["rgb"] = last["rgb"]
      BY <3>1 DEF IngestDepth, Reject, Duplicate, Fresh, TypeOK
    <3>2. CASE DrainDrops \/ DrainWrites
      BY <3>2 DEF DrainDrops, DrainWrites
    <3> QED BY <1>5, <3>1, <3>2, ImagesUntouched DEF Moves
  <2> QED BY <1>1, <2>1, <2>2, SlotTypes
<1> QED BY <1>2, <1>3, <1>4, <1>5

\* In each period, counted from the first image kept, the first image that is paired
\* is kept and no other, also after a gap (next_due in _pair).
THEOREM FirstOfEachSlotKept == Spec => []FirstOfSlotKept
<1>1. Init => SlotInv
  BY DEF Init, SlotInv
<1>2. TypeOK /\ ImagesInv /\ SlotInv /\ [Next]_vars => SlotInv'
  BY SlotStep
<1>3. TypeOK /\ SlotInv => FirstOfSlotKept
  <2> SUFFICES ASSUME TypeOK, SlotInv, NEW s \in paired
               PROVE  \/ s \in kept /\ \A k \in kept : Slot(k) = Slot(s) => k = s
                      \/ s \notin kept /\ \E k \in kept : Slot(k) = Slot(s) /\ k < s
    BY DEF FirstOfSlotKept
  <2>1. PICK k0 \in kept, q \in Nat : SlotsFrom(k0, q)
    BY DEF SlotInv
  <2>2. \A k \in kept : k0 <= k /\ k \in Nat
    BY <2>1, SlotTypes DEF SlotsFrom, SlotInv
  <2>3. (CHOOSE k \in kept : \A m \in kept : k <= m) = k0
    <3> DEFINE c == CHOOSE k \in kept : \A m \in kept : k <= m
    <3>1. c \in kept /\ \A m \in kept : c <= m
      BY <2>1, <2>2
    <3> HIDE DEF c
    <3>2. c = k0
      BY <2>1, <2>2, <3>1
    <3> QED BY <3>2 DEF c
  <2>4. \A t : Slot(t) = SlotFrom(k0, t)
    BY <2>3 DEF Slot, SlotFrom
  <2>5. FirstIn(k0, s)
    BY <2>1 DEF SlotsFrom
  <2> QED BY <2>4, <2>5 DEF FirstIn
<1> QED BY <1>1, <1>2, <1>3, BagInvariant, PTL DEF Spec, BagInv


-----------------------------------------------------------------------------
(* The end of a call.  _pair takes a color image, a depth image or both in  *)
(* each round, adds at most one pair for two images, and drain takes a pair *)
(* in each round or returns.                                                *)
Work == 2 * Len(rgbs) + Len(depths) + Len(pending)
        + (IF pc = "pair" THEN 2 ELSE IF pc = "drain" THEN 1 ELSE 0)
InCall == pc \in {"pair", "drain"}

\* Each step of a call leaves it with less to do, and no other call comes between.
CallsShrink == [][InCall => Work' < Work]_vars

\* The guards of the steps of _pair and drain, of which one holds.
PairGoesOn ==
    \/ rgbs = <<>> \/ depths = <<>>
    \/ \E i \in DOMAIN depths : Nearest(i) /\ Distance(i) <= Slop
    \/ \A i \in DOMAIN depths : Distance(i) > Slop
DrainGoesOn ==
    \/ pending = <<>>
    \/ Missing(pending[1]) \/ Invalid(pending[1])
    \/ /\ Complete(pending[1])
       /\ accepted \in {NoExtrinsic, extrinsic} =>
             UsableBrackets(Target(pending[1])) # {} /\ InfoFor("rgb", pending[1].rgb) # {}
CallGoesOn == (pc = "pair" => PairGoesOn) /\ (pc = "drain" => DrainGoesOn)

\* Of some subsets of a finite set, one has none of the others inside it.
LEMMA SmallestSubset ==
    ASSUME NEW S, IsFiniteSet(S), NEW B, B \subseteq SUBSET S, B # {}
    PROVE  \E T \in B : \A U \in B : U \subseteq T => U = T
<1>1. B \subseteq FiniteSubsetsOf(S)
  BY FS_Subset DEF FiniteSubsetsOf
<1>2. PICK T \in B : \A U \in B : <<U, T>> \notin StrictSubsetOrdering(S)
  BY <1>1, FS_StrictSubsetOrderingWellFounded, WFMin
<1>3. ASSUME NEW U \in B, U \subseteq T, U # T PROVE FALSE
  BY <1>2, <1>3 DEF StrictSubsetOrdering
<1> QED BY <1>3

\* The search for the nearest depth image finds one (the min of _pair).
LEMMA NearestExists ==
    ASSUME TypeOK, rgbs # <<>>, depths # <<>>
    PROVE  \E i \in DOMAIN depths : Nearest(i)
<1> DEFINE D == 1 .. Len(depths)
           Better(k, i) == Distance(k) < Distance(i) \/ (Distance(k) = Distance(i) /\ k <= i)
           NotWorse(i) == {k \in D : Better(k, i)}
<1>1. DOMAIN depths = D /\ Len(depths) \in Nat /\ 1 \in D /\ IsFiniteSet(D)
  <2>1. DOMAIN depths = D /\ Len(depths) \in Nat /\ 1 \in D
    BY DEF TypeOK
  <2>2. IsFiniteSet(D)
    BY <2>1, FS_Interval
  <2> QED BY <2>1, <2>2
<1>2. \A i \in D : Distance(i) \in Int /\ i \in Int
  <2> SUFFICES ASSUME NEW i \in D PROVE Distance(i) \in Int
    OBVIOUS
  <2>1. rgbs[1] \in RgbStamps /\ depths[i] \in Images
    BY <1>1 DEF TypeOK
  <2>2. rgbs[1] \in Nat /\ depths[i].stamp \in Nat
    BY <2>1, StampsAssumption DEF Images
  <2> QED BY <2>2 DEF Distance, Abs
<1>3. PICK i \in D : \A k \in D : NotWorse(k) \subseteq NotWorse(i) => NotWorse(k) = NotWorse(i)
  <2> DEFINE B == {NotWorse(k) : k \in D}
  <2>1. B \subseteq SUBSET D /\ B # {}
    BY <1>1
  <2> HIDE DEF NotWorse
  <2>2. PICK T \in B : \A U \in B : U \subseteq T => U = T
    <3> HIDE DEF B, D
    <3> QED BY <1>1, <2>1, SmallestSubset
  <2> QED BY <2>2
<1> HIDE DEF D
<1>4. \A k \in D : Better(i, k)
  <2> SUFFICES ASSUME NEW k \in D, ~Better(i, k) PROVE FALSE
    OBVIOUS
  <2>1. Better(k, i) /\ Better(i, i)
    BY <1>2
  <2>2. NotWorse(k) \subseteq NotWorse(i)
    <3> SUFFICES ASSUME NEW m \in D, Better(m, k) PROVE Better(m, i)
      OBVIOUS
    <3> QED BY <1>2, <2>1
  <2>3. i \in NotWorse(i) /\ i \notin NotWorse(k)
    BY <2>1
  <2> QED BY <1>3, <2>2, <2>3
<1> QED BY <1>1, <1>4 DEF Nearest

\* A call that has begun can always take its next step, and each step takes from what the
\* call has left to do: every call of ingest and drain returns.
THEOREM CallsTerminate == Spec => [](Work \in Nat /\ CallGoesOn) /\ CallsShrink
<1>1. TypeOK => Work \in Nat
  <2> SUFFICES ASSUME TypeOK PROVE Work \in Nat
    OBVIOUS
  <2>1. Len(rgbs) \in Nat /\ Len(depths) \in Nat /\ Len(pending) \in Nat
    BY DEF TypeOK
  <2> QED BY <2>1 DEF Work
<1>2. TypeOK => CallGoesOn
  <2> SUFFICES ASSUME TypeOK PROVE PairGoesOn /\ DrainGoesOn
    BY DEF CallGoesOn
  <2>1. PairGoesOn
    <3> SUFFICES ASSUME rgbs # <<>>, depths # <<>>, NEW k \in DOMAIN depths, ~(Distance(k) > Slop)
                 PROVE  \E i \in DOMAIN depths : Nearest(i) /\ Distance(i) <= Slop
      BY DEF PairGoesOn
    <3>1. PICK i \in DOMAIN depths : Nearest(i)
      BY NearestExists
    <3>2. \A n \in DOMAIN depths : Distance(n) \in Int
      <4> SUFFICES ASSUME NEW n \in DOMAIN depths PROVE Distance(n) \in Int
        OBVIOUS
      <4>1. rgbs[1] \in RgbStamps /\ depths[n] \in Images
        BY DEF TypeOK
      <4>2. rgbs[1] \in Nat /\ depths[n].stamp \in Nat
        BY <4>1, StampsAssumption DEF Images
      <4> QED BY <4>2 DEF Distance, Abs
    <3>3. Distance(i) <= Distance(k)
      BY <3>1, <3>2 DEF Nearest
    <3>4. Distance(i) <= Slop
      BY <3>2, <3>3, ConfigAssumption
    <3> QED BY <3>1, <3>4
  <2>2. DrainGoesOn
    BY DEF DrainGoesOn, Missing, Invalid, Complete, Measured
  <2> QED BY <2>1, <2>2
<1>3. TypeOK /\ [Next]_vars => (UNCHANGED vars \/ (InCall => Work' < Work))
  <2> SUFFICES ASSUME TypeOK, Next, InCall PROVE Work' < Work
    OBVIOUS
  <2>1. Pair \/ Drain
    BY DEF Next, InCall, Ingest, IngestRgb, IngestDepth, IngestOdom, IngestInfo, IngestStatic, IngestTf,
       Arrival, Poll, Finish, Terminated
  <2>2. /\ rgbs \in Seq(RgbStamps) /\ depths \in Seq(Images) /\ pending \in Seq(Pairs)
        /\ Len(rgbs) \in Nat /\ Len(depths) \in Nat /\ Len(pending) \in Nat
    BY DEF TypeOK
  <2>3. CASE PairFound
    <3>1. pc = "pair" /\ pc' = "pair" /\ Len(rgbs') = Len(rgbs) - 1
      BY <2>2, <2>3 DEF PairFound
    <3>2. Len(depths') = Len(depths) - 1
      <4>1. PICK i \in 1 .. Len(depths) : depths' = Without(depths, i)
        BY <2>2, <2>3 DEF PairFound
      <4>2. Len(Without(depths, i)) = Len(depths) - 1
        BY <2>2, WithoutElements
      <4> QED BY <4>1, <4>2
    <3>3. Len(pending') \in {Len(pending), Len(pending) + 1}
      BY <2>2, <2>3 DEF PairFound
    <3> QED BY <2>2, <3>1, <3>2, <3>3 DEF Work
  <2>4. CASE PairFails
    <3>1. /\ pc = "pair" /\ pc' = "pair" /\ pending' = pending
          /\ \/ Len(rgbs') = Len(rgbs) /\ Len(depths') = Len(depths) - 1
             \/ Len(rgbs') = Len(rgbs) - 1 /\ Len(depths') = Len(depths)
      BY <2>2, <2>4 DEF PairFails
    <3> QED BY <2>2, <3>1 DEF Work
  <2>5. CASE PairReturns
    BY <2>2, <2>5 DEF PairReturns, inputs, Work
  <2>6. CASE DrainHolds \/ DrainRaises \/ DrainReturns
    <3>1. /\ pc = "drain" /\ pc' \in {"idle", "done"}
          /\ rgbs' = rgbs /\ depths' = depths /\ pending' = pending
      BY <2>6 DEF DrainHolds, DrainRaises, DrainReturns, Draining, Returned, inputs
    <3> QED BY <2>2, <3>1 DEF Work
  <2>7. CASE DrainDrops \/ DrainWrites
    <3>1. /\ pc = "drain" /\ pc' = pc /\ rgbs' = rgbs /\ depths' = depths
          /\ Len(pending') = Len(pending) - 1
      BY <2>2, <2>7 DEF DrainDrops, DrainWrites, Draining, inputs
    <3> QED BY <2>2, <3>1 DEF Work
  <2> QED BY <2>1, <2>3, <2>4, <2>5, <2>6, <2>7 DEF Pair, Drain
<1> QED BY <1>1, <1>2, <1>3, TypeCorrect, PTL DEF Spec, CallsShrink
=============================================================================
