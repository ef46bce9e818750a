------------------------- MODULE LidarBundleProofs -------------------------
(***************************************************************************)
(* The odometry node keeps its promises for any number of scans and        *)
(* messages, any skew, gaps and scan lengths: pairs, windows, the split of *)
(* the IMU messages and the propagation of the filter.  As long as no      *)
(* clock goes back, the stamps along each buffer are in order; most of the *)
(* rest follows from that.                                                 *)
(***************************************************************************)
EXTENDS LidarBundleProps, FiniteSetTheorems, TLAPS

-----------------------------------------------------------------------------
(* Numbers and sequences                                                   *)

\* A set of naturals that is not empty has a least element.
LEMMA LeastNumber ==
    ASSUME NEW T, T \subseteq Nat, T # {}
    PROVE  \E x \in T : \A y \in T : x <= y
<1> DEFINE F == {0 .. x : x \in T}
<1>1. F \subseteq FiniteSubsetsOf(Nat)
  <2> SUFFICES ASSUME NEW x \in T PROVE 0 .. x \in FiniteSubsetsOf(Nat)
    OBVIOUS
  <2>1. IsFiniteSet(0 .. x)
    BY FS_Interval
  <2> QED BY <2>1 DEF FiniteSubsetsOf
<1>2. PICK f \in F : \A g \in F : <<g, f>> \notin StrictSubsetOrdering(Nat)
  <2>1. F # {}
    OBVIOUS
  <2>2. IsWellFoundedOn(StrictSubsetOrdering(Nat), FiniteSubsetsOf(Nat))
    BY FS_StrictSubsetOrderingWellFounded
  <2> HIDE DEF F
  <2> QED BY <1>1, <2>1, <2>2, WFMin
<1>3. PICK x \in T : f = 0 .. x
  OBVIOUS
<1>4. ASSUME NEW y \in T, y < x PROVE FALSE
  <2>1. 0 .. y \subseteq 0 .. x /\ 0 .. y # 0 .. x
    BY <1>4
  <2>2. 0 .. y \in SUBSET Nat /\ 0 .. x \in SUBSET Nat
    BY <1>4
  <2>3. <<0 .. y, f>> \in StrictSubsetOrdering(Nat)
    BY <1>3, <2>1, <2>2 DEF StrictSubsetOrdering
  <2> QED BY <1>2, <2>3
<1> QED BY <1>4

\* Max is the greatest of a set of positions that is not empty.
LEMMA MaxOfPositions ==
    ASSUME NEW n \in Nat, NEW T, T \subseteq 1 .. n, T # {}
    PROVE  Max(T) \in T /\ \A x \in T : x <= Max(T)
<1> DEFINE D == {n - x : x \in T}
<1>0. \A x \in T : n - x \in Nat /\ x \in Int
  OBVIOUS
<1>1. D \subseteq Nat /\ D # {}
  <2>1. \E x : x \in T
    OBVIOUS
  <2> QED BY ONLY <1>0, <2>1
<1>2. PICK d \in D : \A e \in D : d <= e
  <2> HIDE DEF D
  <2> QED BY <1>1, LeastNumber
<1>3. PICK m \in T : d = n - m
  OBVIOUS
<1>4. \A x \in T : m >= x
  BY <1>0, <1>2, <1>3
<1> QED BY <1>3, <1>4 DEF Max

\* What remains after the first n elements.
LEMMA FromElements ==
    ASSUME NEW S, NEW s \in Seq(S), NEW n \in 0 .. Len(s)
    PROVE  /\ From(s, n) \in Seq(S) /\ Len(From(s, n)) = Len(s) - n
           /\ \A i \in 1 .. Len(s) - n : From(s, n)[i] = s[i + n]
BY DEF From

LEMMA TailElements ==
    ASSUME NEW S, NEW s \in Seq(S), s # <<>>
    PROVE  /\ Tail(s) \in Seq(S) /\ Len(Tail(s)) = Len(s) - 1 /\ Len(s) >= 1
           /\ Head(s) = s[1] /\ s[1] \in S
           /\ \A i \in 1 .. Len(s) - 1 : Tail(s)[i] = s[i + 1]
OBVIOUS

LEMMA PrefixElements ==
    ASSUME NEW S, NEW s \in Seq(S), NEW n \in 0 .. Len(s)
    PROVE  /\ SubSeq(s, 1, n) \in Seq(S) /\ Len(SubSeq(s, 1, n)) = n
           /\ \A i \in 1 .. n : SubSeq(s, 1, n)[i] = s[i] /\ s[i] \in S
OBVIOUS

LEMMA IntegerElements ==
    ASSUME NEW a \in Int, NEW b \in Int, NEW s \in Seq(a .. b)
    PROVE  /\ s \in Seq(Int) /\ Len(s) \in Nat
           /\ \A i \in 1 .. Len(s) : s[i] \in a .. b /\ s[i] \in Int
           /\ s # <<>> => Len(s) \in 1 .. Len(s) /\ s[Len(s)] \in a .. b
<1>1. \A i \in 1 .. Len(s) : s[i] \in a .. b
  OBVIOUS
<1>2. \A i \in 1 .. Len(s) : s[i] \in Int
  BY <1>1
<1>3. Len(s) \in Nat /\ DOMAIN s = 1 .. Len(s) /\ s = [i \in 1 .. Len(s) |-> s[i]]
  OBVIOUS
<1>4. s \in Seq(Int)
  BY <1>2, <1>3
<1> QED BY <1>1, <1>2, <1>3, <1>4

\* What the mean of the scan lengths is rounded to.
LEMMA QuotientBounds ==
    ASSUME NEW x \in Int, NEW n \in Nat \ {0}
    PROVE  /\ x \div n \in Int
           /\ x >= 0 => 0 <= x \div n /\ x \div n <= x
           /\ x < 0 => x <= x \div n /\ x \div n <= 0
OBVIOUS

\* A function may be defined by going on from x to next[x] while x is in Go, if that
\* makes a bounded number smaller.
Descends(X, Go, next, size, N) ==
    /\ Go \in SUBSET X /\ next \in [Go -> X] /\ N \in Nat
    /\ size \in [X -> 0 .. N] /\ \A x \in Go : size[next[x]] < size[x]
LEMMA Descent ==
    ASSUME NEW X, NEW Go, NEW next, NEW size, NEW N, Descends(X, Go, next, size, N)
    PROVE  \E f \in [X -> X] : \A x \in X : f[x] = IF x \in Go THEN f[next[x]] ELSE x
<1> USE DEF Descends
<1> DEFINE Upto(n) == {x \in X : size[x] < n}
           Solves(f, n) == \A x \in Upto(n) : f[x] = IF x \in Go THEN f[next[x]] ELSE x
           T == {n \in Nat : ~ \E f \in [Upto(n) -> X] : Solves(f, n)}
<1>1. T = {}
  <2> SUFFICES ASSUME T # {} PROVE FALSE
    OBVIOUS
  <2>1. PICK m \in T : \A n \in T : m <= n
    <3>1. T \subseteq Nat
      OBVIOUS
    <3> HIDE DEF T
    <3> QED BY <3>1, LeastNumber
  <2>2. CASE m = 0
    <3>1. Upto(0) = {}
      OBVIOUS
    <3>2. [x \in Upto(0) |-> x] \in [Upto(0) -> X] /\ Solves([x \in Upto(0) |-> x], 0)
      BY <3>1
    <3> QED BY <2>1, <2>2, <3>2
  <2>3. CASE m # 0
    <3>1. m - 1 \in Nat /\ m - 1 \notin T
      <4>1. m \in Nat
        OBVIOUS
      <4> HIDE DEF T
      <4>2. m - 1 \in Nat /\ ~(m <= m - 1)
        BY <2>3, <4>1
      <4> QED BY <2>1, <4>2
    <3>2. PICK f \in [Upto(m - 1) -> X] : Solves(f, m - 1)
      BY <3>1
    <3> DEFINE Old(x) == x \in Upto(m - 1)
               g == [x \in Upto(m) |-> IF Old(x) THEN f[x]
                                       ELSE IF x \in Go THEN f[next[x]] ELSE x]
    <3>3. \A x \in Upto(m) : x \in Go => next[x] \in Upto(m - 1) /\ next[x] \in Upto(m)
      <4> SUFFICES ASSUME NEW x \in Go, size[x] < m
                   PROVE  next[x] \in X /\ size[next[x]] < m - 1 /\ size[next[x]] < m
        OBVIOUS
      <4>1. size[next[x]] < size[x] /\ size[x] \in Int /\ size[next[x]] \in Int /\ m \in Int
        BY <2>1
      <4> QED BY <4>1
    <3>4. \A x \in Upto(m - 1) : x \in X /\ f[x] \in X
      OBVIOUS
    <3>5. g \in [Upto(m) -> X]
      BY <3>3, <3>4
    <3>6. ASSUME NEW x \in Upto(m) PROVE g[x] = IF x \in Go THEN g[next[x]] ELSE x
      <4>1. CASE Old(x)
        BY <3>2, <3>3, <4>1
      <4>2. CASE ~Old(x)
        BY <3>3, <4>2
      <4> QED BY <4>1, <4>2
    <3>7. Solves(g, m)
      BY <3>6
    <3> HIDE DEF g, Upto, Solves
    <3>8. m \notin T
      BY <3>5, <3>7
    <3> QED BY <2>1, <3>8
  <2> QED BY <2>2, <2>3
<1>2. N + 1 \in Nat /\ Upto(N + 1) = X
  OBVIOUS
<1>3. PICK f \in [X -> X] : Solves(f, N + 1)
  BY <1>1, <1>2
<1> QED BY <1>2, <1>3

-----------------------------------------------------------------------------
(* Dropping scans that have no partner                                     *)

QueuesOK == queue \in Pair(Seq(Scan))
Heads == (0 .. Len(queue[1])) \X (0 .. Len(queue[2]))
At(l, i) == queue[l][i].stamp

LEMMA LidarFacts == Lidars = {1, 2} /\ Other(1) = 2 /\ Other(2) = 1 /\ 1 \in Lidars /\ 2 \in Lidars
BY DEF Lidars, Other

LEMMA QueueFacts ==
    ASSUME QueuesOK, NEW l \in Lidars
    PROVE  /\ queue[l] \in Seq(Scan) /\ Len(queue[l]) \in Nat
           /\ \A i \in 1 .. Len(queue[l]) : queue[l][i] \in Scan /\ At(l, i) \in 1 .. MaxTime
           /\ DOMAIN queue[l] = 1 .. Len(queue[l])
<1>1. queue[l] \in Seq(Scan)
  BY DEF QueuesOK, Pair
<1>2. \A i \in 1 .. Len(queue[l]) : queue[l][i] \in Scan
  BY <1>1
<1> QED BY <1>1, <1>2 DEF At, Scan

LEMMA DropOneFacts ==
    ASSUME QueuesOK, NEW h \in Heads, HeadsApart(h)
    PROVE  /\ h[1] \in Nat /\ h[2] \in Nat
           /\ h[1] + 1 \in 1 .. Len(queue[1]) /\ h[2] + 1 \in 1 .. Len(queue[2])
           /\ DropOne(h) \in Heads
           /\ \/ /\ At(1, h[1] + 1) + MaxSkew < At(2, h[2] + 1)
                 /\ DropOne(h)[1] = h[1] + 1 /\ DropOne(h)[2] = h[2]
              \/ /\ At(2, h[2] + 1) + MaxSkew < At(1, h[1] + 1)
                 /\ DropOne(h)[1] = h[1] /\ DropOne(h)[2] = h[2] + 1
<1>1. h[1] \in 0 .. Len(queue[1]) /\ h[2] \in 0 .. Len(queue[2])
  BY DEF Heads
<1>2. h[1] < Len(queue[1]) /\ h[2] < Len(queue[2])
  BY DEF HeadsApart
<1>3. Len(queue[1]) \in Nat /\ Len(queue[2]) \in Nat
  BY QueueFacts, LidarFacts
<1>4. h[1] + 1 \in 1 .. Len(queue[1]) /\ h[2] + 1 \in 1 .. Len(queue[2])
  BY <1>1, <1>2, <1>3
<1>5. At(1, h[1] + 1) \in Int /\ At(2, h[2] + 1) \in Int /\ MaxSkew \in Nat
  BY <1>4, QueueFacts, LidarFacts, BundleAssumption
<1>6. \/ At(1, h[1] + 1) - At(2, h[2] + 1) > MaxSkew
      \/ At(2, h[2] + 1) - At(1, h[1] + 1) > MaxSkew
  BY DEF HeadsApart, Apart, At
<1>7. DropOne(h) = IF At(1, h[1] + 1) < At(2, h[2] + 1)
                   THEN <<h[1] + 1, h[2]>> ELSE <<h[1], h[2] + 1>>
  BY DEF DropOne, DropsFirst, At
<1>8. CASE At(1, h[1] + 1) < At(2, h[2] + 1)
  <2>1. DropOne(h) = <<h[1] + 1, h[2]>>
    BY <1>7, <1>8
  <2>2. At(1, h[1] + 1) + MaxSkew < At(2, h[2] + 1)
    BY <1>5, <1>6, <1>8
  <2> QED BY <1>1, <1>3, <1>4, <2>1, <2>2 DEF Heads
<1>9. CASE ~(At(1, h[1] + 1) < At(2, h[2] + 1))
  <2>1. DropOne(h) = <<h[1], h[2] + 1>>
    BY <1>7, <1>9
  <2>2. At(2, h[2] + 1) + MaxSkew < At(1, h[1] + 1)
    BY <1>5, <1>6, <1>9
  <2> QED BY <1>1, <1>3, <1>4, <2>1, <2>2 DEF Heads
<1> QED BY <1>8, <1>9

\* How many scans are still to be looked at.
Left(h) == (Len(queue[1]) + Len(queue[2])) - (h[1] + h[2])
LEMMA LeftBounds ==
    ASSUME NEW a \in Nat, NEW b \in Nat, NEW c \in 0 .. a, NEW d \in 0 .. b
    PROVE  /\ a + b \in Nat /\ (a + b) - (c + d) \in 0 .. a + b
           /\ (a + b) - ((c + 1) + d) < (a + b) - (c + d)
           /\ (a + b) - (c + (d + 1)) < (a + b) - (c + d)
OBVIOUS

LEMMA DropOneLess ==
    ASSUME QueuesOK, NEW h \in Heads
    PROVE  /\ Left(h) \in 0 .. Len(queue[1]) + Len(queue[2])
           /\ HeadsApart(h) => Left(DropOne(h)) < Left(h)
<1>1. h[1] \in 0 .. Len(queue[1]) /\ h[2] \in 0 .. Len(queue[2])
  BY DEF Heads
<1>2. Len(queue[1]) \in Nat /\ Len(queue[2]) \in Nat
  BY QueueFacts, LidarFacts
<1>3. Left(h) \in 0 .. Len(queue[1]) + Len(queue[2])
  <2> DEFINE a == Len(queue[1])  b == Len(queue[2])
  <2>1. a \in Nat /\ b \in Nat /\ h[1] \in 0 .. a /\ h[2] \in 0 .. b /\ Left(h) = (a + b) - (h[1] + h[2])
    BY <1>1, <1>2 DEF Left
  <2> HIDE DEF a, b
  <2>2. Left(h) \in 0 .. a + b
    BY <2>1, LeftBounds
  <2> QED BY <2>2 DEF a, b
<1>4. ASSUME HeadsApart(h) PROVE Left(DropOne(h)) < Left(h)
  <2>1. \/ DropOne(h)[1] = h[1] + 1 /\ DropOne(h)[2] = h[2]
        \/ DropOne(h)[1] = h[1] /\ DropOne(h)[2] = h[2] + 1
    BY <1>4, DropOneFacts
  <2> DEFINE a == Len(queue[1])  b == Len(queue[2])  g == DropOne(h)
  <2>2. /\ a \in Nat /\ b \in Nat /\ h[1] \in 0 .. a /\ h[2] \in 0 .. b
        /\ Left(h) = (a + b) - (h[1] + h[2]) /\ Left(g) = (a + b) - (g[1] + g[2])
    BY <1>1, <1>2 DEF Left
  <2>3. \/ Left(g) = (a + b) - ((h[1] + 1) + h[2]) \/ Left(g) = (a + b) - (h[1] + (h[2] + 1))
    BY <2>1, <2>2
  <2> HIDE DEF a, b, g
  <2>4. Left(g) < Left(h)
    BY <2>2, <2>3, LeftBounds
  <2> QED BY <2>4 DEF g
<1> QED BY <1>3, <1>4

\* The loop is a function of the heads it starts from.
LEMMA DropFromFacts ==
    ASSUME QueuesOK
    PROVE  \A h \in Heads : DropFrom[h] = IF HeadsApart(h) THEN DropFrom[DropOne(h)] ELSE h
<1> DEFINE N == Len(queue[1]) + Len(queue[2])
           Go == {h \in Heads : HeadsApart(h)}
           next == [h \in Go |-> DropOne(h)]
           size == [h \in Heads |-> Left(h)]
<1>1. N \in Nat
  <2>1. Len(queue[1]) \in Nat /\ Len(queue[2]) \in Nat
    BY QueueFacts, LidarFacts
  <2>2. \A a, b \in Nat : a + b \in Nat
    OBVIOUS
  <2> QED BY <2>1, <2>2
<1>2. next \in [Go -> Heads] /\ \A h \in Go : next[h] = DropOne(h)
  BY DropOneFacts
<1>3. size \in [Heads -> 0 .. N] /\ \A h \in Heads : size[h] = Left(h)
  BY DropOneLess
<1>4. \A h \in Go : size[next[h]] < size[h]
  <2> SUFFICES ASSUME NEW h \in Go PROVE size[next[h]] < size[h]
    OBVIOUS
  <2>1. h \in Heads /\ HeadsApart(h) /\ DropOne(h) \in Heads
    BY DropOneFacts
  <2>2. next[h] = DropOne(h) /\ size[DropOne(h)] = Left(DropOne(h)) /\ size[h] = Left(h)
    BY <1>2, <1>3, <2>1
  <2>3. Left(DropOne(h)) < Left(h)
    BY <2>1, DropOneLess
  <2> HIDE DEF size, next
  <2> QED BY <2>2, <2>3
<1>5. Go \in SUBSET Heads
  OBVIOUS
<1>6. \E f \in [Heads -> Heads] : \A h \in Heads : f[h] = IF h \in Go THEN f[next[h]] ELSE h
  <2> HIDE DEF N, Go, next, size
  <2>1. Descends(Heads, Go, next, size, N)
    BY <1>1, <1>2, <1>3, <1>4, <1>5 DEF Descends
  <2> QED BY <2>1, Descent
<1>7. PICK f \in [Heads -> Heads] :
          \A h \in Heads : f[h] = IF h \in Go THEN f[next[h]] ELSE h
  BY <1>6
<1>8. f = [h \in Heads |-> IF HeadsApart(h) THEN f[DropOne(h)] ELSE h]
  <2>1. \A h \in Heads : (IF h \in Go THEN f[next[h]] ELSE h)
                         = (IF HeadsApart(h) THEN f[DropOne(h)] ELSE h)
    BY <1>2
  <2> QED BY <1>7, <2>1
<1>9. DropFrom = [h \in Heads |-> IF HeadsApart(h) THEN DropFrom[DropOne(h)] ELSE h]
  BY <1>8 DEF DropFrom, Heads
<1> QED BY <1>9

\* Without a clock that goes back, the stamps in a buffer are in order and the last
\* one is the latest.
Forward(l) ==
    /\ \A i, j \in 1 .. Len(queue[l]) : i < j => At(l, i) <= At(l, j)
    /\ \A i \in 1 .. Len(queue[l]) : At(l, i) <= lastStamp[l]
QueuesForward == lastStamp \in Pair(0 .. MaxTime) /\ Forward(1) /\ Forward(2)

\* When h of each buffer are dropped, each of them is earlier than everything that is
\* left of the other buffer, or may come, and none is near one dropped there.
Earlier(l, o, h) ==
    \A i \in 1 .. h[l] :
        /\ At(l, i) + MaxSkew < lastStamp[o]
        /\ \A j \in h[o] + 1 .. Len(queue[o]) : At(l, i) + MaxSkew < At(o, j)
Strangers(h) == \A i \in 1 .. h[1], j \in 1 .. h[2] : ~Near(At(1, i), At(2, j))
Passed(h) == Earlier(1, 2, h) /\ Earlier(2, 1, h) /\ Strangers(h)

LEMMA DropOnePasses ==
    ASSUME QueuesOK, QueuesForward, NEW h \in Heads, HeadsApart(h), Passed(h)
    PROVE  Passed(DropOne(h))
<1>0. MaxSkew \in Nat
  BY BundleAssumption
<1>1. /\ h[1] \in Nat /\ h[2] \in Nat
      /\ h[1] + 1 \in 1 .. Len(queue[1]) /\ h[2] + 1 \in 1 .. Len(queue[2])
      /\ Len(queue[1]) \in Nat /\ Len(queue[2]) \in Nat
  BY DropOneFacts, QueueFacts, LidarFacts
<1>2. /\ \A i \in 1 .. Len(queue[1]) : At(1, i) \in Int /\ At(1, i) <= lastStamp[1]
      /\ \A i \in 1 .. Len(queue[2]) : At(2, i) \in Int /\ At(2, i) <= lastStamp[2]
      /\ lastStamp[1] \in Int /\ lastStamp[2] \in Int
  BY QueueFacts, LidarFacts DEF QueuesForward, Forward, Pair
<1>3. /\ \A i, j \in 1 .. Len(queue[1]) : i < j => At(1, i) <= At(1, j)
      /\ \A i, j \in 1 .. Len(queue[2]) : i < j => At(2, i) <= At(2, j)
  BY DEF QueuesForward, Forward
<1> DEFINE g == DropOne(h)
<1>4. CASE At(1, h[1] + 1) + MaxSkew < At(2, h[2] + 1) /\ g[1] = h[1] + 1 /\ g[2] = h[2]
  <2>1. ASSUME NEW i \in 1 .. h[1] + 1, NEW j \in h[2] + 1 .. Len(queue[2])
        PROVE  At(1, i) + MaxSkew < At(2, j)
    <3>1. CASE i = h[1] + 1
      <4>1. j \in 1 .. Len(queue[2]) /\ (j = h[2] + 1 \/ h[2] + 1 < j)
        BY <1>1
      <4>2. At(2, h[2] + 1) <= At(2, j)
        <5>1. CASE j = h[2] + 1
          <6>1. At(2, j) \in Int
            BY <1>2, <4>1
          <6> QED BY <5>1, <6>1
        <5>2. CASE h[2] + 1 < j
          <6>1. At(2, h[2] + 1) <= At(2, j)
            BY <1>1, <1>3, <4>1, <5>2
          <6>2. At(2, h[2] + 1) \in Int /\ At(2, j) \in Int
            BY <1>1, <1>2, <4>1
          <6> QED BY <1>0, <6>1, <6>2
        <5> QED BY <4>1, <5>1, <5>2
      <4>3. At(1, i) \in Int /\ At(2, j) \in Int /\ At(2, h[2] + 1) \in Int
        BY <1>1, <1>2, <3>1, <4>1
      <4>4. At(1, i) + MaxSkew < At(2, h[2] + 1)
        BY <1>4, <3>1
      <4> QED BY <1>0, <4>2, <4>3, <4>4
    <3>2. CASE i \in 1 .. h[1]
      BY <3>2 DEF Passed, Earlier
    <3> QED BY <1>1, <3>1, <3>2
  <2>2. ASSUME NEW i \in 1 .. h[1] + 1 PROVE At(1, i) + MaxSkew < lastStamp[2]
    <3>1. CASE i = h[1] + 1
      <4>1. At(1, i) + MaxSkew < At(2, h[2] + 1)
        BY <1>4, <3>1
      <4>2. At(2, h[2] + 1) \in Int /\ lastStamp[2] \in Int /\ At(2, h[2] + 1) <= lastStamp[2]
        BY <1>1, <1>2
      <4>3. At(1, i) \in Int
        BY <1>1, <1>2, <3>1
      <4> QED BY <1>0, <4>1, <4>2, <4>3
    <3>2. CASE i \in 1 .. h[1]
      BY <3>2 DEF Passed, Earlier
    <3> QED BY <1>1, <3>1, <3>2
  <2>3. Earlier(1, 2, g)
    BY <1>4, <2>1, <2>2 DEF Earlier
  <2>4. Earlier(2, 1, g)
    <3>1. \A j \in h[1] + 2 .. Len(queue[1]) : j \in h[1] + 1 .. Len(queue[1])
      BY <1>1
    <3>2. (h[1] + 1) + 1 = h[1] + 2
      BY <1>1
    <3> QED BY <1>4, <3>1, <3>2 DEF Earlier, Passed
  <2>5. ASSUME NEW i \in 1 .. h[1] + 1, NEW j \in 1 .. h[2] PROVE ~Near(At(1, i), At(2, j))
    <3>1. CASE i = h[1] + 1
      <4>1. At(2, j) + MaxSkew < At(1, i)
        BY <1>1, <3>1 DEF Passed, Earlier
      <4>2. j \in 1 .. Len(queue[2])
        BY <1>1
      <4>3. At(1, i) \in Int /\ At(2, j) \in Int
        BY <1>1, <1>2, <3>1, <4>2
      <4> QED BY <1>0, <4>1, <4>3 DEF Near
    <3>2. CASE i \in 1 .. h[1]
      BY <3>2 DEF Passed, Strangers
    <3> QED BY <1>1, <3>1, <3>2
  <2>6. Strangers(g)
    BY <1>4, <2>5 DEF Strangers
  <2> QED BY <2>3, <2>4, <2>6 DEF Passed
<1>5. CASE At(2, h[2] + 1) + MaxSkew < At(1, h[1] + 1) /\ g[1] = h[1] /\ g[2] = h[2] + 1
  <2>1. ASSUME NEW i \in 1 .. h[2] + 1, NEW j \in h[1] + 1 .. Len(queue[1])
        PROVE  At(2, i) + MaxSkew < At(1, j)
    <3>1. CASE i = h[2] + 1
      <4>1. j \in 1 .. Len(queue[1]) /\ (j = h[1] + 1 \/ h[1] + 1 < j)
        BY <1>1
      <4>2. At(1, h[1] + 1) <= At(1, j)
        <5>1. CASE j = h[1] + 1
          <6>1. At(1, j) \in Int
            BY <1>2, <4>1
          <6> QED BY <5>1, <6>1
        <5>2. CASE h[1] + 1 < j
          <6>1. At(1, h[1] + 1) <= At(1, j)
            BY <1>1, <1>3, <4>1, <5>2
          <6>2. At(1, h[1] + 1) \in Int /\ At(1, j) \in Int
            BY <1>1, <1>2, <4>1
          <6> QED BY <1>0, <6>1, <6>2
        <5> QED BY <4>1, <5>1, <5>2
      <4>3. At(2, i) \in Int /\ At(1, j) \in Int /\ At(1, h[1] + 1) \in Int
        BY <1>1, <1>2, <3>1, <4>1
      <4>4. At(2, i) + MaxSkew < At(1, h[1] + 1)
        BY <1>5, <3>1
      <4> QED BY <1>0, <4>2, <4>3, <4>4
    <3>2. CASE i \in 1 .. h[2]
      BY <3>2 DEF Passed, Earlier
    <3> QED BY <1>1, <3>1, <3>2
  <2>2. ASSUME NEW i \in 1 .. h[2] + 1 PROVE At(2, i) + MaxSkew < lastStamp[1]
    <3>1. CASE i = h[2] + 1
      <4>1. At(2, i) + MaxSkew < At(1, h[1] + 1)
        BY <1>5, <3>1
      <4>2. At(1, h[1] + 1) \in Int /\ lastStamp[1] \in Int /\ At(1, h[1] + 1) <= lastStamp[1]
        BY <1>1, <1>2
      <4>3. At(2, i) \in Int
        BY <1>1, <1>2, <3>1
      <4> QED BY <1>0, <4>1, <4>2, <4>3
    <3>2. CASE i \in 1 .. h[2]
      BY <3>2 DEF Passed, Earlier
    <3> QED BY <1>1, <3>1, <3>2
  <2>3. Earlier(2, 1, g)
    BY <1>5, <2>1, <2>2 DEF Earlier
  <2>4. Earlier(1, 2, g)
    <3>1. \A j \in h[2] + 2 .. Len(queue[2]) : j \in h[2] + 1 .. Len(queue[2])
      BY <1>1
    <3>2. (h[2] + 1) + 1 = h[2] + 2
      BY <1>1
    <3> QED BY <1>5, <3>1, <3>2 DEF Earlier, Passed
  <2>5. ASSUME NEW i \in 1 .. h[1], NEW j \in 1 .. h[2] + 1 PROVE ~Near(At(1, i), At(2, j))
    <3>1. CASE j = h[2] + 1
      <4>1. At(1, i) + MaxSkew < At(2, j)
        BY <1>1, <3>1 DEF Passed, Earlier
      <4>2. i \in 1 .. Len(queue[1])
        BY <1>1
      <4>3. At(1, i) \in Int /\ At(2, j) \in Int
        BY <1>1, <1>2, <3>1, <4>2
      <4> QED BY <1>0, <4>1, <4>3 DEF Near
    <3>2. CASE j \in 1 .. h[2]
      BY <3>2 DEF Passed, Strangers
    <3> QED BY <1>1, <3>1, <3>2
  <2>6. Strangers(g)
    BY <1>5, <2>5 DEF Strangers
  <2> QED BY <2>3, <2>4, <2>6 DEF Passed
<1> QED BY <1>4, <1>5, DropOneFacts

LEMMA DropFromPasses ==
    ASSUME QueuesOK, NEW h \in Heads
    PROVE  DropFrom[h] \in Heads /\ (QueuesForward /\ Passed(h) => Passed(DropFrom[h]))
<1> DEFINE Good(k) == DropFrom[k] \in Heads /\ (QueuesForward /\ Passed(k) => Passed(DropFrom[k]))
           T == {n \in Nat : \E k \in Heads : Left(k) = n /\ ~Good(k)}
<1>1. \A k \in Heads : Left(k) \in Nat
  <2> SUFFICES ASSUME NEW k \in Heads PROVE Left(k) \in Nat
    OBVIOUS
  <2>1. Left(k) \in 0 .. Len(queue[1]) + Len(queue[2])
    BY DropOneLess
  <2> QED BY <2>1
<1>2. ASSUME T # {} PROVE FALSE
  <2>1. PICK m \in T : \A n \in T : m <= n
    <3>1. T \subseteq Nat
      OBVIOUS
    <3> HIDE DEF T
    <3> QED BY <1>2, <3>1, LeastNumber
  <2>2. PICK k \in Heads : Left(k) = m /\ ~Good(k)
    OBVIOUS
  <2>3. m \in Nat
    OBVIOUS
  <2>4. CASE ~HeadsApart(k)
    <3>1. DropFrom[k] = k
      BY <2>4, DropFromFacts
    <3> QED BY <2>2, <3>1
  <2>5. CASE HeadsApart(k)
    <3> DEFINE g == DropOne(k)
    <3>1. DropFrom[k] = DropFrom[g]
      BY <2>5, DropFromFacts
    <3>2. g \in Heads /\ Left(g) < Left(k)
      BY <2>5, DropOneFacts, DropOneLess
    <3>3. QueuesForward /\ Passed(k) => Passed(g)
      BY <2>5, DropOnePasses
    <3>4. Left(g) \in Nat /\ Left(g) \notin T
      <4>1. Left(g) \in Nat
        BY <1>1, <3>2
      <4> HIDE DEF T, g
      <4>2. ~(m <= Left(g))
        BY <2>2, <2>3, <3>2, <4>1
      <4> QED BY <2>1, <4>1, <4>2
    <3> HIDE DEF g
    <3>5. Good(g)
      <4> HIDE DEF Good
      <4> QED BY <3>2, <3>4
    <3> QED BY <2>2, <3>1, <3>3, <3>5
  <2> QED BY <2>4, <2>5
<1>3. Good(h)
  <2> HIDE DEF Good
  <2> QED BY <1>1, <1>2
<1> QED BY <1>3

\* What is dropped in a pass of sync_packages().
LEMMA DropsFacts ==
    ASSUME QueuesOK
    PROVE  /\ Drops \in Heads
           /\ Drops[1] \in 0 .. Len(queue[1]) /\ Drops[2] \in 0 .. Len(queue[2])
           /\ QueuesForward => Passed(Drops)
<1>1. <<0, 0>> \in Heads
  BY QueueFacts, LidarFacts DEF Heads
<1>2. Passed(<<0, 0>>)
  <2>1. 1 .. 0 = {}
    OBVIOUS
  <2> QED BY <2>1 DEF Passed, Earlier, Strangers
<1>3. Drops \in Heads /\ (QueuesForward => Passed(Drops))
  BY <1>1, <1>2, DropFromPasses DEF Drops
<1> QED BY <1>3 DEF Heads

LEMMA KeptFacts ==
    ASSUME QueuesOK, NEW l \in Lidars
    PROVE  /\ Drops[l] \in 0 .. Len(queue[l])
           /\ Kept(l) \in Seq(Scan) /\ Len(Kept(l)) = Len(queue[l]) - Drops[l]
           /\ \A i \in 1 .. Len(queue[l]) - Drops[l] : Kept(l)[i] = queue[l][i + Drops[l]]
<1>1. Drops[l] \in 0 .. Len(queue[l])
  BY DropsFacts DEF Lidars
<1>2. queue[l] \in Seq(Scan)
  BY QueueFacts
<1> QED BY <1>1, <1>2, FromElements DEF Kept

-----------------------------------------------------------------------------
(* The pair of a bundle, its IMU messages, and the propagation              *)

EndsRange == 0 .. MaxTime + MaxSpan
PairOK ==
    /\ QueuesOK /\ pushed \in BOOLEAN
    /\ meas \in Pair(Scan \union {NoScan}) /\ ends \in Pair(EndsRange)
    /\ mean \in Pair(0 .. MaxSpan) /\ num \in Pair(Nat)
    /\ longest \in Pair(0 .. MaxSpan) /\ spaced \in BOOLEAN

LEMMA LargerFacts ==
    ASSUME NEW e, e[1] \in Int, e[2] \in Int
    PROVE  /\ Larger(e) \in Int /\ Larger(e) \in {e[1], e[2]}
           /\ e[1] <= Larger(e) /\ e[2] <= Larger(e)
BY DEF Larger

\* The end of a scan is within a scan length of its stamp.
LEMMA EndOfFacts ==
    ASSUME NEW l \in Lidars, mean \in Pair(0 .. MaxSpan), NEW s \in Scan
    PROVE  /\ s.stamp \in 1 .. MaxTime /\ s.span \in 0 .. MaxSpan /\ s.points \in Nat
           /\ EndOf(l, s) \in EndsRange
           /\ s.stamp <= EndOf(l, s)
           /\ EndOf(l, s) = s.stamp + mean[l] \/ EndOf(l, s) = s.stamp + s.span
<1>1. s.stamp \in 1 .. MaxTime /\ s.span \in 0 .. MaxSpan /\ s.points \in Nat
  <2>1. s.stamp \in 1 .. MaxTime /\ s.span \in Spans \union {0} /\ s.points \in Points \union {0}
    BY DEF Scan
  <2>2. 0 \in 0 .. MaxSpan /\ Spans \subseteq 0 .. MaxSpan /\ Points \subseteq Nat
    BY BundleAssumption
  <2>3. s.span \in 0 .. MaxSpan
    BY ONLY <2>1, <2>2
  <2>4. s.points \in Nat
    <3>1. s.points = 0 \/ s.points \in Points
      BY ONLY <2>1
    <3>2. \A x \in Points : x \in Nat
      BY ONLY <2>2
    <3>3. CASE s.points = 0
      BY ONLY <3>3
    <3>4. CASE s.points \in Points
      BY ONLY <3>2, <3>4
    <3> QED BY ONLY <3>1, <3>3, <3>4
  <2> QED BY <2>1, <2>3, <2>4
<1>2. mean[l] \in 0 .. MaxSpan
  BY DEF Pair
<1>3. EndOf(l, s) = s.stamp + mean[l] \/ EndOf(l, s) = s.stamp + s.span
  BY DEF EndOf
<1>4. MaxTime \in Nat /\ MaxSpan \in Nat
  BY BundleAssumption
<1> QED BY <1>1, <1>2, <1>3, <1>4 DEF EndsRange

LEMMA MeanFacts ==
    ASSUME NEW l \in Lidars, mean \in Pair(0 .. MaxSpan), num \in Pair(Nat), NEW s \in Scan
    PROVE  /\ MeanWith(l, s) \in 0 .. MaxSpan /\ num[l] + 1 \in Nat
           /\ MeanWith(l, s) <= mean[l] \/ MeanWith(l, s) <= s.span
<1>1. s.span \in 0 .. MaxSpan /\ mean[l] \in 0 .. MaxSpan /\ num[l] \in Nat /\ MaxSpan \in Nat
  BY EndOfFacts, BundleAssumption DEF Pair
<1> DEFINE x == s.span - mean[l]  n == num[l] + 1
<1>2. x \in Int /\ n \in Nat \ {0} /\ x + mean[l] = s.span
  BY <1>1
<1>3. MeanWith(l, s) = mean[l] + x \div n
  BY DEF MeanWith
<1> HIDE DEF x, n
<1>4. /\ x \div n \in Int
      /\ x >= 0 => 0 <= x \div n /\ x \div n <= x
      /\ x < 0 => x <= x \div n /\ x \div n <= 0
  BY <1>2, QuotientBounds
<1> DEFINE q == x \div n
<1>5. /\ q \in Int /\ MeanWith(l, s) = mean[l] + q
      /\ x >= 0 => 0 <= q /\ q <= x
      /\ x < 0 => x <= q /\ q <= 0
  BY <1>3, <1>4
<1> HIDE DEF q
<1>6. /\ MeanWith(l, s) \in 0 .. MaxSpan
      /\ MeanWith(l, s) <= mean[l] \/ MeanWith(l, s) <= s.span
  BY <1>1, <1>2, <1>5
<1> QED BY <1>1, <1>6

\* The pair that a pass works on.
LEMMA PairedFacts ==
    ASSUME PairOK, CanPair, NEW l \in Lidars
    PROVE  /\ Paired[l] \in Scan \union {NoScan}
           /\ PairedEnds[l] \in EndsRange
           /\ pushed => Paired[l] = meas[l] /\ PairedEnds[l] = ends[l]
           /\ ~pushed => /\ Kept(l) # <<>> /\ Paired[l] = Kept(l)[1] /\ Paired[l] \in Scan
                         /\ PairedEnds[l] = EndOf(l, Paired[l])
<1> USE DEF PairOK
<1>1. CASE pushed
  BY <1>1 DEF Paired, PairedEnds, Pair
<1>2. CASE ~pushed
  <2>1. Kept(l) # <<>>
    BY <1>2 DEF CanPair
  <2>2. Kept(l) \in Seq(Scan)
    BY KeptFacts
  <2>3. Paired[l] = Kept(l)[1] /\ Paired[l] \in Scan
    BY <1>2, <2>1, <2>2 DEF Paired
  <2>4. PairedEnds[l] = EndOf(l, Paired[l])
    BY <1>2 DEF PairedEnds
  <2> QED BY <1>2, <2>1, <2>3, <2>4, EndOfFacts
<1> QED BY <1>1, <1>2

LEMMA PushFacts ==
    ASSUME PairOK, CanPair, Push
    PROVE  /\ meas' \in Pair(Scan \union {NoScan}) /\ ends' \in Pair(EndsRange)
           /\ mean' \in Pair(0 .. MaxSpan) /\ num' \in Pair(Nat)
           /\ longest' \in Pair(0 .. MaxSpan) /\ spaced' \in BOOLEAN
           /\ \A l \in Lidars : meas'[l] = Paired[l] /\ ends'[l] = PairedEnds[l]
<1>1. Paired \in Pair(Scan \union {NoScan})
  <2>1. Paired = [l \in Lidars |-> Paired[l]]
    BY DEF Paired, PairOK, Pair
  <2> QED BY <2>1, PairedFacts DEF Pair
<1>2. PairedEnds \in Pair(EndsRange)
  <2>1. PairedEnds = [l \in Lidars |-> PairedEnds[l]]
    BY DEF PairedEnds, PairOK, Pair
  <2> QED BY <2>1, PairedFacts DEF Pair
<1>3. mean' \in Pair(0 .. MaxSpan) /\ num' \in Pair(Nat)
  <2>1. CASE pushed
    BY <2>1 DEF Push, PairOK
  <2>2. CASE ~pushed
    <3>1. \A l \in Lidars : /\ MeanWith(l, Paired[l]) \in 0 .. MaxSpan /\ num[l] + 1 \in Nat
                            /\ mean[l] \in 0 .. MaxSpan /\ num[l] \in Nat
      BY <2>2, PairedFacts, MeanFacts DEF PairOK, Pair
    <3>2. /\ mean' = [l \in Lidars |-> IF TooShort(l, Paired[l]) THEN mean[l]
                                       ELSE MeanWith(l, Paired[l])]
          /\ num' = [l \in Lidars |-> IF TooShort(l, Paired[l]) THEN num[l] ELSE num[l] + 1]
      BY <2>2 DEF Push
    <3> QED BY <3>1, <3>2 DEF Pair
  <2> QED BY <2>1, <2>2
<1>4. longest' \in Pair(0 .. MaxSpan) /\ spaced' \in BOOLEAN
  <2>1. CASE pushed
    BY <2>1 DEF Push, PairOK, lengths
  <2>2. CASE ~pushed
    <3>1. \A l \in Lidars : Paired[l].span \in 0 .. MaxSpan /\ longest[l] \in 0 .. MaxSpan
      BY <2>2, PairedFacts, EndOfFacts DEF PairOK, Pair
    <3>2. /\ longest' = [l \in Lidars |-> IF Paired[l].span > longest[l] THEN Paired[l].span
                                          ELSE longest[l]]
          /\ spaced' \in BOOLEAN
      BY <2>2 DEF Push
    <3> QED BY <3>1, <3>2 DEF Pair
  <2> QED BY <2>1, <2>2
<1> QED BY <1>1, <1>2, <1>3, <1>4 DEF Push

\* What a bundle takes of the IMU buffer is no later than its end; and if the stamps in
\* the buffer increase, what is left is no earlier.
Sorted(s) == \A i, j \in 1 .. Len(s) : i < j => s[i] < s[j]
LEMMA GatheredFacts ==
    ASSUME imu \in Seq(Int), imu # <<>>, NEW e, Larger(e) \in Int
    PROVE  /\ Gathered(e) \in 0 .. Len(imu)
           /\ \A i \in 1 .. Gathered(e) : imu[i] <= Larger(e)
           /\ Sorted(imu) => \A i \in Gathered(e) + 1 .. Len(imu) : imu[i] >= Larger(e)
<1> DEFINE end == Larger(e)
           takes(k) == imu[k] <= end /\ \A i \in 1 .. (k - 1) : imu[i] < end
           T == {k \in 1 .. Len(imu) : takes(k)}
           m == Max(T)
<1>0. Len(imu) \in Nat /\ 1 \in 1 .. Len(imu) /\ \A i \in 1 .. Len(imu) : imu[i] \in Int
  OBVIOUS
<1>1. CASE imu[1] >= end
  <2>1. Gathered(e) = 0
    BY <1>1 DEF Gathered
  <2>2. ASSUME Sorted(imu), NEW i \in 1 .. Len(imu) PROVE imu[i] >= end
    <3>1. i = 1 \/ imu[1] < imu[i]
      BY <1>0, <2>2 DEF Sorted
    <3> QED BY <1>0, <1>1, <3>1
  <2> QED BY <1>0, <2>1, <2>2
<1>2. CASE ~(imu[1] >= end)
  <2>1. Gathered(e) = m
    BY <1>2 DEF Gathered
  <2>2. 1 \in T
    <3>1. imu[1] <= end
      BY <1>0, <1>2
    <3> QED BY <1>0, <3>1
  <2>3. m \in T /\ \A k \in T : k <= m
    <3>1. T \subseteq 1 .. Len(imu) /\ T # {}
      BY <2>2
    <3> HIDE DEF T
    <3> QED BY <1>0, <3>1, MaxOfPositions
  <2>4. m \in 1 .. Len(imu) /\ takes(m)
    BY <2>3
  <2>5. ASSUME NEW i \in 1 .. m PROVE imu[i] <= end
    <3>1. i = m \/ i \in 1 .. (m - 1)
      BY <2>4
    <3>2. i \in 1 .. Len(imu)
      BY <1>0, <2>4
    <3> HIDE DEF m
    <3> QED BY <1>0, <2>4, <3>1, <3>2
  <2>6. ASSUME Sorted(imu), NEW i \in m + 1 .. Len(imu) PROVE imu[i] >= end
    <3>1. i \in 1 .. Len(imu) /\ ~(i <= m) /\ m \in Int /\ m + 1 \in 1 .. Len(imu)
      BY <1>0, <2>4
    <3>2. i \notin T
      BY <2>3, <3>1
    <3>3. PICK k \in 1 .. i : ~(imu[k] < end)
      <4>1. ~takes(i)
        BY <3>1, <3>2
      <4>2. CASE ~(imu[i] <= end)
        BY <1>0, <3>1, <4>2
      <4>3. CASE imu[i] <= end
        <5>1. PICK k \in 1 .. (i - 1) : ~(imu[k] < end)
          BY <4>1, <4>3
        <5> QED BY <3>1, <5>1
      <4> QED BY <4>2, <4>3
    <3>4. k \in 1 .. Len(imu) /\ (k = i \/ k < i)
      BY <3>1
    <3>5. imu[k] <= imu[i]
      BY <1>0, <2>6, <3>1, <3>4 DEF Sorted
    <3> QED BY <1>0, <3>1, <3>3, <3>4, <3>5
  <2> HIDE DEF m
  <2> QED BY <1>0, <2>1, <2>4, <2>5, <2>6
<1> QED BY <1>1, <1>2

\* Running sums exist.
Summands(d, n) == n \in Nat /\ d \in [1 .. n -> Int]
SumsUp(f, d, n) == f[0] = 0 /\ \A i \in 1 .. n : f[i] = f[i - 1] + d[i]
LEMMA RunningSum ==
    ASSUME NEW n, NEW d, Summands(d, n)
    PROVE  \E f \in [0 .. n -> Int] : SumsUp(f, d, n)
<1> USE DEF Summands
<1> DEFINE T == {m \in 0 .. n : ~ \E f \in [0 .. m -> Int] : SumsUp(f, d, m)}
<1>1. ASSUME T # {} PROVE FALSE
  <2>1. PICK m \in T : \A k \in T : m <= k
    <3>1. T \subseteq Nat
      OBVIOUS
    <3> HIDE DEF T
    <3> QED BY <1>1, <3>1, LeastNumber
  <2>2. m \in 0 .. n /\ ~ \E f \in [0 .. m -> Int] : SumsUp(f, d, m)
    OBVIOUS
  <2>3. CASE m = 0
    <3>1. [i \in 0 .. 0 |-> 0] \in [0 .. 0 -> Int] /\ SumsUp([i \in 0 .. 0 |-> 0], d, 0)
      BY DEF SumsUp
    <3> QED BY <2>2, <2>3, <3>1
  <2>4. CASE m # 0
    <3>1. m - 1 \in 0 .. n /\ m - 1 \notin T
      <4>1. m - 1 \in 0 .. n /\ ~(m <= m - 1)
        BY <2>2, <2>4
      <4> HIDE DEF T
      <4> QED BY <2>1, <4>1
    <3>2. PICK f \in [0 .. m - 1 -> Int] : SumsUp(f, d, m - 1)
      BY <3>1
    <3> DEFINE g == [i \in 0 .. m |-> IF i = m THEN f[m - 1] + d[m] ELSE f[i]]
    <3>3. m \in 1 .. n /\ m - 1 \in 0 .. m - 1 /\ d[m] \in Int /\ f[m - 1] \in Int
      BY <2>2, <2>4, <3>1
    <3>4. g \in [0 .. m -> Int]
      BY <3>3
    <3>5. g[0] = 0
      BY <3>2, <3>3 DEF SumsUp
    <3>6. ASSUME NEW i \in 1 .. m PROVE g[i] = g[i - 1] + d[i]
      <4>1. CASE i = m
        BY <3>3, <4>1
      <4>2. CASE i # m
        <5>1. i \in 1 .. m - 1 /\ i - 1 \in 0 .. m - 1 /\ i - 1 # m /\ i \in 0 .. m /\ i - 1 \in 0 .. m
          BY <3>3, <4>2
        <5>2. g[i] = f[i] /\ g[i - 1] = f[i - 1]
          BY <4>2, <5>1
        <5>3. f[i] = f[i - 1] + d[i]
          BY <3>2, <5>1 DEF SumsUp
        <5> HIDE DEF g
        <5> QED BY <5>2, <5>3
      <4> QED BY <4>1, <4>2
    <3> HIDE DEF g
    <3> QED BY <2>2, <3>4, <3>5, <3>6 DEF SumsUp
  <2> QED BY <2>3, <2>4
<1>2. n \in 0 .. n /\ n \notin T
  BY <1>1
<1> QED BY <1>2

\* What holds of the first partial sum, and of each if of the one before it, holds of
\* all: the two facts that are needed.
LEMMA SumInteger ==
    ASSUME NEW n, NEW d, NEW f, Summands(d, n), SumsUp(f, d, n)
    PROVE  \A i \in 0 .. n : f[i] \in Int
<1> USE DEF Summands
<1> DEFINE T == {m \in 0 .. n : f[m] \notin Int}
<1>1. ASSUME T # {} PROVE FALSE
  <2>1. PICK m \in T : \A k \in T : m <= k
    <3>1. T \subseteq Nat
      OBVIOUS
    <3> HIDE DEF T
    <3> QED BY <1>1, <3>1, LeastNumber
  <2>2. m \in 1 .. n /\ m - 1 \in 0 .. n /\ ~(m <= m - 1)
    BY DEF SumsUp
  <2>3. f[m - 1] \in Int
    BY <2>1, <2>2
  <2> QED BY <2>2, <2>3 DEF SumsUp
<1> QED BY <1>1

Differences(d, n, s, start) ==
    /\ Summands(d, n) /\ s \in [1 .. n -> Int] /\ start \in Int
    /\ \A i \in 1 .. n : d[i] = s[i] - (IF i = 1 THEN start ELSE s[i - 1])
LEMMA SumTelescopes ==
    ASSUME NEW n, NEW d, NEW f, NEW s, NEW start,
           Differences(d, n, s, start), SumsUp(f, d, n)
    PROVE  \A i \in 1 .. n : f[i] = s[i] - start
<1> USE DEF Summands, Differences
<1> DEFINE T == {m \in 1 .. n : f[m] # s[m] - start}
<1>1. ASSUME T # {} PROVE FALSE
  <2>1. PICK m \in T : \A k \in T : m <= k
    <3>1. T \subseteq Nat
      OBVIOUS
    <3> HIDE DEF T
    <3> QED BY <1>1, <3>1, LeastNumber
  <2>2. m \in 1 .. n /\ f[m] = f[m - 1] + d[m] /\ f[m] # s[m] - start /\ f[m - 1] \in Int
    <3>1. m \in 1 .. n /\ f[m] # s[m] - start /\ m - 1 \in 0 .. n
      OBVIOUS
    <3>2. f[m - 1] \in Int
      <4>0. Summands(d, n)
        OBVIOUS
      <4> HIDE DEF Summands
      <4>1. \A i \in 0 .. n : f[i] \in Int
        BY <4>0, SumInteger
      <4> QED BY <3>1, <4>1
    <3> QED BY <3>1, <3>2 DEF SumsUp
  <2>3. CASE m = 1
    BY <2>2, <2>3 DEF SumsUp
  <2>4. CASE m # 1
    <3>1. m - 1 \in 1 .. n /\ ~(m <= m - 1)
      BY <2>2, <2>4
    <3>2. f[m - 1] = s[m - 1] - start
      BY <2>1, <3>1
    <3>3. d[m] = s[m] - s[m - 1] /\ s[m] \in Int /\ s[m - 1] \in Int
      BY <2>2, <2>4, <3>1
    <3> QED BY <2>2, <3>2, <3>3
  <2> QED BY <2>3, <2>4
<1> QED BY <1>1

\* How long the filter is propagated; exactly from the last end to the new one if the
\* messages lie between them in order.
LEMMA PropagationFacts ==
    ASSUME NEW v \in Seq(Int), NEW end \in Int, carried \in Int, lastEnd \in Int, v # <<>>
    PROVE  /\ Propagation(v, end) \in Int
           /\ Sorted(v) /\ carried <= lastEnd
                /\ (\A i \in 1 .. Len(v) : lastEnd <= v[i] /\ v[i] <= end)
              => Propagation(v, end) = end - lastEnd
<1> DEFINE w == <<carried>> \o v
           n == Len(v)
           d == [i \in 1 .. n |-> Step(w[i], w[i + 1])]
           upTo == CHOOSE f : f = [i \in 0 .. n |-> IF i = 0 THEN 0
                                                    ELSE f[i - 1] + Step(w[i], w[i + 1])]
<1>1. Propagation(v, end) = upTo[n] + Distance(end, w[Len(w)])
  BY DEF Propagation
<1>2. n \in Nat /\ n >= 1 /\ n \in 1 .. n /\ Len(w) = n + 1 /\ w[1] = carried
      /\ (\A i \in 1 .. n : w[i + 1] = v[i] /\ v[i] \in Int)
      /\ \A i \in 1 .. n + 1 : w[i] \in Int
  OBVIOUS
<1>3. \A i \in 1 .. n : d[i] = Step(w[i], w[i + 1]) /\ Step(w[i], w[i + 1]) \in Int
  <2> SUFFICES ASSUME NEW i \in 1 .. n PROVE Step(w[i], w[i + 1]) \in Int
    OBVIOUS
  <2>1. w[i] \in Int /\ w[i + 1] \in Int
    BY <1>2
  <2> HIDE DEF w
  <2> QED BY <2>1 DEF Step
<1> HIDE DEF w
<1>4. Summands(d, n)
  BY <1>2, <1>3 DEF Summands
<1>5. PICK f \in [0 .. n -> Int] : SumsUp(f, d, n)
  <2> HIDE DEF d, n
  <2> QED BY <1>4, RunningSum
<1>6. f = [i \in 0 .. n |-> IF i = 0 THEN 0 ELSE f[i - 1] + Step(w[i], w[i + 1])]
  <2>1. \A i \in 0 .. n : f[i] = IF i = 0 THEN 0 ELSE f[i - 1] + Step(w[i], w[i + 1])
    BY <1>2, <1>3, <1>5 DEF SumsUp
  <2> HIDE DEF n
  <2> QED BY <2>1
<1>7. upTo = [i \in 0 .. n |-> IF i = 0 THEN 0 ELSE upTo[i - 1] + Step(w[i], w[i + 1])]
  <2> HIDE DEF n
  <2> QED BY <1>6
<1> HIDE DEF upTo
<1>8. SumsUp(upTo, d, n)
  <2>1. upTo[0] = 0
    BY <1>2, <1>7
  <2>2. \A i \in 1 .. n : i \in 0 .. n /\ i # 0
    BY <1>2
  <2>3. \A i \in 1 .. n : upTo[i] = upTo[i - 1] + Step(w[i], w[i + 1])
    BY <1>7, <2>2
  <2> HIDE DEF d, n
  <2> QED BY <1>3, <2>1, <2>3 DEF SumsUp
<1> HIDE DEF d, n
<1>9. upTo[n] \in Int
  BY <1>2, <1>4, <1>8, SumInteger
<1>10. w[Len(w)] = v[n] /\ v[n] \in Int
  BY <1>2
<1>11. Propagation(v, end) \in Int
  BY <1>1, <1>9, <1>10 DEF Distance
<1>12. ASSUME Sorted(v), carried <= lastEnd, \A i \in 1 .. n : lastEnd <= v[i] /\ v[i] <= end
       PROVE  Propagation(v, end) = end - lastEnd
  <2>1. v \in [1 .. n -> Int]
    BY DEF n
  <2>2. ASSUME NEW i \in 1 .. n PROVE d[i] = v[i] - (IF i = 1 THEN lastEnd ELSE v[i - 1])
    <3>1. d[i] = Step(w[i], v[i]) /\ v[i] \in Int /\ lastEnd <= v[i]
      BY <1>2, <1>3, <1>12
    <3>2. CASE i = 1
      <4>1. w[i] = carried
        BY <1>2, <3>2
      <4> QED BY <1>12, <3>1, <3>2, <4>1 DEF Step
    <3>3. CASE i # 1
      <4>1. i - 1 \in 1 .. n /\ (i - 1) + 1 = i /\ i - 1 < i
        BY <1>2, <3>3
      <4>2. w[i] = v[i - 1] /\ v[i - 1] \in Int /\ lastEnd <= v[i - 1]
        BY <1>2, <1>12, <4>1
      <4> QED BY <3>1, <3>3, <4>2 DEF Step
    <3> QED BY <3>2, <3>3
  <2>3. upTo[n] = v[n] - lastEnd
    <3>1. \A i \in 1 .. n : upTo[i] = v[i] - lastEnd
      <4>1. Differences(d, n, v, lastEnd)
        BY <1>4, <2>1, <2>2 DEF Differences
      <4> QED BY <1>8, <4>1, SumTelescopes
    <3> QED BY <1>2, <3>1
  <2>4. v[n] <= end
    BY <1>2, <1>12
  <2>5. Distance(end, v[n]) = end - v[n]
    BY <1>10, <2>4 DEF Distance
  <2> QED BY <1>1, <1>10, <2>3, <2>5
<1> QED BY <1>11, <1>12 DEF n

-----------------------------------------------------------------------------
(* Types                                                                   *)

LEMMA ConstantFacts ==
    /\ MaxSpan \in Nat /\ MaxSkew \in Nat /\ MaxTime \in Nat /\ Horizon \in Nat
    /\ MaxInit \in Nat /\ MaxRestarts \in Nat /\ Horizon > MaxTime + MaxSpan
    /\ Spans \union {0} \subseteq 0 .. MaxSpan /\ Points \union {0} \subseteq Nat
    /\ DownSizes \subseteq Nat /\ Garbage \subseteq Nat
<1>1. Spans \subseteq 0 .. MaxSpan /\ 0 \in 0 .. MaxSpan
  BY BundleAssumption
<1>2. Spans \union {0} \subseteq 0 .. MaxSpan
  BY <1>1
<1>3. Points \union {0} \subseteq Nat
  BY BundleAssumption
<1> QED BY <1>2, <1>3, BundleAssumption DEF Horizon

LEMMA TypePair == TypeOK => PairOK
BY DEF TypeOK, PairOK, QueuesOK, EndsRange

THEOREM TypeInit == Init => TypeOK
<1> SUFFICES ASSUME Init PROVE TypeOK
  OBVIOUS
<1>1. 0 \in EndsRange /\ 0 \in 0 .. MaxSpan /\ 0 \in 0 .. MaxTime /\ 0 \in 0 .. Horizon /\ -1 \in -1 .. Horizon
  BY ConstantFacts DEF EndsRange
<1>2. /\ queue \in Pair(Seq(Scan)) /\ meas \in Pair(Scan \union {NoScan})
      /\ lastStamp \in Pair(0..MaxTime) /\ ends \in Pair(EndsRange)
      /\ mean \in Pair(0..MaxSpan) /\ num \in Pair(Nat)
  BY <1>1 DEF Init, Pair
<1>3. imu \in Seq(1..Horizon) /\ fed \in Seq(1..Horizon) /\ lastImu \in -1..Horizon /\ carried \in 0..Horizon
  BY <1>1 DEF Init
<1>4. {started, pushed, needInit, map} \subseteq BOOLEAN
  BY DEF Init
<1>5. {initIter, bundles, undistorts, restarts} \subseteq Nat /\ predicted \in Int
  BY DEF Init
<1>6. {closed, odometry.stamp} \subseteq EndsRange
  BY <1>1 DEF Init
<1>7. lastEnd \in Garbage \union EndsRange
  BY DEF Init
<1>8. feats \in [bundle: 0..bundles, size: DownSizes \union {0}]
  BY DEF Init
<1>9. odometry \in [bundle: 0..bundles, cloud: 0..bundles, stamp: Nat]
  BY DEF Init
<1>10. dropped \in Pair(SUBSET (1..MaxTime))
  BY DEF Init, Pair
<1>11. longest \in Pair(0..MaxSpan) /\ spaced \in BOOLEAN
  BY <1>1 DEF Init, Pair
<1> QED BY <1>2, <1>3, <1>4, <1>5, <1>6, <1>7, <1>8, <1>9, <1>10, <1>11 DEF TypeOK, EndsRange

\* The stamp of a message, later than the last one unless a clock goes back.
ScanStamps(l) == {u \in 1..MaxTime : lastStamp[l] + MinGap <= u} \union Rewound(lastStamp[l])
LEMMA ScanStampFacts ==
    ASSUME NEW l \in Lidars, lastStamp \in Pair(0 .. MaxTime), NEW t \in ScanStamps(l)
    PROVE  t \in 1 .. MaxTime /\ t \in Int /\ lastStamp[l] \in Int
<1>1. lastStamp[l] \in 0 .. MaxTime /\ MaxTime \in Nat
  BY ConstantFacts DEF Pair
<1>2. CASE t \in Rewound(lastStamp[l])
  <2>1. t \in 1 .. (lastStamp[l] - 1)
    BY <1>2 DEF Rewound
  <2> QED BY <1>1, <2>1
<1> QED BY <1>1, <1>2 DEF ScanStamps

LEMMA ImuStampFacts ==
    ASSUME lastImu \in Int, lastImu <= Horizon, NEW t \in Later(lastImu) \union Rewound(lastImu)
    PROVE  t \in 1 .. Horizon /\ (lastImu < t \/ t < lastImu)
<1>1. CASE t \in Later(lastImu)
  BY <1>1 DEF Later
<1>2. CASE t \in Rewound(lastImu)
  <2>1. t \in 1 .. (lastImu - 1)
    BY <1>2 DEF Rewound
  <2> QED BY <2>1, ConstantFacts
<1> QED BY <1>1, <1>2

LEMMA TypeScan ==
    ASSUME TypeOK, NEW l \in Lidars, ScanArrives(l)
    PROVE  TypeOK'
<1> USE DEF TypeOK
<1>1. PICK t \in ScanStamps(l),
           s \in Spans, n \in Points :
        /\ queue' = [queue EXCEPT ![l] =
                        Append(IF t < lastStamp[l] THEN <<>> ELSE @,
                               [stamp |-> t, span |-> IF n > 1 THEN s ELSE 0, points |-> n])]
        /\ lastStamp' = [lastStamp EXCEPT ![l] = t]
        /\ restarts' = restarts + IF t < lastStamp[l] THEN 1 ELSE 0
        /\ started' = TRUE
  BY DEF ScanArrives, ScanStamps
<1>2. UNCHANGED <<imu, lastImu, pairing, filter, history, lengths, dropped>>
  BY DEF ScanArrives, ScanStamps
<1>3. t \in 1 .. MaxTime
  BY ScanStampFacts
<1> DEFINE x == [stamp |-> t, span |-> IF n > 1 THEN s ELSE 0, points |-> n]
<1>4. x \in Scan
  BY <1>3 DEF Scan
<1>5. queue' \in Pair(Seq(Scan))
  <2>1. queue[l] \in Seq(Scan)
    BY DEF Pair
  <2>2. Append(IF t < lastStamp[l] THEN <<>> ELSE queue[l], x) \in Seq(Scan)
    BY <1>4, <2>1
  <2>3. queue' = [queue EXCEPT ![l] = Append(IF t < lastStamp[l] THEN <<>> ELSE queue[l], x)]
    BY <1>1
  <2> HIDE DEF x
  <2> QED BY <2>2, <2>3 DEF Pair
<1>6. lastStamp' \in Pair(0 .. MaxTime)
  BY <1>1, <1>3 DEF Pair
<1>7. restarts' \in Nat /\ started' \in BOOLEAN
  BY <1>1
<1> QED BY <1>2, <1>5, <1>6, <1>7 DEF pairing, filter, history, lengths

LEMMA TypeImu ==
    ASSUME TypeOK, ImuArrives
    PROVE  TypeOK'
<1> USE DEF TypeOK
<1>1. PICK t \in (IF lastImu < 0 THEN 1..Horizon ELSE Later(lastImu))
                 \union Rewound(lastImu) :
        /\ imu' = Append(IF t < lastImu THEN <<>> ELSE imu, t)
        /\ lastImu' = t
        /\ restarts' = restarts + IF t < lastImu THEN 1 ELSE 0
  BY DEF ImuArrives
<1>2. UNCHANGED <<queue, lastStamp, started, pairing, filter, history, lengths, dropped>>
  BY DEF ImuArrives
<1>3. t \in 1 .. Horizon
  <2>1. lastImu \in Int /\ Horizon \in Int /\ lastImu <= Horizon
    BY ConstantFacts
  <2>2. CASE t \in Later(lastImu) \union Rewound(lastImu)
    BY <2>1, <2>2, ImuStampFacts
  <2> QED BY <1>1, <2>2
<1>4. imu' \in Seq(1 .. Horizon)
  <2>1. imu \in Seq(1 .. Horizon) /\ <<>> \in Seq(1 .. Horizon)
    OBVIOUS
  <2>2. Append(imu, t) \in Seq(1 .. Horizon) /\ Append(<<>>, t) \in Seq(1 .. Horizon)
    BY ONLY <1>3, <2>1
  <2>3. imu' = Append(imu, t) \/ imu' = Append(<<>>, t)
    BY <1>1
  <2> QED BY <2>2, <2>3
<1>5. lastImu' \in -1 .. Horizon
  BY <1>1, <1>3
<1>6. restarts' \in Nat
  <2>1. restarts' = restarts \/ restarts' = restarts + 1
    BY <1>1
  <2> QED BY <2>1
<1> QED BY <1>2, <1>4, <1>5, <1>6 DEF pairing, filter, history, lengths

\* Scans that are dropped leave their stamps in the history.
LEMMA DropUnpairedFacts ==
    ASSUME QueuesOK, dropped \in Pair(SUBSET (1 .. MaxTime)), DropUnpaired
    PROVE  /\ dropped' \in Pair(SUBSET (1 .. MaxTime))
           /\ \A l \in Lidars : dropped'[l] = dropped[l] \union {At(l, i) : i \in 1 .. Drops[l]}
<1>1. \A l \in Lidars : dropped'[l] = dropped[l] \union {At(l, i) : i \in 1 .. Drops[l]}
  BY DEF DropUnpaired, At
<1>2. ASSUME NEW l \in Lidars PROVE dropped'[l] \in SUBSET (1 .. MaxTime)
  <2>1. \A i \in 1 .. Drops[l] : i \in 1 .. Len(queue[l])
    BY KeptFacts, QueueFacts
  <2>2. \A i \in 1 .. Drops[l] : At(l, i) \in 1 .. MaxTime
    BY <2>1, QueueFacts
  <2>3. dropped[l] \subseteq 1 .. MaxTime
    BY DEF Pair
  <2> QED BY <1>1, <2>2, <2>3
<1>3. dropped' = [l \in Lidars |-> dropped'[l]]
  BY DEF DropUnpaired
<1> QED BY <1>1, <1>2, <1>3 DEF Pair

LEMMA TypeSyncFindsNoPair ==
    ASSUME TypeOK, SyncFindsNoPair
    PROVE  TypeOK'
<1> USE DEF TypeOK
<1>1. UNCHANGED <<lastStamp, started, imu, lastImu, restarts, pairing, filter, history, lengths>>
  BY DEF SyncFindsNoPair
<1>2. queue' \in Pair(Seq(Scan)) /\ dropped' \in Pair(SUBSET (1 .. MaxTime))
  <2>1. CASE BuffersReady
    <3>1. DropUnpaired /\ queue' = [l \in Lidars |-> Kept(l)]
      BY <2>1 DEF SyncFindsNoPair
    <3>2. QueuesOK
      BY DEF QueuesOK
    <3>3. \A l \in Lidars : Kept(l) \in Seq(Scan)
      BY <3>2, KeptFacts
    <3> QED BY <3>1, <3>2, <3>3, DropUnpairedFacts DEF Pair
  <2>2. CASE ~BuffersReady
    BY <2>2 DEF SyncFindsNoPair
  <2> QED BY <2>1, <2>2
<1> QED BY <1>1, <1>2 DEF pairing, filter, history, lengths

LEMMA TypeSyncAwaitsImu ==
    ASSUME TypeOK, SyncAwaitsImu
    PROVE  TypeOK'
<1>0. PairOK /\ QueuesOK /\ dropped \in Pair(SUBSET (1 .. MaxTime))
  BY TypePair DEF PairOK, TypeOK
<1>1. /\ UNCHANGED <<lastStamp, started, imu, lastImu, restarts, filter, history>>
      /\ CanPair /\ DropUnpaired /\ Push /\ pushed' = TRUE
      /\ queue' = [l \in Lidars |-> Kept(l)]
  BY DEF SyncAwaitsImu
<1>2. queue' \in Pair(Seq(Scan))
  <2>1. \A l \in Lidars : Kept(l) \in Seq(Scan)
    BY <1>0, KeptFacts
  <2> QED BY <1>1, <2>1 DEF Pair
<1>3. dropped' \in Pair(SUBSET (1 .. MaxTime))
  BY <1>0, <1>1, DropUnpairedFacts
<1>4. /\ meas' \in Pair(Scan \union {NoScan}) /\ ends' \in Pair(EndsRange)
      /\ mean' \in Pair(0 .. MaxSpan) /\ num' \in Pair(Nat)
      /\ longest' \in Pair(0 .. MaxSpan) /\ spaced' \in BOOLEAN
  BY <1>0, <1>1, PushFacts
<1> QED BY <1>1, <1>2, <1>3, <1>4 DEF TypeOK, filter, history, EndsRange

\* What sync_packages() returns: its IMU messages, and when they end.
LEMMA BundleFacts ==
    ASSUME TypeOK, SyncBundles
    PROVE  LET k == Gathered(PairedEnds)
               v == SubSeq(imu, 1, k)
           IN  /\ CanPair /\ ImuReaches(PairedEnds) /\ DropUnpaired /\ Push
               /\ Larger(PairedEnds) \in EndsRange /\ Larger(PairedEnds) <= lastImu
               /\ PairedEnds[1] <= Larger(PairedEnds) /\ PairedEnds[2] <= Larger(PairedEnds)
               /\ k \in 0 .. Len(imu) /\ Len(imu) \in Nat /\ imu # <<>>
               /\ v \in Seq(1 .. Horizon) /\ Len(v) = k
               /\ \A i \in 1 .. k : v[i] = imu[i] /\ imu[i] \in 1 .. Horizon
                                    /\ imu[i] <= Larger(PairedEnds)
               /\ fed' = v /\ imu' \in Seq(1 .. Horizon) /\ Len(imu') = Len(imu) - k
               /\ \A i \in 1 .. Len(imu) - k : imu'[i] = imu[i + k]
               /\ Sorted(imu) => \A i \in k + 1 .. Len(imu) : imu[i] >= Larger(PairedEnds)
               /\ closed' = Larger(PairedEnds) /\ bundles' = bundles + 1
               /\ Process(v, bundles + 1) /\ Register(bundles + 1)
<1> DEFINE k == Gathered(PairedEnds)
           v == SubSeq(imu, 1, k)
           end == Larger(PairedEnds)
<1>1. CanPair /\ ImuReaches(PairedEnds) /\ DropUnpaired /\ Push
  BY DEF SyncBundles
<1>2. /\ fed' = v /\ imu' = From(imu, k) /\ bundles' = bundles + 1 /\ closed' = end
      /\ Process(v, bundles + 1) /\ Register(bundles + 1)
  BY DEF SyncBundles
<1>3. PairedEnds[1] \in EndsRange /\ PairedEnds[2] \in EndsRange
  BY <1>1, TypePair, PairedFacts, LidarFacts
<1>4. /\ end \in EndsRange /\ end \in Int /\ end <= lastImu
      /\ PairedEnds[1] <= end /\ PairedEnds[2] <= end
  <2>1. /\ end \in Int /\ (end = PairedEnds[1] \/ end = PairedEnds[2])
        /\ PairedEnds[1] <= end /\ PairedEnds[2] <= end
    BY <1>3, LargerFacts DEF EndsRange
  <2> QED BY <1>1, <1>3, <2>1 DEF ImuReaches, EndsRange
<1>5. imu \in Seq(1 .. Horizon) /\ imu \in Seq(Int) /\ imu # <<>> /\ Len(imu) \in Nat
  <2>1. imu \in Seq(1 .. Horizon) /\ imu # <<>>
    BY <1>1 DEF TypeOK, CanPair, BuffersReady
  <2> QED BY <2>1, IntegerElements, ConstantFacts
<1>6. /\ k \in 0 .. Len(imu)
      /\ \A i \in 1 .. k : imu[i] <= end
      /\ Sorted(imu) => \A i \in k + 1 .. Len(imu) : imu[i] >= end
  BY <1>4, <1>5, GatheredFacts
<1> HIDE DEF k, end
<1>7. v \in Seq(1 .. Horizon) /\ Len(v) = k /\ \A i \in 1 .. k : v[i] = imu[i] /\ imu[i] \in 1 .. Horizon
  BY <1>5, <1>6, PrefixElements
<1>8. /\ From(imu, k) \in Seq(1 .. Horizon) /\ Len(From(imu, k)) = Len(imu) - k
      /\ \A i \in 1 .. Len(imu) - k : From(imu, k)[i] = imu[i + k]
  BY <1>5, <1>6, FromElements
<1> HIDE DEF v
<1>9. /\ CanPair /\ ImuReaches(PairedEnds) /\ DropUnpaired /\ Push
      /\ end \in EndsRange /\ end <= lastImu /\ PairedEnds[1] <= end /\ PairedEnds[2] <= end
      /\ k \in 0 .. Len(imu) /\ Len(imu) \in Nat /\ imu # <<>>
      /\ v \in Seq(1 .. Horizon) /\ Len(v) = k
      /\ \A i \in 1 .. k : v[i] = imu[i] /\ imu[i] \in 1 .. Horizon /\ imu[i] <= end
      /\ fed' = v /\ imu' \in Seq(1 .. Horizon) /\ Len(imu') = Len(imu) - k
      /\ \A i \in 1 .. Len(imu) - k : imu'[i] = imu[i + k]
      /\ Sorted(imu) => \A i \in k + 1 .. Len(imu) : imu[i] >= end
      /\ closed' = end /\ bundles' = bundles + 1
      /\ Process(v, bundles + 1) /\ Register(bundles + 1)
  BY <1>1, <1>2, <1>4, <1>5, <1>6, <1>7, <1>8
<1> QED BY <1>9 DEF k, end, v

\* The filter: initialised, or propagated to the end of the bundle.
LEMMA ProcessTypes ==
    ASSUME TypeOK, NEW v \in Seq(1 .. Horizon), NEW n \in Nat, n = bundles + 1,
           Larger(PairedEnds) \in EndsRange, Process(v, n)
    PROVE  /\ initIter' \in Nat /\ undistorts' \in Nat /\ needInit' \in BOOLEAN
           /\ carried' \in 0 .. Horizon /\ predicted' \in Int
           /\ lastEnd' \in Garbage \union EndsRange
           /\ feats' \in [bundle : 0 .. n, size : DownSizes \union {0}]
<1>1. /\ initIter \in Nat /\ undistorts \in Nat /\ needInit \in BOOLEAN
      /\ carried \in 0 .. Horizon /\ lastEnd \in Garbage \union EndsRange
      /\ carried \in Int /\ lastEnd \in Int
  <2>1. lastEnd \in Garbage \union EndsRange
    BY DEF TypeOK, EndsRange
  <2>2. lastEnd \in Int
    BY <2>1, ConstantFacts DEF EndsRange
  <2>3. initIter \in Nat /\ undistorts \in Nat /\ needInit \in BOOLEAN /\ carried \in 0 .. Horizon
    BY DEF TypeOK
  <2> QED BY <2>1, <2>2, <2>3
<1>2. feats \in [bundle : 0 .. n, size : DownSizes \union {0}]
  <2>1. feats \in [bundle : 0 .. bundles, size : DownSizes \union {0}] /\ bundles \in Nat
    BY DEF TypeOK
  <2>2. 0 .. bundles \subseteq 0 .. n
    BY <2>1
  <2> QED BY <2>1, <2>2
<1>3. CASE v = <<>>
  BY <1>1, <1>2, <1>3 DEF Process, InitProcess, Undistort
<1>4. CASE v # <<>>
  <2>1. Len(v) \in Nat /\ v[Len(v)] \in 0 .. Horizon /\ v \in Seq(Int)
    <3>1. v[Len(v)] \in 1 .. Horizon /\ Len(v) \in Nat /\ v \in Seq(Int)
      BY <1>4, IntegerElements, ConstantFacts
    <3> QED BY <3>1
  <2>2. CASE InitProcess(v)
    <3>1. initIter + Len(v) \in Nat /\ (initIter + Len(v) <= MaxInit) \in BOOLEAN
      BY <1>1, <2>1
    <3> QED BY <1>1, <1>2, <2>1, <2>2, <3>1 DEF InitProcess
  <2>3. CASE Undistort(v, n)
    <3>1. /\ predicted' = Propagation(v, Larger(PairedEnds)) /\ lastEnd' = Larger(PairedEnds)
          /\ carried' = v[Len(v)] /\ undistorts' = undistorts + 1
          /\ UNCHANGED <<initIter, needInit>>
      BY <2>3 DEF Undistort
    <3>2. predicted' \in Int
      <4>1. Larger(PairedEnds) \in Int
        BY DEF EndsRange
      <4> QED BY <1>1, <1>4, <2>1, <3>1, <4>1, PropagationFacts
    <3>3. feats' \in [bundle : 0 .. n, size : DownSizes \union {0}]
      <4>1. feats' = feats \/ \E m \in DownSizes : feats' = [bundle |-> n, size |-> m]
        BY <2>3 DEF Undistort
      <4> QED BY <1>2, <4>1
    <3> QED BY <1>1, <2>1, <3>1, <3>2, <3>3
  <2> QED BY <1>4, <2>2, <2>3 DEF Process
<1> QED BY <1>3, <1>4

LEMMA TypeSyncBundles ==
    ASSUME TypeOK, SyncBundles
    PROVE  TypeOK'
<1> DEFINE k == Gathered(PairedEnds)
           v == SubSeq(imu, 1, k)
           n == bundles + 1
           end == Larger(PairedEnds)
<1>0. PairOK /\ QueuesOK /\ dropped \in Pair(SUBSET (1 .. MaxTime)) /\ bundles \in Nat
  BY TypePair DEF PairOK, TypeOK
<1>1. /\ CanPair /\ DropUnpaired /\ Push /\ end \in EndsRange
      /\ v \in Seq(1 .. Horizon) /\ fed' = v /\ imu' \in Seq(1 .. Horizon)
      /\ closed' = end /\ bundles' = n /\ Process(v, n) /\ Register(n)
  BY BundleFacts
<1>2. UNCHANGED <<lastStamp, started, lastImu, restarts>> /\ pushed' = FALSE /\ queue' = PopScans
  BY DEF SyncBundles
<1>3. queue' \in Pair(Seq(Scan))
  <2>1. ASSUME NEW l \in Lidars PROVE Tail(Kept(l)) \in Seq(Scan)
    <3>1. Kept(l) \in Seq(Scan) /\ Kept(l) # <<>>
      <4>1. CASE pushed
        <5>1. Drops[l] = 0
          BY <4>1, LidarFacts DEF Drops
        <5>2. queue[l] \in Seq(Scan) /\ queue[l] # <<>>
          BY <1>0, <1>1, QueueFacts DEF CanPair, BuffersReady, Lidars
        <5>3. Len(Kept(l)) = Len(queue[l]) - 0 /\ Kept(l) \in Seq(Scan)
          BY <1>0, <5>1, KeptFacts
        <5> QED BY <5>2, <5>3
      <4>2. CASE ~pushed
        BY <1>0, <1>1, <4>2, KeptFacts DEF CanPair
      <4> QED BY <4>1, <4>2
    <3> QED BY <3>1
  <2> QED BY <1>2, <2>1 DEF PopScans, Pair
<1>4. dropped' \in Pair(SUBSET (1 .. MaxTime))
  BY <1>0, <1>1, DropUnpairedFacts
<1>5. /\ meas' \in Pair(Scan \union {NoScan}) /\ ends' \in Pair(EndsRange)
      /\ mean' \in Pair(0 .. MaxSpan) /\ num' \in Pair(Nat)
      /\ longest' \in Pair(0 .. MaxSpan) /\ spaced' \in BOOLEAN
      /\ \A l \in Lidars : ends'[l] = PairedEnds[l]
  BY <1>0, <1>1, PushFacts
<1>6. n \in Nat /\ bundles' = n
  BY <1>0, <1>1
<1> HIDE DEF k, v, n
<1>7. /\ initIter' \in Nat /\ undistorts' \in Nat /\ needInit' \in BOOLEAN
      /\ carried' \in 0 .. Horizon /\ predicted' \in Int
      /\ lastEnd' \in Garbage \union EndsRange
      /\ feats' \in [bundle : 0 .. n, size : DownSizes \union {0}]
  <2>1. n = bundles + 1
    BY DEF n
  <2> QED BY <1>1, <1>6, <2>1, ProcessTypes
<1>8. map' \in BOOLEAN /\ odometry' \in [bundle : 0 .. n, cloud : 0 .. n, stamp : EndsRange]
  <2>1. map \in BOOLEAN
    BY DEF TypeOK
  <2>2. odometry \in [bundle : 0 .. n, cloud : 0 .. n, stamp : EndsRange]
    <3>1. /\ odometry \in [bundle : 0 .. bundles, cloud : 0 .. bundles, stamp : Nat]
          /\ odometry.stamp \in EndsRange
      BY DEF TypeOK, EndsRange
    <3>2. 0 .. bundles \subseteq 0 .. n
      BY <1>0 DEF n
    <3> QED BY <3>1, <3>2
  <2>3. Larger(ends') = end
    BY <1>5, LidarFacts DEF Larger
  <2>4. \/ UNCHANGED odometry
        \/ odometry' = [bundle |-> n, cloud |-> feats'.bundle, stamp |-> Larger(ends')]
    BY <1>1 DEF Register
  <2>5. map' \in BOOLEAN
    BY <1>1, <2>1 DEF Register
  <2>6. feats'.bundle \in 0 .. n /\ n \in 0 .. n
    BY <1>6, <1>7
  <2> HIDE DEF end
  <2> QED BY <1>1, <2>2, <2>3, <2>4, <2>5, <2>6
<1>9. {closed', odometry'.stamp} \subseteq EndsRange
      /\ odometry' \in [bundle : 0 .. n, cloud : 0 .. n, stamp : Nat]
  <2>1. EndsRange \subseteq Nat
    BY DEF EndsRange
  <2> QED BY <1>1, <1>8, <2>1
<1>10. lastStamp' \in Pair(0..MaxTime) /\ lastImu' \in -1..Horizon /\ started' \in BOOLEAN
       /\ restarts' \in Nat /\ pushed' \in BOOLEAN /\ fed' \in Seq(1 .. Horizon)
  BY <1>1, <1>2 DEF TypeOK
<1> QED BY <1>1, <1>3, <1>4, <1>5, <1>6, <1>7, <1>8, <1>9, <1>10 DEF TypeOK, EndsRange

LEMMA TypeStep == TypeOK /\ [Next]_vars => TypeOK'
<1> SUFFICES ASSUME TypeOK, [Next]_vars PROVE TypeOK'
  OBVIOUS
<1>1. CASE UNCHANGED vars
  BY <1>1 DEF vars, inputs, pairing, filter, history, lengths, TypeOK
<1>2. CASE Next
  BY <1>2, TypeScan, TypeImu, TypeSyncFindsNoPair, TypeSyncAwaitsImu, TypeSyncBundles
     DEF Next, Loop
<1> QED BY <1>1, <1>2

\* Every state of the node is well typed: the subscriptions, sync_packages(), ImuProcess
\* and main() assign nothing outside the types, whatever arrives.
THEOREM TypeCorrect == Spec => []TypeOK
BY TypeInit, TypeStep, PTL DEF Spec

-----------------------------------------------------------------------------
(* The inductive invariant, while no clock has gone back                    *)

\* No window is longer than the longest scan used, whatever the clocks do.
LengthInv == \A l \in Lidars : mean[l] <= longest[l] /\ ends[l] <= meas[l].stamp + longest[l]

\* No scan that waits begins before the last one used.
WindowInv(l) ==
    /\ meas[l].stamp <= lastStamp[l]
    /\ \A i \in 1 .. Len(queue[l]) : meas[l].stamp <= At(l, i)

\* The IMU messages that wait come after the end of the last bundle.
ImuInv ==
    /\ Sorted(imu)
    /\ \A i \in 1 .. Len(imu) : closed <= imu[i] /\ imu[i] <= lastImu
    /\ closed > 0 => closed <= lastImu
    /\ \A i \in 1 .. Len(fed) : fed[i] <= closed

\* The filter stands at the end of the last bundle that was undistorted, and what the IMU
\* has still to say comes after it.
FilterInv ==
    undistorts > 0 =>
        /\ ~needInit /\ carried <= lastEnd /\ lastEnd <= lastImu
        /\ \A i \in 1 .. Len(imu) : lastEnd <= imu[i]

\* What was dropped is earlier than everything of the other lidar that may still come.
DropInv ==
    /\ \A l \in Lidars : \A a \in dropped[l] :
          /\ a + MaxSkew < lastStamp[Other(l)]
          /\ \A j \in 1 .. Len(queue[Other(l)]) : a + MaxSkew < At(Other(l), j)
    /\ \A a \in dropped[1], b \in dropped[2] : ~Near(a, b)

Orderly == Forward(1) /\ Forward(2) /\ WindowInv(1) /\ WindowInv(2) /\ ImuInv /\ FilterInv /\ DropInv
IInv == TypeOK /\ LengthInv /\ (ClocksForward => Orderly)

LEMMA OrderlyFacts ==
    ASSUME TypeOK, Orderly
    PROVE  /\ QueuesOK /\ QueuesForward /\ PairOK
           /\ \A l \in Lidars : /\ Forward(l) /\ WindowInv(l) /\ Len(queue[l]) \in Nat
                                /\ lastStamp[l] \in Int /\ ends[l] \in Int
                                /\ \A i \in 1 .. Len(queue[l]) : At(l, i) \in Int
<1>1. QueuesOK /\ PairOK
  BY TypePair DEF PairOK
<1>2. QueuesForward
  BY DEF QueuesForward, Orderly, TypeOK
<1>3. \A l \in Lidars : lastStamp[l] \in Int /\ ends[l] \in Int
  BY ConstantFacts DEF TypeOK, Pair
<1>4. \A l \in Lidars : Forward(l) /\ WindowInv(l)
  BY DEF Orderly, Lidars
<1>5. \A l \in Lidars : Len(queue[l]) \in Nat /\ \A i \in 1 .. Len(queue[l]) : At(l, i) \in Int
  BY <1>1, QueueFacts
<1> QED BY <1>1, <1>2, <1>3, <1>4, <1>5

LEMMA OrderlyInit == Init => Orderly
<1> SUFFICES ASSUME Init PROVE Orderly
  OBVIOUS
<1>1. \A l \in Lidars : /\ queue[l] = <<>> /\ lastStamp[l] = 0 /\ ends[l] = 0 /\ dropped[l] = {}
                        /\ meas[l].stamp = 0
  BY DEF Init, NoScan
<1>2. \A l \in Lidars : Forward(l) /\ WindowInv(l)
  BY <1>1, ConstantFacts DEF Forward, WindowInv, Init
<1>3. ImuInv
  BY <1>1, LidarFacts DEF ImuInv, Init, Sorted, Larger
<1>4. FilterInv
  BY DEF FilterInv, Init
<1>5. DropInv
  BY <1>1, LidarFacts DEF DropInv
<1> QED BY <1>2, <1>3, <1>4, <1>5, LidarFacts DEF Orderly

LEMMA LastEndIsNumber == TypeOK => lastEnd \in Int
<1> SUFFICES ASSUME TypeOK PROVE lastEnd \in Int
  OBVIOUS
<1>1. lastEnd \in Garbage \/ lastEnd \in 0 .. MaxTime + MaxSpan
  BY DEF TypeOK
<1>2. Garbage \subseteq Nat
  BY ConstantFacts
<1>3. lastEnd \in Garbage => lastEnd \in Nat
  BY ONLY <1>2
<1> QED BY <1>1, <1>3

LEMMA StampsAreNumbers ==
    ASSUME TypeOK, NEW l \in Lidars
    PROVE  /\ meas[l].stamp \in Int /\ longest[l] \in Int /\ mean[l] \in Int
           /\ ends[l] \in Int /\ closed \in Int /\ odometry.stamp \in Int
<1>1. meas[l] \in Scan \union {NoScan} /\ longest[l] \in 0 .. MaxSpan /\ mean[l] \in 0 .. MaxSpan
      /\ ends[l] \in 0 .. MaxTime + MaxSpan /\ {closed, odometry.stamp} \subseteq 0 .. MaxTime + MaxSpan
  BY DEF TypeOK, Pair
<1>2. meas[l].stamp \in 1 .. MaxTime \/ meas[l].stamp = 0
  BY <1>1 DEF Scan, NoScan
<1> QED BY <1>1, <1>2

\* A buffer that loses its first n scans.
Loses(l, n) ==
    /\ n \in 0 .. Len(queue[l]) /\ Len(queue'[l]) = Len(queue[l]) - n
    /\ \A i \in 1 .. Len(queue[l]) - n : queue'[l][i] = queue[l][i + n]

LEMMA LosesFacts ==
    ASSUME TypeOK, NEW l \in Lidars, Forward(l), NEW n, Loses(l, n), lastStamp' = lastStamp
    PROVE  /\ Forward(l)'
           /\ \A i \in 1 .. Len(queue'[l]) : i + n \in n + 1 .. Len(queue[l]) /\ At(l, i)' = At(l, i + n)
<1>0. Len(queue[l]) \in Nat /\ n \in Nat /\ \A i \in 1 .. Len(queue[l]) : At(l, i) \in Int
  BY QueueFacts, TypePair DEF PairOK, Loses
<1>1. \A i \in 1 .. Len(queue'[l]) : i + n \in 1 .. Len(queue[l]) /\ At(l, i)' = At(l, i + n)
  BY <1>0 DEF Loses, At
<1>2. ASSUME NEW i \in 1 .. Len(queue'[l]), NEW j \in 1 .. Len(queue'[l]), i < j
      PROVE  At(l, i)' <= At(l, j)'
  <2>1. i + n < j + n
    BY <1>0, <1>2
  <2> QED BY <1>1, <2>1 DEF Forward
<1>3. \A i \in 1 .. Len(queue'[l]) : At(l, i)' <= lastStamp'[l]
  BY <1>1 DEF Forward
<1>4. \A i \in 1 .. Len(queue'[l]) : i + n \in n + 1 .. Len(queue[l])
  BY <1>0, <1>1
<1> QED BY <1>1, <1>2, <1>3, <1>4 DEF Forward

\* The scans of a pair are the first that are not dropped, or wait already.
LEMMA PairEnds ==
    ASSUME TypeOK, Orderly, CanPair, NEW l \in Lidars
    PROVE  /\ Drops[l] \in Nat /\ Drops[l] + 1 \in 1 .. Len(queue[l])
           /\ Paired[l].stamp <= lastStamp[l]
           /\ \A j \in Drops[l] + 1 .. Len(queue[l]) : Paired[l].stamp <= At(l, j)
           /\ pushed => Drops[l] = 0
<1>0. /\ QueuesOK /\ PairOK /\ WindowInv(l) /\ Forward(l) /\ Len(queue[l]) \in Nat
      /\ Drops[l] \in 0 .. Len(queue[l]) /\ \A i \in 1 .. Len(queue[l]) : At(l, i) \in Int
  BY OrderlyFacts, KeptFacts
<1>1. CASE pushed
  <2>1. Drops[l] = 0
    BY <1>1, LidarFacts DEF Drops
  <2>2. Paired[l] = meas[l]
    BY <1>0, <1>1, PairedFacts
  <2>3. queue[l] \in Seq(Scan) /\ queue[l] # <<>>
    BY <1>0, QueueFacts DEF CanPair, BuffersReady, Lidars
  <2>4. Len(queue[l]) >= 1
    BY <2>3
  <2> QED BY <1>0, <2>1, <2>2, <2>4 DEF WindowInv
<1>2. CASE ~pushed
  <2>1. Kept(l) # <<>> /\ Paired[l] = Kept(l)[1]
    BY <1>0, <1>2, PairedFacts
  <2>2. Drops[l] + 1 \in 1 .. Len(queue[l]) /\ Kept(l)[1] = queue[l][1 + Drops[l]]
    <3>1. Kept(l) \in Seq(Scan) /\ Len(Kept(l)) = Len(queue[l]) - Drops[l]
          /\ \A i \in 1 .. Len(queue[l]) - Drops[l] : Kept(l)[i] = queue[l][i + Drops[l]]
      BY <1>0, KeptFacts
    <3>2. Len(Kept(l)) >= 1
      BY <2>1, <3>1
    <3> QED BY <1>0, <3>1, <3>2
  <2>3. Paired[l].stamp = At(l, Drops[l] + 1)
    <3>1. 1 + Drops[l] = Drops[l] + 1
      BY <1>0
    <3> QED BY <2>1, <2>2, <3>1 DEF At
  <2> DEFINE d == Drops[l] + 1
  <2>4. d \in 1 .. Len(queue[l]) /\ At(l, d) \in Int /\ Paired[l].stamp = At(l, d)
    BY <1>0, <2>2, <2>3
  <2> HIDE DEF d
  <2>5. ASSUME NEW j \in d .. Len(queue[l]) PROVE At(l, d) <= At(l, j)
    <3>1. j \in 1 .. Len(queue[l]) /\ (j = d \/ d < j)
      BY <1>0, <2>4
    <3> QED BY <1>0, <2>4, <3>1 DEF Forward
  <2>6. Paired[l].stamp <= lastStamp[l]
    BY <1>0, <2>4 DEF Forward
  <2> QED BY <1>0, <1>2, <2>4, <2>5, <2>6 DEF d
<1> QED BY <1>1, <1>2

\* The scan that a pass chooses begins no later than the scans it leaves.
LEMMA WindowKept ==
    ASSUME TypeOK, Orderly, CanPair, Push, lastStamp' = lastStamp,
           NEW l \in Lidars, NEW n, Loses(l, n), Drops[l] <= n
    PROVE  WindowInv(l)'
<1>1. /\ Drops[l] \in Nat /\ Paired[l].stamp <= lastStamp[l]
      /\ \A j \in Drops[l] + 1 .. Len(queue[l]) : Paired[l].stamp <= At(l, j)
  BY PairEnds
<1>2. meas'[l] = Paired[l]
  BY TypePair, PushFacts
<1>3. \A i \in 1 .. Len(queue'[l]) : i + n \in n + 1 .. Len(queue[l]) /\ At(l, i)' = At(l, i + n)
  BY OrderlyFacts, LosesFacts
<1>4. n \in Nat /\ Len(queue[l]) \in Nat
  BY OrderlyFacts DEF Loses
<1>5. \A i \in 1 .. Len(queue'[l]) : i + n \in Drops[l] + 1 .. Len(queue[l])
  BY <1>1, <1>3, <1>4
<1> QED BY <1>1, <1>2, <1>3, <1>5 DEF WindowInv

\* Dropping scans in a pass of sync_packages().
LEMMA DropKeeps ==
    ASSUME TypeOK, Orderly, DropUnpaired, lastStamp' = lastStamp,
           NEW n, \A l \in Lidars : Loses(l, n[l]) /\ Drops[l] <= n[l]
    PROVE  DropInv'
<1>0. QueuesOK /\ QueuesForward /\ MaxSkew \in Nat /\ DropInv /\ Passed(Drops)
  BY OrderlyFacts, DropsFacts, ConstantFacts DEF Orderly
<1>1. \A l \in Lidars : dropped'[l] = dropped[l] \union {At(l, i) : i \in 1 .. Drops[l]}
  BY <1>0, DropUnpairedFacts DEF TypeOK
<1>2. \A l \in Lidars : /\ dropped[l] \subseteq 1 .. MaxTime /\ Drops[l] \in 0 .. Len(queue[l])
                        /\ Len(queue[l]) \in Nat /\ n[l] \in Nat
                        /\ \A i \in 1 .. Drops[l] : i \in 1 .. Len(queue[l])
                        /\ \A i \in 1 .. Len(queue[l]) : At(l, i) \in Int
  <2> SUFFICES ASSUME NEW l \in Lidars
               PROVE  /\ dropped[l] \subseteq 1 .. MaxTime /\ Drops[l] \in 0 .. Len(queue[l])
                      /\ Len(queue[l]) \in Nat /\ n[l] \in Nat
                      /\ \A i \in 1 .. Drops[l] : i \in 1 .. Len(queue[l])
                      /\ \A i \in 1 .. Len(queue[l]) : At(l, i) \in Int
    OBVIOUS
  <2>1. dropped[l] \subseteq 1 .. MaxTime
    BY DEF TypeOK, Pair
  <2>2. Drops[l] \in 0 .. Len(queue[l]) /\ Len(queue[l]) \in Nat
    BY <1>0, KeptFacts, QueueFacts
  <2>3. n[l] \in Nat
    BY <2>2 DEF Loses
  <2>4. \A i \in 1 .. Len(queue[l]) : At(l, i) \in Int
    BY <1>0, QueueFacts
  <2> QED BY <2>1, <2>2, <2>3, <2>4
<1>3. \A l \in Lidars : \A j \in 1 .. Len(queue'[l]) :
          \E k \in Drops[l] + 1 .. Len(queue[l]) : k \in 1 .. Len(queue[l]) /\ At(l, j)' = At(l, k)
  <2> SUFFICES ASSUME NEW l \in Lidars, NEW j \in 1 .. Len(queue'[l])
               PROVE  \E k \in Drops[l] + 1 .. Len(queue[l]) :
                          k \in 1 .. Len(queue[l]) /\ At(l, j)' = At(l, k)
    OBVIOUS
  <2>1. j + n[l] \in n[l] + 1 .. Len(queue[l]) /\ At(l, j)' = At(l, j + n[l])
    BY LosesFacts, OrderlyFacts
  <2>2. j + n[l] \in Drops[l] + 1 .. Len(queue[l]) /\ j + n[l] \in 1 .. Len(queue[l])
    BY <1>2, <2>1
  <2> QED BY <2>1, <2>2
<1>4. \A l \in Lidars : Earlier(l, Other(l), Drops)
  BY <1>0, LidarFacts DEF Passed
<1>5. ASSUME NEW l \in Lidars, NEW a \in dropped'[l]
      PROVE  /\ a + MaxSkew < lastStamp'[Other(l)]
             /\ \A j \in 1 .. Len(queue'[Other(l)]) : a + MaxSkew < At(Other(l), j)'
  <2>0. Other(l) \in Lidars
    BY LidarFacts
  <2>1. CASE a \in dropped[l]
    <3>1. /\ a + MaxSkew < lastStamp[Other(l)]
          /\ \A j \in 1 .. Len(queue[Other(l)]) : a + MaxSkew < At(Other(l), j)
      BY <1>0, <2>1 DEF DropInv
    <3> QED BY <1>3, <2>0, <3>1
  <2>2. CASE a \notin dropped[l]
    <3>1. PICK i \in 1 .. Drops[l] : a = At(l, i)
      BY <1>1, <2>2
    <3>2. /\ a + MaxSkew < lastStamp[Other(l)]
          /\ \A j \in Drops[Other(l)] + 1 .. Len(queue[Other(l)]) : a + MaxSkew < At(Other(l), j)
      BY <1>4, <3>1 DEF Earlier
    <3> QED BY <1>3, <2>0, <3>2
  <2> QED BY <2>1, <2>2
<1>6. ASSUME NEW a \in dropped'[1], NEW b \in dropped'[2] PROVE ~Near(a, b)
  <2>1. a \in dropped[1] \/ \E i \in 1 .. Drops[1] : a = At(1, i)
    BY <1>1, LidarFacts
  <2>2. b \in dropped[2] \/ \E i \in 1 .. Drops[2] : b = At(2, i)
    BY <1>1, LidarFacts
  <2>3. CASE a \in dropped[1] /\ b \in dropped[2]
    BY <1>0, <2>3 DEF DropInv
  <2>4. ASSUME a \in dropped[1], NEW i \in 1 .. Drops[2], b = At(2, i) PROVE ~Near(a, b)
    <3>1. a + MaxSkew < b /\ a \in Int /\ b \in Int
      BY <1>0, <1>2, <2>4, LidarFacts DEF DropInv
    <3> QED BY <1>0, <3>1 DEF Near
  <2>5. ASSUME b \in dropped[2], NEW i \in 1 .. Drops[1], a = At(1, i) PROVE ~Near(a, b)
    <3>1. b + MaxSkew < a /\ a \in Int /\ b \in Int
      BY <1>0, <1>2, <2>5, LidarFacts DEF DropInv
    <3> QED BY <1>0, <3>1 DEF Near
  <2>6. ASSUME NEW i \in 1 .. Drops[1], NEW j \in 1 .. Drops[2], a = At(1, i), b = At(2, j)
        PROVE  ~Near(a, b)
    BY <1>0, <2>6 DEF Passed, Strangers
  <2> QED BY <2>1, <2>2, <2>3, <2>4, <2>5, <2>6
<1> QED BY <1>5, <1>6 DEF DropInv

-----------------------------------------------------------------------------
(* Each action keeps the invariant                                         *)

LEMMA ScanKeeps ==
    ASSUME TypeOK, TypeOK', Orderly, NEW l \in Lidars, ScanArrives(l), ClocksForward'
    PROVE  Orderly'
<1>0. /\ \A m \in Lidars : /\ Forward(m) /\ WindowInv(m) /\ Len(queue[m]) \in Nat
                           /\ lastStamp[m] \in Int /\ queue[m] \in Seq(Scan)
                           /\ \A i \in 1 .. Len(queue[m]) : At(m, i) \in Int
      /\ MaxSkew \in Nat /\ MaxTime \in Nat /\ restarts \in Nat
  BY OrderlyFacts, QueueFacts, ConstantFacts DEF TypeOK
<1>1. PICK t \in ScanStamps(l),
           s \in Spans, n \in Points :
        /\ queue' = [queue EXCEPT ![l] =
                        Append(IF t < lastStamp[l] THEN <<>> ELSE @,
                               [stamp |-> t, span |-> IF n > 1 THEN s ELSE 0, points |-> n])]
        /\ lastStamp' = [lastStamp EXCEPT ![l] = t]
        /\ restarts' = restarts + IF t < lastStamp[l] THEN 1 ELSE 0
  BY DEF ScanArrives, ScanStamps
<1>2. UNCHANGED <<imu, lastImu, pairing, filter, history, lengths, dropped>>
  BY DEF ScanArrives, ScanStamps
<1>3. ~(t < lastStamp[l])
  BY <1>0, <1>1 DEF ClocksForward
<1>4. t \in Int /\ lastStamp[l] <= t
  <2>1. t \in Int /\ lastStamp[l] \in Int
    BY ScanStampFacts DEF TypeOK
  <2> QED BY <1>3, <2>1
<1> DEFINE x == [stamp |-> t, span |-> IF n > 1 THEN s ELSE 0, points |-> n]
<1>5. /\ queue'[l] = Append(queue[l], x) /\ lastStamp'[l] = t /\ x.stamp = t
      /\ \A m \in Lidars : m # l => queue'[m] = queue[m] /\ lastStamp'[m] = lastStamp[m]
  BY <1>1, <1>3 DEF TypeOK, Pair
<1>6. /\ Len(queue'[l]) = Len(queue[l]) + 1
      /\ \A i \in 1 .. Len(queue[l]) : At(l, i)' = At(l, i)
      /\ \A i \in Nat : i = Len(queue[l]) + 1 => At(l, i)' = t
  <2>1. queue[l] \in Seq(Scan) /\ Len(queue[l]) \in Nat
    BY <1>0
  <2> HIDE DEF x
  <2>2. /\ Len(Append(queue[l], x)) = Len(queue[l]) + 1
        /\ \A i \in 1 .. Len(queue[l]) : Append(queue[l], x)[i] = queue[l][i]
        /\ Append(queue[l], x)[Len(queue[l]) + 1] = x
    BY <2>1
  <2> QED BY <1>5, <2>2 DEF At
<1>7. \A m \in Lidars : m # l => \A i \in 1 .. Len(queue[m]) : At(m, i)' = At(m, i)
  BY <1>5 DEF At
<1> HIDE DEF x
<1>8. Forward(l)'
  <2>1. ASSUME NEW i \in 1 .. Len(queue'[l]), NEW j \in 1 .. Len(queue'[l]), i < j
        PROVE  At(l, i)' <= At(l, j)'
    <3>1. i \in 1 .. Len(queue[l])
      BY <1>0, <1>6, <2>1
    <3>2. CASE j \in 1 .. Len(queue[l])
      BY <1>0, <1>6, <2>1, <3>1, <3>2 DEF Forward
    <3>3. CASE j = Len(queue[l]) + 1
      BY <1>0, <1>4, <1>6, <3>1, <3>3 DEF Forward
    <3> QED BY <1>0, <1>6, <3>2, <3>3
  <2>2. ASSUME NEW i \in 1 .. Len(queue'[l]) PROVE At(l, i)' <= lastStamp'[l]
    <3>1. CASE i \in 1 .. Len(queue[l])
      BY <1>0, <1>4, <1>5, <1>6, <3>1 DEF Forward
    <3>2. CASE i = Len(queue[l]) + 1
      BY <1>4, <1>5, <1>6, <3>2
    <3> QED BY <1>0, <1>6, <3>1, <3>2
  <2> QED BY <2>1, <2>2 DEF Forward
<1>9. WindowInv(l)'
  <2>1. meas' = meas /\ meas[l].stamp \in Int
    BY <1>2, StampsAreNumbers DEF pairing
  <2>2. WindowInv(l) /\ meas[l].stamp <= t
    BY <1>0, <1>4, <2>1 DEF WindowInv
  <2>3. ASSUME NEW i \in 1 .. Len(queue'[l]) PROVE meas'[l].stamp <= At(l, i)'
    <3>1. CASE i \in 1 .. Len(queue[l])
      BY <1>6, <2>1, <2>2, <3>1 DEF WindowInv
    <3>2. CASE i = Len(queue[l]) + 1
      BY <1>6, <2>1, <2>2, <3>2
    <3> QED BY <1>0, <1>6, <3>1, <3>2
  <2> QED BY <1>5, <2>1, <2>2, <2>3 DEF WindowInv
<1>10. ASSUME NEW m \in Lidars, m # l PROVE Forward(m)' /\ WindowInv(m)'
  <2>1. meas' = meas /\ queue'[m] = queue[m] /\ lastStamp'[m] = lastStamp[m]
    BY <1>2, <1>5, <1>10 DEF pairing
  <2>2. Forward(m) /\ WindowInv(m)
    BY <1>0
  <2> QED BY <2>1, <2>2 DEF Forward, WindowInv, At
<1>11. ImuInv' /\ FilterInv'
  BY <1>2 DEF filter, history, ImuInv, FilterInv, Orderly, Sorted
<1>12. DropInv'
  <2>1. dropped' = dropped
    BY <1>2
  <2>2. ASSUME NEW m \in Lidars, NEW a \in dropped[m]
        PROVE  /\ a + MaxSkew < lastStamp'[Other(m)]
               /\ \A j \in 1 .. Len(queue'[Other(m)]) : a + MaxSkew < At(Other(m), j)'
    <3> DEFINE o == Other(m)
    <3>1. o \in Lidars
      BY LidarFacts
    <3>2. a + MaxSkew < lastStamp[o] /\ \A j \in 1 .. Len(queue[o]) : a + MaxSkew < At(o, j)
      BY DEF DropInv, Orderly
    <3>3. a \in Int
      BY <1>0 DEF TypeOK, Pair
    <3> HIDE DEF o
    <3>4. CASE o # l
      BY <1>5, <1>7, <3>1, <3>2, <3>4 DEF o
    <3>5. CASE o = l
      <4>1. a + MaxSkew < t
        BY <1>0, <1>4, <3>2, <3>3, <3>5
      <4>2. ASSUME NEW j \in 1 .. Len(queue'[l]) PROVE a + MaxSkew < At(l, j)'
        <5>1. CASE j \in 1 .. Len(queue[l])
          BY <1>6, <3>2, <3>5, <5>1
        <5>2. CASE j = Len(queue[l]) + 1
          BY <1>6, <4>1, <5>2
        <5> QED BY <1>0, <1>6, <5>1, <5>2
      <4> QED BY <1>5, <3>5, <4>1, <4>2 DEF o
    <3> QED BY <3>4, <3>5
  <2>3. \A a \in dropped[1], b \in dropped[2] : ~Near(a, b)
    BY DEF Orderly, DropInv
  <2> QED BY <2>1, <2>2, <2>3 DEF DropInv
<1>13. \A m \in Lidars : Forward(m)' /\ WindowInv(m)'
  BY <1>8, <1>9, <1>10
<1> QED BY <1>11, <1>12, <1>13, LidarFacts DEF Orderly

LEMMA ImuKeeps ==
    ASSUME TypeOK, TypeOK', Orderly, ImuArrives, ClocksForward'
    PROVE  Orderly'
<1>1. PICK t \in (IF lastImu < 0 THEN 1..Horizon ELSE Later(lastImu))
                 \union Rewound(lastImu) :
        /\ imu' = Append(IF t < lastImu THEN <<>> ELSE imu, t)
        /\ lastImu' = t
        /\ restarts' = restarts + IF t < lastImu THEN 1 ELSE 0
  BY DEF ImuArrives
<1>2. UNCHANGED <<queue, lastStamp, started, pairing, filter, history, lengths, dropped>>
  BY DEF ImuArrives
<1>3. lastImu \in Int /\ lastImu <= Horizon /\ Horizon \in Int /\ restarts \in Nat
      /\ imu \in Seq(1 .. Horizon) /\ imu \in Seq(Int) /\ Len(imu) \in Nat
      /\ (\A i \in 1 .. Len(imu) : imu[i] \in Int) /\ closed \in Nat
  <2>1. lastImu \in -1 .. Horizon /\ restarts \in Nat /\ imu \in Seq(1 .. Horizon) /\ closed \in Nat
    BY DEF TypeOK
  <2>2. imu \in Seq(Int) /\ Len(imu) \in Nat /\ \A i \in 1 .. Len(imu) : imu[i] \in Int
    BY <2>1, IntegerElements, ConstantFacts
  <2> QED BY <2>1, <2>2, ConstantFacts
<1>4. ~(t < lastImu)
  BY <1>1, <1>3 DEF ClocksForward
<1>5. t \in Int /\ lastImu < t /\ t >= 1
  <2>1. CASE t \in Later(lastImu) \union Rewound(lastImu)
    <3>1. t \in 1 .. Horizon /\ (lastImu < t \/ t < lastImu)
      BY <1>3, <2>1, ImuStampFacts
    <3> QED BY <1>3, <1>4, <3>1
  <2>2. CASE lastImu < 0 /\ t \in 1 .. Horizon
    BY <1>3, <2>2
  <2> QED BY <1>1, <2>1, <2>2
<1>6. /\ imu' = Append(imu, t) /\ Len(imu') = Len(imu) + 1 /\ imu'[Len(imu) + 1] = t
      /\ \A i \in 1 .. Len(imu) : imu'[i] = imu[i]
  BY <1>1, <1>3, <1>4
<1>7. ImuInv
  BY DEF Orderly
<1>8. closed <= t
  <2>1. CASE closed > 0
    BY <1>3, <1>5, <1>7, <2>1 DEF ImuInv
  <2>2. CASE closed = 0
    BY <1>5, <2>2
  <2> QED BY <1>3, <2>1, <2>2
<1>9. Sorted(imu')
  <2>1. ASSUME NEW i \in 1 .. Len(imu'), NEW j \in 1 .. Len(imu'), i < j
        PROVE  imu'[i] < imu'[j]
    <3>1. i \in 1 .. Len(imu)
      BY <1>3, <1>6, <2>1
    <3>2. CASE j \in 1 .. Len(imu)
      BY <1>6, <1>7, <2>1, <3>1, <3>2 DEF ImuInv, Sorted
    <3>3. CASE j = Len(imu) + 1
      BY <1>3, <1>5, <1>6, <1>7, <3>1, <3>3 DEF ImuInv
    <3> QED BY <1>3, <1>6, <3>2, <3>3
  <2> QED BY <2>1 DEF Sorted
<1>10. ASSUME NEW i \in 1 .. Len(imu') PROVE closed <= imu'[i] /\ imu'[i] <= lastImu'
  <2>1. CASE i \in 1 .. Len(imu)
    BY <1>1, <1>3, <1>5, <1>6, <1>7, <2>1 DEF ImuInv
  <2>2. CASE i = Len(imu) + 1
    BY <1>1, <1>5, <1>6, <1>8, <2>2
  <2> QED BY <1>3, <1>6, <2>1, <2>2
<1>11. closed' = closed /\ fed' = fed
  BY <1>2 DEF history
<1>12. ImuInv'
  BY <1>1, <1>7, <1>8, <1>9, <1>10, <1>11 DEF ImuInv, Sorted
<1>13. FilterInv'
  <2>1. UNCHANGED <<undistorts, needInit, carried, lastEnd>> /\ FilterInv /\ lastEnd \in Int
    BY <1>2, LastEndIsNumber DEF filter, history, Orderly
  <2>2. ASSUME undistorts > 0
        PROVE  /\ ~needInit /\ carried <= lastEnd /\ lastEnd <= lastImu'
               /\ \A i \in 1 .. Len(imu') : lastEnd <= imu'[i]
    <3>1. /\ ~needInit /\ carried <= lastEnd /\ lastEnd <= lastImu
          /\ \A i \in 1 .. Len(imu) : lastEnd <= imu[i]
      BY <2>1, <2>2 DEF FilterInv
    <3>2. lastEnd <= t
      BY <1>3, <1>5, <2>1, <3>1
    <3>3. ASSUME NEW i \in 1 .. Len(imu') PROVE lastEnd <= imu'[i]
      <4>1. CASE i \in 1 .. Len(imu)
        BY <1>6, <3>1, <4>1
      <4>2. CASE i = Len(imu) + 1
        BY <1>6, <3>2, <4>2
      <4> QED BY <1>3, <1>6, <4>1, <4>2
    <3> QED BY <1>1, <3>1, <3>2, <3>3
  <2> QED BY <2>1, <2>2 DEF FilterInv
<1>14. \A m \in Lidars : Forward(m)' /\ WindowInv(m)'
  <2>1. \A m \in Lidars : Forward(m) /\ WindowInv(m)
    BY OrderlyFacts
  <2> QED BY <1>2, <2>1 DEF pairing, Forward, WindowInv, At
<1>15. DropInv'
  BY <1>2 DEF Orderly, DropInv, At
<1> QED BY <1>12, <1>13, <1>14, <1>15, LidarFacts DEF Orderly

\* A pass removes what it drops, and n[l] scans in all.
LEMMA PassKeeps ==
    ASSUME TypeOK, Orderly, lastStamp' = lastStamp, DropUnpaired,
           NEW n, \A l \in Lidars : Loses(l, n[l]) /\ Drops[l] <= n[l]
    PROVE  DropInv' /\ Forward(1)' /\ Forward(2)'
<1>1. DropInv'
  BY DropKeeps
<1>2. \A l \in Lidars : Forward(l)'
  BY OrderlyFacts, LosesFacts
<1> QED BY <1>1, <1>2, LidarFacts

LEMMA LosesDropped ==
    ASSUME QueuesOK, queue' = [l \in Lidars |-> Kept(l)], NEW l \in Lidars
    PROVE  Loses(l, Drops[l])
BY KeptFacts DEF Loses

LEMMA FindsNoPairKeeps ==
    ASSUME TypeOK, Orderly, SyncFindsNoPair
    PROVE  Orderly'
<1>1. UNCHANGED <<lastStamp, started, imu, lastImu, restarts, pairing, filter, history, lengths>> /\ ~CanPair
  BY DEF SyncFindsNoPair
<1>2. /\ QueuesOK
      /\ \A m \in Lidars : Forward(m) /\ WindowInv(m)
  BY OrderlyFacts
<1>3. ImuInv' /\ FilterInv'
  BY <1>1 DEF filter, history, ImuInv, FilterInv, Orderly, Sorted
<1>4. CASE ~BuffersReady
  <2>1. queue' = queue /\ dropped' = dropped
    BY <1>4 DEF SyncFindsNoPair
  <2>2. DropInv'
    BY <1>1, <2>1 DEF DropInv, Orderly, At
  <2>3. \A m \in Lidars : Forward(m)' /\ WindowInv(m)'
    BY <1>1, <1>2, <2>1 DEF pairing, Forward, WindowInv, At
  <2> QED BY <1>3, <2>2, <2>3, LidarFacts DEF Orderly
<1>5. CASE BuffersReady
  <2>1. DropUnpaired /\ queue' = [l \in Lidars |-> Kept(l)] /\ ~pushed
    BY <1>1, <1>5 DEF SyncFindsNoPair, CanPair
  <2>2. \A l \in Lidars : Loses(l, Drops[l])
    BY <1>2, <2>1, LosesDropped
  <2>3. \A l \in Lidars : Drops[l] \in Int
    BY <1>2, KeptFacts
  <2>4. \A l \in Lidars : Drops[l] <= Drops[l]
    BY <2>3
  <2>5. DropInv' /\ Forward(1)' /\ Forward(2)'
    BY <1>1, <2>1, <2>2, <2>4, PassKeeps
  <2>6. ASSUME NEW l \in Lidars PROVE WindowInv(l)'
    <3>1. meas' = meas /\ lastStamp' = lastStamp /\ WindowInv(l)
      BY <1>1, <1>2 DEF pairing
    <3>2. \A i \in 1 .. Len(queue'[l]) : /\ i + Drops[l] \in Drops[l] + 1 .. Len(queue[l])
                                         /\ At(l, i)' = At(l, i + Drops[l])
      BY <1>1, <1>2, <2>2, LosesFacts
    <3>3. \A i \in 1 .. Len(queue'[l]) : i + Drops[l] \in 1 .. Len(queue[l])
      BY <1>2, <3>2, KeptFacts
    <3> QED BY <2>1, <3>1, <3>2, <3>3 DEF WindowInv
  <2> QED BY <1>3, <2>5, <2>6, LidarFacts DEF Orderly
<1> QED BY <1>4, <1>5

\* The ends of the pair that was chosen.
LEMMA EndsChosen ==
    ASSUME TypeOK, CanPair, Push
    PROVE  /\ \A l \in Lidars : ends'[l] = PairedEnds[l] /\ ends'[l] \in Int
           /\ Larger(ends') = Larger(PairedEnds) /\ Larger(ends') \in Int
<1>1. \A l \in Lidars : ends'[l] = PairedEnds[l] /\ ends'[l] \in Int
  <2>1. PairOK
    BY TypePair
  <2>2. \A l \in Lidars : ends'[l] = PairedEnds[l] /\ PairedEnds[l] \in EndsRange
    BY <2>1, PushFacts, PairedFacts
  <2> QED BY <2>2 DEF EndsRange
<1>2. Larger(ends') = Larger(PairedEnds)
  BY <1>1, LidarFacts DEF Larger
<1>3. Larger(ends') \in Int
  BY <1>1, LargerFacts, LidarFacts
<1> QED BY <1>1, <1>2, <1>3

LEMMA AwaitsImuKeeps ==
    ASSUME TypeOK, TypeOK', Orderly, SyncAwaitsImu
    PROVE  Orderly'
<1>1. /\ UNCHANGED <<lastStamp, started, imu, lastImu, restarts, filter, history>>
      /\ CanPair /\ DropUnpaired /\ Push /\ pushed' = TRUE
      /\ queue' = [l \in Lidars |-> Kept(l)]
  BY DEF SyncAwaitsImu
<1>2. /\ QueuesOK
      /\ \A m \in Lidars : /\ Forward(m) /\ WindowInv(m) /\ lastStamp[m] \in Int /\ Len(queue[m]) \in Nat
                           /\ \A i \in 1 .. Len(queue[m]) : At(m, i) \in Int
  BY OrderlyFacts
<1>3. \A l \in Lidars : Loses(l, Drops[l]) /\ Drops[l] <= Drops[l]
  <2>1. \A l \in Lidars : Drops[l] \in Int
    BY <1>2, KeptFacts
  <2> QED BY <1>1, <1>2, <2>1, LosesDropped
<1>4. DropInv' /\ Forward(1)' /\ Forward(2)'
  BY <1>1, <1>3, PassKeeps
<1>5. \A l \in Lidars : WindowInv(l)'
  BY <1>1, <1>3, WindowKept
<1>6. ImuInv' /\ FilterInv'
  BY <1>1 DEF filter, history, ImuInv, FilterInv, Orderly, Sorted
<1> QED BY <1>4, <1>5, <1>6, LidarFacts DEF Orderly

\* A bundle takes the dropped scans and one more of each lidar.
LEMMA PopLoses ==
    ASSUME QueuesOK, queue' = PopScans, NEW l \in Lidars, Drops[l] + 1 \in 1 .. Len(queue[l])
    PROVE  Loses(l, Drops[l] + 1)
<1>1. /\ Drops[l] \in Nat /\ Len(queue[l]) \in Nat
      /\ Kept(l) \in Seq(Scan) /\ Len(Kept(l)) = Len(queue[l]) - Drops[l]
      /\ \A i \in 1 .. Len(queue[l]) - Drops[l] : Kept(l)[i] = queue[l][i + Drops[l]]
  BY KeptFacts, QueueFacts
<1>2. queue'[l] = Tail(Kept(l)) /\ Kept(l) # <<>>
  <2>1. Len(Kept(l)) >= 1
    BY <1>1
  <2> QED BY <1>1, <2>1 DEF PopScans
<1>3. /\ Len(queue'[l]) = Len(Kept(l)) - 1
      /\ \A i \in 1 .. Len(Kept(l)) - 1 : queue'[l][i] = Kept(l)[i + 1]
  BY <1>1, <1>2, TailElements
<1>4. ASSUME NEW i \in 1 .. Len(queue[l]) - (Drops[l] + 1)
      PROVE  queue'[l][i] = queue[l][i + (Drops[l] + 1)]
  <2> DEFINE a == Len(queue[l])
             d == Drops[l]
             b == Len(Kept(l))
  <2>1. a \in Nat /\ d \in Nat /\ b = a - d /\ i \in 1 .. a - (d + 1)
    BY <1>1, <1>4
  <2>2. i \in 1 .. b - 1 /\ i + 1 \in 1 .. a - d /\ (i + 1) + d = i + (d + 1)
    <3> HIDE DEF a, b, d
    <3> QED BY <2>1
  <2> QED BY <1>1, <1>3, <2>2
<1>5. Len(queue'[l]) = Len(queue[l]) - (Drops[l] + 1)
  BY <1>1, <1>3
<1> QED BY <1>1, <1>4, <1>5 DEF Loses

LEMMA BundlesKeep ==
    ASSUME TypeOK, TypeOK', Orderly, SyncBundles
    PROVE  /\ Orderly'
           /\ undistorts' # undistorts /\ undistorts > 0 => predicted' = lastEnd' - lastEnd
<1> DEFINE k == Gathered(PairedEnds)
           v == SubSeq(imu, 1, k)
           end == Larger(PairedEnds)
<1>1. /\ CanPair /\ DropUnpaired /\ Push
      /\ end \in EndsRange /\ end <= lastImu
      /\ k \in 0 .. Len(imu) /\ Len(imu) \in Nat
      /\ v \in Seq(1 .. Horizon) /\ Len(v) = k
      /\ \A i \in 1 .. k : v[i] = imu[i] /\ imu[i] \in 1 .. Horizon /\ imu[i] <= end
      /\ fed' = v /\ imu' \in Seq(1 .. Horizon) /\ Len(imu') = Len(imu) - k
      /\ \A i \in 1 .. Len(imu) - k : imu'[i] = imu[i + k]
      /\ Sorted(imu) => \A i \in k + 1 .. Len(imu) : imu[i] >= end
      /\ closed' = end
      /\ Process(v, bundles + 1)
  BY BundleFacts
<1>2. UNCHANGED <<lastStamp, started, lastImu, restarts>> /\ pushed' = FALSE /\ queue' = PopScans
  BY DEF SyncBundles
<1>3. /\ QueuesOK
      /\ \A m \in Lidars : /\ Forward(m) /\ WindowInv(m) /\ lastStamp[m] \in Int /\ Len(queue[m]) \in Nat
                           /\ \A i \in 1 .. Len(queue[m]) : At(m, i) \in Int
  BY OrderlyFacts
<1>5. \A l \in Lidars : Drops[l] \in Nat /\ Drops[l] + 1 \in 1 .. Len(queue[l])
  BY <1>1, PairEnds
<1>6. \A l \in Lidars : Loses(l, Drops[l] + 1) /\ Drops[l] <= Drops[l] + 1
  BY <1>2, <1>3, <1>5, PopLoses
<1>7. DropInv' /\ Forward(1)' /\ Forward(2)'
  <2> DEFINE n == [l \in Lidars |-> Drops[l] + 1]
  <2>1. \A l \in Lidars : Loses(l, n[l]) /\ Drops[l] <= n[l]
    BY <1>6
  <2> HIDE DEF n
  <2> QED BY <1>1, <1>2, <2>1, PassKeeps
<1>8. \A l \in Lidars : WindowInv(l)'
  BY <1>1, <1>2, <1>6, WindowKept
<1>9. ImuInv /\ FilterInv /\ end \in Int /\ closed \in Int /\ lastImu \in Int
  BY <1>1 DEF Orderly, TypeOK, EndsRange
<1>10. \A i \in 1 .. Len(imu) : imu[i] \in Int /\ closed <= imu[i] /\ imu[i] <= lastImu
  <2>1. imu \in Seq(1 .. Horizon)
    BY DEF TypeOK
  <2> QED BY <1>9, <2>1, IntegerElements, ConstantFacts DEF ImuInv
<1> HIDE DEF k, v, end
<1>11. ImuInv'
  <2>1. \A i \in 1 .. Len(imu') : i + k \in k + 1 .. Len(imu) /\ i + k \in 1 .. Len(imu)
                                  /\ imu'[i] = imu[i + k]
    BY <1>1
  <2>2. ASSUME NEW i \in 1 .. Len(imu'), NEW j \in 1 .. Len(imu'), i < j
        PROVE  imu'[i] < imu'[j]
    <3>1. i + k < j + k
      BY <1>1, <2>2
    <3> QED BY <1>9, <2>1, <3>1 DEF ImuInv, Sorted
  <2>3. \A i \in 1 .. Len(imu') : end <= imu'[i] /\ imu'[i] <= lastImu
    BY <1>1, <1>9, <1>10, <2>1 DEF ImuInv
  <2>4. \A i \in 1 .. Len(fed') : fed'[i] <= end
    BY <1>1
  <2>5. closed' <= lastImu'
    BY <1>1, <1>2
  <2> QED BY <1>1, <1>2, <2>2, <2>3, <2>4, <2>5 DEF ImuInv, Sorted
<1>12. /\ FilterInv'
       /\ undistorts' # undistorts /\ undistorts > 0 => predicted' = lastEnd' - lastEnd
  <2>0. undistorts \in Nat /\ carried \in Int /\ lastEnd \in Int
    BY ConstantFacts, LastEndIsNumber DEF TypeOK
  <2>a. \A i \in 1 .. Len(imu') : i + k \in 1 .. Len(imu) /\ imu'[i] = imu[i + k]
    BY <1>1
  <2>b. \A i \in 1 .. Len(imu') : end <= imu'[i]
    <3>1. \A i \in 1 .. Len(imu') : i + k \in k + 1 .. Len(imu)
      BY <1>1
    <3> QED BY <1>1, <1>9, <2>a, <3>1 DEF ImuInv
  <2>1. CASE v = <<>>
    <3>1. UNCHANGED <<undistorts, needInit, carried, lastEnd, lastImu>>
      <4>1. UNCHANGED <<needInit, carried, lastEnd, undistorts>>
        BY <1>1, <2>1, Zenon DEF Process
      <4>2. lastImu' = lastImu
        BY <1>2
      <4> QED BY <4>1, <4>2
    <3> QED BY <1>9, <2>a, <3>1 DEF FilterInv
  <2>2. CASE v # <<>> /\ InitProcess(v)
    BY <1>9, <2>0, <2>2 DEF InitProcess, FilterInv
  <2>3. CASE v # <<>> /\ Undistort(v, bundles + 1)
    <3>1. /\ predicted' = Propagation(v, end) /\ lastEnd' = end /\ carried' = v[Len(v)]
          /\ undistorts' = undistorts + 1 /\ ~needInit /\ needInit' = needInit
      BY <2>3 DEF Undistort, end
    <3>2. v \in Seq(Int) /\ Len(v) \in 1 .. Len(v) /\ \A i \in 1 .. Len(v) : v[i] \in Int
      BY <1>1, <2>3, IntegerElements, ConstantFacts
    <3>3. carried' <= end
      BY <1>1, <3>1, <3>2
    <3>4. FilterInv'
      BY <1>1, <1>2, <1>9, <2>b, <3>1, <3>3 DEF FilterInv
    <3>5. ASSUME undistorts > 0 PROVE predicted' = lastEnd' - lastEnd
      <4>1. carried <= lastEnd /\ \A i \in 1 .. Len(imu) : lastEnd <= imu[i]
        BY <1>9, <3>5 DEF FilterInv
      <4>2. Sorted(v)
        <5>1. Sorted(imu)
          BY <1>9 DEF ImuInv
        <5>2. \A i \in 1 .. Len(v) : i \in 1 .. Len(imu) /\ v[i] = imu[i]
          BY <1>1
        <5> QED BY <5>1, <5>2 DEF Sorted
      <4>3. \A i \in 1 .. Len(v) : lastEnd <= v[i] /\ v[i] <= end
        <5>1. \A i \in 1 .. Len(v) : i \in 1 .. Len(imu) /\ v[i] = imu[i] /\ imu[i] <= end
          BY <1>1
        <5> QED BY <4>1, <5>1
      <4>4. Propagation(v, end) = end - lastEnd
        BY <1>9, <2>0, <2>3, <3>2, <4>1, <4>2, <4>3, PropagationFacts
      <4> QED BY <3>1, <4>4
    <3> QED BY <3>4, <3>5
  <2> QED BY <1>1, <2>1, <2>2, <2>3 DEF Process
<1> QED BY <1>7, <1>8, <1>11, <1>12, LidarFacts DEF Orderly

-----------------------------------------------------------------------------
(* The theorems                                                            *)

\* A clock that has gone back stays counted.
LEMMA RestartsGrow ==
    ASSUME TypeOK, [Next]_vars, ClocksForward'
    PROVE  ClocksForward
<1>1. restarts \in Nat /\ restarts' = 0
  BY DEF TypeOK, ClocksForward
<1>2. CASE UNCHANGED vars
  BY <1>1, <1>2 DEF vars, inputs, ClocksForward
<1>3. CASE \E l \in Lidars : ScanArrives(l)
  <2>1. PICK r \in {0, 1} : restarts' = restarts + r
    BY <1>3 DEF ScanArrives
  <2> QED BY <1>1, <2>1 DEF ClocksForward
<1>4. CASE ImuArrives
  <2>1. PICK r \in {0, 1} : restarts' = restarts + r
    BY <1>4 DEF ImuArrives
  <2> QED BY <1>1, <2>1 DEF ClocksForward
<1>5. CASE Loop
  BY <1>1, <1>5 DEF Loop, SyncFindsNoPair, SyncAwaitsImu, SyncBundles, ClocksForward
<1> QED BY <1>2, <1>3, <1>4, <1>5 DEF Next

LEMMA OrderlyStutters == Orderly /\ UNCHANGED vars => Orderly'
<1> SUFFICES ASSUME Orderly, UNCHANGED vars PROVE Orderly'
  OBVIOUS
<1>1. \A l \in Lidars : (Forward(l) => Forward(l)') /\ (WindowInv(l) => WindowInv(l)')
  BY DEF vars, inputs, pairing, Forward, WindowInv, At
<1>2. (ImuInv => ImuInv') /\ (FilterInv => FilterInv')
  BY DEF vars, inputs, filter, history, ImuInv, FilterInv, Sorted
<1>3. DropInv => DropInv'
  BY DEF vars, inputs, DropInv, At
<1> QED BY <1>1, <1>2, <1>3, LidarFacts DEF Orderly

\* The mean of the lengths is no longer than the longest of them.
LEMMA LengthStep == TypeOK /\ LengthInv /\ [Next]_vars => LengthInv'
<1> SUFFICES ASSUME TypeOK, LengthInv, [Next]_vars PROVE LengthInv'
  OBVIOUS
<1>1. CASE CanPair /\ Push
  <2> SUFFICES ASSUME NEW l \in Lidars
               PROVE  mean'[l] <= longest'[l] /\ ends'[l] <= meas'[l].stamp + longest'[l]
    BY DEF LengthInv
  <2>1. PairOK /\ meas'[l] = Paired[l] /\ ends'[l] = PairedEnds[l]
    BY <1>1, TypePair, PushFacts
  <2>2. mean[l] <= longest[l] /\ ends[l] <= meas[l].stamp + longest[l]
    BY DEF LengthInv
  <2>3. CASE pushed
    <3>1. UNCHANGED <<mean, longest>> /\ Paired[l] = meas[l] /\ PairedEnds[l] = ends[l]
      BY <1>1, <2>1, <2>3, PairedFacts DEF Push, lengths
    <3> QED BY <2>1, <2>2, <3>1
  <2>4. CASE ~pushed
    <3>1. Paired[l] \in Scan /\ PairedEnds[l] = EndOf(l, Paired[l])
      BY <1>1, <2>1, <2>4, PairedFacts
    <3> DEFINE x == Paired[l]
    <3>2. /\ mean'[l] = IF TooShort(l, x) THEN mean[l] ELSE MeanWith(l, x)
          /\ longest'[l] = IF x.span > longest[l] THEN x.span ELSE longest[l]
      BY <1>1, <2>4 DEF Push
    <3>3. /\ x.stamp \in Int /\ x.span \in Int /\ mean[l] \in Int /\ longest[l] \in Int
          /\ EndOf(l, x) = x.stamp + mean[l] \/ EndOf(l, x) = x.stamp + x.span
      BY <2>1, <3>1, EndOfFacts, StampsAreNumbers DEF PairOK
    <3>4. MeanWith(l, x) \in Int /\ (MeanWith(l, x) <= mean[l] \/ MeanWith(l, x) <= x.span)
      BY <2>1, <3>1, MeanFacts DEF PairOK
    <3> HIDE DEF x
    <3>5. longest'[l] \in Int /\ longest[l] <= longest'[l] /\ x.span <= longest'[l]
      BY <3>2, <3>3
    <3>6. mean'[l] <= longest'[l]
      BY <2>2, <3>2, <3>3, <3>4, <3>5
    <3>7. EndOf(l, x) <= x.stamp + longest'[l]
      BY <2>2, <3>3, <3>5
    <3> QED BY <2>1, <3>1, <3>6, <3>7 DEF x
  <2> QED BY <2>3, <2>4
<1>2. CASE UNCHANGED <<mean, longest, ends, meas>>
  BY <1>2 DEF LengthInv
<1>3. SyncAwaitsImu \/ SyncBundles => CanPair /\ Push
  BY DEF SyncAwaitsImu, SyncBundles
<1>4. SyncFindsNoPair \/ ImuArrives \/ UNCHANGED vars \/ (\E l \in Lidars : ScanArrives(l))
      => UNCHANGED <<mean, longest, ends, meas>>
  BY DEF SyncFindsNoPair, ImuArrives, ScanArrives, vars, pairing, lengths
<1> QED BY <1>1, <1>2, <1>3, <1>4 DEF Next, Loop

LEMMA LengthInit == Init => LengthInv
BY DEF Init, LengthInv, NoScan

LEMMA OrderlyStep == IInv /\ [Next]_vars => IInv'
<1> SUFFICES ASSUME IInv, [Next]_vars PROVE IInv'
  OBVIOUS
<1>1. TypeOK /\ TypeOK'
  BY TypeStep DEF IInv
<1>2. ASSUME ClocksForward' PROVE Orderly'
  <2>1. Orderly
    BY <1>1, <1>2, RestartsGrow DEF IInv
  <2>2. CASE UNCHANGED vars
    BY <2>1, <2>2, OrderlyStutters
  <2>3. CASE \E l \in Lidars : ScanArrives(l)
    BY <1>1, <1>2, <2>1, <2>3, ScanKeeps
  <2>4. CASE ImuArrives
    BY <1>1, <1>2, <2>1, <2>4, ImuKeeps
  <2>5. CASE SyncFindsNoPair
    BY <1>1, <2>1, <2>5, FindsNoPairKeeps
  <2>6. CASE SyncAwaitsImu
    BY <1>1, <2>1, <2>6, AwaitsImuKeeps
  <2>7. CASE SyncBundles
    BY <1>1, <2>1, <2>7, BundlesKeep
  <2> QED BY <2>2, <2>3, <2>4, <2>5, <2>6, <2>7 DEF Next, Loop
<1> QED BY <1>1, <1>2, LengthStep DEF IInv

\* The buffers, the pairing and the filter agree on what time it is: the invariant that the
\* theorems below follow from, kept by the subscriptions, by each way sync_packages() returns,
\* and by Process().
THEOREM OrderlyInvariant == Spec => []IInv
<1>1. Init => IInv
  BY TypeInit, LengthInit, OrderlyInit DEF IInv
<1> QED BY <1>1, OrderlyStep, PTL DEF Spec

\* sync_packages() never drops a scan that has a partner (laserMapping_bundle.cpp, the loop
\* over bundle_max_pair_skew), however the two lidars lose scans.
THEOREM NoPairIsMissed == Spec => []NoPairMissed
<1>1. IInv => NoPairMissed
  <2> SUFFICES ASSUME IInv, ClocksForward, NEW l \in Lidars, NEW a \in dropped[l],
                      NEW b \in dropped[Other(l)] \union Waiting(Other(l))
               PROVE  ~Near(a, b)
    BY DEF NoPairMissed
  <2>1. TypeOK /\ DropInv /\ QueuesOK /\ Other(l) \in Lidars /\ MaxSkew \in Nat
    BY OrderlyFacts, LidarFacts, ConstantFacts DEF IInv, Orderly
  <2>2. a \in Int
    BY <2>1, ConstantFacts DEF TypeOK, Pair
  <2>3. CASE b \in Waiting(Other(l))
    <3>1. PICK j \in 1 .. Len(queue[Other(l)]) : b = At(Other(l), j)
      BY <2>3 DEF Waiting, At
    <3>2. b \in Int /\ a + MaxSkew < b
      BY <2>1, <3>1, QueueFacts, ConstantFacts DEF DropInv
    <3> QED BY <2>1, <2>2, <3>2 DEF Near
  <2>4. CASE b \in dropped[Other(l)]
    <3>1. CASE l = 1
      BY <2>1, <2>4, <3>1, LidarFacts DEF DropInv
    <3>2. CASE l = 2
      <4>1. ~Near(b, a)
        BY <2>1, <2>4, <3>2, LidarFacts DEF DropInv
      <4> QED BY <4>1 DEF Near
    <3> QED BY <3>1, <3>2, LidarFacts
  <2> QED BY <2>3, <2>4
<1> QED BY <1>1, OrderlyInvariant, PTL

\* The time windows of a lidar's bundles overlap only if its scans do, whatever lengths scans
\* have and however close their stamps: the mean length that a short scan is given
\* (lidar_mean_scantime) is never longer than the longest scan used, whatever the clocks do,
\* and no scan that waits begins before the last one used.
THEOREM WindowsStayApart == Spec => []WindowsApart
<1>1. IInv => WindowsApart
  <2> SUFFICES ASSUME IInv, NEW l \in Lidars
               PROVE  /\ ends[l] <= meas[l].stamp + longest[l]
                      /\ ClocksForward => \A i \in 1 .. Len(queue[l]) :
                                            meas[l].stamp <= queue[l][i].stamp
    BY DEF WindowsApart
  <2>1. ends[l] <= meas[l].stamp + longest[l]
    BY DEF IInv, LengthInv
  <2>2. ASSUME ClocksForward, NEW i \in 1 .. Len(queue[l]) PROVE meas[l].stamp <= queue[l][i].stamp
    <3>1. WindowInv(l)
      BY <2>2, OrderlyFacts DEF IInv
    <3> QED BY <3>1 DEF WindowInv, At
  <2> QED BY <2>1, <2>2
<1> QED BY <1>1, OrderlyInvariant, PTL

\* An IMU message goes to the bundle whose time it is of: what sync_packages() takes from
\* imu_buffer is no later than the bundle's end, and what it leaves is no earlier.
THEOREM ImuIsOnTime == Spec => []ImuOnTime
<1>1. IInv => ImuOnTime
  BY DEF IInv, Orderly, ImuInv, ImuOnTime
<1> QED BY <1>1, OrderlyInvariant, PTL

\* Undistort() propagates the filter from the end of one bundle to the end of the next, neither
\* more nor less (IMU_Processing.hpp: last_imu_, last_lidar_end_time_ and the final step to the
\* end of the scan), whatever IMU messages were lost between them.
THEOREM FilterPropagatesOnce == Spec => PropagatesOnce
<1>1. IInv /\ [Next]_vars
      => ((undistorts' # undistorts /\ undistorts > 0 /\ ClocksForward)
             => predicted' = lastEnd' - lastEnd)
  <2> SUFFICES ASSUME IInv, [Next]_vars, undistorts' # undistorts, undistorts > 0, ClocksForward
               PROVE  predicted' = lastEnd' - lastEnd
    OBVIOUS
  <2>1. SyncBundles
    BY DEF Next, Loop, ScanArrives, ImuArrives, SyncFindsNoPair, SyncAwaitsImu,
           vars, inputs, history
  <2>2. TypeOK /\ TypeOK' /\ Orderly
    BY TypeStep DEF IInv
  <2> QED BY <2>1, <2>2, BundlesKeep
<1> QED BY <1>1, OrderlyInvariant, PTL DEF Spec, PropagatesOnce

-----------------------------------------------------------------------------
(* What is published                                                       *)

\* A pair that waits for the IMU is still at the heads of its buffers.
PairWaits == pushed => \A l \in Lidars : Len(queue[l]) >= 1 /\ queue[l][1] = meas[l]

\* The last message is no later than the last bundle, nor is that than the last pair.
StampInv == odometry.stamp <= closed /\ closed <= Larger(ends)
StampGrows == odometry.stamp <= odometry'.stamp
PInv == IInv /\ (ClocksForward => PairWaits) /\ (spaced => StampInv)

\* A scan is appended behind the pair that waits.
LEMMA ScanKeepsPair ==
    ASSUME TypeOK, PairWaits, NEW l \in Lidars, ScanArrives(l), ClocksForward'
    PROVE  PairWaits'
<1>1. PICK t \in ScanStamps(l),
           s \in Spans, n \in Points :
        /\ queue' = [queue EXCEPT ![l] =
                        Append(IF t < lastStamp[l] THEN <<>> ELSE @,
                               [stamp |-> t, span |-> IF n > 1 THEN s ELSE 0, points |-> n])]
        /\ restarts' = restarts + IF t < lastStamp[l] THEN 1 ELSE 0
  BY DEF ScanArrives, ScanStamps
<1>2. restarts \in Nat /\ restarts' = 0
  BY DEF TypeOK, ClocksForward
<1>3. ~(t < lastStamp[l])
  BY <1>1, <1>2
<1>4. UNCHANGED <<pushed, meas>>
  BY DEF ScanArrives, pairing
<1>5. \A m \in Lidars : queue[m] \in Seq(Scan)
  BY TypePair, QueueFacts DEF PairOK
<1>6. queue \in Pair(Seq(Scan))
  BY DEF TypeOK
<1> DEFINE e == [stamp |-> t, span |-> IF n > 1 THEN s ELSE 0, points |-> n]
<1>7. queue' = [queue EXCEPT ![l] = Append(queue[l], e)]
  BY <1>1, <1>3
<1> HIDE DEF e
<1>8. ASSUME pushed, NEW m \in Lidars PROVE Len(queue'[m]) >= 1 /\ queue'[m][1] = meas[m]
  <2>1. Len(queue[m]) >= 1 /\ queue[m][1] = meas[m] /\ queue[m] \in Seq(Scan)
    BY <1>5, <1>8 DEF PairWaits
  <2>2. queue'[m] = IF m = l THEN Append(queue[m], e) ELSE queue[m]
    BY <1>6, <1>7 DEF Pair
  <2>3. /\ Len(Append(queue[m], e)) = Len(queue[m]) + 1
        /\ Append(queue[m], e)[1] = queue[m][1]
    BY <2>1
  <2> QED BY <2>1, <2>2, <2>3
<1> QED BY <1>4, <1>8 DEF PairWaits

\* The pair that is chosen, now or earlier, is what the loop leaves at the heads.
LEMMA HeadsArePaired ==
    ASSUME TypeOK, Orderly, PairWaits, CanPair, NEW l \in Lidars
    PROVE  Kept(l) \in Seq(Scan) /\ Len(Kept(l)) >= 1 /\ Kept(l)[1] = Paired[l]
<1>1. /\ QueuesOK /\ PairOK /\ Drops[l] \in Nat /\ Drops[l] + 1 \in 1 .. Len(queue[l])
      /\ (pushed => Drops[l] = 0) /\ Len(queue[l]) \in Nat
  BY OrderlyFacts, PairEnds
<1>2. /\ Kept(l) \in Seq(Scan) /\ Len(Kept(l)) = Len(queue[l]) - Drops[l]
      /\ \A i \in 1 .. Len(queue[l]) - Drops[l] : Kept(l)[i] = queue[l][i + Drops[l]]
  BY <1>1, KeptFacts
<1>3. Len(Kept(l)) >= 1
  BY <1>1, <1>2
<1>4. CASE pushed
  <2>1. Kept(l)[1] = queue[l][1]
    BY <1>1, <1>2, <1>3, <1>4
  <2>2. Paired[l] = meas[l]
    BY <1>1, <1>4, PairedFacts
  <2> QED BY <1>2, <1>3, <1>4, <2>1, <2>2 DEF PairWaits
<1>5. CASE ~pushed
  BY <1>1, <1>2, <1>3, <1>5, PairedFacts
<1> QED BY <1>4, <1>5

\* A pair stays at the heads until it is bundled.
LEMMA PairStep ==
    ASSUME IInv, PairWaits, [Next]_vars, ClocksForward'
    PROVE  PairWaits'
<1>1. TypeOK /\ Orderly
  BY RestartsGrow DEF IInv
<1>2. CASE UNCHANGED vars
  BY <1>2 DEF PairWaits, vars, inputs, pairing
<1>3. CASE \E l \in Lidars : ScanArrives(l)
  BY <1>1, <1>3, ScanKeepsPair
<1>4. CASE ImuArrives
  BY <1>4 DEF ImuArrives, PairWaits, pairing
<1>5. CASE SyncFindsNoPair
  <2>1. UNCHANGED <<pushed, meas>>
    BY <1>5 DEF SyncFindsNoPair, pairing
  <2>2. ASSUME pushed PROVE \A l \in Lidars : queue'[l] = queue[l]
    <3>1. ~BuffersReady
      BY <1>5, <2>2 DEF SyncFindsNoPair, CanPair
    <3> QED BY <1>5, <3>1 DEF SyncFindsNoPair
  <2> QED BY <2>1, <2>2 DEF PairWaits
<1>6. CASE SyncAwaitsImu
  <2>1. CanPair /\ Push /\ queue' = [l \in Lidars |-> Kept(l)]
    BY <1>6 DEF SyncAwaitsImu
  <2>2. \A l \in Lidars : meas'[l] = Paired[l] /\ queue'[l] = Kept(l)
    BY <1>1, <2>1, TypePair, PushFacts
  <2> QED BY <1>1, <2>1, <2>2, HeadsArePaired DEF PairWaits
<1>7. CASE SyncBundles
  BY <1>7 DEF PairWaits, SyncBundles
<1> QED BY <1>2, <1>3, <1>4, <1>5, <1>6, <1>7 DEF Next, Loop

\* The ends of a pair that is spaced from the last one are no earlier than that one's.
LEMMA EndsGrow ==
    ASSUME TypeOK, LengthInv, CanPair, Push, spaced'
    PROVE  /\ spaced /\ Larger(ends) <= Larger(ends') /\ Larger(ends) \in Int
           /\ Larger(ends') = Larger(PairedEnds) /\ Larger(ends') \in Int
<1>1. PairOK
  BY TypePair
<1>2. ASSUME NEW l \in Lidars PROVE ends[l] <= ends'[l] /\ ends[l] \in Int /\ ends'[l] \in Int
  <2>1. ends'[l] = PairedEnds[l] /\ ends[l] \in Int /\ ends'[l] \in Int
    BY EndsChosen, StampsAreNumbers
  <2>2. CASE pushed
    BY <1>1, <2>1, <2>2, PairedFacts
  <2>3. CASE ~pushed
    <3>1. Paired[l].stamp - meas[l].stamp >= longest[l]
      BY <2>3 DEF Push
    <3>2. Paired[l] \in Scan /\ PairedEnds[l] = EndOf(l, Paired[l])
      BY <1>1, <2>3, PairedFacts
    <3>3. Paired[l].stamp <= PairedEnds[l] /\ Paired[l].stamp \in Int
      BY <1>1, <3>2, EndOfFacts DEF PairOK
    <3>4. ends[l] <= meas[l].stamp + longest[l]
      BY DEF LengthInv
    <3>5. meas[l].stamp \in Int /\ longest[l] \in Int
      BY StampsAreNumbers
    <3> QED BY <2>1, <3>1, <3>3, <3>4, <3>5
  <2> QED BY <2>1, <2>2, <2>3
<1>3. /\ Larger(ends) \in Int /\ Larger(ends) \in {ends[1], ends[2]}
      /\ Larger(ends') = Larger(PairedEnds) /\ Larger(ends') \in Int
      /\ ends'[1] <= Larger(ends') /\ ends'[2] <= Larger(ends')
  BY <1>2, LargerFacts, LidarFacts, EndsChosen
<1>4. Larger(ends) <= Larger(ends')
  BY <1>2, <1>3, LidarFacts
<1>5. spaced
  BY DEF Push, lengths
<1> QED BY <1>3, <1>4, <1>5

\* publish_odometry() stamps its message with the end of the bundle.
LEMMA StampStep ==
    ASSUME TypeOK, LengthInv, spaced => StampInv, [Next]_vars, spaced'
    PROVE  StampInv' /\ StampGrows
<1>1. odometry.stamp \in Int /\ closed \in Int
  BY StampsAreNumbers, LidarFacts
<1>2. CASE UNCHANGED <<odometry, closed, ends, spaced>>
  BY <1>1, <1>2 DEF StampInv, StampGrows, Larger
<1>3. CASE SyncAwaitsImu
  <2>1. CanPair /\ Push /\ UNCHANGED <<odometry, closed>>
    BY <1>3 DEF SyncAwaitsImu, history
  <2>2. StampInv /\ Larger(ends) <= Larger(ends') /\ Larger(ends) \in Int /\ Larger(ends') \in Int
    BY <2>1, EndsGrow
  <2>3. closed <= Larger(ends')
    BY <1>1, <2>2 DEF StampInv
  <2>4. Larger(ends)' = Larger(ends')
    BY DEF Larger
  <2> QED BY <1>1, <2>1, <2>2, <2>3, <2>4 DEF StampInv, StampGrows
<1>4. CASE SyncBundles
  <2>1. CanPair /\ Push /\ closed' = Larger(PairedEnds) /\ Register(bundles + 1)
    BY <1>4 DEF SyncBundles
  <2>2. /\ StampInv /\ Larger(ends) <= Larger(ends') /\ Larger(ends) \in Int /\ Larger(ends') \in Int
        /\ closed' = Larger(ends') /\ Larger(ends)' = Larger(ends')
    <3>1. Larger(ends)' = Larger(ends')
      BY DEF Larger
    <3> QED BY <2>1, <3>1, EndsGrow
  <2>3. odometry.stamp <= closed'
    BY <1>1, <2>2 DEF StampInv
  <2>4. CASE odometry' = odometry
    BY <1>1, <2>2, <2>3, <2>4 DEF StampInv, StampGrows
  <2>5. CASE odometry' = [bundle |-> bundles + 1, cloud |-> feats'.bundle, stamp |-> Larger(ends')]
    BY <2>2, <2>3, <2>5 DEF StampInv, StampGrows
  <2> QED BY <2>1, <2>4, <2>5 DEF Register
<1>5. SyncFindsNoPair \/ ImuArrives \/ UNCHANGED vars \/ (\E l \in Lidars : ScanArrives(l))
      => UNCHANGED <<odometry, closed, ends, spaced>>
  BY DEF SyncFindsNoPair, ImuArrives, ScanArrives, vars, pairing, lengths, history
<1> QED BY <1>2, <1>3, <1>4, <1>5 DEF Next, Loop

LEMMA PublishedInvariant == Spec => []PInv
<1>1. Init => PInv
  <2>1. Init => IInv
    BY TypeInit, LengthInit, OrderlyInit DEF IInv
  <2>2. Init => PairWaits /\ StampInv
    BY DEF Init, StampInv, PairWaits, Larger, Lidars
  <2> QED BY <2>1, <2>2 DEF PInv
<1>2. PInv /\ [Next]_vars => PInv'
  <2> SUFFICES ASSUME PInv, [Next]_vars PROVE PInv'
    OBVIOUS
  <2>1. IInv /\ IInv' /\ TypeOK /\ LengthInv
    BY OrderlyStep DEF PInv, IInv
  <2>2. ClocksForward' => PairWaits'
    BY <2>1, RestartsGrow, PairStep DEF PInv
  <2>3. spaced' => StampInv'
    BY <2>1, StampStep DEF PInv
  <2> QED BY <2>1, <2>2, <2>3 DEF PInv
<1> QED BY <1>1, <1>2, PTL DEF Spec

\* A pair that has waited for the IMU is bundled with its own scans: sync_packages() then pops
\* from both buffers what it copied into Measures, however many scans have come meanwhile.  The
\* hypothesis is needed: livox_pcl_cbk() clears a buffer when its clock goes back (KeepsNewScans
\* is violated there).
THEOREM WaitingPairIsPopped ==
    Spec => [][(Closes /\ pushed /\ ClocksForward)
                  => \A l \in Lidars : queue[l] # <<>> /\ Head(queue[l]) = meas[l]
                                       /\ meas'[l] = meas[l]]_vars
<1>1. PInv /\ [Next]_vars
      => ((Closes /\ pushed /\ ClocksForward)
             => \A l \in Lidars : queue[l] # <<>> /\ Head(queue[l]) = meas[l]
                                  /\ meas'[l] = meas[l])
  <2> SUFFICES ASSUME PInv, [Next]_vars, Closes, pushed, ClocksForward, NEW l \in Lidars
               PROVE  queue[l] # <<>> /\ Head(queue[l]) = meas[l] /\ meas'[l] = meas[l]
    OBVIOUS
  <2>1. SyncBundles
    BY DEF Closes, Next, Loop, ScanArrives, ImuArrives, SyncFindsNoPair, SyncAwaitsImu,
           vars, inputs, history
  <2>2. TypeOK /\ PairOK /\ Len(queue[l]) >= 1 /\ queue[l][1] = meas[l] /\ queue[l] \in Seq(Scan)
    BY TypePair, QueueFacts DEF PInv, IInv, PairWaits, PairOK
  <2>3. queue[l] # <<>> /\ Head(queue[l]) = queue[l][1]
    BY <2>2
  <2>4. meas'[l] = Paired[l] /\ Paired[l] = meas[l]
    BY <2>1, <2>2, PushFacts, PairedFacts DEF SyncBundles
  <2> QED BY <2>2, <2>3, <2>4
<1> QED BY <1>1, PublishedInvariant, PTL DEF Spec

\* The odometry that publish_odometry() sends never goes back in time, and is never stamped later
\* than the bundle just processed, as long as no scan is chosen sooner after the last of its
\* lidar than the longest scan so far: whatever the clocks do, however the lidars differ, and
\* though a scan's end may be made of the mean length.
THEOREM OdometryGoesForward ==
    Spec => /\ [](spaced => odometry.stamp <= closed)
            /\ [][spaced' => odometry.stamp <= odometry'.stamp]_vars
<1>1. PInv => (spaced => odometry.stamp <= closed)
  BY DEF PInv, StampInv
<1>2. PInv /\ [Next]_vars => (spaced' => odometry.stamp <= odometry'.stamp)
  BY StampStep DEF PInv, IInv, StampGrows
<1> QED BY <1>1, <1>2, PublishedInvariant, PTL DEF Spec

-----------------------------------------------------------------------------
(* Waiting for the IMU.  What falls while both buffers have scans, and the  *)
(* node takes none: a stage, and the time the IMU has still to cover.       *)

Before(a, b) == a[1] < b[1] \/ (a[1] = b[1] /\ a[2] < b[2])
BothWait == \A l \in Lidars : queue[l] # <<>>
PairRest ==
    IF ~pushed THEN IF imu = <<>> THEN <<3, 0>> ELSE <<2, 0>>
    ELSE IF ImuReaches(ends) THEN <<0, 0>> ELSE <<1, Larger(ends) - lastImu>>
Uses == bundles' = bundles + 1 \/ \E l \in Lidars : queue'[l] = <<>>

\* A message from the IMU may come: neither imu_cbk() nor the bound on stamps refuses it.
MayHear == started /\ lastImu < Horizon

WaitInv ==
    /\ imu # <<>> => imu[Len(imu)] = lastImu
    /\ pushed => imu # <<>>
    /\ imu = <<>> => lastImu < Horizon
    /\ ~started => \A l \in Lidars : queue[l] = <<>>

\* A pass that finds no pair leaves everything, or empties one of the buffers.
LEMMA NoPairFound ==
    ASSUME TypeOK, WaitInv, SyncFindsNoPair
    PROVE  \/ queue' = queue /\ ~BuffersReady
           \/ (\E l \in Lidars : queue'[l] = <<>>) /\ ~pushed /\ BuffersReady
<1>1. CASE ~BuffersReady
  BY <1>1 DEF SyncFindsNoPair
<1>2. CASE BuffersReady
  <2>1. queue' = [l \in Lidars |-> Kept(l)] /\ ~CanPair
    BY <1>2 DEF SyncFindsNoPair
  <2>2. ~pushed /\ \E l \in Lidars : Kept(l) = <<>>
    BY <1>2, <2>1 DEF CanPair
  <2> QED BY <1>2, <2>1, <2>2
<1> QED BY <1>1, <1>2

\* A message is newer than the last one, unless the clock of the IMU goes back.
LEMMA ImuHeard ==
    ASSUME TypeOK, ImuArrives
    PROVE  /\ imu' # <<>> /\ imu'[Len(imu')] = lastImu'
           /\ restarts' = restarts => lastImu' > lastImu
           /\ UNCHANGED <<queue, started, pushed, ends, bundles>>
<1>1. PICK t \in (IF lastImu < 0 THEN 1..Horizon ELSE Later(lastImu))
                 \union Rewound(lastImu) :
        /\ imu' = Append(IF t < lastImu THEN <<>> ELSE imu, t)
        /\ lastImu' = t
        /\ restarts' = restarts + IF t < lastImu THEN 1 ELSE 0
  BY DEF ImuArrives
<1>2. lastImu \in -1 .. Horizon /\ Horizon \in Nat /\ restarts \in Nat
      /\ imu \in Seq(1 .. Horizon)
  BY ConstantFacts DEF TypeOK
<1>3. t \in Int /\ (t < lastImu \/ t > lastImu)
  <2>1. CASE t \in Later(lastImu) \union Rewound(lastImu)
    <3>0. lastImu \in Int /\ Horizon \in Int /\ lastImu <= Horizon
      BY <1>2
    <3>1. t \in 1 .. Horizon /\ (lastImu < t \/ t < lastImu)
      BY <2>1, <3>0, ImuStampFacts
    <3> QED BY <1>2, <3>1
  <2>2. CASE lastImu < 0 /\ t \in 1 .. Horizon
    BY <1>2, <2>2
  <2> QED BY <1>1, <2>1, <2>2
<1>4. imu' # <<>> /\ imu'[Len(imu')] = t
  <2>1. PICK s \in Seq(Int) : imu' = Append(s, t)
    <3>1. imu \in Seq(Int) /\ <<>> \in Seq(Int)
      BY <1>2, IntegerElements
    <3> QED BY <1>1, <3>1
  <2> QED BY <1>3, <2>1
<1>5. restarts' = restarts => ~(t < lastImu)
  BY <1>1, <1>2
<1>6. UNCHANGED <<queue, started, pushed, ends, bundles>>
  BY DEF ImuArrives, pairing, history
<1> QED BY <1>1, <1>3, <1>4, <1>5, <1>6

LEMMA WaitStep ==
    ASSUME TypeOK, WaitInv, [Next]_vars
    PROVE  WaitInv'
<1>1. CASE UNCHANGED vars
  BY <1>1 DEF vars, inputs, pairing, WaitInv
<1>2. ASSUME NEW l \in Lidars, ScanArrives(l) PROVE WaitInv'
  <2>1. started' /\ UNCHANGED <<imu, lastImu, pushed>>
    BY <1>2 DEF ScanArrives, pairing
  <2> QED BY <2>1 DEF WaitInv
<1>3. CASE ImuArrives
  <2>1. started /\ started'
    BY <1>3 DEF ImuArrives
  <2> QED BY <1>3, <2>1, ImuHeard DEF WaitInv
<1>4. CASE SyncFindsNoPair
  <2>1. UNCHANGED <<imu, lastImu, pushed, started>>
    BY <1>4 DEF SyncFindsNoPair, pairing
  <2>2. started \/ queue' = queue
    <3>1. ~started => ~BuffersReady
      BY LidarFacts DEF WaitInv, BuffersReady
    <3> QED BY <1>4, <3>1, NoPairFound
  <2> QED BY <2>1, <2>2 DEF WaitInv
<1>5. CASE SyncAwaitsImu
  <2>1. UNCHANGED <<imu, lastImu, started>> /\ imu # <<>> /\ queue[1] # <<>>
    BY <1>5 DEF SyncAwaitsImu, CanPair, BuffersReady
  <2>2. started
    BY <2>1, LidarFacts DEF WaitInv
  <2> QED BY <2>1, <2>2 DEF WaitInv
<1>6. CASE SyncBundles
  <2> DEFINE k == Gathered(PairedEnds)
             n == Len(imu)
  <2>1. /\ UNCHANGED <<lastImu, started>> /\ pushed' = FALSE
        /\ imu # <<>> /\ queue[1] # <<>>
    BY <1>6 DEF SyncBundles, CanPair, BuffersReady
  <2>2. started
    BY <2>1, LidarFacts DEF WaitInv
  <2>3. /\ k \in 0 .. n /\ n \in Nat /\ Larger(PairedEnds) \in EndsRange
        /\ imu' \in Seq(1 .. Horizon) /\ Len(imu') = n - k
        /\ \A i \in 1 .. n - k : imu'[i] = imu[i + k]
        /\ \A i \in 1 .. k : imu[i] <= Larger(PairedEnds)
    BY <1>6, BundleFacts
  <2>4. n > 0 /\ imu[n] = lastImu
    BY <2>1 DEF WaitInv, TypeOK
  <2> HIDE DEF k, n
  <2>5. CASE k = n
    <3>1. imu' = <<>>
      BY <2>3, <2>5
    <3>2. lastImu <= Larger(PairedEnds)
      BY <2>3, <2>4, <2>5
    <3>3. Larger(PairedEnds) < Horizon
      BY <2>3, ConstantFacts DEF EndsRange
    <3>4. lastImu \in Int /\ Larger(PairedEnds) \in Int /\ Horizon \in Int
      <4>1. lastImu \in -1 .. Horizon
        BY DEF TypeOK
      <4>2. Larger(PairedEnds) \in 0 .. MaxTime + MaxSpan
        BY <2>3 DEF EndsRange
      <4> QED BY <4>1, <4>2, ConstantFacts
    <3>5. lastImu < Horizon
      BY ONLY <3>2, <3>3, <3>4
    <3> QED BY <2>1, <2>2, <3>1, <3>5 DEF WaitInv
  <2>6. CASE k # n
    <3>1. n - k \in 1 .. n - k /\ (n - k) + k = n /\ imu' # <<>>
      BY <2>3, <2>6
    <3>2. imu'[Len(imu')] = imu[n]
      BY <2>3, <3>1
    <3> QED BY <2>1, <2>2, <2>4, <3>1, <3>2 DEF WaitInv
  <2> QED BY <2>5, <2>6
<1> QED BY <1>1, <1>2, <1>3, <1>4, <1>5, <1>6 DEF Next, Loop

\* A pass of the loop that takes no scan chooses a pair, or waits for the IMU.
LEMMA PassWaits ==
    ASSUME TypeOK, WaitInv, BothWait, Loop, ~Uses
    PROVE  /\ UNCHANGED <<imu, lastImu>>
           /\ \/ UNCHANGED <<pushed, ends>> /\ ~pushed /\ imu = <<>>
              \/ UNCHANGED <<pushed, ends>> /\ pushed /\ ~ImuReaches(ends)
              \/ ~pushed /\ imu # <<>> /\ pushed' /\ ~ImuReaches(ends')
<1>1. CASE SyncFindsNoPair
  <2>1. UNCHANGED <<imu, lastImu, pushed, ends>>
    BY <1>1 DEF SyncFindsNoPair, pairing
  <2>2. ~BuffersReady
    BY <1>1, NoPairFound DEF Uses
  <2>3. imu = <<>>
    BY <2>2, LidarFacts DEF BuffersReady, BothWait
  <2> QED BY <2>1, <2>3 DEF WaitInv
<1>2. CASE SyncAwaitsImu
  <2>1. /\ UNCHANGED <<imu, lastImu>> /\ pushed' = TRUE /\ CanPair /\ imu # <<>> /\ Push
        /\ ~ImuReaches(PairedEnds)
    BY <1>2 DEF SyncAwaitsImu, CanPair, BuffersReady
  <2>2. \A l \in Lidars : ends'[l] = PairedEnds[l]
    BY <2>1, TypePair, PushFacts
  <2>3. ~ImuReaches(ends')
    BY <2>1, <2>2, LidarFacts DEF ImuReaches
  <2>4. pushed => ends' = ends /\ PairedEnds = ends /\ pushed' = pushed
    BY <2>1 DEF Push, PairedEnds, TypeOK
  <2> QED BY <2>1, <2>3, <2>4
<1>3. ~SyncBundles
  BY DEF SyncBundles, Uses
<1> QED BY <1>1, <1>2, <1>3 DEF Loop

\* The safety half of PairsAreConsumed: while both buffers have scans, each pass of the loop
\* takes one, or chooses a pair, or waits for the IMU to reach the ends of that pair; these
\* stay as they are, and each message of the IMU, which may always come, is nearer to them
\* (sync_packages()).  Only a clock that goes back lengthens the wait.
PairApproaches ==
    BothWait /\ restarts' = restarts =>
        \/ Uses
        \/ /\ Before(PairRest', PairRest) \/ PairRest' = PairRest
           /\ Loop /\ PairRest[1] \in {0, 2} => Before(PairRest', PairRest)
           /\ ImuArrives /\ PairRest[1] \in {1, 3} => Before(PairRest', PairRest)
THEOREM PairComesCloser ==
    Spec => [][PairApproaches]_vars /\ [](BothWait /\ PairRest[1] \in {1, 3} => MayHear)
<1>1. Init => WaitInv
  BY ConstantFacts DEF Init, WaitInv
<1>2. TypeOK /\ WaitInv /\ [Next]_vars => PairApproaches
  <2> SUFFICES ASSUME TypeOK, WaitInv, [Next]_vars, BothWait, restarts' = restarts, ~Uses
               PROVE  /\ Before(PairRest', PairRest) \/ PairRest' = PairRest
                      /\ Loop /\ PairRest[1] \in {0, 2} => Before(PairRest', PairRest)
                      /\ ImuArrives /\ PairRest[1] \in {1, 3} => Before(PairRest', PairRest)
    BY DEF PairApproaches
  <2>t. /\ lastImu \in Int /\ ends[1] \in Int /\ ends[2] \in Int /\ Larger(ends) \in Int
        /\ ends[1] <= Larger(ends) /\ ends[2] <= Larger(ends) /\ Larger(ends) \in {ends[1], ends[2]}
    <3>1. ends[1] \in EndsRange /\ ends[2] \in EndsRange
      BY LidarFacts DEF TypeOK, Pair, EndsRange
    <3>2. ends[1] \in Int /\ ends[2] \in Int
      BY <3>1 DEF EndsRange
    <3>3. lastImu \in -1 .. Horizon /\ Horizon \in Int
      BY ConstantFacts DEF TypeOK
    <3>4. lastImu \in Int
      BY ONLY <3>3
    <3> QED BY ONLY <3>2, <3>4, LargerFacts
  <2>1. CASE Loop
    <3>1. ~ImuArrives
      <4>1. lastImu' = lastImu
        BY <2>1, PassWaits
      <4> QED BY <4>1, <2>t, ImuHeard
    <3>2. CASE UNCHANGED <<pushed, ends>> /\ ~pushed /\ imu = <<>>
      <4>1. PairRest = <<3, 0>> /\ PairRest' = PairRest
        BY <2>1, <3>2, PassWaits DEF PairRest
      <4> QED BY <3>1, <4>1
    <3>3. CASE UNCHANGED <<pushed, ends>> /\ pushed /\ ~ImuReaches(ends)
      <4>1. lastImu' = lastImu
        BY <2>1, PassWaits
      <4>2. PairRest' = PairRest /\ PairRest[1] = 1
        BY <3>3, <4>1 DEF PairRest, ImuReaches, Larger
      <4> QED BY <3>1, <4>2
    <3>4. CASE ~pushed /\ imu # <<>> /\ pushed' /\ ~ImuReaches(ends')
      <4>1. lastImu' = lastImu
        BY <2>1, PassWaits
      <4>2. ~ImuReaches(ends)'
        BY <3>4, <4>1 DEF ImuReaches
      <4>3. PairRest = <<2, 0>> /\ PairRest'[1] = 1
        BY <3>4, <4>2 DEF PairRest
      <4> QED BY <3>1, <4>3 DEF Before
    <3> QED BY <2>1, <3>2, <3>3, <3>4, PassWaits
  <2>2. CASE ImuArrives /\ ~Loop
    <3>1. imu' # <<>> /\ lastImu' > lastImu /\ UNCHANGED <<pushed, ends>> /\ lastImu' \in Int
      <4>1. lastImu' \in Int
        BY <2>2, TypeImu DEF TypeOK
      <4> QED BY <2>2, <4>1, ImuHeard
    <3>2. CASE ~pushed
      <4>1. PairRest' = <<2, 0>> /\ PairRest \in {<<2, 0>>, <<3, 0>>}
        BY <3>1, <3>2 DEF PairRest
      <4> QED BY <2>2, <4>1 DEF Before
    <3>3. CASE pushed /\ ImuReaches(ends)
      <4>1. ImuReaches(ends)'
        BY <2>t, <3>1, <3>3 DEF ImuReaches
      <4>2. PairRest = <<0, 0>> /\ PairRest' = <<0, 0>>
        BY <3>1, <3>3, <4>1 DEF PairRest
      <4> QED BY <2>2, <4>2
    <3>4. CASE pushed /\ ~ImuReaches(ends)
      <4>1. Larger(ends)' = Larger(ends)
        BY <3>1 DEF Larger
      <4>2. PairRest = <<1, Larger(ends) - lastImu>>
        BY <3>4 DEF PairRest
      <4>3. PairRest' \in {<<0, 0>>, <<1, Larger(ends) - lastImu'>>}
        BY <3>1, <3>4, <4>1 DEF PairRest
      <4>4. Larger(ends) - lastImu' < Larger(ends) - lastImu
        <5>1. \A x, y, z \in Int : y > z => x - y < x - z
          OBVIOUS
        <5> QED BY <2>t, <3>1, <5>1
      <4> QED BY <2>2, <4>2, <4>3, <4>4 DEF Before
    <3> QED BY <3>2, <3>3, <3>4
  <2>3. CASE ~Loop /\ ~ImuArrives
    <3>1. UNCHANGED <<pushed, ends, imu, lastImu>>
      BY <2>3 DEF Next, ScanArrives, vars, inputs, pairing
    <3>2. PairRest' = PairRest
      BY <3>1 DEF PairRest, ImuReaches, Larger
    <3> QED BY <2>3, <3>2
  <2> QED BY <2>1, <2>2, <2>3
<1>3. TypeOK /\ WaitInv => (BothWait /\ PairRest[1] \in {1, 3} => MayHear)
  <2> SUFFICES ASSUME TypeOK, WaitInv, BothWait, PairRest[1] \in {1, 3} PROVE MayHear
    OBVIOUS
  <2>1. started
    BY LidarFacts DEF BothWait, WaitInv
  <2>2. CASE imu = <<>>
    BY <2>1, <2>2 DEF WaitInv, MayHear
  <2>3. CASE imu # <<>>
    <3>1. ~ImuReaches(ends)
      BY <2>3 DEF PairRest
    <3>2. ends[1] \in EndsRange /\ ends[2] \in EndsRange
      BY LidarFacts DEF TypeOK, Pair, EndsRange
    <3>3. lastImu \in Int
      <4>1. lastImu \in -1 .. Horizon
        BY DEF TypeOK
      <4> QED BY <4>1
    <3>4. ASSUME NEW e \in EndsRange, ~(lastImu >= e) PROVE lastImu < Horizon
      <4>1. e \in Int /\ Horizon \in Int /\ e < Horizon
        BY ConstantFacts DEF EndsRange
      <4> QED BY ONLY <3>3, <3>4, <4>1
    <3>5. ~(lastImu >= ends[1]) \/ ~(lastImu >= ends[2])
      BY <3>1 DEF ImuReaches
    <3>6. lastImu < Horizon
      BY <3>2, <3>4, <3>5
    <3> QED BY <2>1, <3>6 DEF MayHear
  <2> QED BY <2>2, <2>3
<1>4. TypeOK /\ WaitInv /\ [Next]_vars => WaitInv'
  BY WaitStep
<1> QED BY <1>1, <1>2, <1>3, <1>4, TypeCorrect, PTL DEF Spec
=============================================================================
