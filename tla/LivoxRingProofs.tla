--------------------------- MODULE LivoxRingProofs ---------------------------
(* The rings of the driver are queues, for any number of lidars and slots.    *)
EXTENDS LivoxRingProps, SequenceTheorems, TLAPS

Idx == 0 .. Wrap - 1

-----------------------------------------------------------------------------
(* Unsigned indexes                                                          *)

LEMMA Reduced ==
  ASSUME NEW W \in Nat \ {0}, NEW k \in Int, NEW x \in 0 .. W - 1
  PROVE  (x + k * W) % W = x
  OBVIOUS

LEMMA Remainder ==
  ASSUME NEW W \in Nat \ {0}, NEW x \in Int
  PROVE  /\ x \div W \in Int /\ x % W \in 0 .. W - 1
         /\ x = (x % W) + (x \div W) * W
  OBVIOUS

\* A multiple of W more makes no difference.
LEMMA Periodic ==
  ASSUME NEW W \in Nat \ {0}, NEW k \in Int, NEW x \in Int
  PROVE  (x + k * W) % W = x % W
  <1> DEFINE r == x % W
             q == x \div W
  <1>1. q \in Int /\ r \in 0 .. W - 1 /\ x = r + q * W
    BY Remainder
  <1> HIDE DEF r, q
  <1>2. x + k * W = r + (q + k) * W
    BY <1>1
  <1>3. (r + (q + k) * W) % W = r
    BY <1>1, Reduced
  <1> QED BY <1>2, <1>3 DEF r

LEMMA Sizes ==
  /\ Size \in Nat \ {0} /\ Wrap \in Nat \ {0} /\ Size < Wrap
  /\ Wrap = (Wrap \div Size) * Size /\ Wrap \div Size \in Int
  <1>1. Size \in Nat \ {0} /\ Wrap \in Nat \ {0} /\ Size < Wrap /\ Wrap % Size = 0
    BY RingAssumption
  <1>2. Wrap = (Wrap % Size) + (Wrap \div Size) * Size /\ Wrap \div Size \in Int
    BY <1>1, Remainder
  <1> QED BY <1>1, <1>2

\* The slots lie alike in each round of the indexes.
LEMMA SlotOfWrapped ==
  ASSUME NEW x \in Int, NEW i \in Int
  PROVE  Slot((x % Wrap) + i) = Slot(x + i) /\ Slot(x) \in 0 .. Size - 1
  <1> DEFINE r == x % Wrap
             q == x \div Wrap
             n == Wrap \div Size
  <1>1. q \in Int /\ r \in Int /\ x = r + q * Wrap
    BY Sizes, Remainder
  <1>2. n \in Int /\ Wrap = n * Size /\ Size \in Nat \ {0}
    BY Sizes
  <1> HIDE DEF r, q, n
  <1>3. x + i = (r + i) + (q * n) * Size
    BY <1>1, <1>2
  <1>4. q * n \in Int /\ r + i \in Int
    BY <1>1, <1>2
  <1>5. (r + i) % Size = ((r + i) + (q * n) * Size) % Size
    BY <1>2, <1>4, Periodic
  <1>6. x % Size \in 0 .. Size - 1
    BY <1>2
  <1> QED BY <1>3, <1>5, <1>6 DEF Slot, r

LEMMA SlotType ==
  ASSUME NEW x \in Int
  PROVE  Slot(x) \in 0 .. Size - 1
  BY Sizes DEF Slot

\* Less than a round apart, two indexes have two slots.
LEMMA SlotsDiffer ==
  ASSUME NEW x \in Int, NEW i \in Int, NEW j \in Int, i < j, j - i < Size
  PROVE  Slot(x + i) # Slot(x + j)
  <1> DEFINE a == x + i
             b == x + j
  <1>1. a \in Int /\ b \in Int /\ 0 < b - a /\ b - a < Size
    OBVIOUS
  <1> SUFFICES ASSUME a % Size = b % Size  PROVE FALSE
    BY DEF Slot
  <1> HIDE DEF a, b
  <1>2. PICK p \in Int, q \in Int : b - a = q * Size - p * Size
    <2>1. a = (a % Size) + (a \div Size) * Size /\ a \div Size \in Int
      BY <1>1, Remainder, Sizes
    <2>2. b = (b % Size) + (b \div Size) * Size /\ b \div Size \in Int
      BY <1>1, Remainder, Sizes
    <2>3. a % Size \in Int
      BY <1>1, Sizes
    <2>4. b - a = (b \div Size) * Size - (a \div Size) * Size
      BY <1>1, <2>1, <2>2, <2>3, Sizes
    <2> QED BY <2>1, <2>2, <2>4
  <1>3. b - a = (q - p) * Size
    BY <1>2, Sizes
  <1> DEFINE n == q - p
  <1>4. n \in Int /\ Size \in Nat \ {0} /\ 0 < n * Size /\ n * Size < Size
    BY <1>1, <1>3, Sizes
  <1> HIDE DEF n
  <1>5. \A c, d \in Nat : c * d \in Nat
    OBVIOUS
  <1>6. \A c \in Int : (0 - c) * Size = 0 - c * Size /\ c * Size = (c - 1) * Size + Size
    BY <1>4
  <1>7. 0 - n \notin Nat
    BY <1>4, <1>5, <1>6
  <1>8. n - 1 \in Nat
    BY <1>4, <1>7
  <1>9. (n - 1) * Size \in Nat
    BY <1>4, <1>5, <1>8
  <1> QED BY <1>4, <1>6, <1>9

\* What UsedSize is, how an index moves, and what that changes.
Distance(w, r) == (w - r) % Wrap
Moved(w) == (w + 1) % Wrap

LEMMA Unsigned ==
  /\ \A w, r \in Idx : Distance(w, r) = IF w >= r THEN w - r ELSE w - r + Wrap
  /\ \A w \in Idx : Moved(w) = IF w = Wrap - 1 THEN 0 ELSE w + 1
  /\ \A w \in Idx : w % Wrap = w /\ (w + Wrap) % Wrap = w
  <1>1. \A w, r \in Idx : Distance(w, r) = IF w >= r THEN w - r ELSE w - r + Wrap
    BY Sizes DEF Idx, Distance
  <1>2. \A w \in Idx : Moved(w) = IF w = Wrap - 1 THEN 0 ELSE w + 1
    BY Sizes DEF Idx, Moved
  <1>3. \A w \in Idx : w % Wrap = w /\ (w + Wrap) % Wrap = w
    BY Sizes DEF Idx
  <1> QED BY <1>1, <1>2, <1>3

LEMMA Distances ==
  ASSUME NEW w \in Idx, NEW r \in Idx
  PROVE  /\ Distance(w, r) \in Nat /\ (Distance(w, r) = 0 <=> w = r)
         /\ Slot(w) = Slot(r + Distance(w, r))
         /\ Moved(w) \in Idx /\ \A i \in Int : Slot(Moved(w) + i) = Slot(w + 1 + i)
         /\ Distance(w, r) < Size => Distance(Moved(w), r) = Distance(w, r) + 1
         /\ w # r => Distance(w, Moved(r)) = Distance(w, r) - 1
  <1>1. Moved(w) \in Idx /\ Moved(r) \in Idx /\ w \in Int /\ r \in Int
    <2>1. Wrap \in Nat /\ Wrap > 0
      BY Sizes
    <2>2. Moved(w) = (IF w = Wrap - 1 THEN 0 ELSE w + 1)
          /\ Moved(r) = (IF r = Wrap - 1 THEN 0 ELSE r + 1)
      BY Unsigned
    <2> QED BY ONLY <2>1, <2>2, w \in Idx, r \in Idx DEF Idx
  <1>2. \A i \in Int : Slot(Moved(w) + i) = Slot(w + 1 + i)
    BY <1>1, SlotOfWrapped DEF Moved
  <1>d. Distance(w, r) = IF w >= r THEN w - r ELSE w - r + Wrap
    BY Unsigned
  <1>3. Distance(w, r) \in Nat /\ (Distance(w, r) = 0 <=> w = r)
    BY <1>d, Sizes DEF Idx
  <1>4. w = (r + Distance(w, r)) % Wrap
    <2>1. r + Distance(w, r) = w \/ r + Distance(w, r) = w + Wrap
      BY <1>d, Sizes DEF Idx
    <2>2. w = w % Wrap /\ w = (w + Wrap) % Wrap
      BY Unsigned
    <2>3. CASE r + Distance(w, r) = w
      BY <2>2, <2>3, Zenon
    <2>4. CASE r + Distance(w, r) = w + Wrap
      BY <2>2, <2>4, Zenon
    <2> QED BY <2>1, <2>3, <2>4
  <1> DEFINE x == r + Distance(w, r)
  <1>5. x \in Int /\ w = x % Wrap
    BY <1>1, <1>3, <1>4
  <1> HIDE DEF x
  <1>6. Slot((x % Wrap) + 0) = Slot(x + 0)
    BY <1>5, SlotOfWrapped
  <1>7. Slot(w) = Slot(x)
    BY <1>1, <1>5, <1>6
  <1>8. Distance(w, r) < Size => Distance(Moved(w), r) = Distance(w, r) + 1
    <2>1. Distance(Moved(w), r) = IF Moved(w) >= r THEN Moved(w) - r ELSE Moved(w) - r + Wrap
      BY <1>1, Unsigned
    <2>2. Moved(w) = IF w = Wrap - 1 THEN 0 ELSE w + 1
      BY Unsigned
    <2> QED BY <1>1, <1>d, <2>1, <2>2, Sizes DEF Idx
  <1>9. w # r => Distance(w, Moved(r)) = Distance(w, r) - 1
    <2>1. Distance(w, Moved(r)) = IF w >= Moved(r) THEN w - Moved(r) ELSE w - Moved(r) + Wrap
      BY <1>1, Unsigned
    <2>2. Moved(r) = IF r = Wrap - 1 THEN 0 ELSE r + 1
      BY Unsigned
    <2> QED BY <1>1, <1>d, <2>1, <2>2, Sizes DEF Idx
  <1> QED BY <1>1, <1>2, <1>3, <1>7, <1>8, <1>9 DEF x

-----------------------------------------------------------------------------
(* The invariant                                                             *)

Typed ==
    /\ slots \in [Lidars -> [0 .. Size - 1 -> Stored]]
    /\ wr_idx \in [Lidars -> Idx] /\ rd_idx \in [Lidars -> Idx]
    /\ ready \subseteq Lidars /\ connect_state \subseteq Lidars
    /\ count_ \in {0, 1}
    /\ request_exit_ \in BOOLEAN /\ signalled \in BOOLEAN
    /\ writer \in {"idle", "full", "storing", "index", "empty", "count", "signal"}
    /\ from \in Lidars /\ packet \in Stored
    /\ reader \in {"top", "wait", "lidar", "poll", "pop", "update", "future", "done"}
    /\ at \in Lidars

\* No ring holds more than it has slots, what it holds is whole, and there is room for
\* the packet that is being stored, which is whole before the index moves.
Held(l) == \A i \in 0 .. UsedSize(l) - 1 : slots[l][Slot(rd_idx[l] + i)] \in Packets
RingInv(l) == UsedSize(l) <= Size /\ Held(l)
Storing == writer \in {"storing", "index"}
WriterInv ==
    /\ Storing => UsedSize(from) < Size
    /\ writer \in {"full", "storing", "index"} => packet \in Packets
    /\ writer = "index" => slots[from][Slot(wr_idx[from])] = packet
    /\ writer = "signal" => count_ = 0
\* The reader holds a copy of the first packet only between the look and the update.
ReaderInv ==
    /\ pkg = IF reader = "update" THEN <<slots[at][Slot(rd_idx[at])]>> ELSE <<>>
    /\ reader = "update" => ~QueueIsEmpty(at)
IInv == Typed /\ (\A l \in Lidars : RingInv(l)) /\ WriterInv /\ ReaderInv

QueueStep == \A l \in Lidars : [Queue(l)!Next]_<<Contents(l), Popped(l)>>

LEMMA TornIsNone == Torn \notin Packets
  BY RingAssumption DEF Packets, Lidars

LEMMA Used ==
  ASSUME Typed, NEW l \in Lidars
  PROVE  /\ UsedSize(l) \in Nat /\ wr_idx[l] \in Idx /\ rd_idx[l] \in Idx
         /\ wr_idx[l] \in Int /\ rd_idx[l] \in Int
         /\ Slot(wr_idx[l]) = Slot(rd_idx[l] + UsedSize(l))
         /\ Slot(wr_idx[l]) \in 0 .. Size - 1 /\ Slot(rd_idx[l]) \in 0 .. Size - 1
         /\ UsedSize(l) = 0 <=> QueueIsEmpty(l)
  <1>1. wr_idx[l] \in Idx /\ rd_idx[l] \in Idx /\ wr_idx[l] \in Int /\ rd_idx[l] \in Int
    BY Sizes DEF Typed, Idx
  <1>2. UsedSize(l) = Distance(wr_idx[l], rd_idx[l])
    BY DEF UsedSize, Distance
  <1>3. Slot(wr_idx[l]) \in 0 .. Size - 1 /\ Slot(rd_idx[l]) \in 0 .. Size - 1
    BY <1>1, SlotOfWrapped
  <1> QED BY <1>1, <1>2, <1>3, Distances DEF QueueIsEmpty

LEMMA InitIInv == Init => IInv /\ \A l \in Lidars : Queue(l)!Init
  <1> SUFFICES ASSUME Init  PROVE IInv /\ \A l \in Lidars : Queue(l)!Init
    OBVIOUS
  <1>1. Typed
    <2>1. 0 \in Idx /\ 1 \in Lidars /\ Torn \in Stored
      BY RingAssumption, Sizes DEF Idx, Lidars, Stored
    <2>2. Sampling \subseteq Lidars
      BY RingAssumption DEF Lidars
    <2> QED BY <2>1, <2>2 DEF Init, Typed
  <1>2. \A l \in Lidars : UsedSize(l) = 0 /\ Popped(l) = <<>>
    BY <1>1, Used DEF Init, QueueIsEmpty, Popped
  <1>3. \A l \in Lidars : RingInv(l) /\ Contents(l) = <<>>
    BY <1>2, Sizes DEF RingInv, Held, Contents
  <1>4. WriterInv /\ ReaderInv
    BY DEF Init, WriterInv, ReaderInv, Storing
  <1> QED BY <1>1, <1>2, <1>3, <1>4 DEF IInv, Queue!Init

-----------------------------------------------------------------------------
(* Steps that leave the rings alone                                          *)

LEMMA Quiet ==
  ASSUME IInv, Typed', WriterInv', ReaderInv', UNCHANGED <<slots, wr_idx, rd_idx>>,
         \A l \in Lidars : Popped(l)' = Popped(l)
  PROVE  IInv' /\ QueueStep
  <1>1. \A l \in Lidars : UsedSize(l)' = UsedSize(l) /\ Contents(l)' = Contents(l)
    BY DEF UsedSize, Contents
  <1>2. \A l \in Lidars : RingInv(l)'
    BY <1>1 DEF IInv, RingInv, Held
  <1>3. QueueStep
    BY <1>1 DEF QueueStep
  <1> QED BY <1>2, <1>3 DEF IInv

LEMMA ArriveStep ==
  ASSUME IInv, NEW l \in Lidars, NEW p \in Frames[l], PushLidarData(l, p)
  PROVE  IInv' /\ QueueStep
  <1>1. p \in Packets
    BY DEF Packets
  <1>2. /\ writer' = "full" /\ packet' = p /\ from' = l /\ ready' = ready \union {l}
        /\ UNCHANGED <<slots, wr_idx, rd_idx, count_, control, rVars>>
    BY DEF PushLidarData
  <1>3. Typed'
    BY <1>1, <1>2 DEF IInv, Typed, control, rVars, Stored
  <1>4. WriterInv' /\ ReaderInv'
    BY <1>1, <1>2 DEF IInv, WriterInv, ReaderInv, Storing, rVars, QueueIsEmpty
  <1> QED BY <1>2, <1>3, <1>4, Quiet DEF Popped, rVars

\* The writer looks at the ring, or at the semaphore, which it alone increments.
LEMMA WriterLooks ==
  ASSUME IInv, Drop \/ CheckEmpty \/ GetCount \/ Signal
  PROVE  IInv' /\ QueueStep
  <1>1. /\ UNCHANGED <<slots, wr_idx, rd_idx, ready, control, from, packet, reader, at, pkg>>
        /\ writer' \in {"idle", "count", "signal"}
    BY DEF Drop, CheckEmpty, GetCount, Signal, rings, rVars, AfterFull
  <1>2. count_' \in {0, 1} /\ (writer' = "signal" => count_' = 0)
    BY DEF Drop, CheckEmpty, GetCount, Signal, MaySignal, AfterFull, IInv, Typed, WriterInv
  <1>3. Typed'
    BY <1>1, <1>2 DEF IInv, Typed, control
  <1>4. WriterInv' /\ ReaderInv'
    BY <1>1, <1>2 DEF IInv, WriterInv, ReaderInv, Storing, QueueIsEmpty
  <1> QED BY <1>1, <1>3, <1>4, Quiet DEF Popped

\* The reader waits, chooses a lidar, or finds that it has nothing to pop.
LEMMA ReaderLooks ==
  ASSUME IInv, \/ Top \/ Wait \/ SelectLidar \/ Poll \/ CheckFuture
               \/ QueuePrePop /\ QueueIsEmpty(at)
  PROVE  IInv' /\ QueueStep
  <1>1. /\ UNCHANGED <<slots, wr_idx, rd_idx, ready, control, writer, from, packet>>
        /\ pkg' = pkg /\ reader # "update"
        /\ reader' \in {"top", "wait", "lidar", "poll", "pop", "future", "done"}
    BY DEF Top, Wait, SelectLidar, NextLidar, Poll, CheckFuture, QueuePrePop, Goto,
           rings, wVars, rVars
  <1>2. at' \in Lidars
    BY RingAssumption DEF Top, Wait, SelectLidar, NextLidar, Poll, CheckFuture, QueuePrePop,
           Goto, IInv, Typed, Lidars
  <1>3. count_' = count_ \/ (count_ = 1 /\ count_' = 0)
    BY DEF Top, Wait, SelectLidar, NextLidar, Poll, CheckFuture, QueuePrePop, IInv, Typed
  <1>4. Typed'
    BY <1>1, <1>2, <1>3 DEF IInv, Typed, control
  <1>5. WriterInv' /\ ReaderInv'
    BY <1>1, <1>3 DEF IInv, WriterInv, ReaderInv, Storing, UsedSize
  <1>6. \A l \in Lidars : Popped(l) = <<>> /\ Popped(l)' = <<>>
    BY <1>1 DEF Popped, IInv, ReaderInv
  <1> QED BY <1>1, <1>4, <1>5, <1>6, Quiet

LEMMA ControlStep ==
  ASSUME IInv, \/ \E l \in Lidars : StartSampling(l)
               \/ RequestExit \/ SetExitSignal \/ UNCHANGED vars
  PROVE  IInv' /\ QueueStep
  <1>1. UNCHANGED <<slots, wr_idx, rd_idx, ready, count_, writer, from, packet, reader, at, pkg>>
    BY DEF StartSampling, RequestExit, SetExitSignal, vars, rings, wVars, rVars
  <1>2. /\ connect_state' \subseteq Lidars
        /\ request_exit_' \in BOOLEAN /\ signalled' \in BOOLEAN
    BY DEF StartSampling, RequestExit, SetExitSignal, vars, control, IInv, Typed
  <1>3. Typed'
    BY <1>1, <1>2 DEF IInv, Typed
  <1>4. WriterInv' /\ ReaderInv'
    BY <1>1 DEF IInv, WriterInv, ReaderInv, Storing, UsedSize, QueueIsEmpty
  <1> QED BY <1>1, <1>3, <1>4, Quiet DEF Popped

-----------------------------------------------------------------------------
(* The writer stores                                                         *)

\* The slot is not one that is in use.
LEMMA StoreKeeps ==
  ASSUME IInv, NEW p \in Stored, Store(p), UsedSize(from) < Size, UNCHANGED <<wr_idx, rd_idx>>
  PROVE  /\ slots' \in [Lidars -> [0 .. Size - 1 -> Stored]]
         /\ slots'[from][Slot(wr_idx[from])] = p
         /\ \A l \in Lidars : /\ UsedSize(l)' = UsedSize(l) /\ Contents(l)' = Contents(l)
                              /\ RingInv(l)'
         /\ \A l \in Lidars : UsedSize(l) > 0 =>
                slots'[l][Slot(rd_idx[l])] = slots[l][Slot(rd_idx[l])]
  <1>1. Typed /\ from \in Lidars
    BY DEF IInv, Typed
  <1> DEFINE k == Slot(wr_idx[from])
  <1>2. k \in 0 .. Size - 1 /\ k = Slot(rd_idx[from] + UsedSize(from))
    BY <1>1, Used
  <1>3. slots' = [slots EXCEPT ![from][k] = p]
    BY DEF Store
  <1> HIDE DEF k
  <1>4. /\ slots' \in [Lidars -> [0 .. Size - 1 -> Stored]] /\ slots'[from][k] = p
        /\ \A l \in Lidars : l # from => slots'[l] = slots[l]
        /\ \A i \in 0 .. Size - 1 : i # k => slots'[from][i] = slots[from][i]
    BY <1>1, <1>2, <1>3 DEF Typed
  <1>5. ASSUME NEW l \in Lidars, NEW i \in 0 .. UsedSize(l) - 1
        PROVE  slots'[l][Slot(rd_idx[l] + i)] = slots[l][Slot(rd_idx[l] + i)]
    <2>1. CASE l # from
      BY <1>4, <2>1
    <2>2. CASE l = from
      <3>1. rd_idx[from] \in Int /\ UsedSize(from) \in Nat
        BY <1>1, Used
      <3>2. i \in Int /\ i < UsedSize(from) /\ UsedSize(from) - i < Size
        BY <2>2, <3>1, Sizes
      <3>3. Slot(rd_idx[from] + i) # k
        BY <1>2, <3>1, <3>2, SlotsDiffer
      <3>4. Slot(rd_idx[from] + i) \in 0 .. Size - 1
        BY <3>1, <3>2, SlotType
      <3> QED BY <1>4, <2>2, <3>3, <3>4
    <2> QED BY <2>1, <2>2
  <1>6. \A l \in Lidars : UsedSize(l)' = UsedSize(l) /\ UsedSize(l) \in Nat
    BY <1>1, Used DEF UsedSize
  <1>7. \A l \in Lidars : RingInv(l)'
    BY <1>5, <1>6 DEF IInv, RingInv, Held
  <1>8. ASSUME NEW l \in Lidars  PROVE Contents(l)' = Contents(l)
    <2>1. \A i \in 1 .. UsedSize(l) :
             slots'[l][Slot(rd_idx[l] + i - 1)] = slots[l][Slot(rd_idx[l] + i - 1)]
      <3> SUFFICES ASSUME NEW i \in 1 .. UsedSize(l)
                   PROVE  slots'[l][Slot(rd_idx[l] + i - 1)] = slots[l][Slot(rd_idx[l] + i - 1)]
        OBVIOUS
      <3>1. /\ UsedSize(l) \in Nat /\ rd_idx[l] \in Int /\ i - 1 \in 0 .. UsedSize(l) - 1
            /\ rd_idx[l] + i - 1 = rd_idx[l] + (i - 1)
        BY <1>1, Used
      <3> QED BY <1>5, <3>1
    <2> QED BY <1>6, <2>1 DEF Contents
  <1>9. ASSUME NEW l \in Lidars, UsedSize(l) > 0
        PROVE  slots'[l][Slot(rd_idx[l])] = slots[l][Slot(rd_idx[l])]
    <2>1. 0 \in 0 .. UsedSize(l) - 1 /\ rd_idx[l] + 0 = rd_idx[l]
      BY <1>1, <1>6, <1>9, Used
    <2> QED BY <1>5, <2>1
  <1> QED BY <1>4, <1>6, <1>7, <1>8, <1>9 DEF k

LEMMA StoreSpares ==
  ASSUME IInv, NEW p \in Stored, Store(p), UsedSize(from) < Size,
         UNCHANGED <<wr_idx, rd_idx, reader, at, pkg>>
  PROVE  ReaderInv'
  <1>1. ASSUME reader = "update"
        PROVE  slots'[at][Slot(rd_idx[at])] = slots[at][Slot(rd_idx[at])]
    <2>1. Typed /\ at \in Lidars /\ ~QueueIsEmpty(at)
      BY <1>1 DEF IInv, Typed, ReaderInv
    <2>2. UsedSize(at) > 0
      BY <2>1, Used
    <2> QED BY <2>1, <2>2, StoreKeeps
  <1> QED BY <1>1 DEF IInv, ReaderInv, QueueIsEmpty

LEMMA BeginStoreStep ==
  ASSUME IInv, BeginStore
  PROVE  IInv' /\ QueueStep
  <1>1. /\ writer = "full" /\ ~QueueIsFull(from) /\ Store(Torn) /\ writer' = "storing"
        /\ UNCHANGED <<wr_idx, rd_idx, ready, count_, control, from, packet, reader, at, pkg>>
        /\ Torn \in Stored
    BY DEF BeginStore, rVars, Stored
  <1>2. UsedSize(from) < Size
    BY <1>1, Used, Sizes DEF QueueIsFull, IInv, Typed
  <1>3. Typed'
    BY <1>1, <1>2, StoreKeeps DEF IInv, Typed, control
  <1>4. WriterInv'
    BY <1>1, <1>2 DEF IInv, WriterInv, UsedSize
  <1>5. ReaderInv'
    BY <1>1, <1>2, StoreSpares
  <1>6. \A l \in Lidars : RingInv(l)' /\ Contents(l)' = Contents(l) /\ Popped(l)' = Popped(l)
    BY <1>1, <1>2, StoreKeeps DEF Popped
  <1> QED BY <1>3, <1>4, <1>5, <1>6 DEF IInv, QueueStep

LEMMA EndStoreStep ==
  ASSUME IInv, EndStore
  PROVE  IInv' /\ QueueStep
  <1>1. /\ writer = "storing" /\ Store(packet) /\ writer' = "index"
        /\ UNCHANGED <<wr_idx, rd_idx, ready, count_, control, from, packet, reader, at, pkg>>
        /\ packet \in Stored
    BY DEF EndStore, rVars, IInv, Typed
  <1>2. UsedSize(from) < Size
    BY <1>1 DEF IInv, WriterInv, Storing
  <1>3. Typed'
    BY <1>1, <1>2, StoreKeeps DEF IInv, Typed, control
  <1>4. WriterInv'
    BY <1>1, <1>2, StoreKeeps DEF IInv, WriterInv, UsedSize
  <1>5. ReaderInv'
    BY <1>1, <1>2, StoreSpares
  <1>6. \A l \in Lidars : RingInv(l)' /\ Contents(l)' = Contents(l) /\ Popped(l)' = Popped(l)
    BY <1>1, <1>2, StoreKeeps DEF Popped
  <1> QED BY <1>3, <1>4, <1>5, <1>6 DEF IInv, QueueStep

\* The packet is in when the index moves.
LEMMA PushStep ==
  ASSUME IInv, PushIndex
  PROVE  IInv' /\ QueueStep
  <1> DEFINE n == UsedSize(from)
             r == rd_idx[from]
  <1>1. /\ writer = "index" /\ writer' = "empty" /\ Advance(wr_idx, from)
        /\ UNCHANGED <<slots, rd_idx, ready, count_, control, from, packet, reader, at, pkg>>
    BY DEF PushIndex, rVars
  <1>2. Typed /\ from \in Lidars /\ n < Size /\ packet \in Packets
    BY <1>1 DEF IInv, Typed, WriterInv, Storing
  <1>3. wr_idx' = [wr_idx EXCEPT ![from] = Moved(wr_idx[from])]
    BY <1>1 DEF Advance, Moved
  <1>4. \A l \in Lidars : UsedSize(l) = Distance(wr_idx[l], rd_idx[l])
                          /\ UsedSize(l)' = Distance(wr_idx'[l], rd_idx[l])
    BY <1>1 DEF UsedSize, Distance
  <1>5. /\ wr_idx' \in [Lidars -> Idx] /\ wr_idx'[from] = Moved(wr_idx[from])
        /\ \A l \in Lidars : l # from => wr_idx'[l] = wr_idx[l]
    BY <1>2, <1>3, Used, Distances DEF Typed
  <1>6. UsedSize(from)' = n + 1 /\ n \in Nat
    <2>1. n \in Nat /\ wr_idx[from] \in Idx /\ r \in Idx
      BY <1>2, Used
    <2>2. Distance(wr_idx[from], r) = n /\ UsedSize(from)' = Distance(Moved(wr_idx[from]), r)
      BY <1>1, <1>2, <1>4, <1>5
    <2> HIDE DEF n, r
    <2> QED BY <1>2, <2>1, <2>2, Distances
  <1>7. \A l \in Lidars : l # from => UsedSize(l)' = UsedSize(l)
    BY <1>4, <1>5
  <1>8. slots[from][Slot(r + n)] = packet /\ r \in Int
    BY <1>1, <1>2, Used DEF IInv, WriterInv
  <1>9. RingInv(from)'
    <2>1. \A i \in 0 .. n : slots[from][Slot(r + i)] \in Packets
      BY <1>2, <1>6, <1>8 DEF IInv, RingInv, Held
    <2>2. UsedSize(from)' <= Size
      BY <1>2, <1>6, Sizes
    <2> QED BY <1>1, <1>6, <2>1, <2>2 DEF RingInv, Held
  <1>10. \A l \in Lidars : RingInv(l)'
    BY <1>1, <1>7, <1>9 DEF IInv, RingInv, Held
  <1>11. Typed'
    BY <1>1, <1>5 DEF IInv, Typed, control
  <1>12. WriterInv' /\ ReaderInv'
    <2>1. WriterInv'
      BY <1>1 DEF WriterInv, Storing
    <2>2. reader = "update" => wr_idx'[at] # rd_idx[at]
      <3> SUFFICES ASSUME reader = "update"  PROVE wr_idx'[at] # rd_idx[at]
        OBVIOUS
      <3>1. UsedSize(at) \in Nat /\ UsedSize(at) # 0 /\ at \in Lidars
        BY <1>2, Used DEF IInv, ReaderInv, Typed
      <3>2. UsedSize(at)' # 0
        BY <1>1, <1>6, <1>7, <3>1
      <3>3. wr_idx'[at] \in Idx /\ rd_idx[at] \in Idx
        BY <1>2, <1>5, <3>1 DEF Typed
      <3> QED BY <1>1, <1>4, <3>1, <3>2, <3>3, Distances
    <2> QED BY <1>1, <2>1, <2>2 DEF IInv, ReaderInv, QueueIsEmpty
  <1>13. Contents(from)' = Append(Contents(from), packet) /\ Len(Contents(from)) = n
    <2> DEFINE c == [i \in 1 .. n |-> slots[from][Slot(r + i - 1)]]
               d == [i \in 1 .. n + 1 |-> slots[from][Slot(r + i - 1)]]
    <2>1. Contents(from) = c /\ Contents(from)' = d
      BY <1>1, <1>6 DEF Contents
    <2>2. c \in Seq(Packets) /\ Len(c) = n
      <3>1. \A i \in 1 .. n : slots[from][Slot(r + i - 1)] \in Packets
        <4> SUFFICES ASSUME NEW i \in 1 .. n  PROVE slots[from][Slot(r + i - 1)] \in Packets
          OBVIOUS
        <4>1. i - 1 \in 0 .. n - 1 /\ r + i - 1 = r + (i - 1)
          BY <1>6, <1>8
        <4> QED BY <1>2, <4>1 DEF IInv, RingInv, Held
      <3> QED BY <1>6, <3>1
    <2>3. d[n + 1] = packet
      <3>1. r + (n + 1) - 1 = r + n
        BY <1>6, <1>8
      <3> QED BY <1>6, <1>8, <3>1
    <2>4. d = Append(c, packet)
      BY <1>6, <2>2, <2>3
    <2> QED BY <2>1, <2>2, <2>4
  <1>14. \A l \in Lidars : Popped(l)' = Popped(l)
    BY <1>1 DEF Popped
  <1>15. QueueStep
    <2> SUFFICES ASSUME NEW l \in Lidars
                 PROVE  [Queue(l)!Next]_<<Contents(l), Popped(l)>>
      BY DEF QueueStep
    <2>1. CASE l = from
      <3>1. Contents(l)' = Append(Contents(l), packet) /\ Len(Contents(l)) < Size
        BY <1>1, <1>2, <1>13, <2>1
      <3>2. Queue(l)!Put
        BY <1>2, <1>14, <3>1 DEF Queue!Put
      <3> QED BY <3>2 DEF Queue!Next
    <2>2. CASE l # from
      <3>1. Contents(l)' = Contents(l)
        BY <1>1, <1>7, <2>2 DEF Contents
      <3> QED BY <1>14, <3>1
    <2> QED BY <2>1, <2>2
  <1> QED BY <1>10, <1>11, <1>12, <1>15 DEF IInv

-----------------------------------------------------------------------------
(* The reader takes a packet out                                             *)

\* Contents is the queue whose head lies in the slot at rd_idx.
LEMMA ContentsIsSeq ==
  ASSUME IInv, NEW l \in Lidars
  PROVE  /\ Contents(l) \in Seq(Packets) /\ Len(Contents(l)) = UsedSize(l)
         /\ ~QueueIsEmpty(l) => Contents(l) # <<>> /\ Head(Contents(l)) = slots[l][Slot(rd_idx[l])]
  <1> DEFINE n == UsedSize(l)
             r == rd_idx[l]
  <1>1. n \in Nat /\ r \in Int /\ (n = 0 <=> QueueIsEmpty(l))
    BY Used DEF IInv
  <1>2. \A i \in 1 .. n : slots[l][Slot(r + i - 1)] \in Packets
    <2> SUFFICES ASSUME NEW i \in 1 .. n  PROVE slots[l][Slot(r + i - 1)] \in Packets
      OBVIOUS
    <2>1. i - 1 \in 0 .. n - 1 /\ r + i - 1 = r + (i - 1)
      BY <1>1
    <2> QED BY <2>1 DEF IInv, RingInv, Held
  <1>3. Contents(l) = [i \in 1 .. n |-> slots[l][Slot(r + i - 1)]]
    BY DEF Contents
  <1> HIDE DEF n, r
  <1>4. Contents(l) \in Seq(Packets) /\ Len(Contents(l)) = n
    BY <1>1, <1>2, <1>3
  <1>5. ASSUME n # 0  PROVE Contents(l) # <<>> /\ Head(Contents(l)) = slots[l][Slot(r)]
    <2>1. 1 \in 1 .. n /\ r + 1 - 1 = r
      BY <1>1, <1>5
    <2>2. Contents(l)[1] = slots[l][Slot(r)]
      BY <1>3, <2>1
    <2> QED BY <1>4, <1>5, <2>2
  <1> QED BY <1>1, <1>4, <1>5 DEF n, r

LEMMA LookStep ==
  ASSUME IInv, QueuePrePop, ~QueueIsEmpty(at)
  PROVE  IInv' /\ QueueStep
  <1>1. /\ reader = "pop" /\ reader' = "update" /\ pkg' = <<slots[at][Slot(rd_idx[at])]>>
        /\ UNCHANGED <<slots, wr_idx, rd_idx, ready, count_, control, writer, from, packet, at>>
    BY DEF QueuePrePop, Goto, rings, wVars
  <1>2. Typed'
    BY <1>1 DEF IInv, Typed, control
  <1>3. WriterInv'
    BY <1>1 DEF IInv, WriterInv, Storing, UsedSize
  <1>4. ReaderInv'
    BY <1>1 DEF ReaderInv, QueueIsEmpty
  <1>5. \A l \in Lidars : RingInv(l)' /\ Contents(l)' = Contents(l)
    BY <1>1 DEF IInv, RingInv, Held, UsedSize, Contents
  <1>6. QueueStep
    <2> SUFFICES ASSUME NEW l \in Lidars
                 PROVE  [Queue(l)!Next]_<<Contents(l), Popped(l)>>
      BY DEF QueueStep
    <2>1. CASE l = at
      <3>1. /\ Contents(l) # <<>> /\ Popped(l) = <<>>
            /\ Popped(l)' = <<Head(Contents(l))>> /\ Contents(l)' = Contents(l)
        BY <1>1, <1>5, <2>1, ContentsIsSeq DEF Popped, IInv, ReaderInv
      <3> QED BY <3>1 DEF Queue!Next, Queue!Look
    <2>2. CASE l # at
      BY <1>1, <1>5, <2>2 DEF Popped
    <2> QED BY <2>1, <2>2
  <1> QED BY <1>2, <1>3, <1>4, <1>5, <1>6 DEF IInv

\* The packet is out when the index moves.
LEMMA GetStep ==
  ASSUME IInv, QueuePopUpdate
  PROVE  IInv' /\ QueueStep
  <1> DEFINE n == UsedSize(at)
             r == rd_idx[at]
  <1>1. /\ reader = "update" /\ reader' = "pop" /\ Advance(rd_idx, at) /\ pkg' = <<>>
        /\ UNCHANGED <<slots, wr_idx, ready, count_, control, writer, from, packet, at>>
    BY DEF QueuePopUpdate, Goto, wVars
  <1>2. Typed /\ at \in Lidars /\ ~QueueIsEmpty(at)
    BY <1>1 DEF IInv, Typed, ReaderInv
  <1>3. rd_idx' = [rd_idx EXCEPT ![at] = Moved(r)]
    BY <1>1 DEF Advance, Moved
  <1>4. \A l \in Lidars : UsedSize(l) = Distance(wr_idx[l], rd_idx[l])
                          /\ UsedSize(l)' = Distance(wr_idx[l], rd_idx'[l])
    BY <1>1 DEF UsedSize, Distance
  <1>5. r \in Idx /\ r \in Int /\ wr_idx[at] \in Idx /\ wr_idx[at] # r /\ n \in Nat /\ n # 0
    BY <1>2, Used DEF QueueIsEmpty
  <1>6. /\ rd_idx' \in [Lidars -> Idx] /\ rd_idx'[at] = Moved(r)
        /\ \A l \in Lidars : l # at => rd_idx'[l] = rd_idx[l]
    BY <1>2, <1>3, <1>5, Distances DEF Typed
  <1>7. UsedSize(at)' = n - 1
    <2>1. Distance(wr_idx[at], r) = n /\ UsedSize(at)' = Distance(wr_idx[at], Moved(r))
      BY <1>1, <1>2, <1>4, <1>6
    <2> HIDE DEF n, r
    <2> QED BY <1>5, <2>1, Distances
  <1>8. \A l \in Lidars : l # at => UsedSize(l)' = UsedSize(l)
    BY <1>4, <1>6
  <1>9. \A i \in Int : Slot(Moved(r) + i) = Slot(r + 1 + i)
    BY <1>5, Distances
  <1>10. RingInv(at)'
    <2>1. \A i \in 0 .. n - 2 : slots[at][Slot(Moved(r) + i)] \in Packets
      <3> SUFFICES ASSUME NEW i \in 0 .. n - 2
                   PROVE  slots[at][Slot(Moved(r) + i)] \in Packets
        OBVIOUS
      <3>1. i + 1 \in 0 .. n - 1 /\ r + 1 + i = r + (i + 1)
        BY <1>5
      <3>2. Slot(Moved(r) + i) = Slot(r + (i + 1))
        BY <1>9, <3>1
      <3> QED BY <1>2, <3>1, <3>2 DEF IInv, RingInv, Held
    <2>2. n - 1 <= Size /\ n - 1 - 1 = n - 2
      BY <1>2, <1>5, Sizes DEF IInv, RingInv
    <2> HIDE DEF n, r
    <2>3. /\ UsedSize(at)' = n - 1 /\ rd_idx'[at'] = Moved(r) /\ slots' = slots /\ at' = at
      BY <1>1, <1>6, <1>7
    <2> QED BY <2>1, <2>2, <2>3 DEF RingInv, Held
  <1>11. \A l \in Lidars : RingInv(l)'
    <2> SUFFICES ASSUME NEW l \in Lidars  PROVE RingInv(l)'
      OBVIOUS
    <2>1. CASE l = at
      BY <1>1, <1>10, <2>1
    <2>2. CASE l # at
      BY <1>1, <1>6, <1>8, <2>2 DEF IInv, RingInv, Held
    <2> QED BY <2>1, <2>2
  <1>12. Typed'
    BY <1>1, <1>6 DEF IInv, Typed, control
  <1>13. WriterInv' /\ ReaderInv'
    <2>1. ASSUME Storing  PROVE UsedSize(from)' < Size
      <3>1. UsedSize(from) < Size /\ from \in Lidars /\ UsedSize(from) \in Nat
        BY <1>2, <2>1, Used DEF IInv, WriterInv, Typed
      <3> QED BY <1>1, <1>5, <1>7, <1>8, <3>1, Sizes
    <2> QED BY <1>1, <2>1 DEF IInv, WriterInv, ReaderInv, Storing
  <1>14. Contents(at)' = Tail(Contents(at))
    <2> DEFINE c == [i \in 1 .. n |-> slots[at][Slot(r + i - 1)]]
               d == [i \in 1 .. n - 1 |-> slots[at][Slot(Moved(r) + i - 1)]]
    <2>1. Contents(at) = c
      BY DEF Contents
    <2>2. Contents(at)' = d
      BY <1>1, <1>6, <1>7 DEF Contents
    <2>3. c \in Seq(Packets) /\ Len(c) = n
      BY <1>2, <2>1, ContentsIsSeq
    <2>4. \A i \in 1 .. n - 1 : d[i] = c[i + 1]
      <3> SUFFICES ASSUME NEW i \in 1 .. n - 1  PROVE d[i] = c[i + 1]
        OBVIOUS
      <3>1. /\ i + 1 \in 1 .. n /\ i - 1 \in Int /\ Moved(r) \in Int
            /\ Moved(r) + i - 1 = Moved(r) + (i - 1)
            /\ r + 1 + (i - 1) = r + (i + 1) - 1
        BY <1>5, Distances, Sizes DEF Idx
      <3>2. Slot(Moved(r) + i - 1) = Slot(r + (i + 1) - 1)
        BY <1>9, <3>1
      <3> QED BY <3>1, <3>2
    <2>5. n \in Nat /\ n # 0 /\ DOMAIN d = 1 .. n - 1
      BY <1>5
    <2>6. d = [i \in 1 .. n - 1 |-> d[i]]
      OBVIOUS
    <2> HIDE DEF c, d, n, r
    <2>7. /\ Tail(c) \in Seq(Packets) /\ Len(Tail(c)) = n - 1
          /\ \A i \in 1 .. n - 1 : Tail(c)[i] = c[i + 1]
      BY <2>3, <2>5, HeadTailProperties
    <2>8. \A i \in 1 .. n - 1 : d[i] \in Packets
      BY <2>3, <2>4, <2>5
    <2>9. d \in Seq(Packets) /\ Len(d) = n - 1
      BY <2>5, <2>6, <2>8
    <2>10. d = Tail(c)
      BY <2>4, <2>5, <2>7, <2>9, SeqEqual
    <2> QED BY <2>1, <2>2, <2>10
  <1>15. QueueStep
    <2> SUFFICES ASSUME NEW l \in Lidars
                 PROVE  [Queue(l)!Next]_<<Contents(l), Popped(l)>>
      BY DEF QueueStep
    <2>1. CASE l = at
      <3>1. /\ Contents(l) # <<>> /\ Popped(l) = <<Head(Contents(l))>>
            /\ Popped(l)' = <<>> /\ Contents(l)' = Tail(Contents(l))
        BY <1>1, <1>2, <1>14, <2>1, ContentsIsSeq DEF Popped, IInv, ReaderInv
      <3> QED BY <3>1 DEF Queue!Next, Queue!Get
    <2>2. CASE l # at
      <3>1. Contents(l)' = Contents(l) /\ Popped(l)' = Popped(l)
        BY <1>1, <1>6, <1>8, <2>2 DEF Contents, Popped
      <3> QED BY <3>1
    <2> QED BY <2>1, <2>2
  <1> QED BY <1>11, <1>12, <1>13, <1>15 DEF IInv

-----------------------------------------------------------------------------
LEMMA Step == IInv /\ [Next]_vars => IInv' /\ QueueStep
  <1> SUFFICES ASSUME IInv, [Next]_vars  PROVE IInv' /\ QueueStep
    OBVIOUS
  <1>1. CASE Arrive
    BY <1>1, ArriveStep DEF Arrive
  <1>2. CASE Push
    BY <1>2, WriterLooks, BeginStoreStep, EndStoreStep, PushStep DEF Push
  <1>3. CASE PollThread
    BY <1>3, ReaderLooks, LookStep, GetStep DEF PollThread
  <1>4. CASE (\E l \in Lidars : StartSampling(l)) \/ RequestExit \/ SetExitSignal
    BY <1>4, ControlStep
  <1>5. CASE UNCHANGED vars
    BY <1>5, ControlStep
  <1> QED BY <1>1, <1>2, <1>3, <1>4, <1>5 DEF Next

\* Each ring is a bounded queue, for any number of lidars, slots, and indexes that wrap
\* at a multiple of the slots.
THEOREM RingsImplementQueues == Spec => RingsAreQueues
  <1>1. Init => IInv /\ \A l \in Lidars : Queue(l)!Init
    BY InitIInv
  <1>2. IInv /\ [Next]_vars => IInv' /\ [\A l \in Lidars : [Queue(l)!Next]_<<Contents(l), Popped(l)>>]_vars
    BY Step DEF QueueStep
  <1> QED BY <1>1, <1>2, PTL DEF Spec, RingsAreQueues

\* The writer and the reader, who share the ring without a lock, never touch one slot.
THEOREM SlotsStayApart == Spec => []SlotsApart
  <1>1. IInv => SlotsApart
    <2> SUFFICES ASSUME IInv, writer \in {"storing", "index"},
                        NEW i \in 0 .. UsedSize(from) - 1
                 PROVE  Slot(rd_idx[from] + i) # Slot(wr_idx[from])
      BY DEF SlotsApart
    <2>1. /\ UsedSize(from) \in Nat /\ rd_idx[from] \in Int /\ UsedSize(from) < Size
          /\ Slot(wr_idx[from]) = Slot(rd_idx[from] + UsedSize(from))
      BY Used DEF IInv, Typed, WriterInv, Storing
    <2> DEFINE n == UsedSize(from)
    <2> HIDE DEF n
    <2>2. i \in Int /\ n \in Int /\ i < n /\ n - i < Size
      BY <2>1, Sizes DEF n
    <2> QED BY <2>1, <2>2, SlotsDiffer DEF n
  <1> QED BY <1>1, InitIInv, Step, PTL DEF Spec

\* The rings never hold more than they have slots, and the semaphore never counts more
\* than one wake-up, though its count is read without its lock.
THEOREM TypeCorrect == Spec => []TypeOK
  <1>1. IInv => TypeOK
    <2> SUFFICES ASSUME IInv  PROVE TypeOK
      OBVIOUS
    <2>1. \A l \in Lidars : UsedSize(l) <= Size
      BY DEF IInv, RingInv
    <2>2. pkg \in {<<>>} \union {<<p>> : p \in Stored \ {Torn}}
      <3>1. CASE reader = "update"
        <4>1. pkg = <<slots[at][Slot(rd_idx[at])]>> /\ at \in Lidars /\ ~QueueIsEmpty(at)
          BY <3>1 DEF IInv, ReaderInv, Typed
        <4>2. slots[at][Slot(rd_idx[at])] \in Packets
          BY <4>1, ContentsIsSeq
        <4> QED BY <4>1, <4>2, TornIsNone DEF Stored
      <3>2. CASE reader # "update"
        BY <3>2 DEF IInv, ReaderInv
      <3> QED BY <3>1, <3>2
    <2> QED BY <2>1, <2>2 DEF IInv, Typed, TypeOK, Idx
  <1> QED BY <1>1, InitIInv, Step, PTL DEF Spec

-----------------------------------------------------------------------------
(* Wake-ups.  The writer looks at the count without its lock, and the       *)
(* reader goes by the rings it has already passed; still the reader does    *)
(* not fall asleep over a packet.  A lidar that is configured late is not   *)
(* covered before its next packet: the reader skips its ring until then.    *)

Asleep == reader = "wait" /\ count_ = 0 /\ writer = "idle"
Arrived(l) == writer = "full" /\ from = l /\ l \in connect_state

\* Nothing is left to do for the ring of l, or somebody will see to it: the semaphore
\* counts or will count, the packet is being stored, or the reader has l still before it.
OnItsWay(l) ==
    \/ QueueIsEmpty(l) \/ request_exit_
    \/ count_ = 1 \/ writer \in {"count", "signal"}
    \/ from = l /\ writer # "idle"
    \/ reader \in {"lidar", "poll", "pop", "update"} /\ at <= l

\* A ring that is used has been set up: the reader does not skip it for that.
ReadyInv == \A l \in Lidars : ~QueueIsEmpty(l) \/ (writer # "idle" /\ from = l) => l \in ready

\* Only PushIndex fills a ring, and only that of from.
LEMMA FilledByWriter ==
  ASSUME Typed, [Next]_vars, NEW l \in Lidars, QueueIsEmpty(l)
  PROVE  QueueIsEmpty(l)' \/ (PushIndex /\ from = l)
         \/ (QueuePopUpdate /\ at = l)
  <1>1. CASE PushIndex
    BY <1>1 DEF PushIndex, Advance, QueueIsEmpty, Typed
  <1>2. CASE QueuePopUpdate
    BY <1>2 DEF QueuePopUpdate, Advance, QueueIsEmpty, Typed
  <1>3. CASE ~PushIndex /\ ~QueuePopUpdate
    <2>1. wr_idx' = wr_idx /\ rd_idx' = rd_idx
      BY <1>3 DEF Next, Arrive, PushLidarData, Push, BeginStore, Drop, EndStore, CheckEmpty,
         GetCount, Signal, PollThread, Top, Wait, SelectLidar, Poll, QueuePrePop, CheckFuture,
         StartSampling, RequestExit, SetExitSignal, rings, vars
    <2> QED BY <2>1 DEF QueueIsEmpty
  <1> QED BY <1>1, <1>2, <1>3

LEMMA ReadyStep == IInv /\ ReadyInv /\ [Next]_vars => ReadyInv'
  <1> SUFFICES ASSUME IInv, ReadyInv, [Next]_vars, NEW l \in Lidars,
                      ~QueueIsEmpty(l)' \/ (writer' # "idle" /\ from' = l)
               PROVE  l \in ready'
    BY DEF ReadyInv
  <1>1. CASE Arrive
    BY <1>1 DEF Arrive, PushLidarData, ReadyInv, QueueIsEmpty
  <1>2. CASE ~Arrive
    <2>1. ready' = ready
      BY <1>2 DEF Next, Push, BeginStore, Drop, EndStore, PushIndex, CheckEmpty,
         GetCount, Signal, PollThread, Top, Wait, SelectLidar, Poll, QueuePrePop, QueuePopUpdate,
         CheckFuture, StartSampling, RequestExit, SetExitSignal, rings, vars
    <2>2. from' = from /\ (writer' # "idle" => writer # "idle")
      BY <1>2 DEF Next, Push, BeginStore, Drop, EndStore, PushIndex, CheckEmpty,
         GetCount, Signal, PollThread, Top, Wait, SelectLidar, Poll, QueuePrePop, QueuePopUpdate,
         CheckFuture, StartSampling, RequestExit, SetExitSignal, wVars, vars
    <2>3. CASE QueueIsEmpty(l)
      <3>1. ASSUME QueuePopUpdate, at = l PROVE FALSE
        BY <2>3, <3>1 DEF QueuePopUpdate, IInv, ReaderInv
      <3>2. ASSUME PushIndex, from = l PROVE l \in ready'
        BY <2>1, <3>2 DEF PushIndex, ReadyInv
      <3> QED BY <2>1, <2>2, <2>3, <3>1, <3>2, FilledByWriter DEF ReadyInv, IInv
    <2>4. CASE ~QueueIsEmpty(l)
      BY <2>1, <2>4 DEF ReadyInv
    <2> QED BY <2>3, <2>4
  <1> QED BY <1>1, <1>2

\* Once l is sampling, nobody forgets its ring.
LEMMA OnItsWayStep ==
  ASSUME IInv, ReadyInv, [Next]_vars, NEW l \in Lidars, l \in connect_state, OnItsWay(l)
  PROVE  OnItsWay(l)'
  <1>l. at \in Nat /\ l \in Nat /\ at <= LidarCount /\ l <= LidarCount /\ 1 <= l
        /\ LidarCount \in Nat
    BY RingAssumption DEF IInv, Typed, Lidars
  <1>1. CASE Arrive
    BY <1>1 DEF Arrive, PushLidarData, OnItsWay, QueueIsEmpty, control, rVars
  <1>2. CASE Push
    <2>1. /\ UNCHANGED <<request_exit_, rd_idx, from, reader, at>>
      BY <1>2 DEF Push, BeginStore, Drop, EndStore, PushIndex, CheckEmpty, GetCount, Signal,
         control, rings, rVars
    <2>2. CASE PushIndex
      <3>1. writer' = "empty" /\ writer = "index" /\ count_' = count_
        BY <2>2 DEF PushIndex
      <3>2. CASE from = l
        BY <2>1, <3>1, <3>2 DEF OnItsWay
      <3>3. CASE from # l
        <4>1. QueueIsEmpty(l)' = QueueIsEmpty(l)
          BY <2>1, <2>2, <3>3 DEF PushIndex, Advance, QueueIsEmpty, IInv, Typed
        <4> QED BY <2>1, <3>1, <3>3, <4>1 DEF OnItsWay
      <3> QED BY <3>2, <3>3
    <2>3. CASE BeginStore \/ Drop \/ EndStore \/ CheckEmpty \/ GetCount \/ Signal
      <3>1. wr_idx' = wr_idx
        BY <2>3 DEF BeginStore, Drop, EndStore, CheckEmpty, GetCount, Signal, rings
      <3>2. CASE QueueIsEmpty(l) \/ request_exit_
        BY <2>1, <3>1, <3>2 DEF OnItsWay, QueueIsEmpty
      <3>3. CASE reader \in {"lidar", "poll", "pop", "update"} /\ at <= l
        BY <2>1, <3>3 DEF OnItsWay
      <3>4. CASE Signal
        BY <3>4 DEF Signal, OnItsWay, IInv, Typed, WriterInv
      <3>5. CASE ~Signal /\ (count_ = 1 \/ writer \in {"count", "signal"}
                             \/ (from = l /\ writer # "idle")) /\ ~QueueIsEmpty(l)
        <4>1. count_' = count_ /\ count_ \in {0, 1}
          BY <2>3, <3>5 DEF BeginStore, Drop, EndStore, CheckEmpty, GetCount, IInv, Typed
        <4>2. CASE BeginStore \/ Drop \/ EndStore
          BY <2>1, <3>5, <4>1, <4>2 DEF BeginStore, Drop, EndStore, AfterFull, OnItsWay
        <4>3. CASE CheckEmpty
          BY <2>1, <3>5, <4>1, <4>3 DEF CheckEmpty, WakesReader, OnItsWay
        <4>4. CASE GetCount
          BY <4>1, <4>4 DEF GetCount, MaySignal, OnItsWay
        <4> QED BY <2>3, <3>5, <4>2, <4>3, <4>4
      <3> QED BY <3>2, <3>3, <3>4, <3>5 DEF OnItsWay
    <2> QED BY <1>2, <2>2, <2>3 DEF Push
  <1>3. CASE PollThread
    <2>1. UNCHANGED <<request_exit_, wr_idx, writer, from>>
      BY <1>3 DEF PollThread, Top, Wait, SelectLidar, Poll, QueuePrePop, QueuePopUpdate,
         CheckFuture, control, rings, wVars
    <2>2. CASE Wait
      BY <1>l, <2>2 DEF Wait, Goto, OnItsWay
    <2>3. CASE Top \/ CheckFuture
      BY <2>1, <2>3 DEF Top, CheckFuture, rings, OnItsWay, QueueIsEmpty
    <2>4. CASE QueuePopUpdate
      <3>1. CASE at = l
        BY <1>l, <2>4, <3>1 DEF QueuePopUpdate, Goto, OnItsWay
      <3>2. CASE at # l
        <4>1. QueueIsEmpty(l)' = QueueIsEmpty(l)
          BY <2>4, <3>2 DEF QueuePopUpdate, Advance, QueueIsEmpty, IInv, Typed
        <4>2. count_' = count_ /\ at' = at /\ reader' = "pop" /\ reader = "update"
          BY <2>4 DEF QueuePopUpdate, Goto
        <4> QED BY <2>1, <4>1, <4>2 DEF OnItsWay
      <3> QED BY <3>1, <3>2
    <2>5. CASE SelectLidar \/ Poll \/ QueuePrePop
      <3>1. rd_idx' = rd_idx /\ count_' = count_
        BY <2>5 DEF SelectLidar, Poll, QueuePrePop, rings
      <3>2. CASE \/ QueueIsEmpty(l) \/ request_exit_
                 \/ count_ = 1 \/ writer \in {"count", "signal"}
                 \/ from = l /\ writer # "idle"
        BY <2>1, <3>1, <3>2 DEF OnItsWay, QueueIsEmpty
      <3>3. CASE ~QueueIsEmpty(l) /\ ~request_exit_
                 /\ reader \in {"lidar", "poll", "pop", "update"} /\ at <= l
        <4>1. Selected(l)
          BY <3>3 DEF Selected, ReadyInv
        <4>2. CASE at = l
          BY <1>l, <2>5, <3>3, <4>1, <4>2 DEF SelectLidar, Poll, QueuePrePop, Goto, OnItsWay
        <4>3. CASE at # l
          <5>1. at + 1 \in Lidars /\ at + 1 <= l
            BY <1>l, <3>3, <4>3 DEF Lidars, IInv, Typed
          <5> QED
            BY <1>l, <2>5, <3>3, <5>1 DEF SelectLidar, Poll, QueuePrePop, NextLidar, Goto, OnItsWay
        <4> QED BY <4>2, <4>3
      <3> QED BY <3>2, <3>3 DEF OnItsWay
    <2> QED BY <1>3, <2>2, <2>3, <2>4, <2>5 DEF PollThread
  <1>4. CASE (\E k \in Lidars : StartSampling(k)) \/ RequestExit \/ SetExitSignal \/ UNCHANGED vars
    BY <1>4 DEF StartSampling, RequestExit, SetExitSignal, vars, rings, wVars, rVars, control,
       OnItsWay, QueueIsEmpty
  <1> QED BY <1>1, <1>2, <1>3, <1>4 DEF Next

\* No wake-up is lost: once a packet of a sampling lidar has arrived, the poll thread never
\* sleeps over a ring of that lidar that is not empty, though PushLidarData reads the count
\* of the semaphore without its lock.
THEOREM NoWakeUpLost ==
  Spec => \A l \in Lidars : [](Arrived(l) => [](Asleep => QueueIsEmpty(l) \/ request_exit_))
  <1> SUFFICES ASSUME NEW l \in Lidars
               PROVE  Spec => [](Arrived(l) => [](Asleep => QueueIsEmpty(l) \/ request_exit_))
    OBVIOUS
  <1> DEFINE Way == l \in connect_state /\ OnItsWay(l)
             Inv == IInv /\ ReadyInv
  <1>1. Init => Inv
    BY InitIInv DEF Init, ReadyInv, QueueIsEmpty
  <1>2. Inv /\ [Next]_vars => Inv'
    BY Step, ReadyStep
  <1>3. Inv /\ Way /\ [Next]_vars => Way'
    <2> SUFFICES ASSUME Inv, Way, [Next]_vars  PROVE Way'
      OBVIOUS
    <2>1. OnItsWay(l)'
      BY OnItsWayStep
    <2>2. l \in connect_state'
      BY DEF Next, Arrive, PushLidarData, Push, BeginStore, Drop, EndStore, PushIndex, CheckEmpty,
         GetCount, Signal, PollThread, Top, Wait, SelectLidar, Poll, QueuePrePop, QueuePopUpdate,
         CheckFuture, StartSampling, RequestExit, SetExitSignal, control, vars
    <2> QED BY <2>1, <2>2
  <1>4. Arrived(l) => Way
    BY DEF Arrived, OnItsWay
  <1>5. Way => (Asleep => QueueIsEmpty(l) \/ request_exit_)
    BY DEF Asleep, OnItsWay
  <1> HIDE DEF Way, Inv
  <1> QED BY <1>1, <1>2, <1>3, <1>4, <1>5, PTL DEF Spec

-----------------------------------------------------------------------------
(* The exit.  Steps of the poll thread until it is done, when it has been   *)
(* signalled and no packet comes in: the copies out of a ring count for     *)
(* nothing, as packets may come in as fast as they go out.                  *)

ToDo ==
    LET left == 3 * (LidarCount - at)
    IN  CASE reader = "wait" -> 3 * LidarCount + 3
          [] reader = "lidar" -> left + 5
          [] reader \in {"pop", "update"} -> left + 4
          [] reader = "poll" -> left + 3
          [] reader = "top" -> 2
          [] reader = "future" -> 1
          [] OTHER -> 0
Copies == {reader, reader'} = {"pop", "update"}

\* The reader no longer waits, or will be woken: the packet that arrived is on its way
\* into a ring that only the reader empties.
Woken ==
    reader = "wait" =>
        \/ count_ = 1 \/ writer \in {"full", "storing", "index", "count", "signal"}
        \/ writer = "empty" /\ ~QueueIsEmpty(from)

LEMMA ToDoOf ==
  ASSUME Typed
  PROVE  /\ reader = "wait" => ToDo = 3 * LidarCount + 3
         /\ reader = "lidar" => ToDo = 3 * (LidarCount - at) + 5
         /\ reader \in {"pop", "update"} => ToDo = 3 * (LidarCount - at) + 4
         /\ reader = "poll" => ToDo = 3 * (LidarCount - at) + 3
         /\ reader = "top" => ToDo = 2
         /\ reader = "future" => ToDo = 1
         /\ reader = "done" => ToDo = 0
         /\ at \in 1 .. LidarCount /\ LidarCount \in Nat /\ ToDo \in Nat
  <1>1. at \in 1 .. LidarCount /\ LidarCount \in Nat
    BY RingAssumption DEF Typed, Lidars
  <1>2. reader \in {"top", "wait", "lidar", "poll", "pop", "update", "future", "done"}
    BY DEF Typed
  <1> QED BY <1>1, <1>2 DEF ToDo

LEMMA WokenStep ==
  ASSUME IInv, [Next]_vars, request_exit_, Woken
  PROVE  Woken' /\ request_exit_'
  <1>0. request_exit_'
    BY DEF Next, Arrive, PushLidarData, Push, BeginStore, Drop, EndStore, PushIndex, CheckEmpty,
       GetCount, Signal, PollThread, Top, Wait, SelectLidar, Poll, QueuePrePop, QueuePopUpdate,
       CheckFuture, StartSampling, RequestExit, SetExitSignal, control, vars
  <1>1. CASE PollThread
    <2>1. reader' # "wait"
      BY <1>1 DEF PollThread, Top, Wait, SelectLidar, NextLidar, Poll, QueuePrePop,
         QueuePopUpdate, CheckFuture, Goto
    <2> QED BY <1>0, <2>1 DEF Woken
  <1>2. CASE Push
    <2>1. reader' = reader /\ from' = from /\ rd_idx' = rd_idx
      BY <1>2 DEF Push, BeginStore, Drop, EndStore, PushIndex, CheckEmpty, GetCount, Signal,
         rVars, rings
    <2>2. CASE BeginStore \/ Drop \/ EndStore
      BY <1>0, <2>1, <2>2 DEF BeginStore, Drop, EndStore, AfterFull, Woken
    <2>3. CASE PushIndex
      <3>1. wr_idx'[from] = Moved(wr_idx[from]) /\ writer' = "empty" /\ Storing
        BY <2>3 DEF PushIndex, Advance, Moved, Storing, IInv, Typed
      <3>2. Distance(wr_idx[from], rd_idx[from]) < Size
            /\ wr_idx[from] \in Idx /\ rd_idx[from] \in Idx
        BY <3>1 DEF IInv, WriterInv, Typed, UsedSize, Distance
      <3>3. Distance(Moved(wr_idx[from]), rd_idx[from]) # 0
            /\ Moved(wr_idx[from]) \in Idx
        BY <3>2, Distances
      <3>4. Moved(wr_idx[from]) # rd_idx[from]
        BY <3>2, <3>3, Distances
      <3> QED BY <1>0, <2>1, <3>1, <3>4 DEF Woken, QueueIsEmpty
    <2>4. CASE CheckEmpty
      BY <1>0, <2>1, <2>4 DEF CheckEmpty, WakesReader, Woken
    <2>5. CASE GetCount
      BY <1>0, <2>1, <2>5 DEF GetCount, MaySignal, Woken, IInv, Typed
    <2>6. CASE Signal
      BY <1>0, <2>1, <2>6 DEF Signal, Woken, IInv, WriterInv
    <2> QED BY <1>2, <2>2, <2>3, <2>4, <2>5, <2>6 DEF Push
  <1>3. CASE Arrive
    BY <1>0, <1>3 DEF Arrive, PushLidarData, Woken
  <1>4. CASE (\E l \in Lidars : StartSampling(l)) \/ RequestExit \/ SetExitSignal \/ UNCHANGED vars
    BY <1>0, <1>4 DEF StartSampling, RequestExit, SetExitSignal, vars, rings, wVars, rVars,
       control, Woken, QueueIsEmpty
  <1> QED BY <1>1, <1>2, <1>3, <1>4 DEF Next

\* The safety half of ExitEnds, first part: once the exit is requested, the next packet of
\* any lidar wakes the poll thread, and it never sleeps again (~DriverNode joins it).
THEOREM ExitWakes == Spec => [](request_exit_ /\ writer = "full" => []~Asleep)
  <1> DEFINE P == request_exit_ /\ Woken
  <1>1. IInv /\ P /\ [Next]_vars => P'
    BY WokenStep
  <1>2. request_exit_ /\ writer = "full" => P
    BY DEF Woken
  <1>3. P /\ IInv => ~Asleep
    BY DEF Woken, Asleep
  <1>4. IInv /\ [Next]_vars => IInv'
    BY Step
  <1>5. Init => IInv
    BY InitIInv
  <1> HIDE DEF P
  <1> QED BY <1>1, <1>2, <1>3, <1>4, <1>5, PTL DEF Spec

\* Second part: once it is signalled, each step of the poll thread brings it closer to its
\* end or copies a packet out, whatever the writer does (PointCloudDataPollThread).
ExitApproaches ==
    request_exit_ /\ signalled =>
        /\ request_exit_' /\ signalled' /\ ToDo' <= ToDo
        /\ PollThread => ToDo' < ToDo \/ (ToDo' = ToDo /\ Copies)
THEOREM ExitComesCloser == Spec => [][ExitApproaches]_vars
  <1>1. IInv /\ IInv' /\ [Next]_vars => ExitApproaches
    <2> SUFFICES ASSUME IInv, IInv', [Next]_vars, request_exit_, signalled
                 PROVE  /\ request_exit_' /\ signalled' /\ ToDo' <= ToDo
                        /\ PollThread => ToDo' < ToDo \/ (ToDo' = ToDo /\ Copies)
      BY DEF ExitApproaches
    <2>0. request_exit_' /\ signalled'
      BY DEF Next, Arrive, PushLidarData, Push, BeginStore, Drop, EndStore, PushIndex, CheckEmpty,
         GetCount, Signal, PollThread, Top, Wait, SelectLidar, Poll, QueuePrePop, QueuePopUpdate,
         CheckFuture, StartSampling, RequestExit, SetExitSignal, control, vars
    <2>t. /\ at \in 1 .. LidarCount /\ LidarCount \in Nat /\ ToDo \in Nat
          /\ at' \in 1 .. LidarCount /\ ToDo' \in Nat
      <3>1. Typed /\ Typed'
        BY DEF IInv
      <3>2. /\ at \in 1 .. LidarCount /\ LidarCount \in Nat /\ ToDo \in Nat
        BY <3>1, ToDoOf
      <3>3. at' \in 1 .. LidarCount
        BY <3>1 DEF Typed, Lidars
      <3>4. reader' \in {"top", "wait", "lidar", "poll", "pop", "update", "future", "done"}
        BY <3>1 DEF Typed
      <3> QED BY <3>2, <3>3, <3>4 DEF ToDo
    <2>1. CASE ~PollThread
      <3>1. reader' = reader /\ at' = at
        BY <2>1 DEF Next, Arrive, PushLidarData, Push, BeginStore, Drop, EndStore, PushIndex,
           CheckEmpty, GetCount, Signal, StartSampling, RequestExit, SetExitSignal, rVars, vars
      <3>2. ToDo' = ToDo
        BY <3>1 DEF ToDo
      <3> QED BY <2>0, <2>1, <2>t, <3>2
    <2>2. CASE PollThread
      <3>1. \/ reader = "top" /\ reader' = "future"
            \/ reader = "wait" /\ reader' = "lidar" /\ at' = 1
            \/ reader = "lidar" /\ reader' = "poll" /\ at' = at
            \/ reader \in {"lidar", "poll"} /\ reader' = "lidar" /\ at' = at + 1
            \/ reader \in {"lidar", "poll"} /\ reader' = "future"
            \/ reader = "pop" /\ reader' = "poll" /\ at' = at
            \/ reader = "pop" /\ reader' = "update" /\ at' = at
            \/ reader = "update" /\ reader' = "pop" /\ at' = at
            \/ reader = "future" /\ reader' = "done"
        BY <2>2 DEF PollThread, Top, Wait, SelectLidar, NextLidar, Poll, QueuePrePop,
           QueuePopUpdate, CheckFuture, Goto
      <3>2. /\ reader' = "lidar" => ToDo' = 3 * (LidarCount - at') + 5
            /\ reader' \in {"pop", "update"} => ToDo' = 3 * (LidarCount - at') + 4
            /\ reader' = "poll" => ToDo' = 3 * (LidarCount - at') + 3
            /\ reader' = "future" => ToDo' = 1
            /\ reader' = "done" => ToDo' = 0
        BY DEF ToDo
      <3>3. /\ reader = "wait" => ToDo = 3 * LidarCount + 3
            /\ reader = "lidar" => ToDo = 3 * (LidarCount - at) + 5
            /\ reader \in {"pop", "update"} => ToDo = 3 * (LidarCount - at) + 4
            /\ reader = "poll" => ToDo = 3 * (LidarCount - at) + 3
            /\ reader = "top" => ToDo = 2
            /\ reader = "future" => ToDo = 1
        BY DEF ToDo
      <3>4. CASE \/ reader = "top" /\ reader' = "future"
                 \/ reader \in {"lidar", "poll"} /\ reader' = "future"
                 \/ reader = "future" /\ reader' = "done"
        BY <2>0, <2>t, <3>2, <3>3, <3>4
      <3>5. CASE reader = "wait" /\ reader' = "lidar" /\ at' = 1
        BY <2>0, <2>t, <3>2, <3>3, <3>5
      <3>6. CASE reader \in {"lidar", "poll"} /\ reader' = "lidar" /\ at' = at + 1
        BY <2>0, <2>t, <3>2, <3>3, <3>6
      <3>7. CASE at' = at /\ (\/ reader = "lidar" /\ reader' = "poll"
                              \/ reader = "pop" /\ reader' = "poll")
        BY <2>0, <2>t, <3>2, <3>3, <3>7
      <3>8. CASE at' = at /\ (\/ reader = "pop" /\ reader' = "update"
                              \/ reader = "update" /\ reader' = "pop")
        <4>1. ToDo' = ToDo
          BY <3>2, <3>3, <3>8
        <4>2. Copies
          BY <3>8 DEF Copies
        <4> QED BY <2>0, <2>t, <4>1, <4>2
      <3> QED BY <3>1, <3>4, <3>5, <3>6, <3>7, <3>8
    <2> QED BY <2>1, <2>2
  <1>2. IInv /\ [Next]_vars => IInv'
    BY Step
  <1> QED BY <1>1, <1>2, InitIInv, PTL DEF Spec
=============================================================================
