------------------------ MODULE CaptureQueueProofs -------------------------
(***************************************************************************)
(* Proofs about record(): its types with the byte limit, the bound on      *)
(* images that slip in after the stop, and that nothing queued in time is  *)
(* left out of a recording that passes, for any number of streams, sizes   *)
(* and limits; and that the byte count is that of the messages held, from  *)
(* what a sum over a finite set is.                                        *)
(***************************************************************************)
EXTENDS CaptureQueueProps, SequenceTheorems, FiniteSetTheorems, TLAPS

\* Every state of record() is well typed, and state['bytes'] never exceeds the
\* limit (the check under state_lock in callback).
THEOREM TypeCorrect == Spec => []TypeOK
<1>1. Init => TypeOK
  <2> SUFFICES ASSUME Init PROVE TypeOK
    OBVIOUS
  <2>1. events \in Seq(Events) /\ current \in Seq(Events)
    BY DEF Init
  <2>2. tail \in Nat \union {None} /\ lastFrame \in Nat \union {None}
    BY DEF Init
  <2>3. sent \in [Threads -> 0 .. MaxMessages] /\ lateImages \in [ImageThreads -> Nat]
    BY QueueAssumption DEF Init
  <2>4. bytes \in Int /\ bytes <= MaxBytes /\ now \in Nat /\ loopNow \in Nat
    BY QueueAssumption DEF Init
  <2>5. cb \in [Threads -> {"idle", "lock", "put", "full", "flag"}] /\ main = "check"
    BY DEF Init
  <2> QED BY <2>1, <2>2, <2>3, <2>4, <2>5, Zenon DEF Init, TypeOK
<1>2. TypeOK /\ [Next]_vars => TypeOK'
  <2> SUFFICES ASSUME TypeOK, [Next]_vars PROVE TypeOK'
    OBVIOUS
  <2> USE QueueAssumption DEF TypeOK
  <2>1. ASSUME NEW t \in Threads, Deliver(t) PROVE TypeOK'
    <3>1. cb' \in [Threads -> {"idle", "lock", "put", "full", "flag"}]
      BY <2>1 DEF Deliver, Goto
    <3>2. sent' \in [Threads -> 0 .. MaxMessages]
      BY <2>1 DEF Deliver
    <3> QED BY <2>1, <3>1, <3>2 DEF Deliver, flags, clock
  <2>2. ASSUME NEW t \in Threads, Account(t) PROVE TypeOK'
    <3>1. Size[t] \in Nat
      OBVIOUS
    <3>2. cb' \in [Threads -> {"idle", "lock", "put", "full", "flag"}]
      BY <2>2 DEF Account, Goto
    <3>3. fatal' \in BOOLEAN
      BY <2>2 DEF Account
    <3>4. bytes' \in Int /\ bytes' <= MaxBytes
      <4>1. CASE Overflows(t)
        BY <2>2, <4>1 DEF Account
      <4>2. CASE ~Overflows(t)
        BY <2>2, <4>2, <3>1 DEF Account, Overflows
      <4> QED BY <4>1, <4>2
    <3> QED BY <2>2, <3>2, <3>3, <3>4 DEF Account, clock
  <2>3. ASSUME NEW t \in Threads, Put(t) PROVE TypeOK'
    <3>1. [thread |-> t, wall |-> now, late |-> ~Looping /\ main # "unregister"] \in Events
      BY DEF Events, Looping
    <3>2. events' \in Seq(Events)
      BY <2>3, <3>1, AppendProperties DEF Put
    <3>3. lateImages' \in [ImageThreads -> Nat]
      BY <2>3 DEF Put
    <3>4. cb' \in [Threads -> {"idle", "lock", "put", "full", "flag"}]
      BY <2>3 DEF Put, Goto
    <3> QED BY <2>3, <3>2, <3>3, <3>4 DEF Put, flags, clock
  <2>4. ASSUME NEW t \in Threads, PutFull(t) \/ Full(t) \/ Flag(t) PROVE TypeOK'
    <3>1. Size[t] \in Nat
      OBVIOUS
    <3>2. cb' \in [Threads -> {"idle", "lock", "put", "full", "flag"}]
      BY <2>4 DEF PutFull, Full, Flag, Goto
    <3>3. bytes' \in Int /\ bytes' <= MaxBytes
      BY <2>4, <3>1 DEF PutFull, Full, Flag, Refund
    <3> QED BY <2>4, <3>2, <3>3 DEF PutFull, Full, Flag, flags, clock
  <2>5. ASSUME Stop \/ Tick \/ Terminated PROVE TypeOK'
    <3>1. CASE Stop
      BY <3>1 DEF Stop, clock
    <3>2. CASE Tick
      BY <3>2 DEF Tick, flags
    <3>3. CASE Terminated
      BY <3>3 DEF Terminated, vars, flags, clock
    <3> QED BY <2>5, <3>1, <3>2, <3>3
  <2>6. ASSUME CheckRaises \/ Look \/ Decide PROVE TypeOK'
    <3>1. main' \in {"unregister", "decide", "get"} /\ failed' \in BOOLEAN
          /\ accepting' \in BOOLEAN
      BY <2>6, Zenon DEF CheckRaises, Look, Decide, Fail
    <3>2. loopNow' \in Nat
      BY <2>6 DEF CheckRaises, Look, Decide
    <3>3. tail' \in Nat \union {None}
      BY <2>6 DEF CheckRaises, Look, Decide, TailEnd
    <3> QED BY <2>6, <3>1, <3>2, <3>3 DEF CheckRaises, Look, Decide, callbacks
  <2>7. ASSUME Take PROVE TypeOK'
    <3>1. Head(events) \in Events /\ Tail(events) \in Seq(Events)
      BY <2>7, HeadTailProperties DEF Take
    <3>2. <<Head(events)>> \in Seq(Events) /\ Len(<<Head(events)>>) = 1
      <4>1. <<Head(events)>> = Append(<<>>, Head(events))
        OBVIOUS
      <4>2. <<>> \in Seq(Events)
        OBVIOUS
      <4> QED BY <3>1, <4>1, <4>2, AppendProperties
    <3> QED BY <2>7, <3>1, <3>2, Zenon DEF Take, callbacks
  <2>8. ASSUME Ingest PROVE TypeOK'
    <3>0. current \in Seq(Events) /\ Len(current) = 1
      BY <2>8 DEF Ingest
    <3>1. current[1] \in Events
      <4> HIDE DEF TypeOK
      <4> QED BY <3>0, ElementOfSeq
    <3>2. Size[current[1].thread] \in Nat /\ current[1].wall \in Nat
      BY <3>1 DEF Events
    <3>3. lastFrame' \in Nat \union {None}
      BY <2>8, <3>2 DEF Ingest, MayFrame
    <3>4. bytes' \in Int /\ bytes' <= MaxBytes
      BY <2>8, <3>2 DEF Ingest
    <3>5. current' \in Seq(Events) /\ main' # "ingest"
      BY <2>8 DEF Ingest, Continues, Fail
    <3>6. main' \in {"check", "unregister"} /\ failed' \in BOOLEAN
      BY <2>8, Zenon DEF Ingest, Continues, Fail
    <3> QED BY <2>8, <3>3, <3>4, <3>5, <3>6 DEF Ingest, callbacks
  <2>9. ASSUME Empty PROVE TypeOK'
    BY <2>9 DEF Empty, MayFrame, Continues, Fail, callbacks
  <2>10. ASSUME Unregister \/ StopRaw \/ Close PROVE TypeOK'
    BY <2>10 DEF Unregister, StopRaw, Close, callbacks
  <2>11. ASSUME DrainQueue PROVE TypeOK'
    <3>1. Head(events) \in Events /\ Tail(events) \in Seq(Events)
      BY <2>11, HeadTailProperties DEF DrainQueue
    <3>2. lastFrame' \in Nat \union {None}
      BY <2>11, <3>1 DEF DrainQueue, MayFrame, Events
    <3> QED BY <2>11, <3>1, <3>2 DEF DrainQueue, callbacks
  <2>12. ASSUME DrainEngine PROVE TypeOK'
    BY <2>12 DEF DrainEngine, MayFrame, callbacks
  <2>13. CASE UNCHANGED vars
    BY <2>13 DEF vars, flags, clock
  <2> QED
    BY <2>1, <2>2, <2>3, <2>4, <2>5, <2>6, <2>7, <2>8, <2>9, <2>10, <2>11, <2>12, <2>13
       DEF Next, Callback, Main
<1> QED BY <1>1, <1>2, PTL DEF Spec

-----------------------------------------------------------------------------
(* An image that is late was let in by a read of accepting_images before   *)
(* it fell; after it was put, its callback is idle and refuses the rest.   *)
LateInv ==
    \A t \in ImageThreads :
        /\ accepting => lateImages[t] = 0
        /\ lateImages[t] = 0 \/ (lateImages[t] = 1 /\ cb[t] = "idle")

\* After the loop accepting_images stays down, and what is put once the recorder
\* has unsubscribed is late; a clean end leaves nothing else on the queue.
DrainInv ==
    main \in {"close", "done"} /\ ~failed => \A i \in DOMAIN events : events[i].late

\* What an append to the queue adds to the messages on it.
LEMMA AppendedElement ==
  ASSUME NEW S, NEW s \in Seq(S), NEW e \in S,
         NEW i \in DOMAIN Append(s, e)
  PROVE  Append(s, e)[i] = e \/ (i \in DOMAIN s /\ Append(s, e)[i] = s[i])
BY AppendProperties

\* The callback threads let at most one image each in after the stop, whatever the
\* interleaving of the unlocked read in callback with the main thread.
THEOREM LateImagesBounded == Spec => []FewLateImages
<1>1. Init => LateInv
  BY QueueAssumption DEF Init, LateInv
<1>2. TypeOK /\ LateInv /\ [Next]_vars => LateInv'
  <2> SUFFICES ASSUME TypeOK, LateInv, [Next]_vars, NEW i \in ImageThreads
               PROVE  /\ accepting' => lateImages'[i] = 0
                      /\ lateImages'[i] = 0 \/ (lateImages'[i] = 1 /\ cb'[i] = "idle")
    BY DEF LateInv
  <2>0. /\ accepting => lateImages[i] = 0
        /\ lateImages[i] = 0 \/ (lateImages[i] = 1 /\ cb[i] = "idle")
        /\ i \in Threads
    BY QueueAssumption DEF LateInv
  <2>t. cb \in [Threads -> {"idle", "lock", "put", "full", "flag"}]
        /\ accepting \in BOOLEAN /\ lateImages \in [ImageThreads -> Nat]
    BY DEF TypeOK
  <2>1. ASSUME NEW t \in Threads, Deliver(t)
        PROVE  accepting' = accepting /\ lateImages' = lateImages
               /\ (lateImages[i] = 1 => cb'[i] = "idle")
    BY <2>1, <2>0, <2>t DEF Deliver, Goto, Refused, flags
  <2>2. ASSUME NEW t \in Threads, Account(t) \/ PutFull(t) \/ Full(t) \/ Flag(t)
        PROVE  accepting' = accepting /\ lateImages' = lateImages
               /\ (lateImages[i] = 1 => cb'[i] = "idle")
    BY <2>2, <2>0, <2>t DEF Account, PutFull, Full, Flag, Goto, flags
  <2>3. ASSUME NEW t \in Threads, Put(t)
        PROVE  /\ accepting' = accepting
               /\ accepting => lateImages'[i] = 0
               /\ lateImages'[i] = 0 \/ (lateImages'[i] = 1 /\ cb'[i] = "idle")
    <3>1. CASE t = i
      BY <2>3, <3>1, <2>0, <2>t DEF Put, Goto, flags
    <3>2. CASE t # i
      BY <2>3, <3>2, <2>0, <2>t DEF Put, Goto, flags
    <3> QED BY <3>1, <3>2
  <2>4. ASSUME Stop \/ Tick \/ Terminated \/ UNCHANGED vars
        PROVE  accepting' = accepting /\ lateImages' = lateImages /\ cb' = cb
    BY <2>4 DEF Stop, Tick, Terminated, vars, flags
  <2>5. ASSUME Main
        PROVE  (accepting' => accepting) /\ lateImages' = lateImages /\ cb' = cb
    <3>1. lateImages' = lateImages /\ cb' = cb
      BY <2>5 DEF Main, CheckRaises, Look, Decide, Take, Ingest, Empty, Unregister, StopRaw,
         DrainQueue, DrainEngine, Close, callbacks
    <3>2. accepting' => accepting
      BY <2>5, Zenon DEF Main, CheckRaises, Look, Decide, Take, Ingest, Empty, Unregister,
         StopRaw, DrainQueue, DrainEngine, Close
    <3> QED BY <3>1, <3>2
  <2> QED BY <2>0, <2>1, <2>2, <2>3, <2>4, <2>5 DEF Next, Callback
<1>3. LateInv => FewLateImages
  BY DEF LateInv, FewLateImages
<1> QED BY <1>1, <1>2, <1>3, TypeCorrect, PTL DEF Spec

\* A recording that passes left no message on the queue that was there before the
\* recorder unsubscribed: the second drain of record empties it or the recording fails.
THEOREM QueuedMessagesIngested == Spec => []QueuedIsIngested
<1>1. Init => DrainInv
  BY DEF Init, DrainInv
<1>2. TypeOK /\ DrainInv /\ [Next]_vars => DrainInv'
  <2> SUFFICES ASSUME TypeOK, DrainInv, [Next]_vars,
                      main' \in {"close", "done"}, ~failed',
                      NEW i \in DOMAIN events'
               PROVE  events'[i].late
    BY DEF DrainInv
  <2>t. events \in Seq(Events) /\ failed \in BOOLEAN /\ now \in Nat
    BY DEF TypeOK
  <2>1. ASSUME main \in {"close", "done"}, ~failed, NEW t \in Threads, Put(t)
        PROVE  events'[i].late
    <3> DEFINE e == [thread |-> t, wall |-> now, late |-> ~Looping /\ main # "unregister"]
    <3>1. e \in Events /\ e.late
      BY <2>1, <2>t DEF Looping, Events
    <3>2. events' = Append(events, e)
      BY <2>1 DEF Put
    <3> HIDE DEF e
    <3>3. events'[i] = e \/ (i \in DOMAIN events /\ events'[i] = events[i])
      BY <3>1, <3>2, <2>t, AppendedElement
    <3> QED BY <2>1, <3>1, <3>3 DEF DrainInv
  <2>2. ASSUME main \in {"close", "done"}, ~failed, events' = events
        PROVE  events'[i].late
    BY <2>2 DEF DrainInv
  <2>3. ASSUME NEW t \in Threads,
               Deliver(t) \/ Account(t) \/ Put(t) \/ PutFull(t) \/ Full(t) \/ Flag(t)
        PROVE  main' = main /\ failed' = failed /\ (events' = events \/ Put(t))
    BY <2>3 DEF Deliver, Account, Put, PutFull, Full, Flag
  <2>4. ASSUME Stop \/ Tick \/ Terminated \/ UNCHANGED vars
        PROVE  main' = main /\ failed' = failed /\ events' = events
    BY <2>4 DEF Stop, Tick, Terminated, vars
  <2>5. ASSUME CheckRaises \/ Look \/ Decide \/ Take \/ Ingest \/ Empty \/ Unregister
        PROVE  FALSE
    BY <2>5, Zenon DEF CheckRaises, Look, Decide, Take, Ingest, Empty, Unregister, Continues, Fail
  <2>6. ASSUME StopRaw \/ DrainQueue PROVE FALSE
    BY <2>6 DEF StopRaw, DrainQueue
  <2>7. ASSUME DrainEngine PROVE FALSE
    <3>1. events = <<>> \/ failed
      BY <2>7 DEF DrainEngine, QueueRead
    <3>2. events' = events /\ ~failed
      BY <2>7, <2>t DEF DrainEngine
    <3> QED BY <3>1, <3>2
  <2>8. ASSUME Close PROVE main \in {"close", "done"} /\ ~failed /\ events' = events
    BY <2>8, <2>t DEF Close
  <2> QED
    BY <2>1, <2>2, <2>3, <2>4, <2>5, <2>6, <2>7, <2>8 DEF Next, Callback, Main
<1>3. DrainInv => QueuedIsIngested
  BY DEF DrainInv, QueuedIsIngested, Passed
<1> QED BY <1>1, <1>2, <1>3, TypeCorrect, PTL DEF Spec

-----------------------------------------------------------------------------
(* Sums over finite sets.  SumFunctionOnSet is a function over the subsets *)
(* of its set, by an equation that takes out one element at a time.        *)

\* The element taken out of a set, and the equation of a sum of f over the subsets of S.
Pick(T) == CHOOSE x \in T : TRUE
Solves(g, f, S) ==
    g = [T \in SUBSET S |-> IF T = {} THEN 0 ELSE f[Pick(T)] + g[T \ {Pick(T)}]]

\* The sum is what the equation's solution says of the whole set.
LEMMA SumIsSolution ==
    ASSUME NEW f, NEW S
    PROVE  SumFunctionOnSet(f, S) = (CHOOSE g : Solves(g, f, S))[S]
BY DEF SumFunctionOnSet, FoldFunctionOnSet, MapThenFoldSet, Solves, Pick

\* Of some subsets of a finite set, one has none of the others inside it.
LEMMA SmallestSubset ==
    ASSUME NEW S, IsFiniteSet(S), NEW B, B \subseteq SUBSET S, B # {}
    PROVE  \E T \in B : \A U \in B : U \subseteq T => U = T
<1>1. B \subseteq FiniteSubsetsOf(S)
  BY FS_Subset DEF FiniteSubsetsOf
<1>2. PICK T \in B : \A U \in B : <<U, T>> \notin StrictSubsetOrdering(S)
  BY <1>1, FS_StrictSubsetOrderingWellFounded, WFMin
<1>3. ASSUME NEW U \in B, U \subseteq T, U # T PROVE FALSE
  BY <1>2, <1>3 DEF StrictSubsetOrdering
<1> QED BY <1>3

\* Two solutions agree where both are defined.
LEMMA OneSolution ==
    ASSUME NEW f, NEW S, IsFiniteSet(S), NEW R, NEW T \in SUBSET S, T \in SUBSET R,
           NEW g, Solves(g, f, S), NEW h, Solves(h, f, R)
    PROVE  g[T] = h[T]
<1> DEFINE B == {U \in SUBSET T : g[U] # h[U]}
<1> SUFFICES ASSUME B # {} PROVE FALSE
  OBVIOUS
<1>1. IsFiniteSet(T)
  BY FS_Subset
<1>2. PICK U \in B : \A V \in B : V \subseteq U => V = U
  <2> HIDE DEF B
  <2>1. B \subseteq SUBSET T
    BY DEF B
  <2> QED BY <1>1, <2>1, SmallestSubset
<1>3. U \in SUBSET S /\ U \in SUBSET R
  OBVIOUS
<1>4. g[U] = IF U = {} THEN 0 ELSE f[Pick(U)] + g[U \ {Pick(U)}]
  BY <1>3, Zenon DEF Solves
<1>5. h[U] = IF U = {} THEN 0 ELSE f[Pick(U)] + h[U \ {Pick(U)}]
  BY <1>3, Zenon DEF Solves
<1>6. U # {}
  BY <1>4, <1>5
<1>7. Pick(U) \in U
  BY <1>6, Zenon DEF Pick
<1>8. U \ {Pick(U)} \notin B
  BY <1>2, <1>7
<1>9. g[U \ {Pick(U)}] = h[U \ {Pick(U)}]
  BY <1>8
<1> QED BY <1>4, <1>5, <1>6, <1>9

\* A finite set has a solution.
LEMMA SomeSolution ==
    ASSUME NEW f, NEW S, IsFiniteSet(S)
    PROVE  \E g : Solves(g, f, S)
<1> DEFINE B == {T \in SUBSET S : ~ \E g : Solves(g, f, T)}
<1> SUFFICES ASSUME B # {} PROVE FALSE
  OBVIOUS
<1>1. PICK T \in B : \A U \in B : U \subseteq T => U = T
  <2> HIDE DEF B
  <2>1. B \subseteq SUBSET S
    BY DEF B
  <2> QED BY <2>1, SmallestSubset
<1> DEFINE s(U) == CHOOSE g : Solves(g, f, U)
           v(U) == IF U = {} THEN 0 ELSE f[Pick(U)] + s(U \ {Pick(U)})[U \ {Pick(U)}]
           g == [U \in SUBSET T |-> v(U)]
<1>2. \A U \in SUBSET T : U # T => Solves(s(U), f, U)
  <2> SUFFICES ASSUME NEW U \in SUBSET T, U # T PROVE Solves(s(U), f, U)
    OBVIOUS
  <2>1. U \notin B
    BY <1>1
  <2>2. \E h : Solves(h, f, U)
    BY <2>1
  <2> HIDE DEF B
  <2> QED BY <2>2, Zenon
<1>3. ASSUME NEW U \in SUBSET T, U # {}
      PROVE  s(U \ {Pick(U)})[U \ {Pick(U)}] = g[U \ {Pick(U)}]
  <2> DEFINE V == U \ {Pick(U)}
  <2>1. Pick(U) \in U
    BY <1>3, Zenon DEF Pick
  <2>2. V \in SUBSET T /\ V # T
    BY <2>1
  <2>3. Solves(s(V), f, V)
    BY <1>2, <2>2
  <2>4. g[V] = v(V)
    BY <2>2
  <2>5. s(V)[V] = IF V = {} THEN 0 ELSE f[Pick(V)] + s(V)[V \ {Pick(V)}]
    <3> HIDE DEF s, V
    <3> QED BY <2>3, Zenon DEF Solves
  <2>6. CASE V = {}
    <3>1. s(V)[V] = 0
      BY <2>5, <2>6, Zenon
    <3>2. v(V) = 0
      BY <2>6, Zenon
    <3> HIDE DEF s, V, v, g
    <3>3. g[V] = s(V)[V]
      BY <2>4, <3>1, <3>2
    <3> QED BY <3>3 DEF V
  <2>7. CASE V # {}
    <3> DEFINE W == V \ {Pick(V)}
    <3>1. Pick(V) \in V
      BY <2>7, Zenon DEF Pick
    <3>2. W \in SUBSET T /\ W # T /\ W \in SUBSET V
      BY <2>2, <3>1
    <3>3. Solves(s(W), f, W)
      BY <1>2, <3>2
    <3>4. IsFiniteSet(V)
      BY <2>2, FS_Subset
    <3>5. s(V)[W] = s(W)[W]
      <4> HIDE DEF s, V, W
      <4> QED BY <2>3, <3>2, <3>3, <3>4, OneSolution
    <3>6. v(V) = f[Pick(V)] + s(W)[W]
      BY <2>7, Zenon
    <3>7. s(V)[V] = f[Pick(V)] + s(V)[W]
      BY <2>5, <2>7, Zenon
    <3> HIDE DEF s, V, W, v, g
    <3>8. g[V] = s(V)[V]
      BY <2>4, <3>5, <3>6, <3>7
    <3> QED BY <3>8 DEF V
  <2> QED BY <2>6, <2>7
<1>4. Solves(g, f, T)
  <2>1. \A U \in SUBSET T : v(U) = IF U = {} THEN 0 ELSE f[Pick(U)] + g[U \ {Pick(U)}]
    <3> SUFFICES ASSUME NEW U \in SUBSET T
                 PROVE  v(U) = IF U = {} THEN 0 ELSE f[Pick(U)] + g[U \ {Pick(U)}]
      OBVIOUS
    <3>1. CASE U = {}
      BY <3>1, Zenon
    <3>2. CASE U # {}
      <4>1. v(U) = f[Pick(U)] + s(U \ {Pick(U)})[U \ {Pick(U)}]
        BY <3>2, Zenon
      <4>2. s(U \ {Pick(U)})[U \ {Pick(U)}] = g[U \ {Pick(U)}]
        BY <1>3, <3>2
      <4> HIDE DEF g, v, s
      <4> QED BY <3>2, <4>1, <4>2, Zenon
    <3> QED BY <3>1, <3>2
  <2>2. g = [U \in SUBSET T |-> v(U)]
    OBVIOUS
  <2> HIDE DEF g, v
  <2>3. [U \in SUBSET T |-> v(U)]
        = [U \in SUBSET T |-> IF U = {} THEN 0 ELSE f[Pick(U)] + g[U \ {Pick(U)}]]
    BY <2>1, Zenon
  <2> QED BY <2>2, <2>3, Zenon DEF Solves
<1>5. \E h : Solves(h, f, T)
  <2> HIDE DEF g
  <2> QED BY <1>4
<1>6. T \notin B
  BY <1>5
<1> QED BY <1>1, <1>6

\* The sum over a finite set is that over the subsets of any larger one.
LEMMA SumSolves ==
    ASSUME NEW f, NEW S, IsFiniteSet(S)
    PROVE  \E g : Solves(g, f, S) /\ \A T \in SUBSET S : g[T] = SumFunctionOnSet(f, T)
<1>1. PICK g : Solves(g, f, S)
  BY SomeSolution
<1>2. ASSUME NEW T \in SUBSET S PROVE g[T] = SumFunctionOnSet(f, T)
  <2> DEFINE h == CHOOSE h : Solves(h, f, T)
  <2>1. IsFiniteSet(T)
    BY FS_Subset
  <2>2. Solves(h, f, T)
    BY <2>1, SomeSolution, Zenon
  <2>3. SumFunctionOnSet(f, T) = h[T]
    BY SumIsSolution, Zenon
  <2> HIDE DEF h
  <2>4. g[T] = h[T]
    <3>1. T \in SUBSET T
      OBVIOUS
    <3>2. ASSUME NEW k, Solves(k, f, T) PROVE g[T] = k[T]
      BY <1>1, <3>1, <3>2, OneSolution
    <3> QED BY <2>2, <3>2
  <2> QED BY <2>3, <2>4
<1> QED BY <1>1, <1>2

\* The equation of a sum: an element, and the sum of the others.
LEMMA SumOfPicked ==
    ASSUME NEW f, NEW S, IsFiniteSet(S)
    PROVE  /\ SumFunctionOnSet(f, {}) = 0
           /\ S # {} => SumFunctionOnSet(f, S)
                        = f[Pick(S)] + SumFunctionOnSet(f, S \ {Pick(S)})
<1>1. PICK g : Solves(g, f, S) /\ \A T \in SUBSET S : g[T] = SumFunctionOnSet(f, T)
  BY SumSolves
<1>2. \A T \in SUBSET S : g[T] = IF T = {} THEN 0 ELSE f[Pick(T)] + g[T \ {Pick(T)}]
  BY <1>1, Zenon DEF Solves
<1>3. {} \in SUBSET S /\ S \in SUBSET S /\ S \ {Pick(S)} \in SUBSET S
  OBVIOUS
<1>4. g[{}] = 0
  BY <1>2, <1>3, Zenon
<1>5. S # {} => g[S] = f[Pick(S)] + g[S \ {Pick(S)}]
  BY <1>2, <1>3, Zenon
<1> QED BY <1>1, <1>3, <1>4, <1>5

\* Sums of integers are integers, whatever element is taken out first.
LEMMA SumOut ==
    ASSUME NEW f, NEW S, IsFiniteSet(S), \A x \in S : f[x] \in Int
    PROVE  /\ SumFunctionOnSet(f, S) \in Int
           /\ \A x \in S : SumFunctionOnSet(f, S) = f[x] + SumFunctionOnSet(f, S \ {x})
<1> DEFINE Sum(T) == SumFunctionOnSet(f, T)
           Good(T) == Sum(T) \in Int /\ \A x \in T : Sum(T) = f[x] + Sum(T \ {x})
           B == {T \in SUBSET S : ~ Good(T)}
<1>0. \A T \in SUBSET S : Sum({}) = 0 /\ (T # {} => Sum(T) = f[Pick(T)] + Sum(T \ {Pick(T)}))
  BY FS_Subset, SumOfPicked
<1> HIDE DEF Sum
<1>1. ASSUME B # {} PROVE FALSE
  <2>1. PICK T \in B : \A U \in B : U \subseteq T => U = T
    <3> HIDE DEF B
    <3>1. B \subseteq SUBSET S
      BY DEF B
    <3> QED BY <1>1, <3>1, SmallestSubset
  <2>2. \A U \in SUBSET T : U # T => Good(U)
    BY <2>1
  <2> DEFINE c == Pick(T)
  <2>3. CASE T = {}
    <3>1. Sum(T) = 0
      BY <1>0, <2>3
    <3>2. Good(T)
      BY <2>3, <3>1
    <3> QED BY <2>1, <3>2
  <2>4. CASE T # {}
    <3>1. c \in T
      BY <2>4, Zenon DEF Pick
    <3> HIDE DEF c
    <3>2. Sum(T) = f[c] + Sum(T \ {c})
      BY <1>0, <2>4 DEF c
    <3>3. Good(T \ {c})
      BY <2>2, <3>1
    <3>4. ASSUME NEW x \in T PROVE Sum(T) = f[x] + Sum(T \ {x})
      <4>1. CASE x = c
        BY <3>2, <4>1
      <4>2. CASE x # c
        <5>1. Good(T \ {x})
          BY <2>2
        <5>2. Sum(T \ {c}) = f[x] + Sum((T \ {c}) \ {x})
          BY <3>3, <4>2
        <5>3. Sum(T \ {x}) = f[c] + Sum((T \ {x}) \ {c})
          BY <3>1, <5>1, <4>2
        <5>4. (T \ {c}) \ {x} = (T \ {x}) \ {c}
          OBVIOUS
        <5>5. Sum((T \ {x}) \ {c}) \in Int
          BY <2>2
        <5>6. f[x] \in Int /\ f[c] \in Int
          BY <2>1, <3>1
        <5>7. Sum(T \ {c}) = f[x] + Sum((T \ {x}) \ {c})
          BY <5>2, <5>4
        <5> QED BY <3>2, <5>3, <5>5, <5>6, <5>7
      <4> QED BY <4>1, <4>2
    <3>5. f[c] \in Int /\ Sum(T \ {c}) \in Int
      BY <2>1, <3>1, <3>3
    <3>6. Good(T)
      BY <3>2, <3>4, <3>5
    <3> QED BY <2>1, <3>6
  <2> QED BY <2>3, <2>4
<1>2. S \notin B
  BY <1>1
<1> QED BY <1>2 DEF Sum

LEMMA SumWithout ==
    ASSUME NEW f, NEW S, IsFiniteSet(S), \A x \in S : f[x] \in Int,
           NEW x \in S, NEW T, S \ {x} = T
    PROVE  SumFunctionOnSet(f, S) = f[x] + SumFunctionOnSet(f, T)
BY SumOut

\* Sums of the same numbers are the same.
LEMMA SameSum ==
    ASSUME NEW f, NEW g, NEW S, IsFiniteSet(S), \A x \in S : f[x] = g[x]
    PROVE  SumFunctionOnSet(f, S) = SumFunctionOnSet(g, S)
<1>1. PICK u : Solves(u, f, S) /\ \A T \in SUBSET S : u[T] = SumFunctionOnSet(f, T)
  BY SumSolves
<1>2. PICK v : Solves(v, g, S) /\ \A T \in SUBSET S : v[T] = SumFunctionOnSet(g, T)
  BY SumSolves
<1> DEFINE B == {U \in SUBSET S : u[U] # v[U]}
<1>3. ASSUME B # {} PROVE FALSE
  <2>1. PICK U \in B : \A V \in B : V \subseteq U => V = U
    <3> HIDE DEF B
    <3>1. B \subseteq SUBSET S
      BY DEF B
    <3> QED BY <1>3, <3>1, SmallestSubset
  <2>2. u[U] = IF U = {} THEN 0 ELSE f[Pick(U)] + u[U \ {Pick(U)}]
    BY <1>1, Zenon DEF Solves
  <2>3. v[U] = IF U = {} THEN 0 ELSE g[Pick(U)] + v[U \ {Pick(U)}]
    BY <1>2, Zenon DEF Solves
  <2>4. U # {}
    BY <2>2, <2>3
  <2>5. Pick(U) \in U
    BY <2>4, Zenon DEF Pick
  <2>6. u[U \ {Pick(U)}] = v[U \ {Pick(U)}] /\ f[Pick(U)] = g[Pick(U)]
    BY <2>1, <2>5
  <2> QED BY <2>2, <2>3, <2>4, <2>6
<1>4. u[S] = v[S]
  BY <1>3
<1> QED BY <1>1, <1>2, <1>4

\* A sum over positions 2 .. n is the sum over 1 .. n - 1 of the shifted function.
LEMMA ShiftedSum ==
    ASSUME NEW n \in Nat, NEW f, NEW g,
           \A i \in 1 .. n : f[i + 1] \in Int /\ g[i] = f[i + 1]
    PROVE  SumFunctionOnSet(f, 2 .. n + 1) = SumFunctionOnSet(g, 1 .. n)
<1> DEFINE F(k) == SumFunctionOnSet(f, 2 .. k + 1)
           G(k) == SumFunctionOnSet(g, 1 .. k)
<1>1. F(0) = 0 /\ G(0) = 0
  <2>1. 2 .. 0 + 1 = {} /\ 1 .. 0 = {}
    OBVIOUS
  <2> QED BY <2>1, FS_EmptySet, SumOfPicked
<1>2. ASSUME NEW k \in 1 .. n, F(k - 1) = G(k - 1) PROVE F(k) = G(k)
  <2>1. IsFiniteSet(2 .. k + 1) /\ IsFiniteSet(1 .. k)
    BY FS_Interval
  <2>2. \A i \in 2 .. k + 1 : f[i] \in Int
    <3> SUFFICES ASSUME NEW i \in 2 .. k + 1 PROVE f[i] \in Int
      OBVIOUS
    <3>1. i - 1 \in 1 .. n /\ (i - 1) + 1 = i
      OBVIOUS
    <3> QED BY <3>1
  <2>3. \A i \in 1 .. k : g[i] \in Int
    OBVIOUS
  <2>4. k + 1 \in 2 .. k + 1 /\ (2 .. k + 1) \ {k + 1} = 2 .. (k - 1) + 1
    OBVIOUS
  <2>5. k \in 1 .. k /\ (1 .. k) \ {k} = 1 .. k - 1
    OBVIOUS
  <2>6. F(k) = f[k + 1] + F(k - 1)
    <3> DEFINE U == 2 .. k + 1
               W == 2 .. (k - 1) + 1
               last == k + 1
    <3>1. IsFiniteSet(U) /\ (\A i \in U : f[i] \in Int) /\ last \in U /\ U \ {last} = W
      BY <2>1, <2>2, <2>4
    <3> HIDE DEF U, W, last
    <3>2. SumFunctionOnSet(f, U) = f[last] + SumFunctionOnSet(f, W)
      BY ONLY <3>1, SumWithout
    <3> QED BY <3>2 DEF U, W, last
  <2>7. G(k) = g[k] + G(k - 1)
    <3> DEFINE U == 1 .. k
               W == 1 .. k - 1
               last == k
    <3>1. IsFiniteSet(U) /\ (\A i \in U : g[i] \in Int) /\ last \in U /\ U \ {last} = W
      BY <2>1, <2>3, <2>5
    <3> HIDE DEF U, W, last
    <3>2. SumFunctionOnSet(g, U) = g[last] + SumFunctionOnSet(g, W)
      BY ONLY <3>1, SumWithout
    <3> QED BY <3>2 DEF U, W, last
  <2> HIDE DEF F, G
  <2> QED BY <1>2, <2>6, <2>7
<1> HIDE DEF F, G
<1> DEFINE B == {1 .. k : k \in {j \in 0 .. n : F(j) # G(j)}}
<1>3. ASSUME B # {} PROVE FALSE
  <2>1. PICK T \in B : \A U \in B : U \subseteq T => U = T
    <3>1. B \subseteq SUBSET (1 .. n)
      OBVIOUS
    <3>2. IsFiniteSet(1 .. n)
      BY FS_Interval
    <3> DEFINE R == 1 .. n
    <3> HIDE DEF B, R
    <3>3. IsFiniteSet(R) /\ B \subseteq SUBSET R
      BY <3>1, <3>2 DEF R
    <3> QED BY <1>3, <3>3, SmallestSubset
  <2>2. PICK k \in 0 .. n : T = 1 .. k /\ F(k) # G(k)
    OBVIOUS
  <2>3. k \in 1 .. n
    BY <1>1, <2>2
  <2>4. 1 .. k - 1 \in B
    BY <1>2, <2>2, <2>3
  <2>5. 1 .. k - 1 \subseteq T /\ 1 .. k - 1 # T
    BY <2>2, <2>3
  <2> QED BY <2>1, <2>4, <2>5
<1>4. F(n) = G(n)
  BY <1>3
<1> QED BY <1>4 DEF F, G

\* The bytes of no message, of one, of one more and of one less.
LEMMA BytesOfMessages ==
    ASSUME NEW m \in Seq(Events)
    PROVE  /\ Bytes(m) \in Int
           /\ Bytes(<<>>) = 0
           /\ \A e \in Events : Bytes(Append(m, e)) = Bytes(m) + Size[e.thread]
           /\ m # <<>> => Bytes(m) = Size[Head(m).thread] + Bytes(Tail(m))
<1> DEFINE f(s) == [i \in DOMAIN s |-> Size[s[i].thread]]
<1>1. \A s : Bytes(s) = SumFunctionOnSet(f(s), DOMAIN s)
  BY DEF Bytes, SumFunction
<1>2. ASSUME NEW s \in Seq(Events)
      PROVE  /\ DOMAIN s = 1 .. Len(s) /\ Len(s) \in Nat /\ IsFiniteSet(DOMAIN s)
             /\ \A i \in DOMAIN s : f(s)[i] \in Int /\ f(s)[i] = Size[s[i].thread]
  <2>1. DOMAIN s = 1 .. Len(s) /\ Len(s) \in Nat
    OBVIOUS
  <2>2. IsFiniteSet(1 .. Len(s))
    BY <2>1, FS_Interval
  <2>3. ASSUME NEW i \in DOMAIN s PROVE f(s)[i] \in Int /\ f(s)[i] = Size[s[i].thread]
    <3>1. s[i] \in Events
      BY <2>1, ElementOfSeq
    <3>2. Size[s[i].thread] \in Nat
      BY <3>1, QueueAssumption DEF Events
    <3> QED BY <3>2
  <2> QED BY <2>1, <2>2, <2>3
<1>3. Bytes(m) \in Int
  <2> HIDE DEF f
  <2> QED BY <1>1, <1>2, SumOut
<1>4. Bytes(<<>>) = 0
  <2>1. DOMAIN <<>> = {}
    OBVIOUS
  <2>2. SumFunctionOnSet(f(<<>>), {}) = 0
    BY FS_EmptySet, SumOfPicked
  <2> HIDE DEF f
  <2> QED BY <1>1, <2>1, <2>2
<1>5. ASSUME NEW e \in Events PROVE Bytes(Append(m, e)) = Bytes(m) + Size[e.thread]
  <2> DEFINE a == Append(m, e)
             n == Len(m)
  <2>1. /\ a \in Seq(Events) /\ Len(a) = n + 1 /\ a[n + 1] = e
        /\ \A i \in 1 .. n : a[i] = m[i]
    BY AppendProperties
  <2> HIDE DEF a
  <2>2. /\ n \in Nat /\ DOMAIN m = 1 .. n /\ DOMAIN a = 1 .. n + 1
    BY <1>2, <2>1
  <2>3. n + 1 \in 1 .. n + 1 /\ (1 .. n + 1) \ {n + 1} = 1 .. n
    BY <2>2
  <2>4. f(a)[n + 1] = Size[e.thread]
    BY <1>2, <2>1, <2>2, <2>3
  <2>5. \A i \in 1 .. n : f(a)[i] = f(m)[i]
    <3> SUFFICES ASSUME NEW i \in 1 .. n PROVE f(a)[i] = f(m)[i]
      OBVIOUS
    <3>1. f(a)[i] = Size[a[i].thread]
      BY <2>2
    <3>2. f(m)[i] = Size[m[i].thread]
      BY <2>2
    <3> QED BY <2>1, <3>1, <3>2
  <2>6. \A i \in 1 .. n + 1 : f(a)[i] \in Int
    BY <1>2, <2>1, <2>2
  <2>7. IsFiniteSet(1 .. n) /\ IsFiniteSet(1 .. n + 1)
    BY <2>2, FS_Interval
  <2> HIDE DEF f, n
  <2>8. SumFunctionOnSet(f(a), 1 .. n + 1) = f(a)[n + 1] + SumFunctionOnSet(f(a), 1 .. n)
    <3> DEFINE U == 1 .. n + 1
               W == 1 .. n
               h == f(a)
               last == n + 1
    <3>1. IsFiniteSet(U) /\ (\A i \in U : h[i] \in Int) /\ last \in U /\ U \ {last} = W
      BY <2>3, <2>6, <2>7
    <3> HIDE DEF U, W, h, last
    <3>2. SumFunctionOnSet(h, U) = h[last] + SumFunctionOnSet(h, W)
      BY ONLY <3>1, SumWithout
    <3> QED BY <3>2 DEF U, W, h, last
  <2>9. SumFunctionOnSet(f(a), 1 .. n) = SumFunctionOnSet(f(m), 1 .. n)
    BY <2>5, <2>7, SameSum
  <2>10. Size[e.thread] \in Int /\ Bytes(m) \in Int
    BY <1>3, QueueAssumption DEF Events
  <2>11. Bytes(a) = SumFunctionOnSet(f(a), 1 .. n + 1)
         /\ Bytes(m) = SumFunctionOnSet(f(m), 1 .. n)
    BY <1>1, <2>2
  <2>12. Bytes(a) = Bytes(m) + Size[e.thread]
    BY <2>4, <2>8, <2>9, <2>10, <2>11
  <2> QED BY <2>12 DEF a
<1>6. ASSUME m # <<>> PROVE Bytes(m) = Size[Head(m).thread] + Bytes(Tail(m))
  <2> DEFINE t == Tail(m)
             n == Len(m) - 1
  <2>1. /\ t \in Seq(Events) /\ Len(t) = n /\ n \in Nat /\ Head(m) = m[1]
        /\ \A i \in 1 .. n : t[i] = m[i + 1]
    BY <1>6
  <2> HIDE DEF t
  <2>2. DOMAIN m = 1 .. n + 1 /\ DOMAIN t = 1 .. n
    BY <1>2, <2>1
  <2>3. 1 \in 1 .. n + 1 /\ (1 .. n + 1) \ {1} = 2 .. n + 1
    BY <2>1
  <2>4. f(m)[1] = Size[Head(m).thread]
    BY <2>1, <2>2, <2>3
  <2>5. \A i \in 1 .. n : f(m)[i + 1] \in Int /\ f(t)[i] = f(m)[i + 1]
    <3> SUFFICES ASSUME NEW i \in 1 .. n PROVE f(m)[i + 1] \in Int /\ f(t)[i] = f(m)[i + 1]
      OBVIOUS
    <3>0. i + 1 \in 1 .. n + 1
      BY <2>1
    <3>1. f(t)[i] = Size[t[i].thread]
      BY <2>2
    <3>2. f(m)[i + 1] = Size[m[i + 1].thread] /\ f(m)[i + 1] \in Int
      BY <1>2, <2>2, <3>0
    <3> QED BY <2>1, <3>1, <3>2
  <2>6. \A i \in 1 .. n + 1 : f(m)[i] \in Int
    BY <1>2, <2>2
  <2>7. IsFiniteSet(1 .. n + 1)
    BY <2>1, FS_Interval
  <2> HIDE DEF f
  <2> HIDE DEF n
  <2>8. SumFunctionOnSet(f(m), 1 .. n + 1) = f(m)[1] + SumFunctionOnSet(f(m), 2 .. n + 1)
    <3> DEFINE U == 1 .. n + 1
               W == 2 .. n + 1
               h == f(m)
    <3>1. IsFiniteSet(U) /\ (\A i \in U : h[i] \in Int) /\ 1 \in U /\ U \ {1} = W
      BY <2>3, <2>6, <2>7
    <3> HIDE DEF U, W, h
    <3>2. SumFunctionOnSet(h, U) = h[1] + SumFunctionOnSet(h, W)
      BY ONLY <3>1, SumWithout
    <3> QED BY <3>2 DEF U, W, h
  <2>9. SumFunctionOnSet(f(m), 2 .. n + 1) = SumFunctionOnSet(f(t), 1 .. n)
    BY <2>1, <2>5, ShiftedSum
  <2>10. Bytes(m) = SumFunctionOnSet(f(m), 1 .. n + 1)
         /\ Bytes(t) = SumFunctionOnSet(f(t), 1 .. n)
    BY <1>1, <2>2
  <2>11. Bytes(m) = Size[Head(m).thread] + Bytes(t)
    BY <2>4, <2>8, <2>9, <2>10
  <2> QED BY <2>11 DEF t
<1> QED BY <1>3, <1>4, <1>5, <1>6

-----------------------------------------------------------------------------
(* The byte count.  A message moves from its callback to the queue, from   *)
(* there to the main thread and out, and bytes follow it; the callbacks    *)
(* between the two locked regions are finitely many, because each step     *)
(* starts at most one.                                                     *)
BalanceInv ==
    /\ IsFiniteSet(Moving)
    /\ main \in {"check", "decide", "get"} => current = <<>>
    /\ BytesBalance

\* A callback that begins or ends to hold a message that is on no queue.
LEMMA MovingChanges ==
    ASSUME NEW M, IsFiniteSet(M), M \subseteq Threads, NEW t \in Threads
    PROVE  /\ IsFiniteSet(M \union {t}) /\ IsFiniteSet(M \ {t})
           /\ SumFunctionOnSet(Size, M) \in Int
           /\ t \notin M => SumFunctionOnSet(Size, M \union {t})
                            = SumFunctionOnSet(Size, M) + Size[t]
           /\ t \in M => SumFunctionOnSet(Size, M \ {t})
                         = SumFunctionOnSet(Size, M) - Size[t]
<1>1. IsFiniteSet(M \union {t}) /\ IsFiniteSet(M \ {t})
  BY FS_AddElement, FS_RemoveElement
<1>2. \A x \in Threads : Size[x] \in Int
  BY QueueAssumption
<1>3. SumFunctionOnSet(Size, M) \in Int /\ SumFunctionOnSet(Size, M \ {t}) \in Int
  BY <1>1, <1>2, SumOut
<1>4. ASSUME t \notin M
      PROVE  SumFunctionOnSet(Size, M \union {t}) = SumFunctionOnSet(Size, M) + Size[t]
  <2> DEFINE N == M \union {t}
  <2>1. IsFiniteSet(N) /\ t \in N /\ N \ {t} = M /\ \A x \in N : Size[x] \in Int
    BY <1>1, <1>2, <1>4
  <2> HIDE DEF N
  <2>2. SumFunctionOnSet(Size, N) = Size[t] + SumFunctionOnSet(Size, N \ {t})
    BY <2>1, SumOut
  <2>3. SumFunctionOnSet(Size, N) = SumFunctionOnSet(Size, M) + Size[t]
    <3>1. Size[t] \in Int /\ SumFunctionOnSet(Size, N \ {t}) = SumFunctionOnSet(Size, M)
      BY <1>2, <2>1
    <3> QED BY <1>3, <2>2, <3>1
  <2> QED BY <2>3 DEF N
<1>5. ASSUME t \in M
      PROVE  SumFunctionOnSet(Size, M \ {t}) = SumFunctionOnSet(Size, M) - Size[t]
  <2>1. SumFunctionOnSet(Size, M) = Size[t] + SumFunctionOnSet(Size, M \ {t})
    BY <1>2, <1>5, SumOut
  <2> QED BY <1>2, <1>3, <2>1
<1> QED BY <1>1, <1>3, <1>4, <1>5

\* Until the loop ends, state['bytes'] is what is queued, put or taken: no path through
\* callback and the loop forgets bytes or gives them back twice.
THEOREM BytesBalanced == Spec => []BytesBalance
<1>1. Init => BalanceInv
  <2> SUFFICES ASSUME Init PROVE BalanceInv
    OBVIOUS
  <2>1. Moving = {} /\ current = <<>> /\ events = <<>> /\ bytes = 0
    BY DEF Init, Moving
  <2>2. IsFiniteSet(Moving) /\ SumFunctionOnSet(Size, Moving) = 0
    BY <2>1, FS_EmptySet, SumOfPicked
  <2>3. Bytes(<<>>) = 0
    <3>1. <<>> \in Seq(Events)
      OBVIOUS
    <3> QED BY <3>1, BytesOfMessages
  <2> QED BY <2>1, <2>2, <2>3 DEF BalanceInv, BytesBalance
<1>2. TypeOK /\ BalanceInv /\ [Next]_vars => BalanceInv'
  <2> SUFFICES ASSUME TypeOK, BalanceInv, [Next]_vars PROVE BalanceInv'
    OBVIOUS
  <2> DEFINE Sum(M) == SumFunctionOnSet(Size, M)
  <2>t. /\ cb \in [Threads -> {"idle", "lock", "put", "full", "flag"}]
        /\ events \in Seq(Events) /\ current \in Seq(Events) /\ bytes \in Int /\ now \in Nat
        /\ main = "ingest" => Len(current) = 1
        /\ \A t \in Threads : Size[t] \in Int
    BY QueueAssumption DEF TypeOK
  <2>m. /\ Moving \subseteq Threads /\ IsFiniteSet(Moving)
        /\ Bytes(events) \in Int /\ Bytes(current) \in Int /\ Bytes(<<>>) = 0
        /\ Sum(Moving) \in Int
        /\ \A t \in Threads : t \in Moving <=> cb[t] \in {"put", "full"}
    <3>1. Moving \subseteq Threads /\ IsFiniteSet(Moving)
      BY DEF BalanceInv, Moving
    <3>2. Bytes(events) \in Int /\ Bytes(current) \in Int /\ Bytes(<<>>) = 0
      BY <2>t, BytesOfMessages
    <3>3. Sum(Moving) \in Int
      BY <2>t, <3>1, SumOut
    <3> QED BY <3>1, <3>2, <3>3 DEF Moving
  <2>b. Looping => bytes = Bytes(events) + Bytes(current) + Sum(Moving)
    BY DEF BalanceInv, BytesBalance
  <2>c. main \in {"check", "decide", "get"} => current = <<>>
    BY DEF BalanceInv
  <2>g. ASSUME IsFiniteSet(Moving'), main' \in {"check", "decide", "get"} => current' = <<>>,
               Looping' => bytes' = Bytes(events') + Bytes(current') + Sum(Moving')
        PROVE  BalanceInv'
    BY <2>g DEF BalanceInv, BytesBalance
  <2> HIDE DEF Sum
  <2>1. ASSUME NEW t \in Threads, Deliver(t) \/ PutFull(t) \/ Flag(t)
        PROVE  BalanceInv'
    <3>1. /\ events' = events /\ current' = current /\ bytes' = bytes /\ main' = main
          /\ \E l \in {"idle", "lock", "full"} :
                 cb' = [cb EXCEPT ![t] = l] /\ (l = "full" <=> cb[t] = "put")
          /\ cb[t] \in {"idle", "put", "flag"}
      BY <2>1 DEF Deliver, PutFull, Flag, Goto
    <3>2. Moving' = Moving
      BY <2>t, <3>1 DEF Moving
    <3> QED BY <2>b, <2>c, <2>g, <2>m, <3>1, <3>2 DEF Looping
  <2>2. ASSUME NEW t \in Threads, Account(t) PROVE BalanceInv'
    <3>1. events' = events /\ current' = current /\ main' = main /\ cb[t] = "lock"
      BY <2>2 DEF Account
    <3>2. CASE Overflows(t)
      <4>1. bytes' = bytes /\ cb' = [cb EXCEPT ![t] = "idle"]
        BY <2>2, <3>2 DEF Account, Goto
      <4>2. Moving' = Moving
        BY <2>t, <3>1, <4>1 DEF Moving
      <4> QED BY <2>b, <2>c, <2>g, <2>m, <3>1, <4>1, <4>2 DEF Looping
    <3>3. CASE ~Overflows(t)
      <4>1. bytes' = bytes + Size[t] /\ cb' = [cb EXCEPT ![t] = "put"]
        BY <2>2, <3>3 DEF Account, Goto
      <4>2. Moving' = Moving \union {t} /\ t \notin Moving
        BY <2>t, <3>1, <4>1 DEF Moving
      <4>3. IsFiniteSet(Moving') /\ Sum(Moving') = Sum(Moving) + Size[t]
        BY <2>m, <4>2, MovingChanges DEF Sum
      <4> QED BY <2>b, <2>c, <2>g, <2>m, <2>t, <3>1, <4>1, <4>3 DEF Looping
    <3> QED BY <3>2, <3>3
  <2>3. ASSUME NEW t \in Threads, Put(t) PROVE BalanceInv'
    <3> DEFINE e == [thread |-> t, wall |-> now, late |-> ~Looping /\ main # "unregister"]
    <3>1. /\ events' = Append(events, e) /\ current' = current /\ main' = main
          /\ bytes' = bytes /\ cb[t] = "put" /\ cb' = [cb EXCEPT ![t] = "idle"]
      BY <2>3 DEF Put, Goto
    <3>2. e \in Events /\ e.thread = t
      BY <2>t DEF Events, Looping
    <3>3. Moving' = Moving \ {t} /\ t \in Moving
      BY <2>t, <3>1 DEF Moving
    <3>4. IsFiniteSet(Moving') /\ Sum(Moving') = Sum(Moving) - Size[t]
      BY <2>m, <3>3, MovingChanges DEF Sum
    <3> HIDE DEF e
    <3>5. Bytes(events') = Bytes(events) + Size[t]
      BY <2>t, <3>1, <3>2, BytesOfMessages
    <3> QED BY <2>b, <2>c, <2>g, <2>m, <2>t, <3>1, <3>4, <3>5 DEF Looping
  <2>4. ASSUME NEW t \in Threads, Full(t) PROVE BalanceInv'
    <3>1. /\ events' = events /\ current' = current /\ main' = main
          /\ bytes' = bytes - Size[t] /\ cb[t] = "full" /\ cb' = [cb EXCEPT ![t] = "flag"]
      BY <2>4 DEF Full, Refund, Goto, flags
    <3>2. Moving' = Moving \ {t} /\ t \in Moving
      BY <2>t, <3>1 DEF Moving
    <3>3. IsFiniteSet(Moving') /\ Sum(Moving') = Sum(Moving) - Size[t]
      BY <2>m, <3>2, MovingChanges DEF Sum
    <3> QED BY <2>b, <2>c, <2>g, <2>m, <2>t, <3>1, <3>3 DEF Looping
  <2>5. ASSUME Stop \/ Tick \/ Terminated \/ UNCHANGED vars PROVE BalanceInv'
    <3>1. /\ events' = events /\ current' = current /\ main' = main /\ bytes' = bytes
          /\ cb' = cb
      BY <2>5 DEF Stop, Tick, Terminated, vars, flags, clock
    <3>2. Moving' = Moving
      BY <3>1 DEF Moving
    <3> QED BY <2>b, <2>c, <2>g, <2>m, <3>1, <3>2 DEF Looping
  <2>6. ASSUME Main PROVE cb' = cb /\ Moving' = Moving
    <3>1. cb' = cb
      BY <2>6 DEF Main, CheckRaises, Look, Decide, Take, Ingest, Empty, Unregister, StopRaw,
         DrainQueue, DrainEngine, Close, callbacks
    <3> QED BY <3>1 DEF Moving
  <2>7. ASSUME Main, CheckRaises \/ Look \/ Decide \/ Empty PROVE BalanceInv'
    <3>1. /\ events' = events /\ current' = current /\ bytes' = bytes /\ Looping
          /\ main \in {"check", "decide", "get"}
      BY <2>7, Zenon DEF CheckRaises, Look, Decide, Empty, Looping
    <3> QED BY <2>6, <2>7, <2>b, <2>c, <2>g, <2>m, <3>1
  <2>8. ASSUME Main, Take PROVE BalanceInv'
    <3>1. /\ events # <<>> /\ current' = <<Head(events)>> /\ events' = Tail(events)
          /\ bytes' = bytes /\ main = "get" /\ main' = "ingest"
      BY <2>8 DEF Take
    <3>2. Head(events) \in Events
      BY <2>t, <3>1, HeadTailProperties
    <3>3. Bytes(events) = Size[Head(events).thread] + Bytes(events')
      BY <2>t, <3>1, BytesOfMessages
    <3>4. Bytes(current') = Size[Head(events).thread]
      <4>1. <<Head(events)>> = Append(<<>>, Head(events)) /\ <<>> \in Seq(Events)
        OBVIOUS
      <4>2. Bytes(Append(<<>>, Head(events))) = Bytes(<<>>) + Size[Head(events).thread]
        BY <3>2, <4>1, BytesOfMessages
      <4>3. Size[Head(events).thread] \in Int
        BY <2>t, <3>2 DEF Events
      <4> QED BY <2>m, <3>1, <4>1, <4>2, <4>3
    <3>5. Bytes(events') \in Int /\ Size[Head(events).thread] \in Int
      <4>1. events' \in Seq(Events)
        BY <2>t, <3>1, HeadTailProperties
      <4>2. Size[Head(events).thread] \in Int
        BY <2>t, <3>2 DEF Events
      <4> QED BY <4>1, <4>2, BytesOfMessages
    <3>6. Bytes(current) = 0
      BY <2>c, <2>m, <3>1
    <3> QED BY <2>6, <2>8, <2>b, <2>g, <2>m, <3>1, <3>3, <3>4, <3>5, <3>6 DEF Looping
  <2>9. ASSUME Main, Ingest PROVE BalanceInv'
    <3>1. /\ events' = events /\ current' = <<>> /\ main = "ingest"
          /\ bytes' = bytes - Size[current[1].thread]
      BY <2>9 DEF Ingest
    <3>2. Len(current) = 1 /\ current # <<>> /\ Tail(current) = <<>> /\ Head(current) = current[1]
      <4>0. Len(current) = 1
        BY <2>t, <3>1
      <4>1. Len(current) = 1 /\ current # <<>>
        BY <4>0
      <4>2. Tail(current) \in Seq(Events) /\ Len(Tail(current)) = 0
        BY <2>t, <4>1
      <4>3. Tail(current) = <<>>
        BY <4>2, EmptySeq
      <4> QED BY <2>t, <4>1, <4>3
    <3>3. current[1] \in Events
      BY <2>t, <3>2, ElementOfSeq
    <3>4. Size[current[1].thread] \in Int
      BY <2>t, <3>3 DEF Events
    <3>5. Bytes(current) = Size[current[1].thread]
      <4>1. Bytes(current) = Size[Head(current).thread] + Bytes(Tail(current))
        BY <2>t, <3>2, BytesOfMessages
      <4>2. Bytes(Tail(current)) = 0
        BY <2>m, <3>2
      <4>3. Size[Head(current).thread] = Size[current[1].thread]
        BY <3>2
      <4> QED BY <3>4, <4>1, <4>2, <4>3
    <3> QED BY <2>6, <2>9, <2>b, <2>g, <2>m, <2>t, <3>1, <3>4, <3>5 DEF Looping
  <2>10. ASSUME Main, Unregister \/ StopRaw \/ DrainQueue \/ DrainEngine \/ Close
         PROVE  BalanceInv'
    <3>1. main' \notin {"check", "decide", "get", "ingest"}
      BY <2>10 DEF Unregister, StopRaw, DrainQueue, DrainEngine, Close
    <3> QED BY <2>6, <2>10, <2>g, <2>m, <3>1 DEF Looping
  <2> QED
    BY <2>1, <2>2, <2>3, <2>4, <2>5, <2>7, <2>8, <2>9, <2>10 DEF Next, Callback, Main
<1>3. BalanceInv => BytesBalance
  BY DEF BalanceInv
<1> QED BY <1>1, <1>2, <1>3, TypeCorrect, PTL DEF Spec

-----------------------------------------------------------------------------
(* The verdict.  fatal stays set, a pass that does not end the loop comes   *)
(* back to the look at fatal, which only an exception passes, and an error  *)
(* is never taken back.                                                     *)
Doomed == fatal /\ ((Looping /\ ~LastPass) \/ failed)

LEMMA DoomedStep ==
  ASSUME TypeOK, [Next]_vars, Doomed
  PROVE  Doomed'
<1>0. /\ fatal \in BOOLEAN /\ failed \in BOOLEAN /\ None = -1
      /\ Wait \in Nat /\ Wait > 0 /\ loopNow \in Nat
  BY QueueAssumption DEF TypeOK, None
<1>1. ASSUME NEW t \in Threads,
             Deliver(t) \/ Account(t) \/ Put(t) \/ PutFull(t) \/ Full(t) \/ Flag(t)
      PROVE  Doomed'
  <2>1. main' = main /\ failed' = failed /\ tail' = tail /\ loopNow' = loopNow
    BY <1>1 DEF Deliver, Account, Put, PutFull, Full, Flag, clock
  <2>2. fatal'
    BY <1>1 DEF Doomed, Deliver, Account, Put, PutFull, Full, Flag, flags
  <2> QED BY <2>1, <2>2 DEF Doomed, Looping, LastPass
<1>2. CASE Stop \/ Tick \/ Terminated \/ UNCHANGED vars
  <2>1. main' = main /\ failed' = failed /\ fatal' = fatal /\ tail' = tail /\ loopNow' = loopNow
    BY <1>2 DEF Stop, Tick, Terminated, vars, flags, clock
  <2> QED BY <2>1 DEF Doomed, Looping, LastPass
<1>3. CASE Main
  <2>1. fatal'
    BY <1>3 DEF Doomed, Main, CheckRaises, Look, Decide, Take, Ingest, Empty, Unregister, StopRaw,
       DrainQueue, DrainEngine, Close, callbacks
  <2>2. ~Look
    BY DEF Doomed, Look, MayPass
  <2>3. CASE CheckRaises \/ Ingest \/ Empty
    <3>1. main' = "check" \/ failed'
      BY <2>3 DEF CheckRaises, Ingest, Empty, Continues, Fail
    <3> QED BY <2>1, <3>1 DEF Doomed, Looping, LastPass
  <2>4. CASE Take
    BY <2>1, <2>4 DEF Doomed, Looping, LastPass, Take
  <2>5. CASE Decide
    <3>1. CASE failed
      BY <2>1, <2>5, <3>1 DEF Decide, Doomed
    <3>2. CASE ~failed
      <4>1. ~TailOver
        BY <1>0, <2>5, <3>2 DEF Decide, Doomed, LastPass, TailOver, TailEnd
      <4>2. main' = "get"
        BY <2>5, <4>1 DEF Decide
      <4> QED BY <2>1, <4>2 DEF Doomed, Looping, LastPass
    <3> QED BY <3>1, <3>2
  <2>6. CASE Unregister \/ StopRaw \/ DrainQueue \/ DrainEngine \/ Close
    <3>1. failed
      BY <2>6 DEF Doomed, Looping, Unregister, StopRaw, DrainQueue, DrainEngine, Close
    <3>2. failed'
      BY <1>0, <2>6, <3>1 DEF Unregister, StopRaw, DrainQueue, DrainEngine, Close
    <3> QED BY <2>1, <3>2 DEF Doomed
  <2> QED BY <1>3, <2>2, <2>3, <2>4, <2>5, <2>6 DEF Main
<1> QED BY <1>1, <1>2, <1>3 DEF Next, Callback

\* A recording that refused a message before its last look at fatal never passes, wherever
\* the loop was in its pass: the safety half of RefusalFails (fatal in callback and record).
THEOREM RefusalNeverPasses == Spec => [](Looping /\ fatal /\ ~LastPass => []~Passed)
<1>1. Looping /\ fatal /\ ~LastPass => Doomed
  BY DEF Doomed
<1>2. Doomed => ~Passed
  BY DEF Doomed, Passed, Looping
<1>3. TypeOK /\ [Next]_vars /\ Doomed => Doomed'
  BY DoomedStep
<1> QED BY <1>1, <1>2, <1>3, TypeCorrect, PTL DEF Spec

\* The loop is left without an error only when the tail of the odometry was collected.
TailInv ==
    /\ tail # None => stop
    /\ loopNow <= now
    /\ ~Looping /\ ~failed => tail # None /\ tail <= now /\ ~accepting
    /\ tail # None => ~accepting

\* A recording that passes was stopped, and went on reading until its deadline, Wait after
\* the stop was seen; images were refused from then on (tail_deadline in record).
THEOREM TailIsCollected == Spec => [](Passed => stop /\ tail # None /\ tail <= now /\ ~accepting)
<1>1. Init => TailInv
  BY DEF Init, TailInv, Looping
<1>2. TypeOK /\ TailInv /\ [Next]_vars => TailInv'
  <2> SUFFICES ASSUME TypeOK, TailInv, [Next]_vars PROVE TailInv'
    OBVIOUS
  <2>0. /\ now \in Nat /\ loopNow \in Nat /\ Wait \in Nat /\ tail \in Nat \union {None} /\ None = -1
        /\ accepting \in BOOLEAN /\ failed \in BOOLEAN /\ stop \in BOOLEAN
    BY QueueAssumption DEF TypeOK, None
  <2>1. ASSUME NEW t \in Threads,
               Deliver(t) \/ Account(t) \/ Put(t) \/ PutFull(t) \/ Full(t) \/ Flag(t)
        PROVE  TailInv'
    <3>1. UNCHANGED <<main, failed, now, loopNow, tail, stop, accepting>>
      BY <2>1 DEF Deliver, Account, Put, PutFull, Full, Flag, flags, clock
    <3> QED BY <3>1 DEF TailInv, Looping
  <2>2. CASE Stop
    <3>1. stop' /\ UNCHANGED <<main, failed, now, loopNow, tail, accepting>>
      BY <2>2 DEF Stop, clock
    <3> QED BY <3>1 DEF TailInv, Looping
  <2>3. CASE Tick
    <3>1. now' = now + 1 /\ UNCHANGED <<main, failed, loopNow, tail, stop, accepting>>
      BY <2>3 DEF Tick, flags
    <3> QED BY <2>0, <3>1 DEF TailInv, Looping
  <2>4. CASE Terminated \/ UNCHANGED vars
    <3>1. UNCHANGED <<main, failed, now, loopNow, tail, stop, accepting>>
      BY <2>4 DEF Terminated, vars, flags, clock
    <3> QED BY <3>1 DEF TailInv, Looping
  <2>5. CASE Decide
    <3>1. /\ now' = now /\ loopNow' = loopNow /\ stop' = stop /\ failed' = failed
          /\ tail' = TailEnd /\ accepting' = (accepting /\ ~(stop /\ tail = None))
          /\ main' = (IF TailOver THEN "unregister" ELSE "get")
      BY <2>5 DEF Decide, callbacks
    <3>2. TailEnd \in Nat \union {None} /\ (TailEnd # None => stop)
      BY <2>0 DEF TailInv, TailEnd
    <3>4. TailEnd # None => ~accepting'
      <4>1. CASE tail = None
        <5>1. TailEnd # None => stop
          BY <3>2
        <5> QED BY <3>1, <4>1, <5>1, Zenon
      <4>2. CASE tail # None
        BY <3>1, <4>2, Zenon DEF TailInv
      <4> QED BY <4>1, <4>2
    <3>3. TailOver => TailEnd # None /\ TailEnd <= now
      BY <2>0, <3>2 DEF TailOver, TailInv
    <3> QED BY <2>0, <3>1, <3>2, <3>3, <3>4 DEF TailInv, Looping
  <2>6. CASE CheckRaises \/ Look \/ Take \/ Ingest \/ Empty
    <3>1. /\ UNCHANGED <<now, tail, stop, accepting>>
          /\ main' \in {"check", "decide", "get", "ingest"} \/ failed'
          /\ loopNow' \in {loopNow, now}
      BY <2>6 DEF CheckRaises, Look, Take, Ingest, Empty, Continues, Fail, callbacks
    <3> QED BY <2>0, <3>1 DEF TailInv, Looping
  <2>7. CASE Unregister \/ StopRaw \/ DrainQueue \/ DrainEngine \/ Close
    <3>1. /\ UNCHANGED <<now, loopNow, tail, stop>> /\ accepting' \in {accepting, FALSE}
          /\ ~Looping
      BY <2>7 DEF Unregister, StopRaw, DrainQueue, DrainEngine, Close, callbacks, Looping
    <3>2. failed => failed'
      BY <2>0, <2>7 DEF Unregister, StopRaw, DrainQueue, DrainEngine, Close
    <3>3. (tail' # None => stop') /\ loopNow' <= now' /\ (tail' # None => ~accepting')
      <4>1. tail' # None => ~accepting'
        BY <3>1, Zenon DEF TailInv
      <4> QED BY <3>1, <4>1 DEF TailInv
    <3>4. ~failed' => tail' # None /\ tail' <= now' /\ ~accepting'
      BY <3>1, <3>2 DEF TailInv
    <3> QED BY <3>3, <3>4 DEF TailInv
  <2> QED BY <2>1, <2>2, <2>3, <2>4, <2>5, <2>6, <2>7 DEF Next, Callback, Main
<1>3. TailInv => (Passed => stop /\ tail # None /\ tail <= now /\ ~accepting)
  BY DEF TailInv, Passed, Looping
<1> QED BY <1>1, <1>2, <1>3, TypeCorrect, PTL DEF Spec

-----------------------------------------------------------------------------
(* The end of a recording.  Measures that fall: a number of a stage, and    *)
(* what is left of the stage, in passes of the main thread or in time.      *)

Before(a, b) == a[1] < b[1] \/ (a[1] = b[1] /\ a[2] < b[2])

\* Steps of the main thread until it is at the top of its loop, or done.
Steps ==
    CASE main = "check" -> 0 [] main = "decide" -> 3 [] main = "ingest" -> 1 [] main = "get" -> 2
      [] main = "unregister" -> 4 [] main = "raw" -> 3 [] main = "drain" -> 2
      [] main = "close" -> 1 [] OTHER -> 0

\* The steps until the rest of the top of the loop, behind the look at fatal.
ToDecide == IF main = "decide" THEN 0 ELSE Steps + 1

\* After a stop: until it is seen, until the tail is over, until a pass that begins after
\* that, until that pass ends the loop, the end.
StopRest ==
    IF ~Looping THEN <<0, Steps>>
    ELSE IF tail = None THEN <<4, ToDecide>>
    ELSE IF now < tail THEN <<3, tail - now>>
    ELSE IF loopNow < tail THEN <<2, Steps>> ELSE <<1, ToDecide>>

\* Without a new frame and a stop: until the limit is passed, until that is seen, the end.
Due == StartupTimeout + IF lastFrame = None THEN 0 ELSE lastFrame
StallRest ==
    IF ~Looping THEN <<0, Steps>>
    ELSE IF now <= Due THEN <<3, Due - now>>
    ELSE IF loopNow <= Due THEN <<2, Steps>> ELSE <<1, Steps>>

\* The second drain of record takes one more message off the queue.
Drains == main = "drain" /\ main' = "drain" /\ events # <<>> /\ events' = Tail(events)

\* Time may pass: the bound of the clock is not what ends a wait.
MayPassTime == now < LastTime \/ (now < tail /\ now < LastTime + Wait)

TimeInv ==
    /\ loopNow <= now /\ now <= LastTime + Wait
    /\ tail = None => now <= LastTime
    /\ tail # None => tail <= LastTime + Wait
    /\ lastFrame <= Busy
    /\ main = "check" /\ tail = None => loopNow <= Due

LEMMA StepsOf ==
    /\ main = "check" => Steps = 0
    /\ main = "decide" => Steps = 3
    /\ main = "ingest" => Steps = 1
    /\ main = "get" => Steps = 2
    /\ main = "unregister" => Steps = 4
    /\ main = "raw" => Steps = 3
    /\ main = "drain" => Steps = 2
    /\ main = "close" => Steps = 1
    /\ main = "done" => Steps = 0
BY DEF Steps

\* The numbers of the clock, with their types.
LEMMA TimeTypes ==
    ASSUME TypeOK
    PROVE  /\ now \in Nat /\ loopNow \in Nat /\ tail \in Nat \union {-1}
           /\ lastFrame \in Nat \union {-1} /\ None = -1
           /\ Wait \in Nat /\ Wait > 0 /\ StartupTimeout \in Nat /\ StartupTimeout > 0
           /\ Busy \in Nat /\ LastTime = Busy + StartupTimeout + 1
           /\ Due \in Nat
<1>1. /\ now \in Nat /\ loopNow \in Nat /\ tail \in Nat \union {-1}
      /\ lastFrame \in Nat \union {-1} /\ None = -1
  BY DEF TypeOK, None
<1>2. /\ Wait \in Nat /\ Wait > 0 /\ StartupTimeout \in Nat /\ StartupTimeout > 0
      /\ Busy \in Nat /\ LastTime = Busy + StartupTimeout + 1
  BY QueueAssumption DEF LastTime
<1> QED BY <1>1, <1>2 DEF Due

\* What the main thread does to the clock and to its place.
LEMMA LoopSteps ==
    ASSUME TypeOK, Main, Looping
    PROVE  /\ now' = now /\ stop' = stop
           /\ \/ main' = "unregister" /\ failed' /\ tail' = tail
              \/ /\ main = "check" /\ main' = "decide" /\ tail' = tail
                 /\ loopNow' = now /\ lastFrame' = lastFrame
              \/ /\ main = "decide" /\ main' = "get" /\ tail' = TailEnd /\ ~TailOver
                 /\ loopNow' = loopNow /\ lastFrame' = lastFrame
              \/ main = "decide" /\ main' = "unregister" /\ TailOver /\ tail' = TailEnd
              \/ /\ main = "get" /\ main' = "ingest" /\ tail' = tail
                 /\ loopNow' = loopNow /\ lastFrame' = lastFrame
              \/ /\ main \in {"get", "ingest"} /\ main' = "check" /\ tail' = tail
                 /\ loopNow' = loopNow /\ ~Stalled(lastFrame')
<1>1. CASE CheckRaises
  BY <1>1 DEF CheckRaises, Fail, callbacks
<1>2. CASE Look
  BY <1>2 DEF Look, callbacks
<1>3. CASE Decide
  BY <1>3 DEF Decide, callbacks
<1>4. CASE Take
  BY <1>4 DEF Take, callbacks
<1>5. CASE Ingest \/ Empty
  BY <1>5 DEF Ingest, Empty, Continues, Fail, callbacks
<1>6. ~Unregister /\ ~StopRaw /\ ~DrainQueue /\ ~DrainEngine /\ ~Close
  BY DEF Looping, Unregister, StopRaw, DrainQueue, DrainEngine, Close
<1> QED BY <1>1, <1>2, <1>3, <1>4, <1>5, <1>6 DEF Main

LEMMA FinalSteps ==
    ASSUME TypeOK, Main, ~Looping
    PROVE  /\ now' = now /\ stop' = stop /\ tail' = tail /\ loopNow' = loopNow /\ ~Looping'
           /\ Steps' < Steps \/ (Steps' = Steps /\ Drains)
<1>1. /\ Unregister \/ StopRaw \/ DrainQueue \/ DrainEngine \/ Close
  BY DEF Main, Looping, CheckRaises, Look, Decide, Take, Ingest, Empty
<1>2. now' = now /\ stop' = stop /\ tail' = tail /\ loopNow' = loopNow
  BY <1>1 DEF Unregister, StopRaw, DrainQueue, DrainEngine, Close, callbacks
<1>3. \/ main = "unregister" /\ main' = "raw"
      \/ main = "raw" /\ main' \in {"drain", "close"}
      \/ main = "drain" /\ main' = "close"
      \/ Drains
      \/ main = "close" /\ main' = "done"
  BY <1>1 DEF Unregister, StopRaw, DrainQueue, DrainEngine, Close, Drains
<1>4. /\ main' = "raw" => Steps' = 3
      /\ main' = "drain" => Steps' = 2
      /\ main' = "close" => Steps' = 1
      /\ main' = "done" => Steps' = 0
  BY DEF Steps
<1> QED BY <1>2, <1>3, <1>4, StepsOf DEF Looping, Drains

\* Neither a callback nor the operator moves the main thread or its deadlines.
LEMMA OthersStand ==
    ASSUME [Next]_vars, ~Main
    PROVE  /\ UNCHANGED <<main, loopNow, tail, lastFrame, failed>>
           /\ stop => stop'
           /\ now' = now \/ (Tick /\ MayPassTime /\ now' = now + 1)
<1>1. ASSUME NEW t \in Threads,
             Deliver(t) \/ Account(t) \/ Put(t) \/ PutFull(t) \/ Full(t) \/ Flag(t)
      PROVE  UNCHANGED <<main, now, loopNow, tail, lastFrame, failed, stop>>
  BY <1>1 DEF Deliver, Account, Put, PutFull, Full, Flag, flags, clock
<1>2. CASE Stop
  BY <1>2 DEF Stop, clock
<1>3. CASE Tick
  BY <1>3 DEF Tick, flags, MayPassTime
<1>4. CASE Terminated \/ UNCHANGED vars
  BY <1>4 DEF Terminated, vars, flags, clock
<1> QED BY <1>1, <1>2, <1>3, <1>4 DEF Next, Callback

\* A frame is at most as late as Busy.
LEMMA FrameTimes ==
    ASSUME TypeOK, Main, lastFrame <= Busy
    PROVE  lastFrame' <= Busy
<1>1. ASSUME NEW wall, MayFrame(wall) PROVE lastFrame' <= Busy
  BY <1>1 DEF MayFrame
<1>2. CASE Ingest \/ Empty \/ DrainQueue \/ DrainEngine
  BY <1>1, <1>2 DEF Ingest, Empty, DrainQueue, DrainEngine
<1>3. CASE CheckRaises \/ Look \/ Decide \/ Take \/ Unregister \/ StopRaw \/ Close
  BY <1>3 DEF CheckRaises, Look, Decide, Take, Unregister, StopRaw, Close
<1> QED BY <1>2, <1>3 DEF Main

LEMMA TimeStep ==
    ASSUME TypeOK, TypeOK', TimeInv, [Next]_vars
    PROVE  TimeInv'
<1> DEFINE Numbers == now \in Nat /\ loopNow \in Nat /\ tail \in Nat \union {-1} /\ None = -1
                      /\ Wait \in Nat /\ LastTime \in Nat
<1>t. Numbers
  BY TimeTypes
<1>1. CASE ~Main
  <2>1. /\ UNCHANGED <<main, loopNow, tail, lastFrame>>
        /\ now' = now \/ (MayPassTime /\ now' = now + 1)
    BY <1>1, OthersStand
  <2>2. Due' = Due
    BY <2>1 DEF Due
  <2> QED BY <1>t, <2>1, <2>2 DEF TimeInv, MayPassTime
<1>2. CASE Main /\ Looping
  <2>1. lastFrame' <= Busy
    BY <1>2, FrameTimes DEF TimeInv
  <2>2. now' = now /\ loopNow' <= now'
    <3>1. now' = now
      BY <1>2, LoopSteps
    <3>2. loopNow' \in {loopNow, now}
      BY <1>2 DEF Main, CheckRaises, Look, Decide, Take, Ingest, Empty, Unregister, StopRaw,
         DrainQueue, DrainEngine, Close
    <3> QED BY <1>t, <3>1, <3>2 DEF TimeInv
  <2>3. tail' \in {tail, TailEnd}
    BY <1>2, LoopSteps
  <2>4. /\ now <= LastTime + Wait /\ TailEnd = None => tail = None
        /\ TailEnd # None => TailEnd <= LastTime + Wait
    BY <1>t DEF TimeInv, TailEnd
  <2>5. /\ tail' = None => now <= LastTime
        /\ tail' # None => tail' <= LastTime + Wait
    BY <1>t, <2>3, <2>4 DEF TimeInv
  <2>6. ASSUME main' = "check", tail' = None PROVE loopNow' <= Due'
    <3>1. ~Stalled(lastFrame') /\ loopNow' = loopNow /\ tail' = tail
      BY <1>2, <2>6, LoopSteps
    <3>2. /\ loopNow \in Int /\ StartupTimeout \in Int /\ lastFrame' \in Int
      BY <1>t, TimeTypes DEF TypeOK, None
    <3>3. CASE lastFrame' = None
      <4>1. Due' = StartupTimeout
        BY <3>2, <3>3 DEF Due
      <4> QED BY <3>1, <3>2, <3>3, <4>1 DEF Stalled
    <3>4. CASE lastFrame' # None
      <4>1. Due' = StartupTimeout + lastFrame'
        BY <3>2, <3>4 DEF Due
      <4>2. ~(loopNow - lastFrame' > StartupTimeout)
        BY <2>6, <3>1, <3>4 DEF Stalled
      <4>3. \A x, y, z \in Int : ~(x - y > z) => x <= z + y
        OBVIOUS
      <4>4. loopNow <= StartupTimeout + lastFrame'
        BY ONLY <3>2, <4>2, <4>3
      <4> QED BY <3>1, <4>1, <4>4
    <3> QED BY <3>3, <3>4
  <2> QED BY <1>t, <2>1, <2>2, <2>5, <2>6 DEF TimeInv
<1>3. CASE Main /\ ~Looping
  <2>1. now' = now /\ tail' = tail /\ loopNow' = loopNow /\ ~Looping'
    BY <1>3, FinalSteps
  <2>2. lastFrame' <= Busy
    BY <1>3, FrameTimes DEF TimeInv
  <2> QED BY <2>1, <2>2 DEF TimeInv, Looping
<1> QED BY <1>1, <1>2, <1>3

LEMMA TimeInit == Init => TimeInv
<1> SUFFICES ASSUME Init PROVE TimeInv
  OBVIOUS
<1>1. /\ Wait \in Nat /\ StartupTimeout \in Nat /\ Busy \in Nat
      /\ LastTime = Busy + StartupTimeout + 1 /\ None = -1
  BY QueueAssumption DEF LastTime, None
<1>2. now = 0 /\ loopNow = 0 /\ tail = None /\ lastFrame = None
  BY DEF Init
<1>3. Due = StartupTimeout
  BY <1>1, <1>2 DEF Due
<1> QED BY <1>1, <1>2, <1>3 DEF TimeInv

\* The safety half of StopEnds: once a recording is told to stop it comes closer to its end
\* with each step of the main thread, or with time while it waits for its tail; no message,
\* callback or second signal moves the deadline or sets it back (tail_deadline in record).
StopApproaches ==
    stop => /\ stop' /\ (tail # None => tail' = tail)
            /\ Before(StopRest', StopRest) \/ StopRest' = StopRest
            /\ Main /\ StopRest[1] # 3 => Before(StopRest', StopRest) \/ Drains
            /\ Tick /\ StopRest[1] = 3 => Before(StopRest', StopRest)
THEOREM StopComesCloser ==
    Spec => [][StopApproaches]_vars /\ [](stop /\ StopRest[1] = 3 => MayPassTime)
<1>1. TypeOK /\ TypeOK' /\ TimeInv /\ [Next]_vars => StopApproaches
  <2> SUFFICES ASSUME TypeOK, TypeOK', TimeInv, [Next]_vars, stop
               PROVE  /\ stop' /\ (tail # None => tail' = tail)
                      /\ Before(StopRest', StopRest) \/ StopRest' = StopRest
                      /\ Main /\ StopRest[1] # 3 => Before(StopRest', StopRest) \/ Drains
                      /\ Tick /\ StopRest[1] = 3 => Before(StopRest', StopRest)
    BY DEF StopApproaches
  <2>t. /\ now \in Nat /\ loopNow \in Nat /\ tail \in Nat \union {-1} /\ None = -1
        /\ Wait \in Nat /\ Wait > 0 /\ loopNow <= now
    BY TimeTypes DEF TimeInv
  <2>1. CASE ~Main
    <3>1. /\ stop' /\ tail' = tail /\ main' = main /\ loopNow' = loopNow
          /\ now' = now \/ now' = now + 1
      BY <2>1, OthersStand
    <3>2. Steps' = Steps /\ Looping' = Looping /\ ToDecide' = ToDecide
      BY <3>1 DEF Steps, Looping, ToDecide
    <3>3. CASE now' = now
      <4>1. StopRest' = StopRest
        BY <3>1, <3>2, <3>3 DEF StopRest
      <4>2. ~Tick
        BY <2>t, <3>3 DEF Tick
      <4> QED BY <2>1, <3>1, <4>1, <4>2
    <3>4. CASE now' = now + 1
      <4>1. CASE Looping /\ tail # None /\ now < tail
        <5>1. StopRest = <<3, tail - now>>
          BY <4>1 DEF StopRest
        <5>2. StopRest' = <<3, tail - now - 1>> \/ StopRest'[1] \in {1, 2}
          BY <2>t, <3>1, <3>2, <3>4, <4>1 DEF StopRest
        <5> QED BY <2>1, <2>t, <3>1, <5>1, <5>2 DEF Before
      <4>2. CASE ~(Looping /\ tail # None /\ now < tail)
        <5>1. StopRest' = StopRest /\ StopRest[1] # 3
          BY <2>t, <3>1, <3>2, <3>4, <4>2 DEF StopRest
        <5> QED BY <2>1, <3>1, <5>1
      <4> QED BY <4>1, <4>2
    <3> QED BY <3>1, <3>3, <3>4
  <2>2. CASE Main /\ ~Looping
    <3>1. /\ stop' = stop /\ tail' = tail /\ ~Looping' /\ now' = now
          /\ Steps' < Steps \/ (Steps' = Steps /\ Drains)
      BY <2>2, FinalSteps
    <3> QED BY <2>2, <2>t, <3>1 DEF StopRest, Before, Tick
  <2>3. CASE Main /\ Looping
    <3>1. now' = now /\ stop' /\ ~Tick
      <4>1. now' = now /\ stop'
        BY <2>3, LoopSteps
      <4> QED BY <2>t, <4>1 DEF Tick
    <3>2. CASE main' = "unregister"
      <4>1. ~Looping' /\ StopRest'[1] = 0 /\ StopRest[1] \in {1, 2, 3, 4}
        BY <2>3, <3>2 DEF Looping, StopRest
      <4>2. tail # None => tail' = tail
        BY <2>3, <3>2, LoopSteps DEF TailEnd
      <4> QED BY <3>1, <4>1, <4>2 DEF Before
    <3>3. CASE main = "check" /\ main' = "decide" /\ tail' = tail /\ loopNow' = now
      <4>1. Looping /\ Looping' /\ ToDecide = 1 /\ ToDecide' = 0 /\ ~(loopNow' < now)
        BY <2>t, <3>1, <3>3, StepsOf DEF Looping, ToDecide
      <4>2. CASE tail # None /\ now < tail
        <5>1. StopRest' = StopRest /\ StopRest[1] = 3
          BY <3>1, <3>3, <4>1, <4>2 DEF StopRest
        <5> QED BY <3>1, <3>3, <5>1
      <4>3. CASE tail = None
        <5>1. StopRest = <<4, 1>> /\ StopRest' = <<4, 0>>
          BY <3>3, <4>1, <4>3 DEF StopRest
        <5> QED BY <3>1, <4>3, <5>1 DEF Before
      <4>4. CASE tail # None /\ ~(now < tail)
        <5>1. StopRest' = <<1, 0>> /\ (StopRest = <<1, 1>> \/ StopRest[1] = 2)
          BY <3>1, <3>3, <4>1, <4>4 DEF StopRest
        <5> QED BY <3>1, <3>3, <5>1 DEF Before
      <4> QED BY <4>2, <4>3, <4>4
    <3>4. CASE main = "decide" /\ main' = "get" /\ tail' = TailEnd /\ ~TailOver
               /\ loopNow' = loopNow
      <4>1. /\ Looping /\ Looping' /\ tail' # None /\ loopNow < tail'
            /\ tail # None => tail' = tail
            /\ Steps = 3 /\ ToDecide = 0
        BY <2>t, <3>4, StepsOf DEF Looping, TailEnd, TailOver, ToDecide
      <4>2. Steps' = 2
        BY <3>4 DEF Steps
      <4>3. StopRest' = (IF now < tail' THEN <<3, tail' - now>> ELSE <<2, 2>>)
        BY <3>1, <3>4, <4>1, <4>2 DEF StopRest
      <4>4. CASE tail = None
        <5>1. StopRest[1] = 4
          BY <4>1, <4>4 DEF StopRest
        <5> QED BY <3>1, <4>3, <4>4, <5>1 DEF Before
      <4>5. CASE tail # None
        <5>1. StopRest = (IF now < tail THEN <<3, tail - now>> ELSE <<2, 3>>)
          BY <4>1, <4>5 DEF StopRest
        <5> QED BY <2>t, <3>1, <4>1, <4>3, <4>5, <5>1 DEF Before
      <4> QED BY <4>4, <4>5
    <3>5. CASE /\ tail' = tail /\ loopNow' = loopNow
               /\ \/ main = "get" /\ main' \in {"ingest", "check"}
                  \/ main = "ingest" /\ main' = "check"
      <4>1. Steps' < Steps /\ Steps \in Nat /\ Steps' \in Nat /\ Looping /\ Looping'
        BY <3>5 DEF Steps, Looping
      <4>2. ToDecide' < ToDecide
        BY <3>5, <4>1 DEF ToDecide, Steps
      <4>3. CASE tail # None /\ now < tail
        <5>1. StopRest' = StopRest /\ StopRest[1] = 3
          BY <3>1, <3>5, <4>1, <4>3 DEF StopRest
        <5> QED BY <3>1, <3>5, <5>1
      <4>4. CASE ~(tail # None /\ now < tail)
        <5>1. \/ \E k \in {1, 4} : StopRest = <<k, ToDecide>> /\ StopRest' = <<k, ToDecide'>>
              \/ StopRest = <<2, Steps>> /\ StopRest' = <<2, Steps'>>
          BY <3>1, <3>5, <4>1, <4>4 DEF StopRest
        <5> QED BY <3>1, <3>5, <4>1, <4>2, <5>1 DEF Before
      <4> QED BY <4>3, <4>4
    <3> QED BY <2>3, <3>2, <3>3, <3>4, <3>5, LoopSteps
  <2> QED BY <2>1, <2>2, <2>3
<1>2. TypeOK /\ TimeInv => (stop /\ StopRest[1] = 3 => MayPassTime)
  <2> SUFFICES ASSUME TypeOK, TimeInv, StopRest[1] = 3 PROVE MayPassTime
    OBVIOUS
  <2>1. /\ now \in Nat /\ tail \in Nat \union {-1} /\ None = -1 /\ Wait \in Nat
        /\ LastTime \in Nat
    BY TimeTypes
  <2>2. tail # None /\ now < tail
    BY DEF StopRest
  <2> QED BY <2>1, <2>2 DEF TimeInv, MayPassTime
<1>3. TypeOK /\ TypeOK' /\ TimeInv /\ [Next]_vars => TimeInv'
  BY TimeStep
<1> QED BY <1>1, <1>2, <1>3, TimeInit, TypeCorrect, PTL DEF Spec

\* The safety half of StallEnds: while no frame comes and no stop is given, a recording comes
\* closer to its end with each step of the main thread, or with time until the limit on the
\* age of a frame is passed; the time is read once per pass, so one pass more may be made
\* (latest_frame_wall and startup_timeout in record).
StallApproaches ==
    lastFrame' = lastFrame /\ tail' = None =>
        /\ Before(StallRest', StallRest) \/ StallRest' = StallRest
        /\ Main /\ StallRest[1] # 3 => Before(StallRest', StallRest) \/ Drains
        /\ Tick /\ StallRest[1] = 3 => Before(StallRest', StallRest)
THEOREM StallComesCloser ==
    Spec => [][StallApproaches]_vars /\ [](StallRest[1] = 3 => MayPassTime)
<1>1. TypeOK /\ TypeOK' /\ TimeInv /\ TimeInv' /\ [Next]_vars => StallApproaches
  <2> SUFFICES ASSUME TypeOK, TypeOK', TimeInv, TimeInv', [Next]_vars,
                      lastFrame' = lastFrame, tail' = None
               PROVE  /\ Before(StallRest', StallRest) \/ StallRest' = StallRest
                      /\ Main /\ StallRest[1] # 3 => Before(StallRest', StallRest) \/ Drains
                      /\ Tick /\ StallRest[1] = 3 => Before(StallRest', StallRest)
    BY DEF StallApproaches
  <2>t. /\ now \in Nat /\ loopNow \in Nat /\ Due \in Nat /\ loopNow <= now
        /\ Due' = Due
    BY TimeTypes DEF TimeInv, Due
  <2>1. CASE ~Main
    <3>1. main' = main /\ loopNow' = loopNow /\ (now' = now \/ now' = now + 1)
      BY <2>1, OthersStand
    <3>2. Steps' = Steps /\ Looping' = Looping
      BY <3>1 DEF Steps, Looping
    <3>3. CASE now' = now
      <4>1. StallRest' = StallRest
        BY <2>t, <3>1, <3>2, <3>3 DEF StallRest
      <4>2. ~Tick
        BY <2>t, <3>3 DEF Tick
      <4> QED BY <2>1, <4>1, <4>2
    <3>4. CASE now' = now + 1
      <4>1. CASE Looping /\ now <= Due
        <5>1. /\ StallRest = <<3, Due - now>>
              /\ StallRest' = <<3, Due - now - 1>> \/ StallRest'[1] \in {1, 2}
          BY <2>t, <3>1, <3>2, <3>4, <4>1 DEF StallRest
        <5> QED BY <2>1, <2>t, <5>1 DEF Before
      <4>2. CASE ~(Looping /\ now <= Due)
        <5>1. StallRest' = StallRest /\ StallRest[1] # 3
          BY <2>t, <3>1, <3>2, <3>4, <4>2 DEF StallRest
        <5> QED BY <2>1, <5>1
      <4> QED BY <4>1, <4>2
    <3> QED BY <3>1, <3>3, <3>4
  <2>2. CASE Main /\ ~Looping
    <3>1. ~Looping' /\ now' = now /\ (Steps' < Steps \/ (Steps' = Steps /\ Drains))
      BY <2>2, FinalSteps
    <3>2. StallRest = <<0, Steps>> /\ StallRest' = <<0, Steps'>> /\ ~Tick
      BY <2>2, <2>t, <3>1 DEF StallRest, Tick
    <3> QED BY <2>2, <3>1, <3>2 DEF Before
  <2>3. CASE Main /\ Looping
    <3>1. now' = now /\ ~Tick
      <4>1. now' = now
        BY <2>3, LoopSteps
      <4> QED BY <2>t, <4>1 DEF Tick
    <3>2. CASE main' = "unregister"
      <4>1. ~Looping' /\ StallRest'[1] = 0 /\ StallRest[1] \in {1, 2, 3}
        BY <2>3, <3>2 DEF Looping, StallRest
      <4> QED BY <3>1, <4>1 DEF Before
    <3>3. CASE main = "check" /\ main' = "decide" /\ tail' = tail /\ loopNow' = now
      <4>1. Looping /\ Looping' /\ loopNow <= Due
        BY <3>3 DEF Looping, TimeInv
      <4>2. CASE now <= Due
        <5>1. StallRest' = StallRest /\ StallRest[1] = 3
          BY <2>t, <3>1, <4>1, <4>2 DEF StallRest
        <5> QED BY <3>1, <5>1
      <4>3. CASE ~(now <= Due)
        <5>1. StallRest[1] = 2 /\ StallRest'[1] = 1
          BY <2>t, <3>1, <3>3, <4>1, <4>3 DEF StallRest
        <5> QED BY <3>1, <5>1 DEF Before
      <4> QED BY <4>2, <4>3
    <3>4. CASE /\ loopNow' = loopNow
               /\ \/ main = "decide" /\ main' = "get"
                  \/ main = "get" /\ main' \in {"ingest", "check"}
                  \/ main = "ingest" /\ main' = "check"
      <4>1. Steps' < Steps /\ Steps \in Nat /\ Steps' \in Nat /\ Looping /\ Looping'
        BY <3>4 DEF Steps, Looping
      <4>2. CASE now <= Due
        <5>1. StallRest' = StallRest /\ StallRest[1] = 3
          BY <2>t, <3>1, <4>1, <4>2 DEF StallRest
        <5> QED BY <3>1, <5>1
      <4>3. CASE ~(now <= Due)
        <5>1. \E k \in {1, 2} : StallRest = <<k, Steps>> /\ StallRest' = <<k, Steps'>>
          BY <2>t, <3>1, <3>4, <4>1, <4>3 DEF StallRest
        <5> QED BY <3>1, <4>1, <5>1 DEF Before
      <4> QED BY <4>2, <4>3
    <3> QED BY <2>3, <3>2, <3>3, <3>4, LoopSteps
  <2> QED BY <2>1, <2>2, <2>3
<1>2. TypeOK /\ TimeInv => (StallRest[1] = 3 => MayPassTime)
  <2> SUFFICES ASSUME TypeOK, TimeInv, StallRest[1] = 3 PROVE MayPassTime
    OBVIOUS
  <2>1. /\ now \in Nat /\ lastFrame \in Nat \union {-1} /\ None = -1 /\ Busy \in Nat
        /\ StartupTimeout \in Nat /\ LastTime = Busy + StartupTimeout + 1
    BY TimeTypes
  <2>2. now <= Due
    BY DEF StallRest
  <2>3. Due <= StartupTimeout + Busy
    BY <2>1 DEF TimeInv, Due
  <2> QED BY <2>1, <2>2, <2>3, TimeTypes DEF MayPassTime
<1>3. TypeOK /\ TypeOK' /\ TimeInv /\ [Next]_vars => TimeInv'
  BY TimeStep
<1> QED BY <1>1, <1>2, <1>3, TimeInit, TypeCorrect, PTL DEF Spec
=============================================================================
