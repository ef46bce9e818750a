------------------------ MODULE KeyboardControlProofs ------------------------
(* When the robot moves, for any number of motions, velocities and lags. *)
EXTENDS KeyboardControlProps, TLAPS

Places == {"check", "send", "stop", "done"}
Motions == [vel : Velocities, end : Int, at : Places, since : Int]

Typed ==
    /\ now \in Nat
    /\ main \in {"key", "sleep", "start", "exited"}
    /\ asked \in Velocities \union {Rest}
    /\ main \in {"sleep", "start"} => asked \in Velocities
    /\ motions \in Seq(Motions)
    /\ outbox # <<>> => /\ outbox = <<outbox[1]>>
                       /\ outbox[1] \in Velocities \union {Rest}
    /\ chassis \in Velocities \union {Rest}

\* From when a motion may go on, and how long it may wait, by where it is at time t.
OnTime(m, t) ==
    /\ m.at # "done" => t <= m.since + Lag
    /\ m.at = "check" => m.since <= m.end + Lag
    /\ m.at = "send" => m.since < m.end
    /\ m.at = "stop" => m.since <= m.end + 2 * Lag
Recent(m, t) == t <= m.end + 3 * Lag

\* The last velocity sent, whether or not it has arrived.
LastSent == IF outbox = <<>> THEN chassis ELSE outbox[1]
AllOnTime == \A i \in 1 .. Len(motions) : OnTime(motions[i], now)
SomeRecent == \E i \in 1 .. Len(motions) : Recent(motions[i], now)
IInv ==
    /\ Typed /\ AllOnTime
    /\ Running /\ LastSent # Rest => alive
    /\ Running /\ (chassis # Rest \/ LastSent # Rest) => SomeRecent

LEMMA InitIInv == Init => IInv
  BY KeyboardAssumption DEF Init, IInv, Typed, AllOnTime, LastSent, Running

\* A step that leaves the threads and the time alone, and sends no velocity but zero.
LEMMA MainStep ==
  ASSUME IInv, UNCHANGED <<now, motions>>, Typed', Running' => Running,
         \/ UNCHANGED <<outbox, chassis>>
         \/ outbox' = <<Rest>> /\ chassis' = chassis
         \/ outbox # <<>> /\ chassis' = outbox[1] /\ outbox' = <<>>
  PROVE  IInv'
  <1>1. AllOnTime'
    BY DEF IInv, AllOnTime
  <1>2. LastSent' # Rest => LastSent # Rest
    BY DEF LastSent
  <1>3. Running' /\ LastSent' # Rest => alive'
    BY <1>2 DEF IInv, alive
  <1>4. chassis' # Rest \/ LastSent' # Rest => chassis # Rest \/ LastSent # Rest
    BY DEF LastSent
  <1>5. Running' /\ (chassis' # Rest \/ LastSent' # Rest) => SomeRecent'
    BY <1>4 DEF IInv, SomeRecent
  <1> QED BY <1>1, <1>3, <1>5 DEF IInv

\* What a thread that goes from one place to another changes.
LEMMA Going ==
  ASSUME IInv, NEW i \in 1 .. Len(motions), NEW w \in Places, NEW t \in Int, Goes(i, w, t)
  PROVE  /\ motions[i] \in Motions /\ motions' \in Seq(Motions)
         /\ Len(motions') = Len(motions)
         /\ motions'[i].at = w /\ motions'[i].since = t /\ motions'[i].end = motions[i].end
         /\ \A j \in 1 .. Len(motions) : j # i => motions'[j] = motions[j]
         /\ \A j \in 1 .. Len(motions) : motions'[j].end = motions[j].end
  <1>1. motions \in Seq(Motions) /\ motions[i] \in Motions
    BY DEF IInv, Typed
  <1> DEFINE m == [motions[i] EXCEPT !.at = w, !.since = t]
  <1>2. m \in Motions /\ m.at = w /\ m.since = t /\ m.end = motions[i].end
    BY <1>1 DEF Motions
  <1>3. motions' = [motions EXCEPT ![i] = m]
    BY <1>1 DEF Goes, Motions
  <1> HIDE DEF m
  <1>4. /\ motions' \in Seq(Motions) /\ Len(motions') = Len(motions) /\ motions'[i] = m
        /\ \A j \in 1 .. Len(motions) : j # i => motions'[j] = motions[j]
    BY <1>1, <1>2, <1>3
  <1> QED BY <1>1, <1>2, <1>4

\* It leaves the others on time, and the recent ones recent.
LEMMA ThreadStep ==
  ASSUME IInv, NEW i \in 1 .. Len(motions), now' = now,
         NEW w \in Places, NEW t \in Int, Goes(i, w, t)
  PROVE  /\ OnTime(motions'[i], now) => AllOnTime'
         /\ SomeRecent => SomeRecent'
         /\ Recent(motions[i], now) => SomeRecent'
         /\ w # "done" => alive'
  <1>1. /\ Len(motions') = Len(motions) /\ motions'[i].at = w
        /\ \A j \in 1 .. Len(motions) : j # i => motions'[j] = motions[j]
        /\ \A j \in 1 .. Len(motions) : motions'[j].end = motions[j].end
    BY Going
  <1>2. OnTime(motions'[i], now) => AllOnTime'
    BY <1>1 DEF IInv, AllOnTime
  <1>3. \A j \in 1 .. Len(motions) : Recent(motions[j], now) => Recent(motions'[j], now)
    BY <1>1 DEF Recent
  <1>4. (SomeRecent => SomeRecent') /\ (Recent(motions[i], now) => SomeRecent')
    BY <1>1, <1>3 DEF SomeRecent
  <1>5. w # "done" => alive'
    BY <1>1 DEF alive
  <1> QED BY <1>2, <1>4, <1>5

LEMMA CheckStep ==
  ASSUME IInv, NEW i \in 1 .. Len(motions), Check(i)
  PROVE  IInv'
  <1> DEFINE w == IF Over(motions[i]) THEN "stop" ELSE "send"
  <1>1. w \in Places /\ w # "done" /\ now \in Int /\ Goes(i, w, now)
    BY DEF Check, IInv, Typed, Places
  <1>2. /\ motions[i] \in Motions /\ motions' \in Seq(Motions)
        /\ motions'[i].at = w /\ motions'[i].since = now /\ motions'[i].end = motions[i].end
    BY <1>1, Going
  <1>3. Typed'
    BY <1>2 DEF Check, IInv, Typed
  <1>4. OnTime(motions[i], now) /\ motions[i].at = "check"
    BY DEF Check, IInv, AllOnTime
  <1>5. OnTime(motions'[i], now)
    <2>1. motions[i].end \in Int /\ motions[i].since \in Int /\ now \in Int /\ Lag \in Nat
      BY <1>1, <1>2, KeyboardAssumption DEF Motions
    <2>2. CASE Over(motions[i])
      BY <1>2, <1>4, <2>1, <2>2 DEF OnTime
    <2>3. CASE ~Over(motions[i])
      BY <1>2, <1>4, <2>1, <2>3 DEF OnTime, Over
    <2> QED BY <2>2, <2>3
  <1>6. AllOnTime' /\ alive' /\ (SomeRecent => SomeRecent')
    BY <1>1, <1>5, ThreadStep DEF Check
  <1> QED BY <1>3, <1>6 DEF Check, IInv, Running, LastSent

LEMMA SendStep ==
  ASSUME IInv, NEW i \in 1 .. Len(motions), Send(i)
  PROVE  IInv'
  <1>1. "check" \in Places /\ now + 1 \in Int /\ now \in Int /\ Goes(i, "check", now + 1)
    BY DEF Send, IInv, Typed, Places
  <1>2. /\ motions[i] \in Motions /\ motions' \in Seq(Motions) /\ motions'[i].at = "check"
        /\ motions'[i].since = now + 1 /\ motions'[i].end = motions[i].end
    BY <1>1, Going
  <1>3. Typed'
    <2>1. motions[i].vel \in Velocities /\ outbox' = <<motions[i].vel>>
      BY <1>2 DEF Send, Publish, Motions
    <2> QED BY <1>2, <2>1 DEF Send, IInv, Typed
  <1>4. OnTime(motions[i], now) /\ motions[i].at = "send"
    BY DEF Send, IInv, AllOnTime
  <1>5. motions[i].end \in Int /\ motions[i].since \in Int /\ Lag \in Nat
    BY <1>2, KeyboardAssumption DEF Motions
  <1>6. OnTime(motions'[i], now) /\ Recent(motions[i], now)
    BY <1>1, <1>2, <1>4, <1>5 DEF OnTime, Recent
  <1>7. AllOnTime' /\ alive' /\ SomeRecent'
    BY <1>1, <1>6, ThreadStep DEF Send
  <1> QED BY <1>3, <1>7 DEF IInv

LEMMA StopStep ==
  ASSUME IInv, NEW i \in 1 .. Len(motions), Stop(i)
  PROVE  IInv'
  <1>1. "done" \in Places /\ now \in Int /\ Goes(i, "done", now)
    BY DEF Stop, IInv, Typed, Places
  <1>2. motions' \in Seq(Motions) /\ motions'[i].at = "done"
    BY <1>1, Going
  <1>3. Typed'
    BY <1>2 DEF Stop, LastWord, Publish, IInv, Typed
  <1>4. OnTime(motions'[i], now)
    BY <1>2 DEF OnTime
  <1>5. AllOnTime' /\ (SomeRecent => SomeRecent')
    BY <1>1, <1>4, ThreadStep DEF Stop
  <1>6. LastSent' = Rest
    BY DEF Stop, LastWord, Publish, LastSent
  <1>7. chassis' = chassis /\ (Running' => Running)
    BY DEF Stop, Running
  <1> QED BY <1>3, <1>5, <1>6, <1>7 DEF IInv

\* A new motion is on time and recent.
LEMMA StartStep ==
  ASSUME IInv, Start
  PROVE  IInv'
  <1> DEFINE m == [vel |-> asked, end |-> now + Duration, at |-> "check", since |-> now]
  <1>1. motions \in Seq(Motions) /\ now \in Nat /\ asked \in Velocities
    BY DEF Start, IInv, Typed
  <1>2. m \in Motions /\ m.at = "check" /\ m.since = now /\ m.end = now + Duration
    BY <1>1, KeyboardAssumption DEF Motions, Places
  <1>3. OnTime(m, now) /\ Recent(m, now)
    BY <1>1, <1>2, KeyboardAssumption DEF OnTime, Recent
  <1>4. motions' = Append(motions, m)
    BY DEF Start
  <1> HIDE DEF m
  <1>5. /\ motions' \in Seq(Motions) /\ Len(motions') = Len(motions) + 1
        /\ motions'[Len(motions) + 1] = m
        /\ \A j \in 1 .. Len(motions) : motions'[j] = motions[j]
    BY <1>1, <1>2, <1>4
  <1>6. Typed' /\ now' = now
    BY <1>5 DEF Start, IInv, Typed
  <1>7. AllOnTime'
    <2> SUFFICES ASSUME NEW j \in 1 .. Len(motions')  PROVE OnTime(motions'[j], now')
      BY DEF AllOnTime
    <2>1. CASE j = Len(motions) + 1
      BY <1>3, <1>5, <1>6, <2>1
    <2>2. CASE j # Len(motions) + 1
      <3>1. j \in 1 .. Len(motions)
        BY <1>1, <1>5, <2>2
      <3> QED BY <1>5, <1>6, <3>1 DEF IInv, AllOnTime
    <2> QED BY <2>1, <2>2
  <1>8. Len(motions) + 1 \in 1 .. Len(motions')
    BY <1>1, <1>5
  <1>9. alive' /\ SomeRecent'
    BY <1>2, <1>3, <1>5, <1>6, <1>8 DEF alive, SomeRecent
  <1> QED BY <1>6, <1>7, <1>9 DEF IInv

\* 'q' ends the motions; nothing is claimed of a process that has exited.
LEMMA QuitStep ==
  ASSUME IInv, QuitKey
  PROVE  IInv'
  <1>1. motions \in Seq(Motions)
    BY DEF IInv, Typed
  <1>2. \A i \in 1 .. Len(motions) :
           /\ [motions[i] EXCEPT !.at = "done"] \in Motions
           /\ [motions[i] EXCEPT !.at = "done"].at = "done"
    <2> SUFFICES ASSUME NEW i \in 1 .. Len(motions)
                 PROVE  /\ [motions[i] EXCEPT !.at = "done"] \in Motions
                        /\ [motions[i] EXCEPT !.at = "done"].at = "done"
      OBVIOUS
    <2>1. motions[i] \in Motions
      BY <1>1
    <2> QED BY <2>1 DEF Motions, Places
  <1>3. motions' = [i \in 1 .. Len(motions) |-> [motions[i] EXCEPT !.at = "done"]]
    BY DEF QuitKey
  <1>4. motions' \in Seq(Motions) /\ \A i \in 1 .. Len(motions') : motions'[i].at = "done"
    BY <1>1, <1>2, <1>3
  <1>5. AllOnTime'
    BY <1>4 DEF AllOnTime, OnTime
  <1>6. Typed' /\ ~Running'
    BY <1>4 DEF QuitKey, Publish, IInv, Typed, Running
  <1> QED BY <1>5, <1>6 DEF IInv

\* Time passes only while every motion that is not over is on time.
LEMMA TickStep ==
  ASSUME IInv, Tick
  PROVE  IInv'
  <1>1. /\ now \in Nat /\ now' = now + 1 /\ motions' = motions /\ main' = main
        /\ outbox' = outbox /\ chassis' = chassis /\ outbox = <<>> /\ Lag \in Nat
        /\ \A i \in 1 .. Len(motions) :
              /\ motions[i].since \in Int /\ motions[i].end \in Int
              /\ motions[i].at \in Places
    <2>1. motions \in Seq(Motions) /\ now \in Nat
      BY DEF IInv, Typed
    <2>2. \A i \in 1 .. Len(motions) : motions[i] \in Motions
      BY <2>1
    <2> QED BY <2>1, <2>2, KeyboardAssumption DEF Tick, node, Motions
  <1>2. \A i \in 1 .. Len(motions) : motions[i].at # "done" => now < motions[i].since + Lag
    BY DEF Tick
  <1>3. Typed'
    BY <1>1 DEF Tick, node, IInv, Typed
  <1>4. AllOnTime'
    <2> SUFFICES ASSUME NEW i \in 1 .. Len(motions)  PROVE OnTime(motions[i], now + 1)
      BY <1>1 DEF AllOnTime
    <2>1. OnTime(motions[i], now)
      BY DEF IInv, AllOnTime
    <2> QED BY <1>1, <1>2, <2>1 DEF OnTime
  <1>5. alive => SomeRecent'
    <2> SUFFICES ASSUME NEW i \in 1 .. Len(motions), motions[i].at # "done"
                 PROVE  Recent(motions[i], now + 1)
      BY <1>1 DEF alive, SomeRecent
    <2>1. OnTime(motions[i], now)
      BY DEF IInv, AllOnTime
    <2>2. motions[i].since <= motions[i].end + 2 * Lag
      BY <1>1, <2>1 DEF OnTime, Places
    <2>3. now + 1 <= motions[i].end + 3 * Lag
      <3> DEFINE s == motions[i].since
                 e == motions[i].end
      <3>1. s \in Int /\ e \in Int /\ now \in Nat /\ Lag \in Nat /\ now < s + Lag /\ s <= e + 2 * Lag
        BY <1>1, <1>2, <2>2
      <3> HIDE DEF s, e
      <3>2. now + 1 <= e + 3 * Lag
        BY ONLY <3>1
      <3> QED BY <3>2 DEF e
    <2> QED BY <2>3 DEF Recent
  <1>6. LastSent = chassis /\ LastSent' = LastSent /\ Running' = Running /\ alive' = alive
    BY <1>1 DEF LastSent, Running, alive
  <1> QED BY <1>1, <1>3, <1>4, <1>5, <1>6 DEF IInv

LEMMA StepIInv == IInv /\ [Next]_vars => IInv'
  <1> SUFFICES ASSUME IInv, [Next]_vars  PROVE IInv'
    OBVIOUS
  <1>1. ASSUME NEW v \in Velocities, MotionKey(v)  PROVE IInv'
    <2>1. Typed'
      BY <1>1 DEF MotionKey, Publish, IInv, Typed
    <2> QED BY <1>1, <2>1, MainStep DEF MotionKey, Publish, Running
  <1>2. CASE Sleep
    <2>1. Typed'
      BY <1>2 DEF Sleep, IInv, Typed
    <2> QED BY <1>2, <2>1, MainStep DEF Sleep, Running
  <1>3. CASE SpaceKey
    <2>1. Typed'
      BY <1>3 DEF SpaceKey, Publish, IInv, Typed
    <2> QED BY <1>3, <2>1, MainStep DEF SpaceKey, Publish, Running
  <1>4. CASE TwistCmdCallback
    <2>1. outbox[1] \in Velocities \union {Rest}
      BY <1>4 DEF TwistCmdCallback, IInv, Typed
    <2>2. Typed'
      BY <1>4, <2>1 DEF TwistCmdCallback, IInv, Typed
    <2> QED BY <1>4, <2>2, MainStep DEF TwistCmdCallback, Running
  <1>5. CASE Threads
    BY <1>5, CheckStep, SendStep, StopStep DEF Threads, Motion
  <1>6. CASE UNCHANGED vars
    <2>1. Typed'
      BY <1>6 DEF vars, node, IInv, Typed
    <2> QED BY <1>6, <2>1, MainStep DEF vars, node, Running
  <1> QED BY <1>1, <1>2, <1>3, <1>4, <1>5, <1>6, StartStep, QuitStep, TickStep
          DEF Next, Main

LEMMA Always == Spec => []IInv
  BY InitIInv, StepIInv, PTL DEF Spec

\* The robot rests once the last motion is over: run_motion()'s stop is the last word
\* whatever the interleaving of the threads, the keys and the topic.
THEOREM RestsWhenIdle == Spec => []RestWhenIdle
  <1>1. IInv => RestWhenIdle
    BY DEF IInv, LastSent, RestWhenIdle
  <1> QED BY <1>1, Always, PTL

\* However often keys are pressed and however the threads overlap, the robot moves no
\* later than the end of some motion and three lags.
THEOREM BrieflyMoves == Spec => []MovesBriefly
  <1>1. IInv => MovesBriefly
    BY DEF IInv, SomeRecent, Recent, MovesBriefly
  <1> QED BY <1>1, Always, PTL
=============================================================================
