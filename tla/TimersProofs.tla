---------------------------- MODULE TimersProofs ----------------------------
(***************************************************************************)
(* Proofs about the timers, for every number of timers and every interval, *)
(* then about the start and stop of their cluster, for every number of     *)
(* starts and of threads that call stop(), and about the menus whose pages *)
(* reactions turn, for every number of pages, menus and reactions.         *)
(*                                                                         *)
(* NeverAhead needs what last_run has to do with the runs: it lies at least*)
(* as many intervals after the start as there were runs, the one included  *)
(* that is copied and not begun.  OnceAfterStop needs that a copied or     *)
(* active timer has not yet run after its stop.                            *)
(***************************************************************************)
EXTENDS MCTimers, TLAPS

(* Two facts of arithmetic, for the provers. *)
LEMMA OneMore == \A i, r \in Nat : 2 * i * (r + 1) = 2 * i * r + 2 * i
  BY Z3

LEMMA WholeSeconds == \A d \in Int, i \in Nat : d \div 2 >= i => 2 * i <= d
  BY Z3

(* The clock and last_run: how far the counted runs may have come. *)
Counted(t) == IF t \in toRun THEN runs[t] + 1 ELSE runs[t]

Paced ==
  \A t \in Timer :
    /\ lastRun[t] <= now
    /\ t < nextId => 2 * interval[t] * Counted(t) <= lastRun[t] - startedAt[t]

Fresh == \A t \in Timer : t >= nextId => runs[t] = 0 /\ runsAfterStop[t] = 0

Passes == loop # "run" => toRun = {} 

Once ==
  \A t \in Timer :
    /\ runsAfterStop[t] <= 1
    /\ t \in active \cup toRun => runsAfterStop[t] = 0

TimersInv == TypeOK /\ Passes /\ Fresh /\ Paced /\ Once

LEMMA TypeInit == Init => TypeOK
  BY ConstantsAssumption DEF Init, TypeOK, Timer

LEMMA TypeStep == TypeOK /\ [Next]_vars => TypeOK'
<1> SUFFICES ASSUME TypeOK, [Next]_vars PROVE TypeOK'
  OBVIOUS
<1> USE ConstantsAssumption DEF Timer
<1>1. CASE StartTimer
  <2>1. nextId \in Timer /\ nextId' = nextId + 1 /\ active' = active \cup {nextId}
    BY <1>1 DEF StartTimer, TypeOK
  <2>2. PICK s \in Intervals : interval' = [interval EXCEPT ![nextId] = s]
    BY <1>1 DEF StartTimer
  <2>3. nextId' \in 1..(MaxTimers + 1) /\ active' \in SUBSET Timer /\ \A t \in active' : t < nextId'
    BY <2>1 DEF TypeOK
  <2>4. interval' \in [Timer -> Nat]
    BY <2>1, <2>2 DEF TypeOK
  <2>5. lastRun' \in [Timer -> Nat] /\ startedAt' \in [Timer -> Nat]
    BY <1>1, <2>1 DEF StartTimer, TypeOK
  <2>6. toRun' = toRun /\ \A t \in toRun' : t < nextId'
    BY <1>1, <2>1 DEF StartTimer, TypeOK
  <2>7. UNCHANGED <<now, timersRunning, loop, toRun, current, waitFrom, runs, runsAfterStop>>
    BY <1>1 DEF StartTimer
  <2> QED
    BY <2>3, <2>4, <2>5, <2>6, <2>7 DEF TypeOK
<1>2. ASSUME NEW t \in Timer, StopTimer(t) PROVE TypeOK'
  BY <1>2 DEF StopTimer, history, TypeOK
<1>3. CASE Collect
  BY <1>3 DEF Collect, history, TypeOK
<1>4. CASE RunNext
  <2>1. PICK t \in toRun :
          /\ current' = t /\ toRun' = toRun \ {t}
          /\ runs' = [runs EXCEPT ![t] = @ + 1]
          /\ runsAfterStop' = [runsAfterStop EXCEPT ![t] = @ + (IF t \in active THEN 0 ELSE 1)]
    BY <1>4 DEF RunNext
  <2>2. t \in Timer
    BY DEF TypeOK
  <2>3. runs' \in [Timer -> Nat] /\ runsAfterStop' \in [Timer -> Nat]
    <3>1. runs \in [Timer -> Nat] /\ runsAfterStop \in [Timer -> Nat]
      BY DEF TypeOK
    <3>2. runs[t] + 1 \in Nat /\ runsAfterStop[t] + (IF t \in active THEN 0 ELSE 1) \in Nat
      BY <2>2, <3>1
    <3> QED
      BY <2>1, <2>2, <3>1, <3>2
  <2>4. toRun' \in SUBSET Timer /\ (\A u \in toRun' : u < nextId) /\ current' \in {0} \cup Timer
    BY <2>1, <2>2 DEF TypeOK
  <2>5. UNCHANGED <<now, nextId, active, interval, lastRun, timersRunning, loop, waitFrom, startedAt>>
    BY <1>4 DEF RunNext
  <2> QED
    BY <2>3, <2>4, <2>5 DEF TypeOK
<1>5. CASE CallbackEnds \/ Wait \/ Wake \/ EndLoop
  <2>1. /\ UNCHANGED <<now, nextId, active, interval, lastRun, timersRunning, toRun>>
        /\ UNCHANGED <<startedAt, runs, runsAfterStop>>
    BY <1>5 DEF CallbackEnds, Wait, Wake, EndLoop, history
  <2>2. /\ loop' \in {"test", "run", "wait", "ended"}
        /\ current' \in {0} \cup Timer /\ waitFrom' \in Nat
    BY <1>5 DEF CallbackEnds, Wait, Wake, EndLoop, TypeOK
  <2> QED
    BY <2>1, <2>2 DEF TypeOK
<1>6. CASE StopCluster \/ Tick
  <2>1. /\ UNCHANGED <<nextId, active, interval, lastRun, loop, toRun, current, waitFrom>>
        /\ UNCHANGED <<startedAt, runs, runsAfterStop>>
    BY <1>6 DEF StopCluster, Tick, history
  <2>2. now' \in Nat
    <3>1. now \in Nat
      BY DEF TypeOK
    <3>2. now' = now \/ now' = now + 1
      BY <1>6 DEF StopCluster, Tick
    <3> QED
      BY <3>1, <3>2
  <2>3. timersRunning' \in BOOLEAN
    BY <1>6, Zenon DEF StopCluster, Tick, TypeOK
  <2> QED
    BY <2>1, <2>2, <2>3 DEF TypeOK
<1>7. CASE UNCHANGED vars
  <2>1. /\ UNCHANGED <<now, nextId, active, interval, lastRun, timersRunning>>
        /\ UNCHANGED <<loop, toRun, current, waitFrom, startedAt, runs, runsAfterStop>>
    BY <1>7 DEF vars
  <2> QED
    BY <2>1 DEF TypeOK
<1> QED
  BY <1>1, <1>2, <1>3, <1>4, <1>5, <1>6, <1>7 DEF Next, LoopStep

(* Timers are always well-typed. *)
THEOREM TimersTypeCorrect == Spec => []TypeOK
  BY TypeInit, TypeStep, PTL DEF Spec

LEMMA InvInit == Init => TimersInv
<1> SUFFICES ASSUME Init PROVE TimersInv
  OBVIOUS
<1>1. TypeOK
  BY TypeInit
<1> QED
  BY <1>1 DEF TimersInv, Init, Passes, Fresh, Paced, Once, Counted, Timer

(* What the loop copied, it finishes before it looks at the timers again.  *)
LEMMA PassesStep == TypeOK /\ Passes /\ [Next]_vars => Passes'
  BY DEF TypeOK, Passes, Next, LoopStep, StartTimer, StopTimer, Collect, RunNext, CallbackEnds,
         Wait, Wake, EndLoop, StopCluster, Tick, history, vars

LEMMA FreshStep == TypeOK /\ Fresh /\ [Next]_vars => Fresh'
<1> SUFFICES ASSUME TypeOK, Fresh, [Next]_vars PROVE Fresh'
  OBVIOUS
<1>1. CASE RunNext
  BY <1>1 DEF RunNext, TypeOK, Fresh, Timer
<1>2. CASE StartTimer
  BY <1>2 DEF StartTimer, TypeOK, Fresh, Timer
<1>3. CASE UNCHANGED <<nextId, runs, runsAfterStop>>
  BY <1>3 DEF Fresh
<1> QED
  BY <1>1, <1>2, <1>3 DEF Next, LoopStep, StopTimer, Collect, CallbackEnds,
         Wait, Wake, EndLoop, StopCluster, Tick, history, vars

LEMMA OnceStep == TypeOK /\ Passes /\ Fresh /\ Once /\ [Next]_vars => Once'
<1> SUFFICES ASSUME TypeOK, Passes, Fresh, Once, [Next]_vars PROVE Once'
  OBVIOUS
<1> USE DEF TypeOK, Timer
<1>1. CASE RunNext
  BY <1>1 DEF RunNext, Once
<1>2. CASE StartTimer
  BY <1>2 DEF StartTimer, Fresh, Once
<1>3. CASE Collect
  BY <1>3 DEF Collect, Once, history
<1>4. ASSUME NEW t \in Timer, StopTimer(t) PROVE Once'
  BY <1>4 DEF StopTimer, Once, history
<1>5. CASE UNCHANGED <<active, toRun, runsAfterStop>>
  BY <1>5 DEF Once
<1> QED
  BY <1>1, <1>2, <1>3, <1>4, <1>5 DEF Next, LoopStep, CallbackEnds, Wait, Wake, EndLoop,
         StopCluster, Tick, history, vars

(* A due timer: last_run may move to now by one interval and one run. *)
LEMMA CollectPaced ==
  TypeOK /\ Passes /\ Paced /\ Collect => Paced'
<1> SUFFICES ASSUME TypeOK, Passes, Paced, Collect, NEW t \in Timer
             PROVE  /\ lastRun'[t] <= now'
                    /\ t < nextId' => 2 * interval'[t] * Counted(t)' <= lastRun'[t] - startedAt'[t]
  BY DEF Paced
<1>1. /\ toRun = {} /\ toRun' = {u \in active : Due(u)}
      /\ lastRun'[t] = IF t \in toRun' THEN now ELSE lastRun[t]
      /\ now' = now /\ nextId' = nextId /\ interval' = interval /\ startedAt' = startedAt
      /\ runs' = runs
  BY DEF Collect, Passes, history
<1>2. CASE t \in toRun'
  <2> DEFINE i == interval[t]  r == runs[t]
  <2>1. i \in Nat /\ r \in Nat /\ now \in Int /\ lastRun[t] \in Int /\ startedAt[t] \in Int
    BY DEF TypeOK, Timer
  <2>2. 2 * i <= now - lastRun[t]
    BY <1>1, <1>2, <2>1, WholeSeconds DEF Due
  <2>3. t < nextId => 2 * i * r <= lastRun[t] - startedAt[t]
    BY <1>1 DEF Paced, Counted
  <2>4. 2 * i * (r + 1) = 2 * i * r + 2 * i
    BY <2>1, OneMore
  <2>5. Counted(t)' = r + 1
    BY <1>1, <1>2 DEF Counted
  <2>6. 2 * i * r \in Int /\ 2 * i \in Int
    BY <2>1
  <2>7. t < nextId => 2 * i * (r + 1) <= now - startedAt[t]
    <3> HIDE DEF i, r
    <3> QED BY <2>1, <2>2, <2>3, <2>4, <2>6
  <2> QED
    BY <1>1, <1>2, <2>1, <2>5, <2>7
<1>3. CASE t \notin toRun'
  BY <1>1, <1>3 DEF Paced, Counted, TypeOK
<1> QED
  BY <1>2, <1>3

LEMMA PacedStep == TypeOK /\ Passes /\ Fresh /\ Paced /\ [Next]_vars => Paced'
<1> SUFFICES ASSUME TypeOK, Passes, Fresh, Paced, [Next]_vars PROVE Paced'
  OBVIOUS
<1>1. CASE Collect
  BY <1>1, CollectPaced
<1>2. CASE RunNext
  <2>1. PICK u \in toRun : /\ toRun' = toRun \ {u} /\ runs' = [runs EXCEPT ![u] = @ + 1]
    BY <1>2 DEF RunNext
  <2>2. \A t \in Timer : Counted(t)' = Counted(t)
    BY <2>1 DEF Counted, TypeOK
  <2> QED
    BY <1>2, <2>2 DEF RunNext, Paced
<1>3. CASE StartTimer
  <2>1. /\ nextId \in Timer /\ nextId' = nextId + 1 /\ toRun' = toRun /\ runs' = runs
        /\ nextId \notin toRun /\ now' = now /\ now \in Nat
    BY <1>3 DEF StartTimer, TypeOK, Timer
  <2>2. PICK s \in Intervals : interval' = [interval EXCEPT ![nextId] = s]
    BY <1>3 DEF StartTimer
  <2>3. ASSUME NEW t \in Timer
        PROVE  /\ lastRun'[t] <= now'
               /\ t < nextId' => 2 * interval'[t] * Counted(t)' <= lastRun'[t] - startedAt'[t]
    <3>1. CASE t = nextId
      <4>1. Counted(t)' = 0
        BY <2>1, <3>1 DEF Counted, Fresh, TypeOK, Timer
      <4>2. lastRun'[t] = now /\ startedAt'[t] = now /\ interval'[t] = s /\ s \in Nat
        BY <1>3, <2>2, <3>1, ConstantsAssumption DEF StartTimer, TypeOK
      <4> QED
        BY <2>1, <4>1, <4>2
    <3>2. CASE t # nextId
      <4>1. /\ Counted(t)' = Counted(t) /\ lastRun'[t] = lastRun[t]
            /\ startedAt'[t] = startedAt[t] /\ interval'[t] = interval[t]
        BY <1>3, <2>1, <2>2, <3>2 DEF Counted, StartTimer, TypeOK
      <4>2. t < nextId' => t < nextId
        BY <2>1, <3>2 DEF TypeOK, Timer
      <4> QED
        BY <2>1, <4>1, <4>2 DEF Paced
    <3> QED
      BY <3>1, <3>2
  <2> QED
    BY <2>3 DEF Paced
<1>4. CASE Tick
  <2>1. now' = now + 1 /\ now \in Nat /\ \A t \in Timer : lastRun[t] \in Nat
    BY <1>4 DEF Tick, TypeOK
  <2>2. \A t \in Timer : Counted(t)' = Counted(t)
    BY <1>4 DEF Tick, Counted, history
  <2>3. UNCHANGED <<nextId, interval, lastRun, startedAt>>
    BY <1>4 DEF Tick, history
  <2> QED
    BY <2>1, <2>2, <2>3 DEF Paced
<1>5. CASE UNCHANGED <<now, nextId, interval, lastRun, toRun, startedAt, runs>>
  BY <1>5 DEF Paced, Counted
<1> QED
  BY <1>1, <1>2, <1>3, <1>4, <1>5 DEF Next, LoopStep, StopTimer, CallbackEnds, Wait, Wake,
         EndLoop, StopCluster, history, vars

THEOREM TimersInvariant == Spec => []TimersInv
<1>1. TimersInv /\ [Next]_vars => TimersInv'
  BY TypeStep, PassesStep, FreshStep, PacedStep, OnceStep DEF TimersInv
<1> QED
  BY InvInit, <1>1, PTL DEF Spec

(* A timer never gets ahead of its interval, however late the passes of    *)
(* run_timer_loop are.                                                     *)
THEOREM TimersNeverAhead == Spec => []NeverAhead
<1>1. TimersInv => NeverAhead
  <2> SUFFICES ASSUME TimersInv, NEW t \in Timer, t < nextId
               PROVE  2 * interval[t] * runs[t] <= now - startedAt[t]
    BY DEF NeverAhead
  <2> DEFINE i == interval[t]  r == runs[t]
  <2>1. /\ i \in Nat /\ r \in Nat /\ now \in Int /\ lastRun[t] \in Int /\ startedAt[t] \in Int
        /\ lastRun[t] <= now
    BY DEF TimersInv, TypeOK, Paced
  <2>2. 2 * i * (r + 1) = 2 * i * r + 2 * i
    BY <2>1, OneMore
  <2>3. 2 * i * r <= lastRun[t] - startedAt[t] \/ 2 * i * (r + 1) <= lastRun[t] - startedAt[t]
    BY DEF TimersInv, Paced, Counted
  <2>4. 2 * i * r \in Int /\ 2 * i \in Nat
    BY <2>1
  <2> HIDE DEF i, r
  <2>5. 2 * i * r <= now - startedAt[t]
    BY <2>1, <2>2, <2>3, <2>4
  <2> QED
    BY <2>5 DEF i, r
<1> QED
  BY TimersInvariant, <1>1, PTL

(* After stop_timer returned true its callback is begun at most once more. *)
THEOREM TimersOnceAfterStop == Spec => []OnceAfterStop
<1>1. TimersInv => OnceAfterStop
  BY DEF TimersInv, Once, OnceAfterStop
<1> QED
  BY TimersInvariant, <1>1, PTL

(* No timer gets ahead of its interval, or runs on after it was stopped.   *)
THEOREM TimersAreKept == Spec => []TimersKeepTime
  BY TimersNeverAhead, TimersOnceAfterStop, PTL DEF TimersKeepTime
-----------------------------------------------------------------------------
(* The cluster's start and stop.                                           *)
(*                                                                         *)
(* A timer loop that timer_thread_ no longer holds has detached itself in a*)
(* stop(); so while two loops live the older was in a stop() at the start  *)
(* of the younger.                                                         *)
LiveLoop(l) == loops[l] \in {"test", "callback"}

DetachedItself == \A l \in Lifecycle!Loop : LiveLoop(l) => l = timerThread \/ stop[l] # "no"

OnlyLoop == restarted \/ \A l, m \in Lifecycle!Loop : LiveLoop(l) /\ LiveLoop(m) => l = m

(* A stop() that has gone past timer_thread_ leaves it empty, until a start.*)
ThreadTaken ==
  \A t \in Lifecycle!Thread :
    stop[t] \in {"disconnect", "done"} /\ t \notin outdated => timerThread = 0

(* Who clears running_ still has timer_thread_ to take. *)
StopComing ==
  timerThread # 0 /\ main \notin {"connect", "set"} =>
    running \/ \E t \in Lifecycle!Thread : stop[t] \in {"flag", "thread", "join"}

LifecycleInv ==
  /\ Lifecycle!TypeOK
  /\ main \notin {"idle", "destroyed"} => starts > 0
  /\ DetachedItself /\ OnlyLoop /\ ThreadTaken /\ StopComing
  /\ Lifecycle!TerminationHasCause

LEMMA ThreadFacts ==
  /\ Lifecycle!Loop \subseteq Lifecycle!Thread /\ Main \in Lifecycle!Thread
  /\ Main \notin Lifecycle!Loop /\ 0 \notin Lifecycle!Loop
BY LifecycleConstants
   DEF Lifecycle!Loop, Lifecycle!Thread, Lifecycle!ThreadsAreDistinct,
       Lifecycle!MaxStartsAssumption

LEMMA LifecycleInvInit == Lifecycle!Init => LifecycleInv
<1> SUFFICES ASSUME Lifecycle!Init PROVE LifecycleInv
  OBVIOUS
<1> USE LifecycleConstants, ThreadFacts DEF Lifecycle!Init
<1>1. Lifecycle!TypeOK
  <2>1. Lifecycle!FlagsOK
    BY DEF Lifecycle!FlagsOK
  <2>2. Lifecycle!PlacesOK
    BY DEF Lifecycle!PlacesOK, Lifecycle!MaxStartsAssumption
  <2> QED
    BY <2>1, <2>2 DEF Lifecycle!TypeOK
<1>2. Lifecycle!TerminationHasCause
  BY DEF Lifecycle!TerminationHasCause
<1>3. DetachedItself /\ OnlyLoop /\ ThreadTaken /\ StopComing
  BY DEF DetachedItself, OnlyLoop, ThreadTaken, StopComing, LiveLoop
<1> QED
  BY <1>1, <1>2, <1>3 DEF LifecycleInv

LEMMA LifecycleTypeStep ==
  LifecycleInv /\ [Lifecycle!Next]_lifecycleVars => Lifecycle!TypeOK'
<1> SUFFICES ASSUME LifecycleInv, [Lifecycle!Next]_lifecycleVars PROVE Lifecycle!TypeOK'
  OBVIOUS
<1> USE LifecycleConstants, ThreadFacts
    DEF LifecycleInv, Lifecycle!TypeOK, Lifecycle!FlagsOK, Lifecycle!PlacesOK,
        Lifecycle!MaxStartsAssumption
<1>1. CASE Lifecycle!CallStart
  <2>1. Lifecycle!FlagsOK'
    BY <1>1 DEF Lifecycle!CallStart
  <2>2. Lifecycle!PlacesOK'
    BY <1>1 DEF Lifecycle!CallStart
  <2> QED
    BY <2>1, <2>2
<1>2. CASE Lifecycle!SetTimersRunning
  BY <1>2 DEF Lifecycle!SetTimersRunning
<1>3. CASE Lifecycle!StartTimerThread
  <2>1. starts \in Lifecycle!Loop
    BY <1>3 DEF Lifecycle!StartTimerThread, Lifecycle!Loop
  <2> QED
    BY <1>3, <2>1 DEF Lifecycle!StartTimerThread
<1>4. CASE Lifecycle!Connect
  BY <1>4 DEF Lifecycle!Connect
<1>5. CASE Lifecycle!SetRunning
  BY <1>5 DEF Lifecycle!SetRunning
<1>6. CASE Lifecycle!Sleep
  BY <1>6 DEF Lifecycle!Sleep
<1>7. CASE Lifecycle!Destroy
  BY <1>7 DEF Lifecycle!Destroy
<1>8. ASSUME NEW t \in Lifecycle!Thread, Lifecycle!CallStop(t) PROVE Lifecycle!TypeOK'
  BY <1>8 DEF Lifecycle!CallStop, Lifecycle!To
<1>9. ASSUME NEW t \in Lifecycle!Thread, Lifecycle!ClearRunning(t) PROVE Lifecycle!TypeOK'
  BY <1>9 DEF Lifecycle!ClearRunning, Lifecycle!To
<1>10. ASSUME NEW t \in Lifecycle!Thread, Lifecycle!ClearTimersRunning(t) PROVE Lifecycle!TypeOK'
  <2>1. Lifecycle!FlagsOK'
    BY <1>10 DEF Lifecycle!ClearTimersRunning, Lifecycle!To
  <2>2. Lifecycle!PlacesOK'
    BY <1>10 DEF Lifecycle!ClearTimersRunning, Lifecycle!To
  <2> QED
    BY <2>1, <2>2
<1>11. ASSUME NEW t \in Lifecycle!Thread, Lifecycle!TakeTimerThread(t) PROVE Lifecycle!TypeOK'
  <2>1. Lifecycle!FlagsOK'
    BY <1>11 DEF Lifecycle!TakeTimerThread, Lifecycle!To
  <2>2. Lifecycle!PlacesOK'
    BY <1>11 DEF Lifecycle!TakeTimerThread, Lifecycle!To
  <2> QED
    BY <2>1, <2>2
<1>12. ASSUME NEW t \in Lifecycle!Thread, Lifecycle!Join(t) PROVE Lifecycle!TypeOK'
  BY <1>12, ZenonT(40) DEF Lifecycle!Join, Lifecycle!To
<1>13. ASSUME NEW t \in Lifecycle!Thread, Lifecycle!Disconnect(t) PROVE Lifecycle!TypeOK'
  BY <1>13 DEF Lifecycle!Disconnect, Lifecycle!To
<1>14. ASSUME NEW l \in Lifecycle!Loop, Lifecycle!TestTimers(l) PROVE Lifecycle!TypeOK'
  BY <1>14 DEF Lifecycle!TestTimers
<1>15. ASSUME NEW l \in Lifecycle!Loop, Lifecycle!EndCallbacks(l) PROVE Lifecycle!TypeOK'
  BY <1>15 DEF Lifecycle!EndCallbacks
<1>16. CASE UNCHANGED lifecycleVars
  BY <1>16 DEF lifecycleVars
<1> QED
  BY <1>1, <1>2, <1>3, <1>4, <1>5, <1>6, <1>7, <1>8, <1>9, <1>10, <1>11, <1>12, <1>13,
     <1>14, <1>15, <1>16
  DEF Lifecycle!Next, Lifecycle!MainStep, Lifecycle!StopStep, Lifecycle!LoopStep

LEMMA LifecycleInvStep ==
  LifecycleInv /\ [Lifecycle!Next]_lifecycleVars => LifecycleInv'
<1> DEFINE Links == /\ main \notin {"idle", "destroyed"} => starts > 0
                    /\ DetachedItself /\ OnlyLoop /\ ThreadTaken /\ StopComing
                    /\ Lifecycle!TerminationHasCause
<1> SUFFICES ASSUME LifecycleInv, [Lifecycle!Next]_lifecycleVars PROVE Links'
  BY LifecycleTypeStep DEF LifecycleInv
<1> USE LifecycleConstants, ThreadFacts
    DEF LifecycleInv, Lifecycle!TypeOK, Lifecycle!FlagsOK, Lifecycle!PlacesOK,
        DetachedItself, OnlyLoop, ThreadTaken, StopComing, LiveLoop,
        Lifecycle!TerminationHasCause
<1>1. ASSUME ~terminated, Lifecycle!CallStart PROVE Links'
  BY <1>1 DEF Lifecycle!CallStart
<1>2. CASE Lifecycle!SetTimersRunning
  BY <1>2 DEF Lifecycle!SetTimersRunning
<1>3. CASE Lifecycle!StartTimerThread
  BY <1>3, ZenonT(40) DEF Lifecycle!StartTimerThread
<1>4. CASE Lifecycle!Connect
  BY <1>4 DEF Lifecycle!Connect
<1>5. CASE Lifecycle!SetRunning
  BY <1>5 DEF Lifecycle!SetRunning
<1>6. CASE Lifecycle!Sleep
  BY <1>6 DEF Lifecycle!Sleep
<1>7. CASE Lifecycle!Destroy
  BY <1>7 DEF Lifecycle!Destroy
<1>8. ASSUME NEW t \in Lifecycle!Thread, Lifecycle!CallStop(t) PROVE Links'
  BY <1>8 DEF Lifecycle!CallStop, Lifecycle!To
<1>9. ASSUME NEW t \in Lifecycle!Thread, Lifecycle!ClearRunning(t) PROVE Links'
  BY <1>9 DEF Lifecycle!ClearRunning, Lifecycle!To
<1>10. ASSUME NEW t \in Lifecycle!Thread, Lifecycle!ClearTimersRunning(t) PROVE Links'
  BY <1>10 DEF Lifecycle!ClearTimersRunning, Lifecycle!To
<1>11. ASSUME NEW t \in Lifecycle!Thread, Lifecycle!TakeTimerThread(t) PROVE Links'
  BY <1>11 DEF Lifecycle!TakeTimerThread, Lifecycle!To
<1>12. ASSUME NEW t \in Lifecycle!Thread, Lifecycle!Join(t) PROVE Links'
  BY <1>12 DEF Lifecycle!Join, Lifecycle!To
<1>13. ASSUME ~terminated, NEW t \in Lifecycle!Thread, Lifecycle!Disconnect(t) PROVE Links'
  BY <1>13 DEF Lifecycle!Disconnect, Lifecycle!To
<1>14. ASSUME NEW l \in Lifecycle!Loop, Lifecycle!TestTimers(l) PROVE Links'
  BY <1>14 DEF Lifecycle!TestTimers
<1>15. ASSUME NEW l \in Lifecycle!Loop, Lifecycle!EndCallbacks(l) PROVE Links'
  BY <1>15 DEF Lifecycle!EndCallbacks
<1>16. CASE UNCHANGED lifecycleVars
  BY <1>16 DEF lifecycleVars
<1> QED
  BY <1>1, <1>2, <1>3, <1>4, <1>5, <1>6, <1>7, <1>8, <1>9, <1>10, <1>11, <1>12, <1>13,
     <1>14, <1>15, <1>16
  DEF Lifecycle!Next, Lifecycle!MainStep, Lifecycle!StopStep, Lifecycle!LoopStep

LEMMA AlwaysLifecycleInv == MCSpec => []LifecycleInv
<1>1. MCInit => LifecycleInv
  BY LifecycleInvInit DEF MCInit
<1>2. [MCNext]_allVars => [Lifecycle!Next]_lifecycleVars
  BY DEF MCNext, allVars
<1>3. LifecycleInv /\ [MCNext]_allVars => LifecycleInv'
  BY <1>2, LifecycleInvStep
<1> QED
  BY <1>1, <1>3, PTL DEF MCSpec

(* The callbacks of the timers run on one thread only, unless a cluster    *)
(* stopped by its own timer is started again under it.                     *)
THEOREM OneLoopRuns == MCSpec => []Lifecycle!OneLoop
<1>1. LifecycleInv => Lifecycle!OneLoop
  BY DEF LifecycleInv, OnlyLoop, LiveLoop, Lifecycle!OneLoop, Lifecycle!Live
<1> QED
  BY <1>1, AlwaysLifecycleInv, PTL

(* However start, stop and the destructor meet: one loop runs, none after a*)
(* stop that has joined it, and the process ends only in a stop or on a    *)
(* cluster that was not stopped.                                           *)
THEOREM StopStaysSafe == MCSpec => []StopIsSafe
<1>1. LifecycleInv /\ Lifecycle!OneLoop => StopIsSafe
  <2> SUFFICES ASSUME LifecycleInv PROVE Lifecycle!NoTimerAfterStop
    BY DEF LifecycleInv, StopIsSafe, Lifecycle!StopIsSafe
  <2> SUFFICES ASSUME NEW t \in {Main} \cup EventHandler, NEW l \in Lifecycle!Live,
                      stop[t] \in {"disconnect", "done"}, t \notin outdated
               PROVE  stop[l] # "no"
    BY DEF Lifecycle!NoTimerAfterStop
  <2>1. t \in Lifecycle!Thread
    BY DEF Lifecycle!Thread
  <2>2. l \in Lifecycle!Loop /\ LiveLoop(l)
    BY DEF Lifecycle!Live, LiveLoop
  <2>3. timerThread = 0
    BY <2>1 DEF LifecycleInv, ThreadTaken
  <2> QED
    BY <2>2, <2>3, ThreadFacts DEF LifecycleInv, DetachedItself
<1> QED
  BY <1>1, OneLoopRuns, AlwaysLifecycleInv, PTL
-----------------------------------------------------------------------------
(* Remainders, which turn the pages of menus.                              *)
LEMMA Division ==
  ASSUME NEW a \in Int, NEW d \in Nat \ {0}
  PROVE  (a % d) \in 0..(d - 1) /\ (a \div d) \in Int /\ a = d * (a \div d) + (a % d)
  BY SMT

LEMMA OneRemainder ==
  ASSUME NEW a \in Int, NEW d \in Nat \ {0}, NEW q \in Int, NEW r \in 0..(d - 1), a = d * q + r
  PROVE  a % d = r
  BY SMT

LEMMA Multiples ==
  ASSUME NEW d \in Int, NEW q \in Int
  PROVE  /\ d * q \in Int
         /\ d * (q + 1) = d * q + d
         /\ d * (q - 1) = d * q - d
  BY SMT

LEMMA RemainderUp ==
  ASSUME NEW a \in Int, NEW d \in Nat \ {0}
  PROVE  (a + 1) % d = IF (a % d) < d - 1 THEN (a % d) + 1 ELSE 0
<1> DEFINE q == a \div d
           r == a % d
<1>1. q \in Int /\ r \in 0..(d - 1) /\ a = d * q + r
  BY Division
<1> HIDE DEF q, r
<1>2. CASE r < d - 1
  <2>1. r + 1 \in 0..(d - 1) /\ a + 1 = d * q + (r + 1) /\ a + 1 \in Int
    BY <1>1, <1>2, Multiples
  <2>2. (a + 1) % d = r + 1
    BY <1>1, <2>1, OneRemainder
  <2> QED
    BY <1>2, <2>2 DEF r
<1>3. CASE ~(r < d - 1)
  <2>1. 0 \in 0..(d - 1) /\ a + 1 = d * (q + 1) + 0 /\ q + 1 \in Int /\ a + 1 \in Int
    BY <1>1, <1>3, Multiples
  <2>2. (a + 1) % d = 0
    BY <2>1, OneRemainder
  <2> QED
    BY <1>3, <2>2 DEF r
<1> QED
  BY <1>2, <1>3

LEMMA RemainderDown ==
  ASSUME NEW a \in Int, NEW d \in Nat \ {0}
  PROVE  (a - 1) % d = IF (a % d) > 0 THEN (a % d) - 1 ELSE d - 1
<1> DEFINE q == a \div d
           r == a % d
<1>1. q \in Int /\ r \in 0..(d - 1) /\ a = d * q + r
  BY Division
<1> HIDE DEF q, r
<1>2. CASE r > 0
  <2>1. r - 1 \in 0..(d - 1) /\ a - 1 = d * q + (r - 1) /\ a - 1 \in Int
    BY <1>1, <1>2, Multiples
  <2>2. (a - 1) % d = r - 1
    BY <1>1, <2>1, OneRemainder
  <2> QED
    BY <1>2, <2>2 DEF r
<1>3. CASE ~(r > 0)
  <2>1. d - 1 \in 0..(d - 1) /\ a - 1 = d * (q - 1) + (d - 1) /\ q - 1 \in Int /\ a - 1 \in Int
    BY <1>1, <1>3, Multiples
  <2>2. (a - 1) % d = d - 1
    BY <2>1, OneRemainder
  <2> QED
    BY <1>3, <2>2 DEF r
<1> QED
  BY <1>2, <1>3

LEMMA RemainderWraps ==
  ASSUME NEW d \in Nat \ {0}
  PROVE  (d - 1) % d = (-1) % d /\ (0 - (d - 1)) % d = 1 % d
  BY SMT
-----------------------------------------------------------------------------
(* The paginator.  As long as no two handlers worked on the page at a time,*)
(* and no send reset it under one, the test of a handler holds until its   *)
(* change, and the page is one of the pages.  A thread that is beyond its  *)
(* test of the flag when the paginator is dead was so when it died.        *)
Working(p) == handler[p].pc \in {"step", "wrap", "read"}

Beyond(h) == h.pc \in {"alive", "step", "wrap", "read"} \/ h.answered > 0

HandlerOK(h) ==
  /\ h.pc \in {"listener", "alive", "step", "wrap", "read"} => h.left > 0
  /\ h.pc \in {"step", "wrap"} => h.sign \in {"right", "left"}

PageLinks ==
  /\ \A p \in Reaction : HandlerOK(handler[p])
  /\ ~alive /\ Paging!BeyondTest => caught
  /\ outOfRange => overlapped
  /\ usedFreed => caught /\ ~alive

TurnsAreSerial ==
  ~overlapped =>
    /\ currentPage \in 0..(PageCount - 1)
    /\ \A p, q \in Reaction : Working(p) /\ Working(q) => p = q
    /\ \A p \in Reaction : handler[p].pc = "step" => ~Paging!AtEdge(p)
    /\ \A p \in Reaction : handler[p].pc = "wrap" => Paging!AtEdge(p)

PageInv == Paging!TypeOK /\ PageLinks /\ TurnsAreSerial

LEMMA HandlerFields ==
  ASSUME Paging!TypeOK, NEW p \in Reaction
  PROVE  /\ handler[p] \in Paging!HandlerType
         /\ handler[p].pc \in {"unmade", "listener", "alive", "step", "wrap", "read", "done"}
         /\ handler[p].message \in 0..MaxSends /\ handler[p].sign \in Paging!Sign
         /\ handler[p].left \in Nat /\ handler[p].edits \in Nat
         /\ handler[p].answered \in Nat /\ handler[p].taken \in BOOLEAN
  BY DEF Paging!TypeOK, Paging!HandlerType

LEMMA PageInit == Paging!Init => PageInv
<1> SUFFICES ASSUME Paging!Init PROVE PageInv
  OBVIOUS
<1> USE PagingConstants DEF Paging!ConstantsAssumption, Paging!Init
<1>1. handler \in [Reaction -> Paging!HandlerType]
  BY DEF Paging!HandlerType, Paging!Sign
<1>2. {overlapped, usedFreed, caught, outOfRange} \subseteq BOOLEAN
  OBVIOUS
<1>3. Paging!TypeOK
  BY <1>1, <1>2 DEF Paging!TypeOK
<1>4. \A p \in Reaction : handler[p].pc = "unmade"
  OBVIOUS
<1>5. PageLinks
  BY <1>4 DEF PageLinks, HandlerOK
<1>6. TurnsAreSerial
  BY <1>4 DEF TurnsAreSerial, Working
<1> QED
  BY <1>3, <1>5, <1>6 DEF PageInv

(* A call of a listener ends, and nothing else changes for the thread.     *)
LEMMA OnwardFields ==
  ASSUME NEW h \in Paging!HandlerType, h.left > 0
  PROVE  /\ Paging!Onward(h) \in Paging!HandlerType
         /\ Paging!Onward(h).pc \in {"listener", "done"}
         /\ HandlerOK(Paging!Onward(h))
         /\ Paging!Onward(h).answered = h.answered
<1>1. h.left \in Nat /\ h.answered \in Nat
  BY DEF Paging!HandlerType
<1>2. CASE h.left > 1
  <2> DEFINE n == h.left - 1
  <2>1. Paging!Onward(h) = [h EXCEPT !.left = n, !.pc = "listener"]
    BY <1>2 DEF Paging!Onward
  <2>2. n \in Nat /\ n > 0
    BY <1>1, <1>2
  <2> HIDE DEF n
  <2> QED
    BY <2>1, <2>2 DEF Paging!HandlerType, HandlerOK
<1>3. CASE ~(h.left > 1)
  <2>1. Paging!Onward(h) = [h EXCEPT !.left = 0, !.pc = "done", !.sign = "none"]
    BY <1>3 DEF Paging!Onward
  <2>2. 0 \in Nat /\ "none" \in Paging!Sign
    BY DEF Paging!Sign
  <2> QED
    BY <2>1, <2>2 DEF Paging!HandlerType, HandlerOK
<1> QED
  BY <1>2, <1>3

(* A step of a reaction's threads: they change that reaction only, come    *)
(* beyond the test of a flag that is set only, and use what is freed only  *)
(* beyond the test.                                                        *)
LEMMA ReactionActs ==
  ASSUME PageInv, NEW p \in Reaction, Paging!React(p) \/ Paging!Handle(p)
  PROVE  /\ UNCHANGED <<alive, sends, arrival, listeners, messageId, caught>>
         /\ usedFreed' = usedFreed \/ (Beyond(handler[p]) /\ usedFreed' = (usedFreed \/ ~alive))
         /\ \E h \in Paging!HandlerType :
              /\ handler' = [handler EXCEPT ![p] = h]
              /\ HandlerOK(h)
              /\ Beyond(h) => alive \/ Beyond(handler[p])
<1> DEFINE g == handler[p]
           Acts(h) == /\ h \in Paging!HandlerType
                      /\ handler' = [handler EXCEPT ![p] = h]
                      /\ HandlerOK(h)
                      /\ Beyond(h) => alive \/ Beyond(g)
<1>1. /\ g \in Paging!HandlerType /\ HandlerOK(g)
      /\ g.left \in Nat /\ g.edits \in Nat /\ g.answered \in Nat
      /\ handler \in [Reaction -> Paging!HandlerType]
      /\ listeners \in Nat /\ sends \in 0..MaxSends /\ alive \in BOOLEAN
  BY HandlerFields DEF PageInv, PageLinks, Paging!TypeOK
<1>2. UNCHANGED <<alive, sends, arrival, listeners, messageId, caught>>
  BY DEF Paging!React, Paging!Handle, Paging!Call, Paging!Skip, Paging!Refuse, Paging!Turn,
         Paging!TestPage, Paging!ChangePage, Paging!ReadPage, Paging!Edited, Paging!TakeBack,
         Paging!sendVars
<1>3. usedFreed' = usedFreed \/ (Beyond(g) /\ usedFreed' = (usedFreed \/ ~alive))
  BY DEF Paging!React, Paging!Handle, Paging!Call, Paging!Skip, Paging!Refuse, Paging!Turn,
         Paging!TestPage, Paging!ChangePage, Paging!ReadPage, Paging!Edited, Paging!TakeBack,
         Paging!UseThis, Paging!Ours, Beyond
<1>4. CASE Paging!React(p)
  <2>1. PICK m \in 1..sends, sign \in Paging!Sign :
          handler' = [handler EXCEPT ![p].pc = "listener", ![p].message = m, ![p].sign = sign,
                                     ![p].left = listeners]
    BY <1>4 DEF Paging!React
  <2>2. m \in 0..MaxSends /\ listeners > 0
    <3>1. m \in Nat /\ m <= sends /\ sends \in Nat /\ sends <= MaxSends /\ MaxSends \in Nat
      BY <1>1, PagingConstants DEF Paging!ConstantsAssumption
    <3>2. m \in 0..MaxSends
      BY <3>1
    <3> QED
      BY <1>4, <3>2 DEF Paging!React
  <2> DEFINE h == [g EXCEPT !.pc = "listener", !.message = m, !.sign = sign, !.left = listeners]
  <2>3. h \in Paging!HandlerType /\ HandlerOK(h) /\ h.answered = g.answered /\ h.pc = "listener"
    BY <1>1, <2>2 DEF Paging!HandlerType, HandlerOK
  <2>4. handler' = [handler EXCEPT ![p] = h]
    BY <2>1
  <2> HIDE DEF h
  <2>5. Acts(h)
    BY <2>3, <2>4 DEF Beyond
  <2> QED
    BY <1>2, <1>3, <2>5
<1>5. CASE Paging!Call(p)
  <2>1. CASE alive
    <3> DEFINE h == [g EXCEPT !.pc = "alive"]
    <3>1. h \in Paging!HandlerType /\ HandlerOK(h)
      BY <1>1, <1>5 DEF Paging!HandlerType, HandlerOK, Paging!Call
    <3>2. handler' = [handler EXCEPT ![p] = h]
      BY <1>5, <2>1 DEF Paging!Call
    <3> HIDE DEF h
    <3>3. Acts(h)
      BY <2>1, <3>1, <3>2
    <3> QED
      BY <1>2, <1>3, <3>3
  <2>2. CASE ~alive
    <3>1. g.left > 0
      BY <1>1, <1>5 DEF HandlerOK, Paging!Call
    <3>2. handler' = [handler EXCEPT ![p] = Paging!Onward(g)]
      BY <1>5, <2>2 DEF Paging!Call
    <3>3. Acts(Paging!Onward(g))
      BY <1>1, <3>1, <3>2, OnwardFields DEF Beyond
    <3> QED
      BY <1>2, <1>3, <3>3
  <2> QED
    BY <2>1, <2>2
<1>6. CASE Paging!Skip(p)
  <2>1. g.left > 0
    BY <1>1, <1>6 DEF HandlerOK, Paging!Skip
  <2>2. handler' = [handler EXCEPT ![p] = Paging!Onward(g)]
    BY <1>6 DEF Paging!Skip
  <2>3. Acts(Paging!Onward(g))
    BY <1>1, <2>1, <2>2, OnwardFields DEF Beyond
  <2> QED
    BY <1>2, <1>3, <2>3
<1>7. CASE Paging!Refuse(p) \/ Paging!ReadPage(p)
  <2>1. g.left > 0 /\ Beyond(g)
    BY <1>1, <1>7 DEF HandlerOK, Beyond, Paging!Refuse, Paging!ReadPage, Paging!Ours
  <2>2. Paging!Onward(g) \in Paging!HandlerType /\ HandlerOK(Paging!Onward(g))
    BY <1>1, <2>1, OnwardFields
  <2> DEFINE t(o) == [o EXCEPT !.taken = TRUE]
             e(o) == [o EXCEPT !.edits = g.edits + 1]
  <2>3. ASSUME NEW o \in Paging!HandlerType, HandlerOK(o)
        PROVE  /\ t(o) \in Paging!HandlerType /\ HandlerOK(t(o))
               /\ e(o) \in Paging!HandlerType /\ HandlerOK(e(o))
    <3>1. g.edits + 1 \in Nat
      BY <1>1
    <3>2. t(o) \in Paging!HandlerType /\ HandlerOK(t(o))
      BY <2>3 DEF Paging!HandlerType, HandlerOK
    <3>3. e(o) \in Paging!HandlerType /\ HandlerOK(e(o))
      BY <2>3, <3>1 DEF Paging!HandlerType, HandlerOK
    <3> QED
      BY <3>2, <3>3
  <2>4. \/ handler' = [handler EXCEPT ![p] = t(Paging!Onward(g))]
        \/ handler' = [handler EXCEPT ![p] = e(Paging!Onward(g))]
    <3>1. CASE Paging!Refuse(p)
      BY <3>1, Zenon DEF Paging!Refuse
    <3>2. CASE Paging!ReadPage(p)
      BY <3>2, Zenon DEF Paging!ReadPage
    <3> QED
      BY <1>7, <3>1, <3>2
  <2> HIDE DEF t, e
  <2>5. Acts(t(Paging!Onward(g))) \/ Acts(e(Paging!Onward(g)))
    BY <2>1, <2>2, <2>3, <2>4
  <2> QED
    BY <1>2, <1>3, <2>5
<1>8. CASE Paging!TestPage(p)
  <2> DEFINE pc == IF Paging!AtEdge(p) THEN "wrap" ELSE "step"
             h == [g EXCEPT !.pc = pc]
  <2>1. handler' = [handler EXCEPT ![p] = h]
    BY <1>8 DEF Paging!TestPage
  <2>2. pc \in {"step", "wrap"}
    OBVIOUS
  <2> HIDE DEF pc
  <2>3. h \in Paging!HandlerType /\ HandlerOK(h) /\ Beyond(g)
    BY <1>1, <1>8, <2>2 DEF Paging!HandlerType, HandlerOK, Beyond, Paging!TestPage, Paging!Ours
  <2> HIDE DEF h
  <2>4. Acts(h)
    BY <2>1, <2>3
  <2> QED
    BY <1>2, <1>3, <2>4
<1>9. CASE Paging!ChangePage(p)
  <2> DEFINE h == [g EXCEPT !.pc = "read"]
  <2>1. handler' = [handler EXCEPT ![p] = h]
    BY <1>9 DEF Paging!ChangePage
  <2>2. h \in Paging!HandlerType /\ HandlerOK(h) /\ Beyond(g)
    BY <1>1, <1>9 DEF Paging!HandlerType, HandlerOK, Beyond, Paging!ChangePage
  <2> HIDE DEF h
  <2>3. Acts(h)
    BY <2>1, <2>2
  <2> QED
    BY <1>2, <1>3, <2>3
<1>10. CASE Paging!Edited(p)
  <2> DEFINE n == IF alive THEN g.answered + 1 ELSE g.answered
             h == [g EXCEPT !.edits = @ - 1, !.answered = n]
  <2>1. handler' = [handler EXCEPT ![p] = h]
    BY <1>10 DEF Paging!Edited
  <2>2. n \in Nat /\ (n > 0 => alive \/ g.answered > 0) /\ g.edits - 1 \in Nat
    BY <1>1, <1>10 DEF Paging!Edited
  <2> HIDE DEF n
  <2>3. h \in Paging!HandlerType /\ HandlerOK(h) /\ (Beyond(h) => alive \/ Beyond(g))
    BY <1>1, <2>2 DEF Paging!HandlerType, HandlerOK, Beyond
  <2> HIDE DEF h
  <2>4. Acts(h)
    BY <2>1, <2>3
  <2> QED
    BY <1>2, <1>3, <2>4
<1>11. CASE Paging!TakeBack(p)
  <2> DEFINE h == [g EXCEPT !.answered = @ - 1, !.taken = TRUE]
  <2>1. handler' = [handler EXCEPT ![p] = h]
    BY <1>11 DEF Paging!TakeBack
  <2>2. g.answered - 1 \in Nat /\ Beyond(g)
    BY <1>1, <1>11 DEF Paging!TakeBack, Beyond
  <2>3. h \in Paging!HandlerType /\ HandlerOK(h)
    BY <1>1, <2>2 DEF Paging!HandlerType, HandlerOK
  <2> HIDE DEF h
  <2>4. Acts(h)
    BY <2>1, <2>2, <2>3
  <2> QED
    BY <1>2, <1>3, <2>4
<1> QED
  BY <1>4, <1>5, <1>6, <1>7, <1>8, <1>9, <1>10, <1>11 DEF Paging!Handle, Paging!Turn

LEMMA PageTypeStep == PageInv /\ [Paging!Next]_pageVars => Paging!TypeOK'
<1> SUFFICES ASSUME PageInv, [Paging!Next]_pageVars PROVE Paging!TypeOK'
  OBVIOUS
<1> USE PagingConstants DEF Paging!ConstantsAssumption
<1> DEFINE Arrivals == [1..MaxSends -> {"unsent", "sent", "alive", "asleep", "done"}]
<1>1. /\ alive \in BOOLEAN /\ sends \in 0..MaxSends /\ arrival \in Arrivals
      /\ listeners \in Nat /\ messageId \in 0..MaxSends /\ currentPage \in Int
      /\ handler \in [Reaction -> Paging!HandlerType]
      /\ overlapped \in BOOLEAN /\ usedFreed \in BOOLEAN /\ caught \in BOOLEAN
      /\ outOfRange \in BOOLEAN
  BY DEF PageInv, Paging!TypeOK
<1> SUFFICES /\ alive' \in BOOLEAN /\ sends' \in 0..MaxSends /\ arrival' \in Arrivals
             /\ listeners' \in Nat /\ messageId' \in 0..MaxSends /\ currentPage' \in Int
             /\ handler' \in [Reaction -> Paging!HandlerType]
             /\ overlapped' \in BOOLEAN /\ usedFreed' \in BOOLEAN /\ caught' \in BOOLEAN
             /\ outOfRange' \in BOOLEAN
  BY DEF Paging!TypeOK
<1>2. CASE Paging!Send
  <2>1. arrival' \in Arrivals
    BY <1>1, <1>2 DEF Paging!Send
  <2>2. sends' \in 0..MaxSends /\ overlapped' \in BOOLEAN /\ currentPage' \in Int
    BY <1>1, <1>2 DEF Paging!Send, Paging!Busy
  <2> QED
    BY <1>1, <1>2, <2>1, <2>2 DEF Paging!Send
<1>3. ASSUME NEW m \in 1..MaxSends, Paging!Arrive(m) \/ Paging!KeepMessage(m) \/ Paging!Listen(m)
      PROVE  /\ arrival' \in Arrivals /\ listeners' \in Nat /\ messageId' \in 0..MaxSends
             /\ usedFreed' \in BOOLEAN
             /\ UNCHANGED <<alive, sends, currentPage, handler, overlapped, caught, outOfRange>>
  <2>1. CASE Paging!Arrive(m)
    BY <1>1, <2>1 DEF Paging!Arrive
  <2>2. CASE Paging!KeepMessage(m)
    BY <1>1, <2>2 DEF Paging!KeepMessage, Paging!UseThis
  <2>3. CASE Paging!Listen(m)
    BY <1>1, <2>3 DEF Paging!Listen, Paging!UseThis
  <2> QED
    BY <1>3, <2>1, <2>2, <2>3
<1>4. CASE Paging!Destroy
  BY <1>1, <1>4 DEF Paging!Destroy, Paging!BeyondTest
<1>5. ASSUME NEW p \in Reaction, Paging!React(p) \/ Paging!Handle(p)
      PROVE  /\ handler' \in [Reaction -> Paging!HandlerType] /\ currentPage' \in Int
             /\ overlapped' \in BOOLEAN /\ usedFreed' \in BOOLEAN /\ outOfRange' \in BOOLEAN
             /\ UNCHANGED <<alive, sends, arrival, listeners, messageId, caught>>
  <2>1. handler' \in [Reaction -> Paging!HandlerType]
    BY <1>1, <1>5, ReactionActs
  <2>2. UNCHANGED <<alive, sends, arrival, listeners, messageId, caught>> /\ usedFreed' \in BOOLEAN
    BY <1>1, <1>5, ReactionActs
  <2>3. currentPage' \in Int /\ overlapped' \in BOOLEAN /\ outOfRange' \in BOOLEAN
    <3>1. CASE Paging!TestPage(p)
      BY <1>1, <3>1 DEF Paging!TestPage, Paging!Busy
    <3>2. CASE Paging!ChangePage(p)
      BY <1>1, <3>2 DEF Paging!ChangePage
    <3>3. CASE Paging!ReadPage(p)
      BY <1>1, <3>3 DEF Paging!ReadPage
    <3>4. CASE UNCHANGED <<currentPage, overlapped, outOfRange>>
      BY <1>1, <3>4
    <3> QED
      BY <1>5, <3>1, <3>2, <3>3, <3>4
      DEF Paging!React, Paging!Handle, Paging!Call, Paging!Skip, Paging!Refuse, Paging!Turn,
          Paging!Edited, Paging!TakeBack
  <2> QED
    BY <2>1, <2>2, <2>3
<1>6. CASE UNCHANGED pageVars
  BY <1>1, <1>6 DEF pageVars
<1> QED
  BY <1>1, <1>2, <1>3, <1>4, <1>5, <1>6 DEF Paging!Next

LEMMA PageLinksStep ==
  PageInv /\ [Paging!Next]_pageVars /\ (outOfRange' => overlapped') => PageLinks'
<1> SUFFICES ASSUME PageInv, [Paging!Next]_pageVars, outOfRange' => overlapped' PROVE PageLinks'
  OBVIOUS
<1>0. /\ Paging!TypeOK /\ PageLinks
      /\ handler \in [Reaction -> Paging!HandlerType]
  BY DEF PageInv, Paging!TypeOK
<1>1. Paging!BeyondTest <=> \/ \E m \in 1..MaxSends : arrival[m] \in {"alive", "asleep"}
                            \/ \E p \in Reaction : Beyond(handler[p])
  BY DEF Paging!BeyondTest, Beyond
<1>2. Paging!BeyondTest' <=> \/ \E m \in 1..MaxSends : arrival'[m] \in {"alive", "asleep"}
                             \/ \E p \in Reaction : Beyond(handler'[p])
  BY DEF Paging!BeyondTest, Beyond
<1>3. CASE Paging!Send
  <2>1. /\ alive /\ alive' /\ handler' = handler /\ usedFreed' = usedFreed /\ caught' = caught
    BY <1>3 DEF Paging!Send
  <2> QED
    BY <1>0, <2>1 DEF PageLinks, HandlerOK
<1>4. ASSUME NEW m \in 1..MaxSends, Paging!Arrive(m) \/ Paging!KeepMessage(m) \/ Paging!Listen(m)
      PROVE  PageLinks'
  <2>1. /\ alive' = alive /\ handler' = handler /\ caught' = caught
    BY <1>4 DEF Paging!Arrive, Paging!KeepMessage, Paging!Listen
  <2>2. ~alive /\ Paging!BeyondTest' => Paging!BeyondTest
    <3>1. CASE Paging!Arrive(m)
      BY <1>0, <1>1, <1>2, <2>1, <3>1 DEF Paging!Arrive, Paging!TypeOK
    <3>2. CASE Paging!KeepMessage(m) \/ Paging!Listen(m)
      BY <1>1, <3>2 DEF Paging!KeepMessage, Paging!Listen
    <3> QED
      BY <1>4, <3>1, <3>2
  <2>3. usedFreed' => usedFreed \/ (~alive /\ Paging!BeyondTest)
    BY <1>1, <1>4 DEF Paging!Arrive, Paging!KeepMessage, Paging!Listen, Paging!UseThis
  <2> QED
    BY <1>0, <2>1, <2>2, <2>3 DEF PageLinks, HandlerOK
<1>5. CASE Paging!Destroy
  <2>1. /\ handler' = handler /\ arrival' = arrival /\ caught' = Paging!BeyondTest
        /\ alive /\ usedFreed' = usedFreed
    BY <1>5 DEF Paging!Destroy
  <2>2. Paging!BeyondTest' <=> Paging!BeyondTest
    BY <1>1, <1>2, <2>1
  <2> QED
    BY <1>0, <2>1, <2>2 DEF PageLinks, HandlerOK
<1>6. ASSUME NEW p \in Reaction, Paging!React(p) \/ Paging!Handle(p) PROVE PageLinks'
  <2>1. PICK h \in Paging!HandlerType :
          /\ handler' = [handler EXCEPT ![p] = h]
          /\ HandlerOK(h)
          /\ Beyond(h) => alive \/ Beyond(handler[p])
    BY <1>6, ReactionActs
  <2>2. /\ UNCHANGED <<alive, arrival, caught>>
        /\ usedFreed' => usedFreed \/ (Beyond(handler[p]) /\ ~alive)
    BY <1>6, ReactionActs
  <2>3. handler'[p] = h /\ \A q \in Reaction : q # p => handler'[q] = handler[q]
    BY <1>0, <2>1
  <2>4. \A q \in Reaction : HandlerOK(handler'[q])
    BY <1>0, <2>1, <2>3 DEF PageLinks
  <2>5. \A q \in Reaction : Beyond(handler'[q]) => alive \/ Paging!BeyondTest
    BY <1>1, <2>1, <2>3
  <2>6. ~alive' /\ Paging!BeyondTest' => caught'
    BY <1>0, <1>1, <1>2, <2>2, <2>5 DEF PageLinks
  <2>7. usedFreed' => caught' /\ ~alive'
    BY <1>0, <1>1, <2>2 DEF PageLinks
  <2> QED
    BY <2>4, <2>6, <2>7 DEF PageLinks, HandlerOK
<1>7. CASE UNCHANGED pageVars
  BY <1>0, <1>7 DEF pageVars, PageLinks, HandlerOK, Paging!BeyondTest
<1> QED
  BY <1>3, <1>4, <1>5, <1>6, <1>7 DEF Paging!Next

LEMMA TurnsStep ==
  PageInv /\ [Paging!Next]_pageVars => TurnsAreSerial' /\ (outOfRange' => overlapped')
<1> SUFFICES ASSUME PageInv, [Paging!Next]_pageVars
             PROVE  TurnsAreSerial' /\ (outOfRange' => overlapped')
  OBVIOUS
<1>0. /\ TurnsAreSerial /\ (outOfRange => overlapped)
      /\ handler \in [Reaction -> Paging!HandlerType] /\ currentPage \in Int
      /\ PageCount \in Nat \ {0}
      /\ \A p \in Reaction : handler[p].pc \in {"step", "wrap"} => handler[p].sign \in {"right", "left"}
  BY PagingConstants
  DEF Paging!ConstantsAssumption, PageInv, PageLinks, HandlerOK, Paging!TypeOK
<1> USE DEF Working, Paging!AtEdge
<1>1. CASE Paging!Send
  <2>1. /\ ~overlapped' => \A p \in Reaction : handler[p].pc \notin {"step", "wrap", "read"}
        /\ currentPage' = 0 /\ handler' = handler
        /\ outOfRange' => overlapped'
    BY <1>0, <1>1 DEF Paging!Send, Paging!Busy
  <2> QED
    BY <1>0, <2>1 DEF TurnsAreSerial
<1>2. CASE UNCHANGED <<currentPage, handler, overlapped, outOfRange>>
  BY <1>0, <1>2 DEF TurnsAreSerial
<1>3. ASSUME NEW p \in Reaction,
             handler'[p].pc \notin {"step", "wrap", "read"},
             \A q \in Reaction : q # p => handler'[q] = handler[q],
             UNCHANGED <<currentPage, overlapped>>,
             outOfRange' => outOfRange \/ overlapped
      PROVE  TurnsAreSerial' /\ (outOfRange' => overlapped')
  BY <1>0, <1>3 DEF TurnsAreSerial
<1>4. ASSUME NEW p \in Reaction,
             handler'[p].pc = handler[p].pc, handler'[p].sign = handler[p].sign,
             \A q \in Reaction : q # p => handler'[q] = handler[q],
             UNCHANGED <<currentPage, overlapped, outOfRange>>
      PROVE  TurnsAreSerial' /\ (outOfRange' => overlapped')
  BY <1>0, <1>4 DEF TurnsAreSerial
<1>5. ASSUME NEW p \in Reaction, Paging!React(p)
      PROVE  TurnsAreSerial' /\ (outOfRange' => overlapped')
  BY <1>0, <1>3, <1>5 DEF Paging!React, Paging!HandlerType
<1>6. ASSUME NEW p \in Reaction, Paging!Call(p) \/ Paging!Skip(p) \/ Paging!Refuse(p)
      PROVE  TurnsAreSerial' /\ (outOfRange' => overlapped')
  <2>1. handler'[p].pc \notin {"step", "wrap", "read"}
    <3>1. Paging!Onward(handler[p]).pc \notin {"step", "wrap", "read"}
      BY <1>0 DEF Paging!Onward, Paging!HandlerType
    <3>2. [Paging!Onward(handler[p]) EXCEPT !.taken = TRUE].pc = Paging!Onward(handler[p]).pc
      BY <1>0 DEF Paging!Onward, Paging!HandlerType
    <3> QED
      BY <1>0, <1>6, <3>1, <3>2 DEF Paging!Call, Paging!Skip, Paging!Refuse, Paging!HandlerType
  <2>2. /\ \A q \in Reaction : q # p => handler'[q] = handler[q]
        /\ UNCHANGED <<currentPage, overlapped, outOfRange>>
    BY <1>0, <1>6 DEF Paging!Call, Paging!Skip, Paging!Refuse
  <2> QED
    BY <1>3, <2>1, <2>2
<1>7. ASSUME NEW p \in Reaction, Paging!TestPage(p)
      PROVE  TurnsAreSerial' /\ (outOfRange' => overlapped')
  <2>1. /\ handler'[p].pc = (IF Paging!AtEdge(p) THEN "wrap" ELSE "step")
        /\ handler'[p].sign = handler[p].sign
        /\ \A q \in Reaction : q # p => handler'[q] = handler[q]
        /\ UNCHANGED <<currentPage, outOfRange>>
        /\ overlapped' = (overlapped \/ Paging!Busy)
    BY <1>0, <1>7 DEF Paging!TestPage, Paging!HandlerType
  <2> QED
    BY <1>0, <2>1 DEF TurnsAreSerial, Paging!Busy
<1>8. ASSUME NEW p \in Reaction, Paging!ChangePage(p)
      PROVE  TurnsAreSerial' /\ (outOfRange' => overlapped')
  <2>1. /\ handler[p].pc \in {"step", "wrap"} /\ handler[p].sign \in {"right", "left"}
        /\ handler'[p].pc = "read"
        /\ \A q \in Reaction : q # p => handler'[q] = handler[q]
        /\ UNCHANGED <<overlapped, outOfRange>>
        /\ handler[p].pc = "step" =>
             currentPage' = IF handler[p].sign = "left" THEN currentPage - 1 ELSE currentPage + 1
        /\ handler[p].pc = "wrap" =>
             currentPage' = IF handler[p].sign = "left" THEN PageCount - 1 ELSE 0
    BY <1>0, <1>8 DEF Paging!ChangePage, Paging!HandlerType
  <2>2. ~overlapped => currentPage' \in 0..(PageCount - 1)
    BY <1>0, <2>1 DEF TurnsAreSerial
  <2>3. ~overlapped => \A q \in Reaction : q # p => handler'[q].pc \notin {"step", "wrap", "read"}
    BY <1>0, <2>1 DEF TurnsAreSerial
  <2> QED
    BY <1>0, <2>1, <2>2, <2>3 DEF TurnsAreSerial
<1>9. ASSUME NEW p \in Reaction, Paging!ReadPage(p)
      PROVE  TurnsAreSerial' /\ (outOfRange' => overlapped')
  <2>1. /\ \A q \in Reaction : q # p => handler'[q] = handler[q]
        /\ UNCHANGED <<currentPage, overlapped>>
        /\ outOfRange' = (outOfRange \/ currentPage \notin 0..(PageCount - 1))
        /\ handler' = [handler EXCEPT ![p] = [Paging!Onward(@) EXCEPT !.edits = handler[p].edits + 1]]
    BY <1>0, <1>9 DEF Paging!ReadPage
  <2>2. handler'[p].pc \notin {"step", "wrap", "read"}
    BY <1>0, <2>1 DEF Paging!Onward, Paging!HandlerType
  <2>3. outOfRange' => outOfRange \/ overlapped
    BY <2>1, <1>0 DEF TurnsAreSerial
  <2> QED
    BY <1>3, <2>1, <2>2, <2>3
<1>10. ASSUME NEW p \in Reaction, Paging!Edited(p) \/ Paging!TakeBack(p)
       PROVE  TurnsAreSerial' /\ (outOfRange' => overlapped')
  BY <1>0, <1>4, <1>10 DEF Paging!Edited, Paging!TakeBack, Paging!HandlerType
<1>11. ASSUME NEW m \in 1..MaxSends, Paging!Arrive(m) \/ Paging!KeepMessage(m) \/ Paging!Listen(m)
       PROVE  TurnsAreSerial' /\ (outOfRange' => overlapped')
  BY <1>2, <1>11 DEF Paging!Arrive, Paging!KeepMessage, Paging!Listen
<1>12. CASE Paging!Destroy \/ UNCHANGED pageVars
  BY <1>2, <1>12 DEF Paging!Destroy, pageVars
<1> QED
  BY <1>1, <1>5, <1>6, <1>7, <1>8, <1>9, <1>10, <1>11, <1>12
  DEF Paging!Next, Paging!Handle, Paging!Turn

LEMMA PageStep == PageInv /\ [Paging!Next]_pageVars => PageInv'
  BY PageTypeStep, PageLinksStep, TurnsStep DEF PageInv

(* One reaction turns by one, or from the last page to the first and back. *)
LEMMA TurnByOne ==
  ASSUME PageInv, NEW p \in Reaction, Paging!ChangePage(p), ~overlapped
  PROVE  (currentPage' - currentPage) % PageCount
           = (IF handler[p].sign = "right" THEN 1 ELSE -1) % PageCount
<1>1. /\ handler[p].pc \in {"step", "wrap"} /\ handler[p].sign \in {"right", "left"}
      /\ handler[p].pc = "wrap" => Paging!AtEdge(p)
      /\ currentPage \in 0..(PageCount - 1) /\ PageCount \in Nat \ {0}
      /\ handler[p].pc = "step" =>
           currentPage' = IF handler[p].sign = "left" THEN currentPage - 1 ELSE currentPage + 1
      /\ handler[p].pc = "wrap" =>
           currentPage' = IF handler[p].sign = "left" THEN PageCount - 1 ELSE 0
  BY PagingConstants
  DEF PageInv, PageLinks, HandlerOK, TurnsAreSerial, Paging!ChangePage, Paging!ConstantsAssumption
<1>2. CASE handler[p].pc = "step"
  <2>1. currentPage' - currentPage = IF handler[p].sign = "right" THEN 1 ELSE -1
    BY <1>1, <1>2
  <2> QED
    BY <2>1
<1>3. CASE handler[p].pc = "wrap" /\ handler[p].sign = "right"
  <2>1. currentPage' - currentPage = 0 - (PageCount - 1)
    BY <1>1, <1>3 DEF Paging!AtEdge
  <2> QED
    BY <1>1, <1>3, <2>1, RemainderWraps
<1>4. CASE handler[p].pc = "wrap" /\ handler[p].sign = "left"
  <2>1. currentPage' - currentPage = PageCount - 1
    BY <1>1, <1>4 DEF Paging!AtEdge
  <2> QED
    BY <1>1, <1>4, <2>1, RemainderWraps
<1> QED
  BY <1>1, <1>2, <1>3, <1>4

(* A paginator turns one page for one reaction; it shows a page that does  *)
(* not exist only after two turns overlapped, and is used after its        *)
(* destructor only by a thread that was beyond its test of the flag then:  *)
(* an answer to a send, a listener or the callback of an edit.             *)
THEOREM PagesStaySound == MCSpec => Paging!PagesAreSound
<1>1. MCInit => PageInv
  BY PageInit DEF MCInit
<1>2. [MCNext]_allVars => [Paging!Next]_pageVars
  BY DEF MCNext, allVars
<1>3. PageInv => Paging!TypeOK /\ Paging!OutOfRangeHasCause /\ Paging!FreedUseHasCause
  BY DEF PageInv, PageLinks, Paging!OutOfRangeHasCause, Paging!FreedUseHasCause
<1>4. PageInv =>
        [\A p \in Reaction :
           Paging!ChangePage(p) /\ ~overlapped /\ sends = 1
             => (currentPage' - currentPage) % PageCount
                  = (IF handler[p].sign = "right" THEN 1 ELSE -1) % PageCount]_(Paging!vars)
  BY TurnByOne
<1>5. PageInv /\ [MCNext]_allVars => PageInv'
  BY <1>2, PageStep
<1> QED
  BY <1>1, <1>3, <1>4, <1>5, PTL DEF MCSpec, Paging!PagesAreSound, Paging!TurnIsOne
-----------------------------------------------------------------------------
(* Help menus.  The session of a menu is at the page its last turn chose,  *)
(* turns are numbered without gaps, and what a message shows, if no edit   *)
(* failed or was overtaken, is the last turn whose edit arrived: those     *)
(* after it are still in work.                                             *)
InWork == {"turned", "editing"}

(* The turns of a menu, either way. *)
Count(made) == made[Right] + made[Left]

(* The page counts of a menu. *)
MenusOK ==
  \A m \in Menu :
    /\ session[m].currentPage = (turns[m][Right] - turns[m][Left]) % session[m].maxPages
    /\ 3 * (session[m].maxPages - 1) < commands
    /\ session[m].open => menu[m] = "done"
    /\ menu[m] = "none" => turns[m][Right] = 0 /\ turns[m][Left] = 0

(* A reaction that has turned, and no other, has its number; the last one  *)
(* chose the page of the session.                                          *)
ReactionsOK ==
  \A p \in Press :
    /\ press[p].turn <= Count(turns[press[p].menu])
    /\ press[p].turn > 0 =>
         /\ press[p].by = session[press[p].menu].user
         /\ 3 * press[p].page < commands
         /\ press[p].turn = Count(turns[press[p].menu]) =>
              press[p].page = session[press[p].menu].currentPage
    /\ press[p].pc \in {"unmade", "made", "ignored"} => press[p].turn = 0
    /\ press[p].pc \in {"turned", "editing", "edited"} => press[p].turn > 0
    /\ press[p].pc \in {"editing", "edited"} => 3 * press[p].page < press[p].of

(* The turns of a menu are numbered. *)
NumberedOK ==
  \A m \in Menu :
    /\ \A n \in 1..Count(turns[m]) : \E p \in Press : press[p].menu = m /\ press[p].turn = n
    /\ \A p, q \in Press :
         press[p].menu = m /\ press[q].menu = m /\ press[p].turn > 0
           /\ press[p].turn = press[q].turn => p = q

(* What a message shows. *)
ShownOK ==
  \A m \in Menu :
    m \notin overtaken =>
      /\ shown[m].turn <= Count(turns[m])
      /\ shown[m].turn = 0 => shown[m].page = 0
      /\ \A p \in Press :
           press[p].menu = m /\ press[p].turn > 0 =>
             /\ press[p].turn = shown[m].turn => press[p].page = shown[m].page
             /\ press[p].turn > shown[m].turn => press[p].pc \in InWork

HelpInv == Help!TypeOK /\ MenusOK /\ ReactionsOK /\ NumberedOK /\ ShownOK

LEMMA PressFields ==
  ASSUME Help!TypeOK, NEW p \in Press
  PROVE  /\ press[p].pc \in {"unmade", "made", "turned", "editing", "edited", "ignored", "done"}
         /\ press[p].menu \in Menu /\ press[p].by \in User \cup {Bot}
         /\ press[p].emoji \in Help!Emoji
         /\ press[p].page \in Nat /\ press[p].turn \in Nat /\ press[p].of \in Nat
  BY DEF Help!TypeOK, Help!PressType

LEMMA MenuFields ==
  ASSUME Help!TypeOK, NEW m \in Menu
  PROVE  /\ session[m].open \in BOOLEAN /\ session[m].currentPage \in Nat
         /\ session[m].maxPages \in Nat \ {0} /\ session[m].user \in User
         /\ session[m].currentPage < session[m].maxPages
         /\ shown[m].page \in Nat /\ shown[m].turn \in Nat
         /\ turns[m][Right] \in Nat /\ turns[m][Left] \in Nat
         /\ Count(turns[m]) \in Nat
         /\ menu[m] \in {"none", "sent", "done"} /\ commands \in Nat \ {0}
<1>1. session[m] \in Help!SessionType /\ session[m].currentPage < session[m].maxPages
      /\ shown[m] \in [page : Nat, turn : Nat] /\ turns[m] \in [{Right, Left} -> Nat]
      /\ menu[m] \in {"none", "sent", "done"} /\ commands \in Nat \ {0}
  BY DEF Help!TypeOK
<1> QED
  BY <1>1 DEF Help!SessionType, Count

LEMMA HelpInit == Help!Init => HelpInv
<1> SUFFICES ASSUME Help!Init PROVE HelpInv
  OBVIOUS
<1> USE HelpConstants DEF Help!ConstantsAssumption
<1>1. /\ commands = FirstCommands /\ menu = [m \in Menu |-> "none"]
      /\ session \in [Menu -> [open : {FALSE}, currentPage : {0}, maxPages : {1}, user : User]]
      /\ shown = [m \in Menu |-> [page |-> 0, turn |-> 0]]
      /\ turns = [m \in Menu |-> [emoji \in {Right, Left} |-> 0]]
      /\ overtaken = {}
  BY DEF Help!Init
<1>2. PICK m \in Menu :
        press = [p \in Press |-> [pc |-> "unmade", menu |-> m, by |-> Bot, emoji |-> Other,
                                  page |-> 0, turn |-> 0, of |-> 0]]
  BY DEF Help!Init
<1>3. ASSUME NEW s \in [open : {FALSE}, currentPage : {0}, maxPages : {1}, user : User]
      PROVE  s \in Help!SessionType
  <2>1. /\ s = [open |-> s.open, currentPage |-> s.currentPage, maxPages |-> s.maxPages,
                user |-> s.user]
        /\ s.open = FALSE /\ s.currentPage = 0 /\ s.maxPages = 1 /\ s.user \in User
    OBVIOUS
  <2>2. s.open \in BOOLEAN
    BY <2>1, Zenon
  <2>3. s.currentPage \in Nat /\ s.maxPages \in Nat \ {0}
    BY <2>1
  <2> QED
    BY <2>1, <2>2, <2>3 DEF Help!SessionType
<1>4. session \in [Menu -> Help!SessionType]
  BY <1>1, <1>3
<1>5. press \in [Press -> Help!PressType]
  BY <1>2 DEF Help!PressType, Help!Emoji
<1>6. ASSUME NEW k \in Menu
      PROVE  /\ session[k].currentPage = 0 /\ session[k].maxPages = 1 /\ ~session[k].open
             /\ turns[k][Right] = 0 /\ turns[k][Left] = 0 /\ Count(turns[k]) = 0
             /\ shown[k].turn = 0 /\ shown[k].page = 0
  <2>1. session[k] \in [open : {FALSE}, currentPage : {0}, maxPages : {1}, user : User]
    BY <1>1
  <2>4. session[k].currentPage = 0 /\ session[k].maxPages = 1
    BY <2>1
  <2>5. session[k].open = FALSE
    BY <2>1
  <2>2. turns[k] = [emoji \in {Right, Left} |-> 0] /\ shown[k] = [page |-> 0, turn |-> 0]
    BY <1>1
  <2>3. turns[k][Right] = 0 /\ turns[k][Left] = 0 /\ shown[k].turn = 0 /\ shown[k].page = 0
    BY <2>2
  <2> QED
    BY <2>3, <2>4, <2>5 DEF Count
<1>7. /\ shown \in [Menu -> [page : Nat, turn : Nat]]
      /\ turns \in [Menu -> [{Right, Left} -> Nat]]
  BY <1>1
<1>8. Help!TypeOK
  BY <1>1, <1>4, <1>5, <1>6, <1>7 DEF Help!TypeOK
<1>9. \A p \in Press : press[p].turn = 0 /\ press[p].pc = "unmade" /\ press[p].menu = m
  BY <1>2
<1>10. MenusOK
  <2>1. (0 - 0) % 1 = 0
    BY OneRemainder
  <2> QED
    BY <1>1, <1>6, <2>1 DEF MenusOK
<1>11. ReactionsOK
  BY <1>6, <1>9 DEF ReactionsOK
<1>12. NumberedOK
  BY <1>6, <1>9 DEF NumberedOK
<1>13. ShownOK
  BY <1>6, <1>9 DEF ShownOK
<1> QED
  BY <1>8, <1>10, <1>11, <1>12, <1>13 DEF HelpInv

(* Steps that change no session, no turn and nothing that is shown, and the*)
(* place of one reaction at most.                                          *)
LEMMA ReactionGoesOn ==
  ASSUME HelpInv, Help!TypeOK', NEW p \in Press,
         UNCHANGED <<commands, menu, session, shown, turns>>,
         overtaken \subseteq overtaken',
         \A q \in Press : q # p => press'[q] = press[q],
         press'[p].page = press[p].page, press'[p].turn = press[p].turn,
         press[p].turn > 0 => press'[p].menu = press[p].menu /\ press'[p].by = press[p].by,
         press'[p].pc \in {"unmade", "made", "ignored"} => press[p].turn = 0,
         press'[p].pc \in {"turned", "editing", "edited"} => press[p].turn > 0,
         press'[p].pc \in {"editing", "edited"} => 3 * press[p].page < press'[p].of,
         press[p].pc \in InWork =>
           press'[p].pc \in InWork \/ press[p].menu \in overtaken'
  PROVE  HelpInv'
<1>1. \A m \in Menu : Count(turns'[m]) = Count(turns[m]) /\ Count(turns[m]) \in Nat
  BY MenuFields DEF Count, HelpInv
<1>2. press'[p].menu \in Menu /\ press[p].menu \in Menu /\ press[p].turn \in Nat
  BY PressFields DEF HelpInv, Help!TypeOK, Help!PressType
<1>3. MenusOK'
  BY DEF HelpInv, MenusOK
<1>4. ReactionsOK'
  BY <1>1, <1>2, PressFields DEF HelpInv, ReactionsOK
<1>5. NumberedOK'
  BY <1>1, <1>2, PressFields DEF HelpInv, NumberedOK
<1>6. ShownOK'
  BY <1>1, <1>2, PressFields DEF HelpInv, ShownOK
<1> QED
  BY <1>3, <1>4, <1>5, <1>6 DEF HelpInv

LEMMA PagesOf ==
  ASSUME NEW n \in Nat \ {0}
  PROVE  Help!Pages(n) \in Nat \ {0} /\ 3 * (Help!Pages(n) - 1) < n
  BY DEF Help!Pages, Help!PageSize

LEMMA RegisterStep == HelpInv /\ Help!RegisterCommand => HelpInv'
<1> SUFFICES ASSUME HelpInv, Help!RegisterCommand PROVE HelpInv'
  OBVIOUS
<1>1. /\ commands' = commands + 1 /\ commands \in Nat \ {0}
      /\ UNCHANGED <<menu, session, shown, press, turns, overtaken>>
  BY DEF Help!RegisterCommand, HelpInv, Help!TypeOK
<1>2. Help!TypeOK'
  <2>1. commands' \in Nat \ {0}
    BY <1>1
  <2> QED
    BY <1>1, <2>1 DEF HelpInv, Help!TypeOK
<1>3. MenusOK'
  BY <1>1, MenuFields DEF HelpInv, MenusOK
<1>4. \A m : Count(turns'[m]) = Count(turns[m])
  BY <1>1 DEF Count
<1>5. ReactionsOK'
  BY <1>1, <1>4, PressFields DEF HelpInv, ReactionsOK
<1>6. NumberedOK' /\ ShownOK'
  BY <1>1, <1>4 DEF HelpInv, NumberedOK, ShownOK
<1> QED
  BY <1>2, <1>3, <1>5, <1>6 DEF HelpInv

(* A menu that is made, and one whose session is stored.                   *)
LEMMA MenuStep ==
  ASSUME HelpInv, NEW m \in Menu, Help!Help(m) \/ Help!Sent(m)
  PROVE  HelpInv'
<1>1. UNCHANGED <<commands, shown, press, turns, overtaken>>
  BY DEF Help!Help, Help!Sent
<1>2. \A k : Count(turns'[k]) = Count(turns[k])
  BY <1>1 DEF Count
<1>3. /\ session \in [Menu -> Help!SessionType] /\ menu \in [Menu -> {"none", "sent", "done"}]
      /\ commands \in Nat \ {0}
  BY DEF HelpInv, Help!TypeOK
<1>4. /\ session' \in [Menu -> Help!SessionType] /\ menu' \in [Menu -> {"none", "sent", "done"}]
      /\ \A k \in Menu : k # m => session'[k] = session[k] /\ menu'[k] = menu[k]
      /\ session'[m].currentPage = session[m].currentPage /\ session'[m].user = session[m].user
      /\ menu'[m] \in {"sent", "done"}
      /\ session'[m].open => menu'[m] = "done"
      /\ session'[m].currentPage < session'[m].maxPages
      /\ 3 * (session'[m].maxPages - 1) < commands
      /\ session'[m].currentPage = (turns[m][Right] - turns[m][Left]) % session'[m].maxPages
  <2>1. CASE Help!Help(m)
    <3>1. menu[m] = "none" /\ turns[m][Right] = 0 /\ turns[m][Left] = 0 /\ ~session[m].open
      BY <2>1 DEF Help!Help, HelpInv, MenusOK
    <3>2. /\ menu' = [menu EXCEPT ![m] = "sent"]
          /\ session' = [session EXCEPT ![m].maxPages = Help!Pages(commands)]
      BY <2>1 DEF Help!Help
    <3>3. Help!Pages(commands) \in Nat \ {0} /\ 3 * (Help!Pages(commands) - 1) < commands
      BY <1>3, PagesOf
    <3> DEFINE n == Help!Pages(commands)
    <3> HIDE DEF n
    <3>4. /\ session' \in [Menu -> Help!SessionType]
          /\ session'[m].open = session[m].open /\ session'[m].user = session[m].user
          /\ session'[m].currentPage = session[m].currentPage
          /\ session'[m].maxPages = n
          /\ \A k \in Menu : k # m => session'[k] = session[k]
      BY <1>3, <3>2, <3>3 DEF Help!SessionType, n
    <3>5. \A d \in Nat \ {0} : 0 % d = 0
      <4> TAKE d \in Nat \ {0}
      <4>1. 0 = d * 0 + 0 /\ 0 \in 0..(d - 1)
        OBVIOUS
      <4> QED
        BY <4>1, OneRemainder
    <3>6. session[m].currentPage = (0 - 0) % session[m].maxPages
      BY <3>1 DEF HelpInv, MenusOK
    <3>7. session[m].currentPage = 0 /\ (turns[m][Right] - turns[m][Left]) % n = 0
      <4>1. 0 - 0 = 0
        OBVIOUS
      <4>2. session[m].maxPages \in Nat \ {0} /\ n \in Nat \ {0}
        BY <3>3, MenuFields DEF HelpInv, n
      <4> QED
        BY <3>1, <3>5, <3>6, <4>1, <4>2
    <3>8. /\ menu' \in [Menu -> {"none", "sent", "done"}] /\ menu'[m] = "sent"
          /\ \A k \in Menu : k # m => menu'[k] = menu[k]
      BY <1>3, <3>2
    <3> QED
      BY <3>1, <3>3, <3>4, <3>7, <3>8 DEF n
  <2>2. CASE Help!Sent(m)
    <3>1. PICK success \in BOOLEAN :
            session' = [session EXCEPT ![m].open = success /\ session[m].maxPages > 1]
      BY <2>2 DEF Help!Sent
    <3> DEFINE b == success /\ session[m].maxPages > 1
    <3>2. b \in BOOLEAN
      OBVIOUS
    <3>3. session' = [session EXCEPT ![m].open = b]
      BY <3>1
    <3> HIDE DEF b
    <3>4. /\ session' \in [Menu -> Help!SessionType]
          /\ session'[m].user = session[m].user
          /\ session'[m].currentPage = session[m].currentPage
          /\ session'[m].maxPages = session[m].maxPages
          /\ \A k \in Menu : k # m => session'[k] = session[k]
      BY <1>3, <3>2, <3>3 DEF Help!SessionType
    <3>5. /\ menu' \in [Menu -> {"none", "sent", "done"}] /\ menu'[m] = "done"
          /\ \A k \in Menu : k # m => menu'[k] = menu[k]
      BY <1>3, <2>2 DEF Help!Sent
    <3>6. /\ session[m].currentPage < session[m].maxPages
          /\ 3 * (session[m].maxPages - 1) < commands
          /\ session[m].currentPage = (turns[m][Right] - turns[m][Left]) % session[m].maxPages
      BY MenuFields DEF HelpInv, MenusOK
    <3> QED
      BY <3>4, <3>5, <3>6
  <2> QED
    BY <2>1, <2>2
<1>5. Help!TypeOK'
  BY <1>1, <1>4 DEF HelpInv, Help!TypeOK
<1>6. MenusOK'
  BY <1>1, <1>4 DEF HelpInv, MenusOK
<1>7. \A k \in Menu : session'[k].user = session[k].user /\ session'[k].currentPage = session[k].currentPage
  BY <1>4
<1>8. \A p \in Press : press[p].menu \in Menu
  BY PressFields DEF HelpInv
<1>9. ReactionsOK'
  BY <1>1, <1>2, <1>7, <1>8 DEF HelpInv, ReactionsOK
<1>10. NumberedOK' /\ ShownOK'
  BY <1>1, <1>2 DEF HelpInv, NumberedOK, ShownOK
<1> QED
  BY <1>5, <1>6, <1>9, <1>10 DEF HelpInv

LEMMA PressSet ==
  ASSUME Help!TypeOK, NEW p \in Press, NEW h \in Help!PressType,
         press' = [press EXCEPT ![p] = h],
         UNCHANGED <<commands, menu, session, turns>>, overtaken' \in SUBSET Menu,
         shown' \in [Menu -> [page : Nat, turn : Nat]]
  PROVE  Help!TypeOK' /\ press'[p] = h /\ \A q \in Press : q # p => press'[q] = press[q]
  BY DEF Help!TypeOK

LEMMA PlainSteps ==
  ASSUME HelpInv, NEW p \in Press,
         Help!React(p) \/ Help!Refuse(p) \/ Help!Ignore(p) \/ Help!List(p) \/ Help!Unreact(p)
  PROVE  HelpInv'
<1>1. /\ Help!TypeOK /\ press[p] \in Help!PressType /\ press \in [Press -> Help!PressType]
      /\ overtaken \in SUBSET Menu /\ shown \in [Menu -> [page : Nat, turn : Nat]]
      /\ commands \in Nat \ {0}
  BY DEF HelpInv, Help!TypeOK
<1>2. /\ press[p].pc \in {"unmade", "made", "ignored"} => press[p].turn = 0
      /\ press[p].pc \in {"turned", "editing", "edited"} => press[p].turn > 0
      /\ press[p].turn > 0 => 3 * press[p].page < commands
  BY DEF HelpInv, ReactionsOK
<1>3. CASE Help!React(p)
  <2>1. PICK m \in Menu, u \in User \cup {Bot}, emoji \in Help!Emoji :
          press' = [press EXCEPT ![p].pc = "made", ![p].menu = m, ![p].by = u, ![p].emoji = emoji]
    BY <1>3 DEF Help!React
  <2> DEFINE h == [press[p] EXCEPT !.pc = "made", !.menu = m, !.by = u, !.emoji = emoji]
  <2>2. h \in Help!PressType /\ h.pc = "made" /\ h.turn = press[p].turn /\ h.page = press[p].page
    BY <1>1 DEF Help!PressType
  <2>3. press' = [press EXCEPT ![p] = h]
    BY <2>1
  <2> HIDE DEF h
  <2>4. UNCHANGED <<commands, menu, session, shown, turns, overtaken>> /\ press[p].pc = "unmade"
    BY <1>3 DEF Help!React
  <2>5. /\ Help!TypeOK' /\ press'[p] = h /\ \A q \in Press : q # p => press'[q] = press[q]
    BY <1>1, <2>2, <2>3, <2>4, PressSet
  <2> QED
    BY <1>2, <2>2, <2>4, <2>5, ReactionGoesOn DEF InWork
<1>4. ASSUME NEW pc \in {"done", "ignored"}, press' = [press EXCEPT ![p].pc = pc],
             press[p].pc \in {"made", "edited"}, pc = "ignored" => press[p].pc = "made",
             UNCHANGED <<commands, menu, session, shown, turns, overtaken>>
      PROVE  HelpInv'
  <2> DEFINE h == [press[p] EXCEPT !.pc = pc]
  <2>2. /\ h \in Help!PressType /\ h.pc = pc /\ h.turn = press[p].turn /\ h.page = press[p].page
        /\ h.menu = press[p].menu /\ h.by = press[p].by
    BY <1>1 DEF Help!PressType
  <2>3. press' = [press EXCEPT ![p] = h]
    BY <1>4
  <2> HIDE DEF h
  <2>5. /\ Help!TypeOK' /\ press'[p] = h /\ \A q \in Press : q # p => press'[q] = press[q]
    BY <1>1, <1>4, <2>2, <2>3, PressSet
  <2> QED
    BY <1>2, <1>4, <2>2, <2>5, ReactionGoesOn DEF InWork
<1>5. CASE Help!Refuse(p)
  BY <1>4, <1>5 DEF Help!Refuse
<1>6. CASE Help!Ignore(p)
  BY <1>4, <1>6 DEF Help!Ignore
<1>7. CASE Help!Unreact(p)
  BY <1>4, <1>7 DEF Help!Unreact
<1>8. CASE Help!List(p)
  <2>1. /\ press[p].pc = "turned" /\ press' = [press EXCEPT ![p].pc = "editing", ![p].of = commands]
        /\ UNCHANGED <<commands, menu, session, shown, turns, overtaken>>
    BY <1>8 DEF Help!List
  <2> DEFINE h == [press[p] EXCEPT !.pc = "editing", !.of = commands]
  <2>2. /\ h \in Help!PressType /\ h.pc = "editing" /\ h.turn = press[p].turn
        /\ h.page = press[p].page /\ h.of = commands
        /\ h.menu = press[p].menu /\ h.by = press[p].by
    BY <1>1 DEF Help!PressType
  <2>3. press' = [press EXCEPT ![p] = h]
    BY <2>1
  <2> HIDE DEF h
  <2>5. /\ Help!TypeOK' /\ press'[p] = h /\ \A q \in Press : q # p => press'[q] = press[q]
    BY <1>1, <2>1, <2>2, <2>3, PressSet
  <2> QED
    BY <1>2, <2>1, <2>2, <2>5, ReactionGoesOn DEF InWork
<1> QED
  BY <1>3, <1>5, <1>6, <1>7, <1>8

(* The page a turn chooses, and the count that goes with it.               *)
LEMMA TurnedIs ==
  ASSUME HelpInv, NEW m \in Menu, NEW emoji \in {Right, Left}
  PROVE  LET page == Help!Turned(session[m], emoji)
             new == [turns EXCEPT ![m][emoji] = @ + 1]
         IN  /\ page \in Nat /\ page < session[m].maxPages /\ 3 * page < commands
             /\ new \in [Menu -> [{Right, Left} -> Nat]]
             /\ new[m][Right] + new[m][Left] = Count(turns[m]) + 1
             /\ \A k \in Menu : k # m => new[k] = turns[k]
             /\ page = (new[m][Right] - new[m][Left]) % session[m].maxPages
<1> DEFINE page == Help!Turned(session[m], emoji)
           new == [turns EXCEPT ![m][emoji] = @ + 1]
           r == turns[m][Right]
           l == turns[m][Left]
           cp == session[m].currentPage
           mp == session[m].maxPages
<1>1. /\ r \in Nat /\ l \in Nat /\ mp \in Nat \ {0} /\ cp \in Nat /\ cp < mp
      /\ commands \in Nat /\ 3 * (mp - 1) < commands /\ cp = (r - l) % mp /\ r - l \in Int
      /\ turns \in [Menu -> [{Right, Left} -> Nat]]
  <2>1. r \in Nat /\ l \in Nat /\ mp \in Nat \ {0} /\ cp \in Nat /\ cp < mp /\ commands \in Nat
    BY MenuFields DEF HelpInv
  <2>2. 3 * (mp - 1) < commands /\ cp = (r - l) % mp
    BY DEF HelpInv, MenusOK
  <2>3. turns \in [Menu -> [{Right, Left} -> Nat]]
    BY DEF HelpInv, Help!TypeOK
  <2>4. r - l \in Int
    BY <2>1
  <2> QED
    BY <2>1, <2>2, <2>3, <2>4
<1>2. Right # Left
  BY HelpConstants DEF Help!ConstantsAssumption
<1>3. page = IF emoji = Right THEN IF cp < mp - 1 THEN cp + 1 ELSE 0
             ELSE IF cp > 0 THEN cp - 1 ELSE mp - 1
  BY DEF Help!Turned
<1>4. /\ new[m][Right] = IF emoji = Right THEN r + 1 ELSE r
      /\ new[m][Left] = IF emoji = Right THEN l ELSE l + 1
      /\ new \in [Menu -> [{Right, Left} -> Nat]]
      /\ \A k \in Menu : k # m => new[k] = turns[k]
  <2> DEFINE c == [turns[m] EXCEPT ![emoji] = @ + 1]
  <2>1. turns[m] \in [{Right, Left} -> Nat]
    BY <1>1
  <2>2. /\ c \in [{Right, Left} -> Nat]
        /\ c[Right] = IF emoji = Right THEN r + 1 ELSE r
        /\ c[Left] = IF emoji = Right THEN l ELSE l + 1
    BY <1>2, <2>1
  <2>3. new = [turns EXCEPT ![m] = c]
    OBVIOUS
  <2> HIDE DEF c, new
  <2>4. /\ new \in [Menu -> [{Right, Left} -> Nat]] /\ new[m] = c
        /\ \A k \in Menu : k # m => new[k] = turns[k]
    BY <1>1, <2>2, <2>3
  <2> QED
    BY <2>2, <2>4
<1>5. Count(turns[m]) = r + l
  BY DEF Count
<1> HIDE DEF page, new, r, l, cp, mp
<1>6. page \in Nat /\ page < mp /\ 3 * page < commands
  BY <1>1, <1>3
<1>7. new[m][Right] + new[m][Left] = Count(turns[m]) + 1
  BY <1>1, <1>4, <1>5
<1>8. CASE emoji = Right
  <2>1. new[m][Right] - new[m][Left] = (r - l) + 1
    BY <1>1, <1>4, <1>8
  <2>2. ((r - l) + 1) % mp = IF cp < mp - 1 THEN cp + 1 ELSE 0
    BY <1>1, RemainderUp
  <2>3. page = (new[m][Right] - new[m][Left]) % mp
    BY <1>3, <1>8, <2>1, <2>2
  <2> QED
    BY <1>4, <1>6, <1>7, <2>3 DEF page, new, mp
<1>9. CASE emoji # Right
  <2>1. new[m][Right] - new[m][Left] = (r - l) - 1
    BY <1>1, <1>4, <1>9
  <2>2. ((r - l) - 1) % mp = IF cp > 0 THEN cp - 1 ELSE mp - 1
    BY <1>1, RemainderDown
  <2>3. page = (new[m][Right] - new[m][Left]) % mp
    BY <1>3, <1>9, <2>1, <2>2
  <2> QED
    BY <1>4, <1>6, <1>7, <2>3 DEF page, new, mp
<1> QED
  BY <1>8, <1>9

LEMMA TurnStep ==
  ASSUME HelpInv, NEW p \in Press, Help!Turn(p)
  PROVE  HelpInv'
<1> DEFINE m == press[p].menu
           emoji == press[p].emoji
           page == Help!Turned(session[m], emoji)
           n == Count(turns[m]) + 1
           h == [press[p] EXCEPT !.pc = "turned", !.page = page, !.turn = n]
<1>1. /\ press[p].pc = "made" /\ session[m].open /\ press[p].by = session[m].user
      /\ emoji \in {Right, Left}
      /\ session' = [session EXCEPT ![m].currentPage = page]
      /\ press' = [press EXCEPT ![p].pc = "turned", ![p].page = page, ![p].turn = n]
      /\ turns' = [turns EXCEPT ![m][emoji] = @ + 1]
      /\ UNCHANGED <<commands, menu, shown, overtaken>>
  BY DEF Help!Turn, Help!Turns, Count
<1>2. m \in Menu /\ press[p].turn = 0
  BY <1>1, PressFields DEF HelpInv, ReactionsOK
<1>3. /\ page \in Nat /\ page < session[m].maxPages /\ 3 * page < commands
      /\ turns' \in [Menu -> [{Right, Left} -> Nat]]
      /\ turns'[m][Right] + turns'[m][Left] = n
      /\ \A k \in Menu : k # m => turns'[k] = turns[k]
      /\ page = (turns'[m][Right] - turns'[m][Left]) % session[m].maxPages
  BY <1>1, <1>2, TurnedIs
<1>4. n \in Nat /\ n = Count(turns[m]) + 1 /\ Count(turns[m]) \in Nat
  BY <1>2, MenuFields DEF HelpInv
<1>5. Count(turns'[m]) = n /\ \A k \in Menu : k # m => Count(turns'[k]) = Count(turns[k])
  BY <1>3 DEF Count
<1> HIDE DEF page, n, m
<1>6. /\ session \in [Menu -> Help!SessionType] /\ press \in [Press -> Help!PressType]
  BY DEF HelpInv, Help!TypeOK
<1>7. /\ session' \in [Menu -> Help!SessionType]
      /\ \A k \in Menu : k # m => session'[k] = session[k]
      /\ session'[m].currentPage = page /\ session'[m].maxPages = session[m].maxPages
      /\ session'[m].open = session[m].open /\ session'[m].user = session[m].user
  <2> DEFINE g == [session[m] EXCEPT !.currentPage = page]
  <2>1. session' = [session EXCEPT ![m] = g]
    BY <1>1
  <2>2. /\ g \in Help!SessionType /\ g.currentPage = page /\ g.maxPages = session[m].maxPages
        /\ g.open = session[m].open /\ g.user = session[m].user
    BY <1>2, <1>3, <1>6 DEF Help!SessionType
  <2> HIDE DEF g
  <2>3. /\ session' \in [Menu -> Help!SessionType] /\ session'[m] = g
        /\ \A k \in Menu : k # m => session'[k] = session[k]
    BY <1>2, <1>6, <2>1, <2>2
  <2> QED
    BY <2>2, <2>3
<1>8. /\ h \in Help!PressType /\ h.pc = "turned" /\ h.page = page /\ h.turn = n
      /\ h.menu = m /\ h.by = press[p].by
  BY <1>3, <1>4, <1>6 DEF Help!PressType, m
<1>9. press' = [press EXCEPT ![p] = h]
  BY <1>1
<1> HIDE DEF h
<1>10. /\ press' \in [Press -> Help!PressType] /\ press'[p] = h
       /\ \A q \in Press : q # p => press'[q] = press[q]
  BY <1>6, <1>8, <1>9
<1>11. Help!TypeOK'
  <2>1. \A k \in Menu : session'[k].currentPage < session'[k].maxPages
    BY <1>3, <1>7, MenuFields DEF HelpInv
  <2> QED
    BY <1>1, <1>3, <1>7, <1>10, <2>1 DEF HelpInv, Help!TypeOK
<1>12. MenusOK'
  <2> SUFFICES ASSUME NEW k \in Menu
      PROVE  /\ session'[k].currentPage = (turns'[k][Right] - turns'[k][Left]) % session'[k].maxPages
             /\ 3 * (session'[k].maxPages - 1) < commands'
             /\ session'[k].open => menu'[k] = "done"
             /\ menu'[k] = "none" => turns'[k][Right] = 0 /\ turns'[k][Left] = 0
    BY DEF MenusOK
  <2>1. CASE k = m
    BY <1>1, <1>2, <1>3, <1>7, <2>1 DEF HelpInv, MenusOK
  <2>2. CASE k # m
    BY <1>1, <1>3, <1>7, <2>2 DEF HelpInv, MenusOK
  <2> QED
    BY <2>1, <2>2
<1>13. \A q \in Press : press[q].turn \in Nat /\ press[q].menu \in Menu
  BY PressFields DEF HelpInv
<1>14. \A q \in Press : press[q].turn <= Count(turns[press[q].menu])
  BY DEF HelpInv, ReactionsOK
<1>15. ReactionsOK'
  <2> SUFFICES ASSUME NEW q \in Press
      PROVE  /\ press'[q].turn <= Count(turns'[press'[q].menu])
             /\ press'[q].turn > 0 =>
                  /\ press'[q].by = session'[press'[q].menu].user
                  /\ 3 * press'[q].page < commands'
                  /\ press'[q].turn = Count(turns'[press'[q].menu]) =>
                       press'[q].page = session'[press'[q].menu].currentPage
             /\ press'[q].pc \in {"unmade", "made", "ignored"} => press'[q].turn = 0
             /\ press'[q].pc \in {"turned", "editing", "edited"} => press'[q].turn > 0
             /\ press'[q].pc \in {"editing", "edited"} => 3 * press'[q].page < press'[q].of
    BY DEF ReactionsOK, Count
  <2>1. CASE q = p
    <3>1. /\ press'[q].menu = m /\ press'[q].turn = n /\ press'[q].page = page
          /\ press'[q].pc = "turned" /\ press'[q].by = session[m].user
      BY <1>1, <1>8, <1>10, <2>1
    <3>2. n > 0 /\ Count(turns'[m]) = n /\ 3 * page < commands'
      BY <1>1, <1>3, <1>4, <1>5
    <3> QED
      BY <1>4, <1>7, <3>1, <3>2
  <2>2. CASE q # p /\ press[q].menu = m
    BY <1>1, <1>4, <1>5, <1>7, <1>10, <1>13, <1>14, <2>2 DEF HelpInv, ReactionsOK
  <2>3. CASE q # p /\ press[q].menu # m
    BY <1>1, <1>5, <1>7, <1>10, <1>13, <2>3 DEF HelpInv, ReactionsOK
  <2> QED
    BY <2>1, <2>2, <2>3
<1>16. NumberedOK'
  <2> SUFFICES ASSUME NEW k \in Menu
      PROVE  /\ \A i \in 1..Count(turns'[k]) : \E q \in Press : press'[q].menu = k /\ press'[q].turn = i
             /\ \A q, q2 \in Press :
                  press'[q].menu = k /\ press'[q2].menu = k /\ press'[q].turn > 0
                    /\ press'[q].turn = press'[q2].turn => q = q2
    BY DEF NumberedOK, Count
  <2>1. ASSUME NEW i \in 1..Count(turns[k])
        PROVE  \E q \in Press : press'[q].menu = k /\ press'[q].turn = i
    <3>1. PICK q \in Press : press[q].menu = k /\ press[q].turn = i
      BY DEF HelpInv, NumberedOK
    <3>2. i > 0 /\ q # p
      BY <1>2, <3>1
    <3> QED
      BY <1>10, <3>1, <3>2
  <2>2. \A i \in 1..Count(turns'[k]) : i \in 1..Count(turns[k]) \/ (k = m /\ i = n)
    BY <1>4, <1>5
  <2>3. press'[p].menu = m /\ press'[p].turn = n
    BY <1>8, <1>10
  <2>4. \A i \in 1..Count(turns'[k]) : \E q \in Press : press'[q].menu = k /\ press'[q].turn = i
    BY <2>1, <2>2, <2>3
  <2>5. \A q \in Press : q # p /\ press[q].menu = m => press[q].turn # n
    BY <1>4, <1>13, <1>14
  <2>6. ASSUME NEW q \in Press, NEW q2 \in Press, press'[q].menu = k, press'[q2].menu = k,
               press'[q].turn > 0, press'[q].turn = press'[q2].turn
        PROVE  q = q2
    <3>1. CASE q = p \/ q2 = p
      BY <1>10, <2>3, <2>5, <2>6, <3>1
    <3>2. CASE q # p /\ q2 # p
      BY <1>10, <2>6, <3>2 DEF HelpInv, NumberedOK
    <3> QED
      BY <3>1, <3>2
  <2> QED
    BY <2>4, <2>6
<1>17. ShownOK'
  <2> SUFFICES ASSUME NEW k \in Menu, k \notin overtaken'
      PROVE  /\ shown'[k].turn <= Count(turns'[k])
             /\ shown'[k].turn = 0 => shown'[k].page = 0
             /\ \A q \in Press :
                  press'[q].menu = k /\ press'[q].turn > 0 =>
                    /\ press'[q].turn = shown'[k].turn => press'[q].page = shown'[k].page
                    /\ press'[q].turn > shown'[k].turn => press'[q].pc \in InWork
    BY DEF ShownOK, Count
  <2>1. /\ shown'[k] = shown[k] /\ shown[k].turn \in Nat /\ shown[k].turn <= Count(turns[k])
        /\ Count(turns[k]) \in Nat /\ (shown[k].turn = 0 => shown[k].page = 0)
    BY <1>1, MenuFields DEF HelpInv, ShownOK
  <2>2. shown[k].turn <= Count(turns'[k])
    BY <1>4, <1>5, <2>1
  <2>3. ASSUME NEW q \in Press, press'[q].menu = k, press'[q].turn > 0
        PROVE  /\ press'[q].turn = shown[k].turn => press'[q].page = shown[k].page
               /\ press'[q].turn > shown[k].turn => press'[q].pc \in InWork
    <3>1. CASE q = p
      BY <1>4, <1>8, <1>10, <2>1, <2>3, <3>1 DEF InWork
    <3>2. CASE q # p
      BY <1>1, <1>10, <2>3, <3>2 DEF HelpInv, ShownOK
    <3> QED
      BY <3>1, <3>2
  <2> QED
    BY <2>1, <2>2, <2>3
<1> QED
  BY <1>11, <1>12, <1>15, <1>16, <1>17 DEF HelpInv

LEMMA EditStep ==
  ASSUME HelpInv, NEW p \in Press, Help!Edit(p)
  PROVE  HelpInv'
<1> DEFINE m == press[p].menu
           h == [press[p] EXCEPT !.pc = "edited"]
<1>1. /\ press[p].pc = "editing" /\ press' = [press EXCEPT ![p].pc = "edited"]
      /\ UNCHANGED <<commands, menu, session, turns>>
      /\ \/ /\ shown' = [shown EXCEPT ![m] = [page |-> press[p].page, turn |-> press[p].turn]]
            /\ overtaken' = overtaken \cup (IF shown[m].turn > press[p].turn THEN {m} ELSE {})
         \/ /\ UNCHANGED shown
            /\ overtaken' = overtaken \cup {m}
  BY DEF Help!Edit
<1>2. /\ m \in Menu /\ press[p].turn \in Nat /\ press[p].turn > 0 /\ press[p].page \in Nat
      /\ 3 * press[p].page < press[p].of
      /\ press[p].turn <= Count(turns[m])
  BY <1>1, PressFields DEF HelpInv, ReactionsOK
<1>3. /\ h \in Help!PressType /\ h.pc = "edited" /\ h.turn = press[p].turn
      /\ h.page = press[p].page /\ h.menu = m /\ h.by = press[p].by /\ h.of = press[p].of
  BY DEF HelpInv, Help!TypeOK, Help!PressType
<1>4. press' = [press EXCEPT ![p] = h]
  BY <1>1
<1> HIDE DEF h
<1>5. /\ overtaken' \in SUBSET Menu /\ overtaken \subseteq overtaken'
      /\ shown' \in [Menu -> [page : Nat, turn : Nat]]
  BY <1>1, <1>2 DEF HelpInv, Help!TypeOK
<1>6. /\ Help!TypeOK' /\ press'[p] = h /\ \A q \in Press : q # p => press'[q] = press[q]
  BY <1>1, <1>3, <1>4, <1>5, PressSet DEF HelpInv
<1>7. CASE UNCHANGED shown /\ overtaken' = overtaken \cup {m}
  BY <1>1, <1>2, <1>3, <1>5, <1>6, <1>7, ReactionGoesOn DEF InWork
<1>8. CASE /\ shown' = [shown EXCEPT ![m] = [page |-> press[p].page, turn |-> press[p].turn]]
           /\ overtaken' = overtaken \cup (IF shown[m].turn > press[p].turn THEN {m} ELSE {})
  <2>1. \A k \in Menu : Count(turns'[k]) = Count(turns[k]) /\ Count(turns[k]) \in Nat
    BY <1>1, MenuFields DEF Count, HelpInv
  <2>2. \A q \in Press : /\ press'[q].turn = press[q].turn /\ press'[q].menu = press[q].menu
                         /\ press'[q].page = press[q].page /\ press'[q].by = press[q].by
                         /\ press'[q].of = press[q].of /\ press[q].turn \in Nat
                         /\ press[q].menu \in Menu
                         /\ q # p => press'[q].pc = press[q].pc
    BY <1>3, <1>6, PressFields DEF HelpInv
  <2>3. MenusOK'
    BY <1>1 DEF HelpInv, MenusOK
  <2>4. ReactionsOK'
    <3> SUFFICES ASSUME NEW q \in Press
        PROVE  /\ press'[q].turn <= Count(turns'[press'[q].menu])
               /\ press'[q].turn > 0 =>
                    /\ press'[q].by = session'[press'[q].menu].user
                    /\ 3 * press'[q].page < commands'
                    /\ press'[q].turn = Count(turns'[press'[q].menu]) =>
                         press'[q].page = session'[press'[q].menu].currentPage
               /\ press'[q].pc \in {"unmade", "made", "ignored"} => press'[q].turn = 0
               /\ press'[q].pc \in {"turned", "editing", "edited"} => press'[q].turn > 0
               /\ press'[q].pc \in {"editing", "edited"} => 3 * press'[q].page < press'[q].of
      BY DEF ReactionsOK, Count
    <3>1. /\ press'[q].turn <= Count(turns'[press'[q].menu])
          /\ press'[q].turn > 0 =>
               /\ press'[q].by = session'[press'[q].menu].user
               /\ 3 * press'[q].page < commands'
               /\ press'[q].turn = Count(turns'[press'[q].menu]) =>
                    press'[q].page = session'[press'[q].menu].currentPage
      BY <1>1, <2>1, <2>2 DEF HelpInv, ReactionsOK
    <3>2. q # p => /\ press'[q].pc \in {"unmade", "made", "ignored"} => press'[q].turn = 0
                   /\ press'[q].pc \in {"turned", "editing", "edited"} => press'[q].turn > 0
                   /\ press'[q].pc \in {"editing", "edited"} => 3 * press'[q].page < press'[q].of
      BY <2>2 DEF HelpInv, ReactionsOK
    <3> QED
      BY <1>2, <1>3, <1>6, <3>1, <3>2
  <2>5. NumberedOK'
    BY <2>1, <2>2 DEF HelpInv, NumberedOK
  <2>6. ShownOK'
    <3> SUFFICES ASSUME NEW k \in Menu, k \notin overtaken'
        PROVE  /\ shown'[k].turn <= Count(turns'[k])
               /\ shown'[k].turn = 0 => shown'[k].page = 0
               /\ \A q \in Press :
                    press'[q].menu = k /\ press'[q].turn > 0 =>
                      /\ press'[q].turn = shown'[k].turn => press'[q].page = shown'[k].page
                      /\ press'[q].turn > shown'[k].turn => press'[q].pc \in InWork
      BY DEF ShownOK, Count
    <3>1. CASE k # m
      <4>1. shown'[k] = shown[k] /\ k \notin overtaken
        BY <1>5, <1>8, <3>1 DEF HelpInv, Help!TypeOK
      <4>2. \A q \in Press : press[q].menu = k => q # p
        BY <3>1
      <4> QED
        BY <2>1, <2>2, <4>1, <4>2 DEF HelpInv, ShownOK
    <3>2. CASE k = m
      <4>1. /\ shown'[m].turn = press[p].turn /\ shown'[m].page = press[p].page
            /\ m \notin overtaken /\ ~(shown[m].turn > press[p].turn)
        BY <1>2, <1>5, <1>8, <3>2 DEF HelpInv, Help!TypeOK
      <4>2. shown[m].turn \in Nat /\ shown[m].turn <= press[p].turn
        BY <1>2, <4>1, MenuFields DEF HelpInv
      <4>3. ASSUME NEW q \in Press, press[q].menu = m, press[q].turn > 0
            PROVE  /\ press[q].turn = press[p].turn => press[q].page = press[p].page
                   /\ press[q].turn > press[p].turn => press'[q].pc \in InWork
        <5>1. press[q].turn = press[p].turn => q = p
          BY <1>2, <4>3 DEF HelpInv, NumberedOK
        <5>2. press[q].turn > press[p].turn => q # p /\ press[q].turn > shown[m].turn
          BY <1>2, <2>2, <4>2
        <5>3. press[q].turn > shown[m].turn => press[q].pc \in InWork
          BY <1>2, <4>1, <4>3 DEF HelpInv, ShownOK
        <5> QED
          BY <2>2, <5>1, <5>2, <5>3
      <4> QED
        BY <1>2, <2>1, <2>2, <3>2, <4>1, <4>3
    <3> QED
      BY <3>1, <3>2
  <2> QED
    BY <1>6, <2>3, <2>4, <2>5, <2>6 DEF HelpInv
<1> QED
  BY <1>1, <1>7, <1>8

LEMMA HelpStep == HelpInv /\ [Help!Next]_helpVars => HelpInv'
<1> SUFFICES ASSUME HelpInv, [Help!Next]_helpVars PROVE HelpInv'
  OBVIOUS
<1>1. CASE UNCHANGED helpVars
  <2>1. UNCHANGED <<commands, menu, session, shown, press, turns, overtaken>>
    BY <1>1 DEF helpVars
  <2>2. \A m : Count(turns'[m]) = Count(turns[m])
    BY <2>1 DEF Count
  <2>3. Help!TypeOK' /\ MenusOK'
    BY <2>1 DEF HelpInv, Help!TypeOK, MenusOK
  <2>4. ReactionsOK' /\ NumberedOK' /\ ShownOK'
    BY <2>1, <2>2 DEF HelpInv, ReactionsOK, NumberedOK, ShownOK
  <2> QED
    BY <2>3, <2>4 DEF HelpInv
<1>2. CASE Help!Next
  BY <1>2, RegisterStep, MenuStep, PlainSteps, TurnStep, EditStep DEF Help!Next, Help!Handle
<1> QED
  BY <1>1, <1>2

LEMMA MenusAreExact == HelpInv => Help!HelpIsExact
<1> SUFFICES ASSUME HelpInv PROVE Help!HelpIsExact
  OBVIOUS
<1>1. Help!TurnsAreExact
  <2> SUFFICES ASSUME NEW m \in Menu
      PROVE  /\ session[m].currentPage = (turns[m][Right] - turns[m][Left]) % session[m].maxPages
             /\ \A n \in 1..Count(turns[m]) : \E p \in Press :
                  press[p].menu = m /\ press[p].turn = n /\ press[p].by = session[m].user
             /\ \A p, q \in Press :
                  press[p].menu = m /\ press[q].menu = m /\ press[p].turn > 0
                    /\ press[p].turn = press[q].turn => p = q
    BY DEF Help!TurnsAreExact, Help!Turns, Count
  <2>1. ASSUME NEW n \in 1..Count(turns[m])
        PROVE  \E p \in Press :
                 press[p].menu = m /\ press[p].turn = n /\ press[p].by = session[m].user
    <3>1. PICK p \in Press : press[p].menu = m /\ press[p].turn = n
      BY DEF HelpInv, NumberedOK
    <3>2. n > 0
      OBVIOUS
    <3> QED
      BY <3>1, <3>2 DEF HelpInv, ReactionsOK
  <2> QED
    BY <2>1 DEF HelpInv, MenusOK, NumberedOK
<1>2. Help!PagesHaveCommands
  BY DEF HelpInv, ReactionsOK, Help!PagesHaveCommands, Help!PageSize
<1>3. Help!QuietShowsCurrent
  <2> SUFFICES ASSUME NEW m \in Menu, m \notin overtaken,
                      \A p \in Press : press[p].menu = m =>
                        press[p].pc \in {"unmade", "made", "ignored", "done"}
               PROVE  shown[m].page = session[m].currentPage
    BY DEF Help!QuietShowsCurrent
  <2>1. /\ shown[m].turn \in Nat /\ Count(turns[m]) \in Nat /\ shown[m].turn <= Count(turns[m])
        /\ turns[m][Right] \in Nat /\ turns[m][Left] \in Nat
        /\ session[m].maxPages \in Nat \ {0}
    BY MenuFields DEF HelpInv, ShownOK
  <2>2. CASE Count(turns[m]) = 0
    <3>1. turns[m][Right] = 0 /\ turns[m][Left] = 0 /\ shown[m].turn = 0
      BY <2>1, <2>2 DEF Count
    <3>2. session[m].currentPage = (turns[m][Right] - turns[m][Left]) % session[m].maxPages
      BY DEF HelpInv, MenusOK
    <3>3. turns[m][Right] - turns[m][Left] = 0
      BY <3>1
    <3>4. 0 % session[m].maxPages = 0
      <4>1. 0 = session[m].maxPages * 0 + 0 /\ 0 \in 0..(session[m].maxPages - 1)
        BY <2>1
      <4> QED
        BY <2>1, <4>1, OneRemainder
    <3> QED
      BY <3>1, <3>2, <3>3, <3>4 DEF HelpInv, ShownOK
  <2>3. CASE Count(turns[m]) > 0
    <3>1. PICK p \in Press : press[p].menu = m /\ press[p].turn = Count(turns[m])
      BY <2>1, <2>3 DEF HelpInv, NumberedOK
    <3>2. press[p].pc \notin InWork
      BY <3>1 DEF InWork
    <3>3. press[p].turn = shown[m].turn
      BY <2>1, <2>3, <3>1, <3>2 DEF HelpInv, ShownOK
    <3>4. press[p].page = session[m].currentPage
      BY <2>3, <3>1 DEF HelpInv, ReactionsOK
    <3> QED
      BY <2>3, <3>1, <3>3, <3>4 DEF HelpInv, ShownOK
  <2> QED
    BY <2>1, <2>2, <2>3
<1> QED
  BY <1>1, <1>2, <1>3 DEF Help!HelpIsExact, HelpInv

(* Menus turn as they should, however reactions and edits overlap: no turn *)
(* of a help menu is lost or made for anybody else, its pages have         *)
(* commands, and a message at rest shows its session's page unless an edit *)
(* failed or was overtaken; and a paginator's pages: PagesStaySound.       *)
THEOREM MenusStaySound == MCSpec => MenusAreSound
<1>1. MCInit => HelpInv
  BY HelpInit DEF MCInit
<1>2. [MCNext]_allVars => [Help!Next]_helpVars
  BY DEF MCNext, allVars
<1>3. HelpInv /\ [MCNext]_allVars => HelpInv'
  BY <1>2, HelpStep
<1>4. MCSpec => []Help!HelpIsExact
  BY <1>1, <1>3, MenusAreExact, PTL DEF MCSpec
<1> QED
  BY <1>4, PagesStaySound, PTL DEF MenusAreSound
=============================================================================
