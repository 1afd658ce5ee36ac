------------------------------- MODULE Timers -------------------------------
(***************************************************************************)
(* The timers of a cluster: start_timer, stop_timer and run_timer_loop.    *)
(*                                                                         *)
(* The loop copies the callbacks that are due under timers_mutex_, runs    *)
(* them one after the other without it, and waits 500 ms, or until the     *)
(* cluster stops.  Timers are started and stopped by any thread at any     *)
(* time, the callbacks' among them.                                        *)
(***************************************************************************)
EXTENDS Integers

CONSTANTS
  MaxTimers,    \* bound: calls of start_timer
  Intervals,    \* intervals, in seconds
  MaxTime       \* bound: the clock, in ticks of 500 ms

ASSUME ConstantsAssumption ==
  MaxTimers \in Nat /\ Intervals \subseteq Nat /\ MaxTime \in Nat

Timer == 1..MaxTimers
-----------------------------------------------------------------------------
VARIABLES
  now,            \* steady_clock, in ticks
  nextId,         \* next_timer_id_
  active,         \* the timers in timers_
  interval,       \* interval_seconds of each timer
  lastRun,        \* last_run of each timer
  timersRunning,  \* timers_running_
  loop,           \* where the loop is
  toRun,          \* the rest of to_run: it holds the timers in their order
  current,        \* the timer whose callback runs, or 0
  waitFrom,       \* since when the loop waits
  startedAt,      \* history: when each timer was started
  runs,           \* history: how often its callback was begun
  runsAfterStop   \* history: how often after stop_timer returned true

vars == <<now, nextId, active, interval, lastRun, timersRunning, loop, toRun, current,
          waitFrom, startedAt, runs, runsAfterStop>>

TypeOK ==
  /\ now \in Nat
  /\ nextId \in 1..(MaxTimers + 1)
  /\ active \in SUBSET Timer /\ \A t \in active : t < nextId
  /\ interval \in [Timer -> Nat] /\ lastRun \in [Timer -> Nat]
  /\ timersRunning \in BOOLEAN
  /\ loop \in {"test", "run", "wait", "ended"}
  /\ toRun \in SUBSET Timer /\ \A t \in toRun : t < nextId
  /\ current \in {0} \cup Timer
  /\ waitFrom \in Nat
  /\ startedAt \in [Timer -> Nat]
  /\ runs \in [Timer -> Nat] /\ runsAfterStop \in [Timer -> Nat]

Init ==
  /\ now = 0 /\ nextId = 1 /\ active = {}
  /\ interval = [t \in Timer |-> 0] /\ lastRun = [t \in Timer |-> 0]
  /\ timersRunning = TRUE /\ loop = "test"
  /\ toRun = {} /\ current = 0 /\ waitFrom = 0
  /\ startedAt = [t \in Timer |-> 0]
  /\ runs = [t \in Timer |-> 0] /\ runsAfterStop = [t \in Timer |-> 0]
-----------------------------------------------------------------------------
history == <<startedAt, runs, runsAfterStop>>

StartTimer ==
  /\ nextId <= MaxTimers
  /\ nextId' = nextId + 1
  /\ active' = active \cup {nextId}
  /\ \E s \in Intervals : interval' = [interval EXCEPT ![nextId] = s]
  /\ lastRun' = [lastRun EXCEPT ![nextId] = now]
  /\ startedAt' = [startedAt EXCEPT ![nextId] = now]
  /\ UNCHANGED <<now, timersRunning, loop, toRun, current, waitFrom, runs, runsAfterStop>>

(* stop_timer returns true; false leaves everything as it is. *)
StopTimer(t) ==
  /\ t \in active
  /\ active' = active \ {t}
  /\ UNCHANGED <<now, nextId, interval, lastRun, timersRunning, loop, toRun, current,
                 waitFrom, history>>

(* Faulty: rounds the seconds that have passed up. *)
DueRounded(t) == (now - lastRun[t] + 1) \div 2 >= interval[t]

(* duration_cast truncates to whole seconds. *)
Due(t) == (now - lastRun[t]) \div 2 >= interval[t]

Collect ==
  /\ loop = "test" /\ timersRunning
  /\ toRun' = {t \in active : Due(t)}
  /\ lastRun' = [t \in Timer |-> IF t \in toRun' THEN now ELSE lastRun[t]]
  /\ loop' = "run"
  /\ UNCHANGED <<now, nextId, active, interval, timersRunning, current, waitFrom, history>>

(* Faulty: a callback that throws, or stops the cluster, ends the pass. *)
RunNextOnly ==
  /\ loop = "run" /\ current = 0
  /\ \E t \in toRun :
       /\ \A u \in toRun : t <= u
       /\ current' = t
       /\ runs' = [runs EXCEPT ![t] = @ + 1]
       /\ runsAfterStop' = [runsAfterStop EXCEPT ![t] = @ + (IF t \in active THEN 0 ELSE 1)]
  /\ toRun' = {}
  /\ UNCHANGED <<now, nextId, active, interval, lastRun, timersRunning, loop, waitFrom, startedAt>>

RunNext ==
  /\ loop = "run" /\ current = 0
  /\ \E t \in toRun :
       /\ \A u \in toRun : t <= u
       /\ current' = t /\ toRun' = toRun \ {t}
       /\ runs' = [runs EXCEPT ![t] = @ + 1]
       /\ runsAfterStop' = [runsAfterStop EXCEPT ![t] = @ + (IF t \in active THEN 0 ELSE 1)]
  /\ UNCHANGED <<now, nextId, active, interval, lastRun, timersRunning, loop, waitFrom, startedAt>>

(* It returns, or throws what the loop catches. *)
CallbackEnds ==
  /\ current # 0 /\ current' = 0
  /\ UNCHANGED <<now, nextId, active, interval, lastRun, timersRunning, loop, toRun,
                 waitFrom, history>>

Wait ==
  /\ loop = "run" /\ current = 0 /\ toRun = {}
  /\ loop' = "wait" /\ waitFrom' = now
  /\ UNCHANGED <<now, nextId, active, interval, lastRun, timersRunning, toRun, current, history>>

(* start_timer's notify does not end the wait: the predicate is false.  At *)
(* the bound of the clock a wait ends at once.                             *)
Wake ==
  /\ loop = "wait"
  /\ ~timersRunning \/ now > waitFrom \/ now = MaxTime
  /\ loop' = "test"
  /\ UNCHANGED <<now, nextId, active, interval, lastRun, timersRunning, toRun, current,
                 waitFrom, history>>

EndLoop ==
  /\ loop = "test" /\ ~timersRunning
  /\ loop' = "ended"
  /\ UNCHANGED <<now, nextId, active, interval, lastRun, timersRunning, toRun, current,
                 waitFrom, history>>

(* cluster::stop. *)
StopCluster ==
  /\ timersRunning /\ timersRunning' = FALSE
  /\ UNCHANGED <<now, nextId, active, interval, lastRun, loop, toRun, current, waitFrom, history>>

Tick ==
  /\ now < MaxTime /\ now' = now + 1
  /\ UNCHANGED <<nextId, active, interval, lastRun, timersRunning, loop, toRun, current,
                 waitFrom, history>>

LoopStep == Collect \/ RunNext \/ CallbackEnds \/ Wait \/ Wake \/ EndLoop

Next ==
  LoopStep \/ StartTimer \/ (\E t \in Timer : StopTimer(t)) \/ StopCluster \/ Tick

(* The loop's thread runs, callbacks return, time passes. *)
Spec == Init /\ [][Next]_vars /\ WF_vars(LoopStep) /\ WF_vars(Tick)
-----------------------------------------------------------------------------
(* A timer never gets ahead of its interval: however late its passes are,  *)
(* the k-th run does not begin before k intervals have passed.             *)
NeverAhead ==
  \A t \in Timer : t < nextId => 2 * interval[t] * runs[t] <= now - startedAt[t]

(* After stop_timer has returned true the callback is begun at most once   *)
(* more.                                                                   *)
OnceAfterStop == \A t \in Timer : runsAfterStop[t] <= 1

(* A timer that is due is run, unless it or the cluster is stopped first,  *)
(* whatever the callbacks before it do.                                    *)
DueIsRun ==
  \A t \in Timer : t \in active /\ Due(t) ~> current = t \/ t \notin active \/ ~timersRunning

(* A callback that was copied is run even if its timer or the cluster is   *)
(* stopped before its turn.                                                *)
CopiedIsRun == \A t \in Timer : t \in toRun ~> current = t

(* The loop ends after the cluster has stopped, so that stop() can join it.*)
LoopEnds == ~timersRunning ~> loop = "ended"

(* A timer is never early, and runs once at most after it was stopped.     *)
TimersKeepTime == NeverAhead /\ OnceAfterStop

(* A timer that is due is run, and the loop ends with the cluster.         *)
TimersRun == DueIsRun /\ CopiedIsRun /\ LoopEnds
=============================================================================
