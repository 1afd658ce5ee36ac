-------------------------- MODULE ClusterLifecycle --------------------------
(***************************************************************************)
(* cluster::start, cluster::stop and the thread of the timers.             *)
(*                                                                         *)
(* start() begins a timer loop, connects, sets running_ and sleeps while it*)
(* is set.  stop() clears running_ and timers_running_, joins the timer    *)
(* thread, or detaches it when it is called by a timer's callback, and     *)
(* disconnects.  Handlers call it too, on their own threads, as soon as    *)
(* the gateway is connected.  A bot may start a cluster again, and destroys*)
(* it in the end.                                                          *)
(***************************************************************************)
EXTENDS Naturals

CONSTANTS
  Main,         \* the bot's main thread
  Handler,      \* threads of handlers that may call stop()
  MaxStarts     \* bound: calls of start()

MaxStartsAssumption == MaxStarts \in Nat \ {0}

(* The timer loop of each start, and all that may call stop(). *)
Loop == 1..MaxStarts

Thread == {Main} \cup Handler \cup Loop

ThreadsAreDistinct == Main \notin Handler \cup Loop /\ Handler \cap Loop = {}
-----------------------------------------------------------------------------
VARIABLES
  main,             \* where start() is, or the bot between two calls
  starts,           \* how often it was called
  running,          \* running_
  timersRunning,    \* timers_running_
  timerThread,      \* timer_thread_: the loop it can join, or 0
  loop,             \* each timer loop
  gateway,          \* the gateway is connected
  stop,             \* where each thread is in stop()
  raced,            \* history: two calls of stop() met at timer_thread_
  overwritten,      \* history: start() set running_ after a stop() cleared it
  restarted,        \* history: started before a loop that stopped the cluster ended
  outdated,         \* history: threads whose stop() began before the last start()
  terminated        \* std::terminate

vars == <<main, starts, running, timersRunning, timerThread, loop, gateway,
          stop, raced, overwritten, restarted, outdated, terminated>>

FlagsOK ==
  /\ running \in BOOLEAN /\ timersRunning \in BOOLEAN /\ gateway \in BOOLEAN
  /\ raced \in BOOLEAN /\ overwritten \in BOOLEAN /\ restarted \in BOOLEAN
  /\ terminated \in BOOLEAN

PlacesOK ==
  /\ main \in {"idle", "timers", "thread", "connect", "set", "sleep", "destroyed"}
  /\ starts \in 0..MaxStarts
  /\ timerThread \in {0} \cup Loop
  /\ loop \in [Loop -> {"unborn", "test", "callback", "ended"}]
  /\ stop \in [Thread -> {"no", "clear", "flag", "thread", "join", "disconnect", "done"}]
  /\ timerThread # 0 => loop[timerThread] # "unborn"
  /\ outdated \subseteq Thread

TypeOK == FlagsOK /\ PlacesOK

Init ==
  /\ main = "idle" /\ starts = 0
  /\ running = FALSE /\ timersRunning = FALSE /\ timerThread = 0
  /\ loop = [l \in Loop |-> "unborn"]
  /\ gateway = FALSE
  /\ stop = [t \in Thread |-> "no"]
  /\ raced = FALSE /\ overwritten = FALSE /\ restarted = FALSE
  /\ outdated = {} /\ terminated = FALSE
-----------------------------------------------------------------------------
(* start(), on the bot's main thread. *)
CallStart ==
  /\ main = "idle" /\ starts < MaxStarts
  /\ stop[Main] \in {"no", "done"}
  /\ main' = "timers" /\ starts' = starts + 1
  /\ overwritten' = FALSE
  /\ stop' = [stop EXCEPT ![Main] = "no"]
  /\ UNCHANGED <<running, timersRunning, timerThread, loop, gateway, raced, restarted, outdated, terminated>>

SetTimersRunning ==
  /\ main = "timers" /\ main' = "thread"
  /\ timersRunning' = TRUE
  /\ UNCHANGED <<starts, running, timerThread, loop, gateway, stop,
                 raced, overwritten, restarted, outdated, terminated>>

(* Assigning to a thread that can be joined ends the process. *)
StartTimerThread ==
  /\ main = "thread"
  /\ IF timerThread # 0
     THEN terminated' = TRUE /\ UNCHANGED <<main, timerThread, loop>>
     ELSE /\ timerThread' = starts
          /\ loop' = [loop EXCEPT ![starts] = "test"]
          /\ main' = "connect" /\ UNCHANGED terminated
  /\ outdated' = {t \in Thread : stop[t] # "no"}
  /\ restarted' = (restarted \/ \E l \in Loop : loop[l] \in {"test", "callback"} /\ stop[l] # "no")
  /\ UNCHANGED <<starts, running, timersRunning, gateway, stop, raced, overwritten>>

Connect ==
  /\ main = "connect" /\ main' = "set"
  /\ gateway' = TRUE
  /\ UNCHANGED <<starts, running, timersRunning, timerThread, loop, stop,
                 raced, overwritten, restarted, outdated, terminated>>

(* A bot that starts with return_after_init goes on, the others sleep. *)
SetRunning ==
  /\ main = "set" /\ main' \in {"idle", "sleep"}
  /\ running' = TRUE
  /\ UNCHANGED <<starts, timersRunning, timerThread, loop, gateway, stop,
                 raced, overwritten, restarted, outdated, terminated>>

Sleep ==
  /\ main = "sleep" /\ ~running
  /\ main' = "idle"
  /\ UNCHANGED <<starts, running, timersRunning, timerThread, loop, gateway, stop,
                 raced, overwritten, restarted, outdated, terminated>>

(* ~cluster: the thread of a cluster that was not stopped can be joined.   *)
Destroy ==
  /\ main = "idle" /\ starts > 0 /\ main' = "destroyed"
  /\ stop[Main] \in {"no", "done"}
  /\ terminated' = (timerThread # 0)
  /\ UNCHANGED <<starts, running, timersRunning, timerThread, loop, gateway, stop,
                 raced, overwritten, restarted, outdated>>
-----------------------------------------------------------------------------
Alive(t) ==
  CASE t = Main -> main = "idle" /\ starts > 0
    [] t \in Handler -> gateway
    [] t \in Loop -> loop[t] = "callback"

To(t, p) == stop' = [stop EXCEPT ![t] = p]

CallStop(t) ==
  /\ main # "destroyed" /\ stop[t] = "no" /\ Alive(t)
  /\ To(t, "clear")
  /\ UNCHANGED <<main, starts, running, timersRunning, timerThread, loop, gateway,
                 raced, overwritten, restarted, outdated, terminated>>

ClearRunning(t) ==
  /\ stop[t] = "clear" /\ To(t, "flag")
  /\ running' = FALSE
  /\ overwritten' = (overwritten \/ main \in {"timers", "thread", "connect", "set"})
  /\ UNCHANGED <<main, starts, timersRunning, timerThread, loop, gateway,
                 raced, restarted, outdated, terminated>>

ClearTimersRunning(t) ==
  /\ stop[t] = "flag" /\ To(t, "thread")
  /\ timersRunning' = FALSE
  /\ UNCHANGED <<main, starts, running, timerThread, loop, gateway,
                 raced, overwritten, restarted, outdated, terminated>>

(* Faulty: the thread is detached by whoever calls stop(). *)
TakeTimerThreadDetach(t) ==
  /\ stop[t] = "thread" /\ To(t, "disconnect")
  /\ timerThread' = 0
  /\ UNCHANGED <<main, starts, running, timersRunning, loop, gateway,
                 raced, overwritten, restarted, outdated, terminated>>

(* joinable(), and whose thread it is.  A detach() while another thread is *)
(* in join() is undefined.                                                 *)
TakeTimerThread(t) ==
  /\ stop[t] = "thread"
  /\ \/ timerThread = 0 /\ To(t, "disconnect") /\ UNCHANGED <<timerThread, raced>>
     \/ /\ timerThread # 0 /\ timerThread = t
        /\ timerThread' = 0 /\ To(t, "disconnect")
        /\ raced' = (raced \/ \E s \in Thread : stop[s] = "join")
     \/ /\ timerThread # 0 /\ timerThread # t
        /\ To(t, "join")
        /\ raced' = (raced \/ \E s \in Thread : stop[s] = "join")
        /\ UNCHANGED timerThread
  /\ UNCHANGED <<main, starts, running, timersRunning, loop, gateway,
                 overwritten, restarted, outdated, terminated>>

(* join() ends with the loop; of a thread that another call joined or      *)
(* detached it may throw, and end the process.                             *)
Join(t) ==
  /\ stop[t] = "join"
  /\ \/ /\ timerThread # 0 /\ loop[timerThread] = "ended"
        /\ timerThread' = 0 /\ To(t, "disconnect") /\ UNCHANGED terminated
     \/ /\ timerThread = 0
        /\ \/ To(t, "disconnect") /\ UNCHANGED terminated
           \/ terminated' = TRUE /\ UNCHANGED stop
        /\ UNCHANGED timerThread
  /\ UNCHANGED <<main, starts, running, timersRunning, loop, gateway,
                 raced, overwritten, restarted, outdated>>

Disconnect(t) ==
  /\ stop[t] = "disconnect" /\ To(t, "done")
  /\ gateway' = FALSE
  /\ UNCHANGED <<main, starts, running, timersRunning, timerThread, loop,
                 raced, overwritten, restarted, outdated, terminated>>

StopStep(t) ==
  ClearRunning(t) \/ ClearTimersRunning(t) \/ TakeTimerThread(t) \/ Join(t) \/ Disconnect(t)
-----------------------------------------------------------------------------
(* The loop runs callbacks as long as it may. *)
TestTimers(l) ==
  /\ loop[l] = "test"
  /\ loop' = [loop EXCEPT ![l] = IF timersRunning THEN "callback" ELSE "ended"]
  /\ UNCHANGED <<main, starts, running, timersRunning, timerThread, gateway, stop,
                 raced, overwritten, restarted, outdated, terminated>>

EndCallbacks(l) ==
  /\ loop[l] = "callback" /\ stop[l] \in {"no", "done"}
  /\ loop' = [loop EXCEPT ![l] = "test"]
  /\ UNCHANGED <<main, starts, running, timersRunning, timerThread, gateway, stop,
                 raced, overwritten, restarted, outdated, terminated>>

LoopStep(l) == TestTimers(l) \/ EndCallbacks(l)

MainStep == SetTimersRunning \/ StartTimerThread \/ Connect \/ SetRunning \/ Sleep

Next ==
  /\ ~terminated
  /\ \/ CallStart \/ MainStep \/ Destroy
     \/ \E t \in Thread : CallStop(t) \/ StopStep(t)
     \/ \E l \in Loop : LoopStep(l)

(* Every thread goes on; callbacks return; the bot stops what it started,  *)
(* or does not.                                                            *)
Spec ==
  /\ Init /\ [][Next]_vars
  /\ WF_vars(~terminated /\ MainStep)
  /\ \A t \in Thread : WF_vars(~terminated /\ StopStep(t))
  /\ \A l \in Loop : WF_vars(~terminated /\ LoopStep(l))
-----------------------------------------------------------------------------
Live == {l \in Loop : loop[l] \in {"test", "callback"}}

(* A timer's callback runs on one thread only: there is one loop, unless a *)
(* timer stopped the cluster and the bot started it again before the loop  *)
(* it had detached looked at timers_running_.                              *)
OneLoop == restarted \/ \A l, m \in Live : l = m

(* When a call of stop() from outside the timers has joined, no callback   *)
(* runs any more, but one that itself called stop(); unless it met another *)
(* call or the cluster was started again meanwhile.                        *)
NoTimerAfterStop ==
  \A t \in {Main} \cup Handler :
    stop[t] \in {"disconnect", "done"} /\ t \notin outdated /\ ~raced =>
      \A l \in Live : stop[l] # "no"

(* The process ends only in a stop(), or when the bot starts or destroys a *)
(* cluster that is running or is being stopped: never one whose stop() has *)
(* returned, even if that stop() met another or start() overwrote it.      *)
TerminationHasCause ==
  terminated => running \/ \E t \in Thread : stop[t] \notin {"no", "done"}

(* stop() ends start(), unless it cleared running_ before start() set it,  *)
(* or the calls of stop() ended the process.                               *)
StopEndsStart ==
  \A t \in Thread :
    stop[t] = "clear" /\ main = "sleep" ~> main # "sleep" \/ overwritten \/ terminated

(* Every call of stop() returns, unless the cluster was started again under*)
(* it: then it waits for the loop of the new start.                        *)
StopReturns ==
  \A t \in Thread : stop[t] = "clear" ~> stop[t] = "done" \/ t \in outdated \/ terminated

(* However start, stop and the destructor meet.                            *)
StopIsSafe == TypeOK /\ OneLoop /\ NoTimerAfterStop /\ TerminationHasCause

(* Every stop() returns and lets start() return.                           *)
StopEnds == StopEndsStart /\ StopReturns
=============================================================================
