---------------------------- MODULE EventPipeline ----------------------------
(***************************************************************************)
(* How gateway moves an event from the WebSocket to its handlers.          *)
(*                                                                         *)
(* The WebSocket's thread pushes each payload on event_queue and notifies  *)
(* queue_cv.  worker_thread pops the payloads one at a time, handles Ping, *)
(* Pong, Authenticated and Ready itself and starts a detached thread for   *)
(* every other event.  ~gateway stops the WebSocket if it is open, clears  *)
(* worker_running, notifies queue_cv and joins the worker.                 *)
(*                                                                         *)
(* queue_mutex is free in every state but one: the worker holds it from    *)
(* testing the predicate of the wait to blocking in it ("parking").  What  *)
(* a thread does under the mutex without blocking is one step.             *)
(***************************************************************************)
EXTENDS Naturals, Sequences, FiniteSets

CONSTANTS
  Event,            \* the payloads the server may send, each once
  Control,          \* those of type Ping, Pong, Authenticated or Ready
  Malformed,        \* those nlohmann::json::parse throws on
  ThreadLimit,      \* threads the system lets the process start for handlers
  EventThreadCount, \* ClientConfig::event_thread_count
  NoEvent           \* the worker holds no payload

ASSUME EventKinds ==
  /\ Control \subseteq Event
  /\ Malformed \subseteq Event
  /\ Control \cap Malformed = {}
  /\ NoEvent \notin Event

ASSUME ThreadNumbers == ThreadLimit \in Nat /\ EventThreadCount \in Nat

VARIABLES
  queue,          \* event_queue
  workerRunning,  \* worker_running
  spc,            \* the WebSocket's thread
  wpc,            \* worker_thread
  current,        \* raw, the payload the worker popped
  active,         \* the detached threads, by the event each handles
  dpc,            \* the thread that runs ~gateway
  received,       \* history: the payloads pushed, in order
  taken,          \* history: the payloads popped, in order
  handled,        \* history: the events whose handling ended, in that order
  discarded       \* history: the payloads the worker's catch dropped

vars == <<queue, workerRunning, spc, wpc, current, active, dpc,
          received, taken, handled, discarded>>

SocketState == {"idle", "notify", "stopped"}

WorkerState ==
  { "check",      \* at while (worker_running)
    "lock",       \* about to take queue_mutex, or woken and taking it again
    "parking",    \* the predicate was false; it holds queue_mutex
    "blocked",    \* in queue_cv.wait, without queue_mutex
    "process",    \* about to parse current
    "handling",   \* in handle_event for a control event
    "exited" }

DtorState == {"alive", "disconnected", "cleared", "joining", "destroyed"}

Elements(s) == {s[i] : i \in DOMAIN s}

TypeOK ==
  /\ queue \in Seq(Event)
  /\ workerRunning \in BOOLEAN
  /\ spc \in SocketState
  /\ wpc \in WorkerState
  /\ current \in Event \cup {NoEvent}
  /\ active \in SUBSET (Event \ Control)
  /\ dpc \in DtorState
  /\ received \in Seq(Event)
  /\ taken \in Seq(Event)
  /\ handled \in Seq(Event)
  /\ discarded \in SUBSET (Event \ Control)

Init ==
  /\ queue = <<>>
  /\ workerRunning = TRUE
  /\ spc = "idle"
  /\ wpc = "check"
  /\ current = NoEvent
  /\ active = {}
  /\ dpc = "alive"
  /\ received = <<>> /\ taken = <<>> /\ handled = <<>>
  /\ discarded = {}

history == <<received, taken, handled, discarded>>
-----------------------------------------------------------------------------
(* Faulty variants of the code, which the properties below tell from it.   *)

(* Pushes without queue_mutex. *)
PushWithoutLock(e) ==
  /\ spc = "idle" /\ dpc # "destroyed"
  /\ e \notin Elements(received)
  /\ queue' = Append(queue, e)
  /\ received' = Append(received, e)
  /\ spc' = "notify"
  /\ UNCHANGED <<workerRunning, wpc, current, active, dpc, taken, handled, discarded>>

(* Pushes without notifying. *)
NotifyNobody ==
  /\ spc = "notify"
  /\ spc' = "idle"
  /\ UNCHANGED <<queue, workerRunning, wpc, current, active, dpc, history>>

(* Starts a thread for every event, whatever its type. *)
WorkerDetachAny ==
  /\ wpc = "process"
  /\ current \notin Malformed
  /\ Cardinality(active) < ThreadLimit
  /\ active' = active \cup {current}
  /\ current' = NoEvent
  /\ wpc' = "check"
  /\ UNCHANGED <<queue, workerRunning, spc, dpc, history>>

(* Joins the worker without notifying it, or without clearing its flag. *)
DtorForgetsNotify ==
  /\ dpc = "cleared"
  /\ dpc' = "joining"
  /\ UNCHANGED <<queue, workerRunning, spc, wpc, current, active, history>>

DtorForgetsClear ==
  /\ dpc = "disconnected"
  /\ dpc' = "cleared"
  /\ UNCHANGED <<queue, workerRunning, spc, wpc, current, active, history>>
-----------------------------------------------------------------------------
(* The WebSocket's thread: on_message_received. *)

PushEvent(e) ==
  /\ spc = "idle" /\ dpc # "destroyed"
  /\ wpc # "parking"
  /\ e \notin Elements(received)
  /\ queue' = Append(queue, e)
  /\ received' = Append(received, e)
  /\ spc' = "notify"
  /\ UNCHANGED <<workerRunning, wpc, current, active, dpc, taken, handled, discarded>>

NotifyOne ==
  /\ spc = "notify"
  /\ spc' = "idle"
  /\ wpc' = IF wpc = "blocked" THEN "lock" ELSE wpc
  /\ UNCHANGED <<queue, workerRunning, current, active, dpc, history>>
-----------------------------------------------------------------------------
(* worker_thread. *)

WorkerCheck ==
  /\ wpc = "check"
  /\ wpc' = IF workerRunning THEN "lock" ELSE "exited"
  /\ UNCHANGED <<queue, workerRunning, spc, current, active, dpc, history>>

(* The predicate of the wait holds: the worker leaves the loop, or pops. *)
WorkerBreak ==
  /\ wpc = "lock"
  /\ ~workerRunning /\ queue = <<>>
  /\ wpc' = "exited"
  /\ UNCHANGED <<queue, workerRunning, spc, current, active, dpc, history>>

WorkerPop ==
  /\ wpc = "lock"
  /\ queue # <<>>
  /\ current' = Head(queue)
  /\ queue' = Tail(queue)
  /\ taken' = Append(taken, Head(queue))
  /\ wpc' = "process"
  /\ UNCHANGED <<workerRunning, spc, active, dpc, received, handled, discarded>>

(* It does not: the worker is about to block, still holding queue_mutex. *)
WorkerWait ==
  /\ wpc = "lock"
  /\ workerRunning /\ queue = <<>>
  /\ wpc' = "parking"
  /\ UNCHANGED <<queue, workerRunning, spc, current, active, dpc, history>>

WorkerPark ==
  /\ wpc = "parking"
  /\ wpc' = "blocked"
  /\ UNCHANGED <<queue, workerRunning, spc, current, active, dpc, history>>

SpuriousWakeup ==
  /\ wpc = "blocked"
  /\ wpc' = "lock"
  /\ UNCHANGED <<queue, workerRunning, spc, current, active, dpc, history>>

(* parse throws, or std::thread does: the catch of the loop logs it. *)
WorkerDiscard ==
  /\ wpc = "process"
  /\ current \notin Control
  /\ current \in Malformed \/ Cardinality(active) >= ThreadLimit
  /\ discarded' = discarded \cup {current}
  /\ current' = NoEvent
  /\ wpc' = "check"
  /\ UNCHANGED <<queue, workerRunning, spc, active, dpc, received, taken, handled>>

WorkerDetach ==
  /\ wpc = "process"
  /\ current \notin Control \cup Malformed
  /\ Cardinality(active) < ThreadLimit
  /\ active' = active \cup {current}
  /\ current' = NoEvent
  /\ wpc' = "check"
  /\ UNCHANGED <<queue, workerRunning, spc, dpc, history>>

WorkerHandle ==
  /\ wpc = "process"
  /\ current \in Control
  /\ wpc' = "handling"
  /\ UNCHANGED <<queue, workerRunning, spc, current, active, dpc, history>>

WorkerHandled ==
  /\ wpc = "handling"
  /\ handled' = Append(handled, current)
  /\ current' = NoEvent
  /\ wpc' = "check"
  /\ UNCHANGED <<queue, workerRunning, spc, active, dpc, received, taken, discarded>>

(* A detached thread returns from handle_event, or catches what it threw. *)
FinishHandler(e) ==
  /\ e \in active
  /\ active' = active \ {e}
  /\ handled' = Append(handled, e)
  /\ UNCHANGED <<queue, workerRunning, spc, wpc, current, dpc, received, taken, discarded>>
-----------------------------------------------------------------------------
(* ~gateway. *)

(* disconnect: ws.stop() joins the WebSocket's thread, but is called only  *)
(* if the socket is open; otherwise that thread goes on and may reconnect. *)
DtorDisconnect ==
  /\ dpc = "alive"
  /\ dpc' = "disconnected"
  /\ \/ spc = "idle" /\ spc' = "stopped"
     \/ UNCHANGED spc
  /\ UNCHANGED <<queue, workerRunning, wpc, current, active, history>>

(* worker_running = false, without queue_mutex. *)
DtorClear ==
  /\ dpc = "disconnected"
  /\ dpc' = "cleared"
  /\ workerRunning' = FALSE
  /\ UNCHANGED <<queue, spc, wpc, current, active, history>>

DtorNotify ==
  /\ dpc = "cleared"
  /\ dpc' = "joining"
  /\ wpc' = IF wpc = "blocked" THEN "lock" ELSE wpc
  /\ UNCHANGED <<queue, workerRunning, spc, current, active, history>>

DtorJoin ==
  /\ dpc = "joining"
  /\ wpc = "exited"
  /\ dpc' = "destroyed"
  /\ UNCHANGED <<queue, workerRunning, spc, wpc, current, active, history>>
-----------------------------------------------------------------------------
Worker ==
  \/ WorkerCheck \/ WorkerBreak \/ WorkerPop \/ WorkerWait \/ WorkerPark
  \/ WorkerDiscard \/ WorkerDetach \/ WorkerHandle \/ WorkerHandled

Destructor == DtorClear \/ DtorNotify \/ DtorJoin

Next ==
  \/ \E e \in Event : PushEvent(e) \/ FinishHandler(e)
  \/ NotifyOne \/ Worker \/ SpuriousWakeup \/ DtorDisconnect \/ Destructor

(* Running threads are scheduled again and handlers return.  Nothing makes *)
(* the server send, the bot destroy the gateway, or a wakeup be spurious.  *)
Fairness ==
  /\ WF_vars(NotifyOne)
  /\ WF_vars(Worker)
  /\ \A e \in Event : WF_vars(FinishHandler(e))
  /\ WF_vars(Destructor)

Spec == Init /\ [][Next]_vars /\ Fairness
-----------------------------------------------------------------------------
(* The worker never sleeps on a non-empty queue: when it is blocked and an *)
(* event is waiting, the push's notify is still to come.                   *)
NoLostWakeup == wpc = "blocked" /\ queue # <<>> => spc = "notify"

(* The worker takes the payloads in the order the socket pushed them, and  *)
(* none is skipped or taken twice.                                         *)
QueueIsFifo == taken \o queue = received

(* Every payload the worker took is in exactly one place: with the worker, *)
(* with its own thread, handled, or discarded.                             *)
Busy == IF current = NoEvent THEN {} ELSE {current}

NothingLost ==
  /\ Elements(taken) = Busy \cup active \cup Elements(handled) \cup discarded
  /\ Busy \cap (active \cup Elements(handled) \cup discarded) = {}
  /\ active \cap (Elements(handled) \cup discarded) = {}
  /\ Elements(handled) \cap discarded = {}
  /\ \A k, l \in DOMAIN handled : handled[k] = handled[l] => k = l

(* Session control events are handled in the order the server sent them,   *)
(* whatever the threads of the other events do.                            *)
ControlInOrder ==
  \A e, f \in Elements(handled) \cap Control, i, j \in DOMAIN received :
    /\ e = received[i] /\ f = received[j] /\ i < j
    => \E k, l \in DOMAIN handled : handled[k] = e /\ handled[l] = f /\ k < l

(* No control event is skipped: when one is handled, every earlier one is. *)
ControlComplete ==
  \A i, j \in DOMAIN received :
    /\ i < j /\ received[i] \in Control
    /\ received[j] \in Elements(handled) \cup active \cup discarded
    => received[i] \in Elements(handled)

(* What a handler may rely on: each event comes once, control events in    *)
(* order and before what follows them.                                     *)
StreamIsKept == NothingLost /\ ControlInOrder /\ ControlComplete

(* What the invariants above rest on: the worker has a payload exactly     *)
(* while it processes one, and decides to block only on an empty queue.    *)
WorkerHolds ==
  /\ current # NoEvent <=> wpc \in {"process", "handling"}
  /\ wpc = "handling" => current \in Control
  /\ wpc = "parking" => queue = <<>>

QueueInv == TypeOK /\ WorkerHolds /\ NoLostWakeup /\ QueueIsFifo

ReceivedOnce == \A i, j \in DOMAIN received : received[i] = received[j] => i = j

LastTaken ==
  current # NoEvent => taken # <<>> /\ current = taken[Len(taken)]

OrderInv ==
  QueueInv /\ ReceivedOnce /\ LastTaken /\ NothingLost /\ ControlInOrder

(* The destructor joins a worker that is blocked and that no notify will   *)
(* reach any more.                                                         *)
Hang == dpc = "joining" /\ ~workerRunning /\ wpc = "blocked" /\ spc # "notify" /\ queue = <<>>

(* The join hangs only when the worker tested worker_running before it was *)
(* cleared and blocked after the notify; the code leaves that window open  *)
(* because it clears the flag without holding queue_mutex.                 *)
HangsOnlyByMissedNotify == [][~Hang /\ Hang' => wpc = "parking"]_vars

(* Destroying the gateway ends, but for that window. *)
DestructionEnds == dpc # "alive" ~> dpc = "destroyed" \/ Hang

(* The gateway implements the stream: order, once each, and delivery. *)
Stream == INSTANCE EventStream
  WITH inbox <- (IF current = NoEvent THEN <<>> ELSE <<current>>) \o queue,
       open <- dpc = "alive"

DeliversTheStream == Stream!Spec

(* client_config.h says of event_thread_count: threads for dispatching     *)
(* events.                                                                 *)
DispatchThreads == Cardinality(active) <= EventThreadCount
=============================================================================
