--------------------------- MODULE MessageWatchers ---------------------------
(***************************************************************************)
(* cluster::await_message and the message listener that serves it.         *)
(*                                                                         *)
(* A call of await_message appends a watcher to message_watchers_ and      *)
(* starts a detached thread that sleeps for the timeout and then takes the *)
(* watcher away again.  Every Message event runs on a detached thread of   *)
(* the gateway; its listener looks for the first matching watcher, removes *)
(* it and calls its callback, or hands the message to dispatch_command.    *)
(* The list is guarded by message_watchers_mutex_, the callbacks run       *)
(* outside it, so the removal and the call are separate steps of threads   *)
(* that race with each other.                                              *)
(***************************************************************************)
EXTENDS Naturals, Sequences

CONSTANTS
  Watcher,        \* the calls of await_message (watcher_counter makes ids fresh)
  Message,        \* the Message events, each with the thread that handles it
  Channel, User,
  IgnoredUser,    \* the users event_dispatcher::should_ignore_user holds for
  AnyUser,        \* the empty user_id of a watcher that takes any author
  NoWatcher       \* no watcher was found for a message

ASSUME MarkersAreNew ==
  /\ IgnoredUser \subseteq User
  /\ AnyUser \notin User
  /\ NoWatcher \notin Watcher

VARIABLES
  registry,       \* message_watchers_: the watchers it holds
  order,          \* the place each watcher was pushed at, 0 before that
  pushed,         \* how many watchers were pushed
  request,        \* the arguments of each call of await_message
  timer,          \* the thread that times each watcher out
  calls,          \* what each callback was invoked with, in order
  pc,             \* the thread that handles each message
  content,        \* the channel and author of each message
  taken           \* the watcher that each message's thread removed

vars == <<registry, order, pushed, request, timer, calls, pc, content, taken>>
watcherVars == <<order, pushed, request>>
-----------------------------------------------------------------------------
Requests == [channel : Channel, user : User \cup {AnyUser}, callback : BOOLEAN]

Contents == [channel : Channel, author : User]

TimerState ==
  { "none",       \* await_message was not called
    "unspawned",  \* the watcher is pushed, its thread is not yet started
    "sleeping",
    "triggered",  \* it removed the watcher and is about to call back
    "fired",      \* it called back with nullopt
    "quiet" }     \* it found the watcher gone

PcState ==
  { "idle",       \* the event did not arrive yet
    "ignored",    \* dropped: its author is ignored
    "listening",  \* about to search message_watchers_
    "calling",    \* about to call the watcher's callback
    "answered",
    "command",    \* about to run dispatch_command
    "dispatched" }

TypeOK ==
  /\ registry \in SUBSET Watcher
  /\ order \in [Watcher -> Nat]
  /\ pushed \in Nat
  /\ request \in [Watcher -> Requests]
  /\ timer \in [Watcher -> TimerState]
  /\ calls \in [Watcher -> Seq({"message", "timeout"})]
  /\ pc \in [Message -> PcState]
  /\ content \in [Message -> Contents]
  /\ taken \in [Message -> Watcher \cup {NoWatcher}]

(* The predicate of find_if in setup_message_listener. *)
Matches(w, m) ==
  /\ request[w].channel = content[m].channel
  /\ request[w].user \in {AnyUser, content[m].author}

Init ==
  /\ registry = {}
  /\ order = [w \in Watcher |-> 0]
  /\ pushed = 0
  /\ request \in [Watcher -> Requests]
  /\ timer = [w \in Watcher |-> "none"]
  /\ calls = [w \in Watcher |-> <<>>]
  /\ pc = [m \in Message |-> "idle"]
  /\ content \in [Message -> Contents]
  /\ taken = [m \in Message |-> NoWatcher]
-----------------------------------------------------------------------------
(* Faulty variants of the code, which the properties below tell from it.   *)

(* Reports a timeout without looking whether the watcher is still there. *)
TimeoutAlwaysTriggers(w) ==
  /\ timer[w] = "sleeping"
  /\ registry' = registry \ {w}
  /\ timer' = [timer EXCEPT ![w] = "triggered"]
  /\ UNCHANGED <<watcherVars, calls, pc, content, taken>>

(* Erases the watcher but forgets to set triggered. *)
TimeoutNeverTriggers(w) ==
  /\ timer[w] = "sleeping"
  /\ registry' = registry \ {w}
  /\ timer' = [timer EXCEPT ![w] = "quiet"]
  /\ UNCHANGED <<watcherVars, calls, pc, content, taken>>

Take(m, w) ==
  /\ pc[m] = "listening"
  /\ registry' = registry \ {w}
  /\ taken' = [taken EXCEPT ![m] = w]
  /\ pc' = [pc EXCEPT ![m] = IF request[w].callback THEN "calling" ELSE "command"]
  /\ UNCHANGED <<watcherVars, timer, calls, content>>

(* Serves the last watcher that matches. *)
FindLastWatcher(m) ==
  \E w \in registry :
    /\ \A v \in registry : Matches(v, m) => order[v] <= order[w]
    /\ Matches(w, m) /\ Take(m, w)
-----------------------------------------------------------------------------
(* await_message pushes the watcher under the lock ... *)
AwaitMessage(w) ==
  /\ timer[w] = "none"
  /\ timer' = [timer EXCEPT ![w] = "unspawned"]
  /\ pushed' = pushed + 1
  /\ order' = [order EXCEPT ![w] = pushed + 1]
  /\ registry' = registry \cup {w}
  /\ UNCHANGED <<request, calls, pc, content, taken>>

(* ... and starts the timeout thread after releasing it. *)
SpawnTimer(w) ==
  /\ timer[w] = "unspawned"
  /\ timer' = [timer EXCEPT ![w] = "sleeping"]
  /\ UNCHANGED <<registry, watcherVars, calls, pc, content, taken>>

(* The sleep is over: the thread looks its watcher up by id and erases it. *)
TimeoutExpires(w) ==
  /\ timer[w] = "sleeping"
  /\ \/ /\ w \in registry
        /\ registry' = registry \ {w}
        /\ timer' = [timer EXCEPT ![w] = "triggered"]
     \/ /\ w \notin registry
        /\ timer' = [timer EXCEPT ![w] = "quiet"]
        /\ UNCHANGED registry
  /\ UNCHANGED <<watcherVars, calls, pc, content, taken>>

(* Outside the lock: if (triggered && callback) callback(nullopt). *)
CallTimeout(w) ==
  /\ timer[w] = "triggered"
  /\ timer' = [timer EXCEPT ![w] = "fired"]
  /\ calls' = IF request[w].callback
              THEN [calls EXCEPT ![w] = Append(@, "timeout")]
              ELSE calls
  /\ UNCHANGED <<registry, watcherVars, pc, content, taken>>
-----------------------------------------------------------------------------
(* A Message event arrives on a thread of its own; dispatch_message drops  *)
(* it when its author is ignored.                                          *)
DispatchMessage(m) ==
  /\ pc[m] = "idle"
  /\ pc' = [pc EXCEPT ![m] =
              IF content[m].author \in IgnoredUser THEN "ignored" ELSE "listening"]
  /\ UNCHANGED <<registry, watcherVars, timer, calls, content, taken>>

(* The listener removes the first watcher that matches.  One that has no   *)
(* callback is removed all the same, and the message is still a command.   *)
FindWatcher(m) ==
  /\ pc[m] = "listening"
  /\ LET found == {w \in registry : Matches(w, m)}
     IN  \/ /\ found = {}
            /\ pc' = [pc EXCEPT ![m] = "command"]
            /\ UNCHANGED <<registry, taken>>
         \/ \E w \in found :
              /\ \A v \in found : order[w] <= order[v]
              /\ registry' = registry \ {w}
              /\ taken' = [taken EXCEPT ![m] = w]
              /\ pc' = [pc EXCEPT ![m] =
                          IF request[w].callback THEN "calling" ELSE "command"]
  /\ UNCHANGED <<watcherVars, timer, calls, content>>

(* Outside the lock: cb(msg), and return without dispatch_command. *)
CallWatcher(m) ==
  /\ pc[m] = "calling"
  /\ calls' = [calls EXCEPT ![taken[m]] = Append(@, "message")]
  /\ pc' = [pc EXCEPT ![m] = "answered"]
  /\ UNCHANGED <<registry, watcherVars, timer, content, taken>>

DispatchCommand(m) ==
  /\ pc[m] = "command"
  /\ pc' = [pc EXCEPT ![m] = "dispatched"]
  /\ UNCHANGED <<registry, watcherVars, timer, calls, content, taken>>

Waiting(w) ==
  AwaitMessage(w) \/ SpawnTimer(w) \/ TimeoutExpires(w) \/ CallTimeout(w)

Listening(m) ==
  DispatchMessage(m) \/ FindWatcher(m) \/ CallWatcher(m) \/ DispatchCommand(m)

Next == (\E w \in Watcher : Waiting(w)) \/ (\E m \in Message : Listening(m))

(* A thread that runs is scheduled again; calls of await_message and       *)
(* arriving messages are up to the bot and the server.                     *)
Fairness ==
  /\ \A w \in Watcher : WF_vars(SpawnTimer(w) \/ TimeoutExpires(w) \/ CallTimeout(w))
  /\ \A m \in Message : WF_vars(FindWatcher(m) \/ CallWatcher(m) \/ DispatchCommand(m))

Spec == Init /\ [][Next]_vars /\ Fairness
-----------------------------------------------------------------------------
(* No callback is invoked twice: not by two messages whose threads search  *)
(* the list at once, and not by a message and the timeout that races it.   *)
AtMostOneCall == \A w \in Watcher : Len(calls[w]) <= 1

(* The thread that removed a watcher removed one that asked for its        *)
(* message, and every other thread's removal is of another watcher.        *)
TakenForItsMessage ==
  \A m \in Message : taken[m] # NoWatcher =>
    /\ Matches(taken[m], m)
    /\ taken[m] \notin registry
    /\ \A n \in Message \ {m} : taken[n] # taken[m]

(* One thread at most takes a watcher, for a message it asked for, and its *)
(* callback is invoked once at most.                                       *)
RepliesAreOwn == AtMostOneCall /\ TakenForItsMessage

(* Watchers are served in the order of their calls of await_message: when  *)
(* a message went to a watcher, every watcher that also matches it and is  *)
(* still waiting was pushed later.                                         *)
FirstComeFirstServed ==
  \A m \in Message, w \in registry :
    taken[m] # NoWatcher /\ Matches(w, m) => order[taken[m]] < order[w]

(* Each call of await_message that passes a callback is a one-shot         *)
(* request: answered once and, the threads being scheduled, eventually.    *)
Asked == {w \in Watcher : timer[w] # "none" /\ request[w].callback}

OneShot == INSTANCE OneShotReply
  WITH Request <- Watcher, asked <- Asked, replies <- calls

EveryRequestIsAnsweredOnce == OneShot!Spec
-----------------------------------------------------------------------------
(* The inductive strengthening: a watcher belongs to exactly one of the    *)
(* list, its timeout thread, one message's thread, or nobody any more.     *)
WaitingIsUnanswered ==
  \A w \in registry : timer[w] \in {"unspawned", "sleeping"} /\ calls[w] = <<>>

TakenFromTimer ==
  \A m \in Message : taken[m] # NoWatcher =>
    timer[taken[m]] \in {"unspawned", "sleeping", "quiet"}

CallsMatchOwner ==
  /\ \A w \in Watcher :
       calls[w] = <<>> \/ calls[w] = <<"message">> \/ calls[w] = <<"timeout">>
  /\ \A w \in Watcher : timer[w] \in {"none", "triggered"} => calls[w] = <<>>
  /\ \A m \in Message : pc[m] = "calling" =>
       taken[m] # NoWatcher /\ calls[taken[m]] = <<>> /\ request[taken[m]].callback

UntakenBeforeSearch ==
  \A m \in Message : pc[m] \in {"idle", "ignored", "listening"} => taken[m] = NoWatcher

OrderIsPushOrder ==
  /\ \A w \in Watcher : order[w] <= pushed
  /\ \A w \in Watcher : order[w] = 0 <=> timer[w] = "none"
  /\ \A v, w \in Watcher : v # w /\ order[v] # 0 => order[v] # order[w]

Ownership ==
  /\ TypeOK
  /\ WaitingIsUnanswered
  /\ TakenFromTimer
  /\ CallsMatchOwner
  /\ UntakenBeforeSearch
  /\ OrderIsPushOrder
  /\ TakenForItsMessage
=============================================================================
