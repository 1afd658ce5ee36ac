--------------------------- MODULE GatewaySession ---------------------------
(***************************************************************************)
(* The session of a gateway with the server: connecting, authenticating,   *)
(* the heartbeat, the watchdog, and disconnect().                          *)
(*                                                                         *)
(* Five threads share the flags authenticated and ping_thread_running and  *)
(* the std::thread ping_thread without a lock:                             *)
(*   - the WebSocket's thread runs on_connected and on_disconnected;       *)
(*   - worker_thread handles Authenticated;                                *)
(*   - ping_thread sends the heartbeat;                                    *)
(*   - watchdog_thread restarts a dead socket or authenticates again;      *)
(*   - the thread of the bot calls disconnect() (cluster::stop).           *)
(* schedule_ping and the teardown of ping_thread are routines that several *)
(* of them run; where such a run stands is routine[thread].  Starting a    *)
(* thread in a std::thread that is still joinable, and joining one that is *)
(* not, ends the process: "terminated".                                    *)
(***************************************************************************)
EXTENDS Naturals, FiniteSets

CONSTANTS
  AuthInUrl,      \* ClientConfig::ws_auth_in_url
  MaxInbox        \* bound: Authenticated events that wait for the worker

ASSUME SessionConstants == AuthInUrl \in BOOLEAN /\ MaxInbox \in Nat

VARIABLES
  conn,           \* the WebSocket: "down" (it reconnects), "open", "off" (stopped)
  stopReq,        \* ws.stop() was called and did not return yet
  wpc,            \* the callback the WebSocket's thread is in
  authenticated,  \* pimpl_->authenticated
  running,        \* ping_thread_running
  pinger,         \* ping_thread: "none" when it is not joinable
  routine,        \* schedule_ping or the teardown, per thread that runs it
  stale, fresh,   \* queued Authenticated events of earlier and of this connection
  asked,          \* the server has an Authenticate it did not answer
  srvAuth,        \* the server authenticated this connection
  wdRunning,      \* watchdog_running
  dpc,            \* watchdog_thread
  overdue,        \* last_connected_time is longer ago than the watchdog allows
  upc,            \* the thread that calls disconnect()
  beat,           \* flips at every ping that is sent
  terminated,     \* std::terminate was called
  late,           \* history: an Authenticated was handled after its connection
                  \*   closed, and the flag was not cleared since
  overlapped      \* history: two threads were in a routine at once

vars == <<conn, stopReq, wpc, authenticated, running, pinger, routine, stale, fresh,
          asked, srvAuth, wdRunning, dpc, overdue, upc, beat, terminated, late, overlapped>>

server == <<asked, srvAuth, stale, fresh>>
watchdog == <<wdRunning, dpc, overdue>>

Thread == {"socket", "worker", "user"}

RoutineState ==
  { "no",
    "check", "arm", "spawn",               \* schedule_ping
    "test", "clear",                       \* the teardown
    "joinable", "join", "joining" }

TypeOK ==
  /\ conn \in {"down", "open", "off"}
  /\ stopReq \in BOOLEAN
  /\ wpc \in {"idle", "opened", "closed"}
  /\ authenticated \in BOOLEAN
  /\ running \in BOOLEAN
  /\ pinger \in {"none", "first", "loop", "exited"}
  /\ routine \in [Thread -> RoutineState]
  /\ stale \in 0 .. MaxInbox /\ fresh \in 0 .. MaxInbox
  /\ asked \in BOOLEAN /\ srvAuth \in BOOLEAN
  /\ wdRunning \in BOOLEAN
  /\ dpc \in {"sleep", "stop", "stopping", "starting", "exited"}
  /\ overdue \in BOOLEAN
  /\ upc \in {"run", "joinWatchdog", "unping", "socket", "stopping", "clear", "done"}
  /\ beat \in BOOLEAN
  /\ terminated \in BOOLEAN /\ late \in BOOLEAN /\ overlapped \in BOOLEAN

(* gateway::connect just returned: the socket is connecting and the        *)
(* watchdog runs.                                                          *)
Init ==
  /\ conn = "down" /\ stopReq = FALSE /\ wpc = "idle"
  /\ authenticated = FALSE /\ running = FALSE /\ pinger = "none"
  /\ routine = [t \in Thread |-> "no"]
  /\ stale = 0 /\ fresh = 0 /\ asked = FALSE /\ srvAuth = FALSE
  /\ wdRunning = TRUE /\ dpc = "sleep" /\ overdue = FALSE
  /\ upc = "run" /\ beat = FALSE
  /\ terminated = FALSE /\ late = FALSE /\ overlapped = FALSE

(* The thread t goes on in its routine, or enters or leaves it. *)
Go(t, to) ==
  /\ routine' = [routine EXCEPT ![t] = to]
  /\ overlapped' = (overlapped \/ (to # "no" /\ \E u \in Thread \ {t} : routine[u] # "no"))

NoRoutine == UNCHANGED <<routine, overlapped>>

(* ping(): send_raw drops it when the socket is not open. *)
Ping == beat' = IF conn = "open" THEN ~beat ELSE beat
-----------------------------------------------------------------------------
(* Faulty variants of the code, which the properties below tell from it.   *)

(* schedule_ping without its first line. *)
ScheduleUnchecked(t) ==
  /\ routine[t] = "check"
  /\ Go(t, "arm")
  /\ UNCHANGED <<conn, stopReq, wpc, authenticated, running, pinger, server, watchdog,
                 upc, beat, terminated, late>>

(* The teardown does not clear ping_thread_running. *)
TeardownForgetsClear(t) ==
  /\ routine[t] = "clear"
  /\ Go(t, "joinable")
  /\ UNCHANGED <<conn, stopReq, wpc, authenticated, running, pinger, server, watchdog,
                 upc, beat, terminated, late>>

(* on_disconnected leaves the flag as it is. *)
OnDisconnectedKeepsFlag ==
  /\ wpc = "closed"
  /\ wpc' = "idle"
  /\ Go("socket", "test")
  /\ UNCHANGED <<conn, stopReq, authenticated, running, pinger, server, watchdog,
                 upc, beat, terminated, late>>

(* The watchdog does not start the socket it stopped. *)
WatchdogForgetsStart ==
  /\ dpc = "starting"
  /\ dpc' = "sleep"
  /\ overdue' = FALSE
  /\ NoRoutine
  /\ UNCHANGED <<conn, stopReq, wpc, authenticated, running, pinger, server, wdRunning,
                 upc, beat, terminated, late>>

(* stop_watchdog detaches the watchdog instead of joining it. *)
DisconnectDetaches ==
  /\ upc = "joinWatchdog"
  /\ upc' = "unping"
  /\ Go("user", "test")
  /\ UNCHANGED <<conn, stopReq, wpc, authenticated, running, pinger, server, watchdog,
                 beat, terminated, late>>
-----------------------------------------------------------------------------
(* schedule_ping. *)

ScheduleCheck(t) ==
  /\ routine[t] = "check"
  /\ Go(t, IF running THEN "no" ELSE "arm")
  /\ UNCHANGED <<conn, stopReq, wpc, authenticated, running, pinger, server, watchdog,
                 upc, beat, terminated, late>>

ScheduleArm(t) ==
  /\ routine[t] = "arm"
  /\ running' = TRUE
  /\ Go(t, "spawn")
  /\ UNCHANGED <<conn, stopReq, wpc, authenticated, pinger, server, watchdog,
                 upc, beat, terminated, late>>

ScheduleSpawn(t) ==
  /\ routine[t] = "spawn"
  /\ \/ /\ pinger = "none"
        /\ pinger' = "first"
        /\ UNCHANGED terminated
     \/ /\ pinger # "none"
        /\ terminated' = TRUE
        /\ UNCHANGED pinger
  /\ Go(t, "no")
  /\ UNCHANGED <<conn, stopReq, wpc, authenticated, running, server, watchdog,
                 upc, beat, late>>

(* The teardown in on_disconnected and in disconnect. *)

TeardownTest(t) ==
  /\ routine[t] = "test"
  /\ Go(t, IF running THEN "clear" ELSE "no")
  /\ UNCHANGED <<conn, stopReq, wpc, authenticated, running, pinger, server, watchdog,
                 upc, beat, terminated, late>>

TeardownClear(t) ==
  /\ routine[t] = "clear"
  /\ running' = FALSE
  /\ Go(t, "joinable")
  /\ UNCHANGED <<conn, stopReq, wpc, authenticated, pinger, server, watchdog,
                 upc, beat, terminated, late>>

TeardownJoinable(t) ==
  /\ routine[t] = "joinable"
  /\ Go(t, IF pinger = "none" THEN "no" ELSE "join")
  /\ UNCHANGED <<conn, stopReq, wpc, authenticated, running, pinger, server, watchdog,
                 upc, beat, terminated, late>>

(* join() throws if the thread is not joinable any more, or if another     *)
(* thread already waits for it.                                            *)
TeardownJoin(t) ==
  /\ routine[t] = "join"
  /\ LET fails == pinger = "none" \/ \E u \in Thread : routine[u] = "joining"
     IN  terminated' = fails /\ Go(t, IF fails THEN "no" ELSE "joining")
  /\ UNCHANGED <<conn, stopReq, wpc, authenticated, running, pinger, server, watchdog,
                 upc, beat, late>>

TeardownJoined(t) ==
  /\ routine[t] = "joining"
  /\ pinger = "exited"
  /\ pinger' = "none"
  /\ Go(t, "no")
  /\ UNCHANGED <<conn, stopReq, wpc, authenticated, running, server, watchdog,
                 upc, beat, terminated, late>>

Routine(t) ==
  \/ ScheduleCheck(t) \/ ScheduleArm(t) \/ ScheduleSpawn(t)
  \/ TeardownTest(t) \/ TeardownClear(t) \/ TeardownJoinable(t)
  \/ TeardownJoin(t) \/ TeardownJoined(t)
-----------------------------------------------------------------------------
(* ping_thread: the first ping, then one per interval while running. *)

PingFirst ==
  /\ pinger = "first"
  /\ pinger' = "loop"
  /\ IF authenticated THEN Ping ELSE UNCHANGED beat
  /\ NoRoutine
  /\ UNCHANGED <<conn, stopReq, wpc, authenticated, running, server, watchdog,
                 upc, terminated, late>>

PingAgain ==
  /\ pinger = "loop" /\ running
  /\ authenticated /\ Ping
  /\ NoRoutine
  /\ UNCHANGED <<conn, stopReq, wpc, authenticated, running, pinger, server, watchdog,
                 upc, terminated, late>>

PingExit ==
  /\ pinger = "loop" /\ ~running
  /\ pinger' = "exited"
  /\ NoRoutine
  /\ UNCHANGED <<conn, stopReq, wpc, authenticated, running, server, watchdog,
                 upc, beat, terminated, late>>

Pinger == PingFirst \/ PingAgain \/ PingExit
-----------------------------------------------------------------------------
(* The WebSocket's thread runs one callback at a time. *)
SocketIdle == wpc = "idle" /\ routine["socket"] = "no"

SocketOpen ==
  /\ SocketIdle
  /\ conn = "down" /\ ~stopReq
  /\ conn' = "open"
  /\ wpc' = "opened"
  /\ asked' = AuthInUrl
  /\ NoRoutine
  /\ UNCHANGED <<stopReq, authenticated, running, pinger, srvAuth, stale, fresh, watchdog,
                 upc, beat, terminated, late>>

OnConnected ==
  /\ wpc = "opened"
  /\ wpc' = "idle"
  /\ overdue' = FALSE
  /\ IF AuthInUrl
     THEN authenticated' = TRUE /\ Go("socket", "check") /\ UNCHANGED asked
     ELSE asked' = TRUE /\ NoRoutine /\ UNCHANGED authenticated
  /\ UNCHANGED <<conn, stopReq, running, pinger, srvAuth, stale, fresh, wdRunning, dpc,
                 upc, beat, terminated, late>>

(* The server or the network closes the connection, or ws.stop() does.     *)
(* Events of it that are still queued will be handled after it is gone.    *)
SocketClose ==
  /\ SocketIdle
  /\ conn = "open"
  /\ conn' = "down"
  /\ wpc' = "closed"
  /\ srvAuth' = FALSE /\ asked' = FALSE
  /\ stale' = stale + fresh /\ fresh' = 0
  /\ NoRoutine
  /\ UNCHANGED <<stopReq, authenticated, running, pinger, watchdog,
                 upc, beat, terminated, late>>

OnDisconnected ==
  /\ wpc = "closed"
  /\ wpc' = "idle"
  /\ authenticated' = FALSE /\ late' = FALSE
  /\ Go("socket", "test")
  /\ UNCHANGED <<conn, stopReq, running, pinger, server, watchdog,
                 upc, beat, terminated>>

(* ws.stop() ends the thread of a socket that is closed. *)
SocketStop ==
  /\ SocketIdle
  /\ stopReq /\ conn = "down"
  /\ conn' = "off"
  /\ NoRoutine
  /\ UNCHANGED <<stopReq, wpc, authenticated, running, pinger, server, watchdog,
                 upc, beat, terminated, late>>

(* The server answers an Authenticate, or it never does. *)
ServerAuthenticates ==
  /\ SocketIdle
  /\ conn = "open" /\ asked
  /\ stale + fresh < MaxInbox
  /\ asked' = FALSE /\ srvAuth' = TRUE
  /\ fresh' = fresh + 1
  /\ NoRoutine
  /\ UNCHANGED <<conn, stopReq, wpc, authenticated, running, pinger, stale, watchdog,
                 upc, beat, terminated, late>>

ServerIgnores ==
  /\ asked
  /\ asked' = FALSE
  /\ NoRoutine
  /\ UNCHANGED <<conn, stopReq, wpc, authenticated, running, pinger, srvAuth, stale, fresh,
                 watchdog, upc, beat, terminated, late>>
-----------------------------------------------------------------------------
(* worker_thread takes the oldest Authenticated event and handles it. *)
HandleAuthenticated ==
  /\ routine["worker"] = "no"
  /\ stale + fresh > 0
  /\ IF stale > 0
     THEN stale' = stale - 1 /\ late' = TRUE /\ UNCHANGED fresh
     ELSE fresh' = fresh - 1 /\ UNCHANGED <<stale, late>>
  /\ authenticated' = TRUE
  /\ Ping
  /\ Go("worker", "check")
  /\ UNCHANGED <<conn, stopReq, wpc, running, pinger, asked, srvAuth, watchdog,
                 upc, terminated>>
-----------------------------------------------------------------------------
(* watchdog_thread. *)

TimePasses ==
  /\ ~overdue
  /\ overdue' = TRUE
  /\ NoRoutine
  /\ UNCHANGED <<conn, stopReq, wpc, authenticated, running, pinger, server, wdRunning, dpc,
                 upc, beat, terminated, late>>

WatchdogExit ==
  /\ dpc = "sleep" /\ ~wdRunning
  /\ dpc' = "exited"
  /\ NoRoutine
  /\ UNCHANGED <<conn, stopReq, wpc, authenticated, running, pinger, server, wdRunning, overdue,
                 upc, beat, terminated, late>>

(* Awake, it saw the socket not open for too long ... *)
WatchdogFindsDead ==
  /\ dpc = "sleep" /\ wdRunning
  /\ conn # "open" /\ overdue
  /\ dpc' = "stop"
  /\ NoRoutine
  /\ UNCHANGED <<conn, stopReq, wpc, authenticated, running, pinger, server, wdRunning, overdue,
                 upc, beat, terminated, late>>

(* ... or open for too long and not authenticated: authenticate(token_). *)
WatchdogAuthenticates ==
  /\ dpc = "sleep" /\ wdRunning
  /\ conn = "open" /\ ~authenticated /\ overdue
  /\ asked' = TRUE
  /\ overdue' = FALSE
  /\ NoRoutine
  /\ UNCHANGED <<conn, stopReq, wpc, authenticated, running, pinger, srvAuth, stale, fresh,
                 wdRunning, dpc, upc, beat, terminated, late>>

WatchdogStopsSocket ==
  /\ dpc = "stop"
  /\ dpc' = "stopping"
  /\ stopReq' = TRUE
  /\ NoRoutine
  /\ UNCHANGED <<conn, wpc, authenticated, running, pinger, server, wdRunning, overdue,
                 upc, beat, terminated, late>>

(* ws.stop() returns when the socket's thread has ended. *)
WatchdogSocketStopped ==
  /\ dpc = "stopping" /\ conn = "off"
  /\ dpc' = "starting"
  /\ stopReq' = FALSE
  /\ NoRoutine
  /\ UNCHANGED <<conn, wpc, authenticated, running, pinger, server, wdRunning, overdue,
                 upc, beat, terminated, late>>

WatchdogStartsSocket ==
  /\ dpc = "starting"
  /\ dpc' = "sleep"
  /\ conn' = "down"
  /\ overdue' = FALSE
  /\ NoRoutine
  /\ UNCHANGED <<stopReq, wpc, authenticated, running, pinger, server, wdRunning,
                 upc, beat, terminated, late>>

Watchdog ==
  \/ WatchdogExit \/ WatchdogFindsDead \/ WatchdogAuthenticates
  \/ WatchdogStopsSocket \/ WatchdogSocketStopped \/ WatchdogStartsSocket
-----------------------------------------------------------------------------
(* disconnect(), called once from the thread of the bot. *)

Disconnect ==
  /\ upc = "run"
  /\ upc' = "joinWatchdog"
  /\ wdRunning' = FALSE
  /\ NoRoutine
  /\ UNCHANGED <<conn, stopReq, wpc, authenticated, running, pinger, server, dpc, overdue,
                 beat, terminated, late>>

DisconnectJoins ==
  /\ upc = "joinWatchdog" /\ dpc = "exited"
  /\ upc' = "unping"
  /\ Go("user", "test")
  /\ UNCHANGED <<conn, stopReq, wpc, authenticated, running, pinger, server, watchdog,
                 beat, terminated, late>>

(* if (is_connected()) ws.stop(): a socket that reconnects is left alone. *)
DisconnectSocket ==
  /\ upc = "unping" /\ routine["user"] = "no"
  /\ IF conn = "open"
     THEN upc' = "stopping" /\ stopReq' = TRUE
     ELSE upc' = "clear" /\ UNCHANGED stopReq
  /\ NoRoutine
  /\ UNCHANGED <<conn, wpc, authenticated, running, pinger, server, watchdog,
                 beat, terminated, late>>

DisconnectStopped ==
  /\ upc = "stopping" /\ conn = "off"
  /\ upc' = "clear"
  /\ stopReq' = FALSE
  /\ NoRoutine
  /\ UNCHANGED <<conn, wpc, authenticated, running, pinger, server, watchdog,
                 beat, terminated, late>>

DisconnectClears ==
  /\ upc = "clear"
  /\ upc' = "done"
  /\ authenticated' = FALSE /\ late' = FALSE
  /\ NoRoutine
  /\ UNCHANGED <<conn, stopReq, wpc, running, pinger, server, watchdog,
                 beat, terminated>>

Disconnecting ==
  DisconnectJoins \/ DisconnectSocket \/ DisconnectStopped \/ DisconnectClears
-----------------------------------------------------------------------------
Socket == OnConnected \/ OnDisconnected \/ SocketStop \/ (stopReq /\ SocketClose)

Environment == SocketOpen \/ SocketClose \/ ServerAuthenticates \/ ServerIgnores

Next ==
  /\ ~terminated
  /\ \/ \E t \in Thread : Routine(t)
     \/ Socket \/ Environment \/ HandleAuthenticated \/ Pinger
     \/ TimePasses \/ Watchdog \/ Disconnect \/ Disconnecting

(* The threads are scheduled and the clock advances; the server need not   *)
(* accept, answer or close anything, nor the bot disconnect.               *)
Fairness ==
  /\ \A t \in Thread : WF_vars(~terminated /\ Routine(t))
  /\ WF_vars(~terminated /\ Socket)
  /\ WF_vars(~terminated /\ HandleAuthenticated)
  /\ WF_vars(~terminated /\ Pinger)
  /\ WF_vars(~terminated /\ TimePasses)
  /\ WF_vars(~terminated /\ Watchdog)
  /\ WF_vars(~terminated /\ Disconnecting)

Spec == Init /\ [][Next]_vars /\ Fairness
-----------------------------------------------------------------------------
(* The client believes a connection authenticated that the server did not  *)
(* authenticate only after it handled, late, an Authenticated event of an  *)
(* earlier connection; no other interleaving leaves the flag behind.       *)
FlagIsEarned ==
  ~AuthInUrl /\ authenticated /\ conn = "open" /\ ~srvAuth => late

(* If two threads never are in schedule_ping or the teardown at once, the  *)
(* process is never terminated, and between their runs the flag says       *)
(* whether a heartbeat thread is there.  (They can be: nothing prevents    *)
(* it, and then the process may be.)                                       *)
Quiet == \A t \in Thread : routine[t] = "no"

SafeUnlessOverlapped ==
  ~overlapped =>
    /\ ~terminated
    /\ Quiet => (running <=> pinger \in {"first", "loop"}) /\ pinger # "exited"

(* The watchdog, which restarts sockets, never restarts the one that       *)
(* disconnect() stopped.                                                   *)
StopIsFinal == [][(upc \in {"clear", "done"} /\ conn = "off") => (conn' = "off")]_vars

(* disconnect() returns, whichever callbacks, pings and watchdog restarts  *)
(* are under way when it is called: no two threads wait for each other.    *)
(* Only a schedule_ping or teardown that runs at the same time can make it *)
(* join a heartbeat thread that was started anew.                          *)
DisconnectReturns == upc # "run" ~> upc = "done" \/ overlapped

(* A socket the watchdog stopped is started again. *)
SocketComesBack == conn = "off" /\ upc = "run" ~> conn = "down" \/ upc # "run" \/ terminated

(* The watchdog does not leave an open connection unauthenticated: as long *)
(* as the flag is false the server is asked again.                         *)
WatchdogPersists ==
  conn = "open" /\ ~authenticated ~>
    asked \/ authenticated \/ conn # "open" \/ upc # "run" \/ terminated

(* client_config.h says: ping every 15s.  While a connection stays open    *)
(* and authenticated and the bot does not disconnect, pings go on.         *)
Heartbeat ==
  <>[](conn = "open" /\ authenticated /\ upc = "run") => []<>beat /\ []<>(~beat)

(* They do, if the routines never overlapped. *)
HeartbeatUnlessOverlapped == []~overlapped => Heartbeat

(* Dead sockets are started again, open ones authenticated, and kept.      *)
ConnectionIsKept == SocketComesBack /\ WatchdogPersists /\ HeartbeatUnlessOverlapped
=============================================================================
