------------------------ MODULE GatewaySessionProofs ------------------------
(***************************************************************************)
(* Proofs about GatewaySession, for both ways to authenticate and any      *)
(* number of queued Authenticated events.  The inductive invariants:       *)
(*   - TypeInv: the types, and the bound on both kinds of queued events;   *)
(*   - RoutineInv, with NotEntered: where the only thread in a routine     *)
(*     stands says what ping_thread_running and ping_thread are;           *)
(*   - FlagInv: who may have set authenticated, and for which connection;  *)
(*   - WatchdogGone: disconnect() goes on past its join only when the      *)
(*     watchdog has ended.                                                 *)
(***************************************************************************)
EXTENDS MCGatewaySession, TLAPS

(* The types, by who writes the variables. *)
SocketType == conn \in {"down", "open", "off"} /\ wpc \in {"idle", "opened", "closed"}

FlagType == stopReq \in BOOLEAN /\ authenticated \in BOOLEAN /\ late \in BOOLEAN

HeartType ==
  /\ running \in BOOLEAN
  /\ pinger \in {"none", "first", "loop", "exited"}
  /\ beat \in BOOLEAN
  /\ terminated \in BOOLEAN

RoutineType == routine \in [Thread -> RoutineState] /\ overlapped \in BOOLEAN

ServerType == asked \in BOOLEAN /\ srvAuth \in BOOLEAN

InboxType == stale \in Nat /\ fresh \in Nat /\ stale + fresh <= MaxInbox

WatchdogType ==
  /\ wdRunning \in BOOLEAN
  /\ dpc \in {"sleep", "stop", "stopping", "starting", "exited"}
  /\ overdue \in BOOLEAN

UserType == upc \in {"run", "joinWatchdog", "unping", "socket", "stopping", "clear", "done"}

TypeInv ==
  /\ SocketType /\ FlagType /\ HeartType /\ RoutineType
  /\ ServerType /\ InboxType /\ WatchdogType /\ UserType

(* The heartbeat thread is there exactly when its flag says so. *)
Consistent == (running <=> pinger \in {"first", "loop"}) /\ pinger # "exited"

Alone == \A t, u \in Thread : t # u => routine[t] = "no" \/ routine[u] = "no"

(* What a thread that is alone in its routine has established so far. *)
Stands(t) ==
  /\ routine[t] \in {"check", "test"} => Consistent
  /\ routine[t] = "arm" => ~running /\ pinger = "none"
  /\ routine[t] = "spawn" => running /\ pinger = "none"
  /\ routine[t] = "clear" => running /\ pinger \in {"first", "loop"}
  /\ routine[t] \in {"joinable", "join", "joining"} =>
       ~running /\ pinger \in {"first", "loop", "exited"}

RoutineInv ==
  ~overlapped =>
    /\ Alone
    /\ \A t \in Thread : Stands(t)
    /\ Quiet => Consistent
    /\ ~terminated

(* A thread about to run a callback, or to enter its teardown, is in no    *)
(* routine yet.                                                            *)
NotEntered ==
  /\ wpc # "idle" => routine["socket"] = "no"
  /\ upc \in {"run", "joinWatchdog"} => routine["user"] = "no"

(* An event of this connection waits, or was handled, only while the       *)
(* connection is open and the server authenticated it; a flag that is not  *)
(* late outlives it only until on_disconnected runs.                       *)
FlagInv ==
  /\ srvAuth => conn = "open"
  /\ fresh > 0 => srvAuth
  /\ wpc = "closed" => conn = "down"
  /\ dpc = "starting" => conn = "off"
  /\ ~AuthInUrl /\ authenticated /\ ~late => srvAuth \/ wpc = "closed"

WatchdogGone == upc \notin {"run", "joinWatchdog"} => dpc = "exited"
-----------------------------------------------------------------------------
(* Every step is an action, or changes nothing: the cases of the lemmas.   *)
LEMMA StepCases ==
  ASSUME [Next]_vars
  PROVE  \/ \E t \in Thread : Routine(t)
         \/ OnConnected \/ OnDisconnected \/ SocketStop \/ SocketClose
         \/ SocketOpen \/ ServerAuthenticates \/ ServerIgnores
         \/ HandleAuthenticated \/ Pinger \/ TimePasses \/ Watchdog
         \/ Disconnect \/ Disconnecting \/ UNCHANGED vars
BY DEF Next, Socket, Environment

(* A part of the types is kept by a step that leaves its variables alone. *)
LEMMA Frames ==
  ASSUME TypeInv
  PROVE  /\ UNCHANGED <<conn, wpc>> => SocketType'
         /\ UNCHANGED <<stopReq, authenticated, late>> => FlagType'
         /\ UNCHANGED <<running, pinger, beat, terminated>> => HeartType'
         /\ NoRoutine => RoutineType'
         /\ UNCHANGED <<asked, srvAuth>> => ServerType'
         /\ UNCHANGED <<stale, fresh>> => InboxType'
         /\ UNCHANGED watchdog => WatchdogType'
         /\ UNCHANGED upc => UserType'
<1> USE DEF TypeInv
<1>1. UNCHANGED <<conn, wpc>> => SocketType'
  BY DEF SocketType
<1>2. UNCHANGED <<stopReq, authenticated, late>> => FlagType'
  BY DEF FlagType
<1>3. UNCHANGED <<running, pinger, beat, terminated>> => HeartType'
  BY DEF HeartType
<1>4. NoRoutine => RoutineType'
  BY DEF RoutineType, NoRoutine
<1>5. UNCHANGED <<asked, srvAuth>> => ServerType'
  BY DEF ServerType
<1>6. UNCHANGED <<stale, fresh>> => InboxType'
  BY DEF InboxType
<1>7. UNCHANGED watchdog => WatchdogType'
  BY DEF WatchdogType, watchdog
<1>8. UNCHANGED upc => UserType'
  BY DEF UserType
<1> QED
  BY <1>1, <1>2, <1>3, <1>4, <1>5, <1>6, <1>7, <1>8

(* Who enters, goes on in or leaves a routine stays in its states. *)
LEMMA GoType ==
  ASSUME TypeInv, NEW t \in Thread, NEW to \in RoutineState, Go(t, to)
  PROVE  RoutineType'
BY DEF Go, TypeInv, RoutineType

(* The routines of schedule_ping and the teardown keep the types. *)
LEMMA RoutineKeepsTypes ==
  ASSUME TypeInv, NEW t \in Thread, Routine(t)
  PROVE  TypeInv'
<1>1. \E to \in RoutineState : Go(t, to)
  BY DEF Routine, RoutineState, ScheduleCheck, ScheduleArm, ScheduleSpawn, TeardownTest,
         TeardownClear, TeardownJoinable, TeardownJoin, TeardownJoined
<1>2. RoutineType'
  BY <1>1, GoType
<1>3. HeartType'
  <2> USE DEF TypeInv, HeartType
  <2>1. CASE ScheduleCheck(t) \/ TeardownTest(t) \/ TeardownJoinable(t)
    BY <2>1 DEF ScheduleCheck, TeardownTest, TeardownJoinable
  <2>2. CASE ScheduleArm(t)
    BY <2>2 DEF ScheduleArm
  <2>3. CASE ScheduleSpawn(t)
    BY <2>3 DEF ScheduleSpawn
  <2>4. CASE TeardownClear(t)
    BY <2>4 DEF TeardownClear
  <2>5. CASE TeardownJoin(t)
    <3>1. terminated' \in BOOLEAN
      BY <2>5, Zenon DEF TeardownJoin
    <3> QED
      BY <2>5, <3>1 DEF TeardownJoin
  <2>6. CASE TeardownJoined(t)
    BY <2>6 DEF TeardownJoined
  <2> QED
    BY <2>1, <2>2, <2>3, <2>4, <2>5, <2>6 DEF Routine
<1>4. UNCHANGED <<conn, wpc, stopReq, authenticated, late, server, watchdog, upc>>
  BY DEF Routine, ScheduleCheck, ScheduleArm, ScheduleSpawn, TeardownTest,
         TeardownClear, TeardownJoinable, TeardownJoin, TeardownJoined
<1> QED
  BY <1>2, <1>3, <1>4, Frames DEF TypeInv, server

(* Every step keeps the types and the bound on queued events. *)
LEMMA TypeInvNext == TypeInv /\ [Next]_vars => TypeInv'
<1> SUFFICES ASSUME TypeInv, [Next]_vars PROVE TypeInv'
  OBVIOUS
<1> USE Frames DEF server, TypeInv
<1>0. \A t \in Thread, to \in {"no", "check", "test"} : Go(t, to) => RoutineType'
  BY GoType DEF RoutineState
<1>1. ASSUME NEW t \in Thread, Routine(t) PROVE TypeInv'
  BY <1>1, RoutineKeepsTypes
<1>2. CASE OnConnected
  <2>1. RoutineType'
    BY <1>0, <1>2 DEF OnConnected, Thread
  <2>2. FlagType' /\ ServerType'
    BY <1>2 DEF OnConnected, FlagType, ServerType
  <2>3. SocketType' /\ WatchdogType'
    BY <1>2 DEF OnConnected, SocketType, WatchdogType
  <2> QED
    BY <1>2, <2>1, <2>2, <2>3 DEF OnConnected
<1>3. CASE OnDisconnected
  <2>1. RoutineType'
    BY <1>0, <1>3 DEF OnDisconnected, Thread
  <2>2. SocketType' /\ FlagType'
    BY <1>3 DEF OnDisconnected, SocketType, FlagType
  <2> QED
    BY <1>3, <2>1, <2>2 DEF OnDisconnected
<1>4. CASE SocketStop
  BY <1>4 DEF SocketStop, SocketType
<1>5. CASE SocketClose
  <2>1. SocketType' /\ ServerType'
    BY <1>5 DEF SocketClose, SocketType, ServerType
  <2>2. InboxType'
    BY <1>5 DEF SocketClose, InboxType
  <2> QED
    BY <1>5, <2>1, <2>2 DEF SocketClose
<1>6. CASE SocketOpen
  <2>1. SocketType' /\ ServerType'
    BY <1>6, SessionConstants DEF SocketOpen, SocketType, ServerType
  <2> QED
    BY <1>6, <2>1 DEF SocketOpen
<1>7. CASE ServerAuthenticates
  <2>1. InboxType'
    BY <1>7, SessionConstants DEF ServerAuthenticates, InboxType
  <2>2. ServerType'
    BY <1>7 DEF ServerAuthenticates, ServerType
  <2> QED
    BY <1>7, <2>1, <2>2 DEF ServerAuthenticates
<1>8. CASE ServerIgnores
  BY <1>8 DEF ServerIgnores, ServerType
<1>9. CASE HandleAuthenticated
  <2>1. RoutineType'
    BY <1>0, <1>9 DEF HandleAuthenticated, Thread
  <2>2. InboxType'
    BY <1>9, SessionConstants DEF HandleAuthenticated, InboxType
  <2>3. FlagType' /\ HeartType'
    BY <1>9 DEF HandleAuthenticated, Ping, FlagType, HeartType
  <2> QED
    BY <1>9, <2>1, <2>2, <2>3 DEF HandleAuthenticated
<1>10. CASE Pinger
  <2>1. HeartType'
    BY <1>10 DEF Pinger, PingFirst, PingAgain, PingExit, Ping, HeartType
  <2> QED
    BY <1>10, <2>1 DEF Pinger, PingFirst, PingAgain, PingExit
<1>11. CASE TimePasses
  BY <1>11 DEF TimePasses, WatchdogType
<1>12. CASE Watchdog
  <2>1. CASE WatchdogExit \/ WatchdogFindsDead
    BY <1>12, <2>1 DEF WatchdogExit, WatchdogFindsDead, WatchdogType
  <2>2. CASE WatchdogAuthenticates
    BY <2>2 DEF WatchdogAuthenticates, WatchdogType, ServerType
  <2>3. CASE WatchdogStopsSocket
    BY <2>3 DEF WatchdogStopsSocket, WatchdogType, FlagType
  <2>4. CASE WatchdogSocketStopped
    BY <2>4 DEF WatchdogSocketStopped, WatchdogType, FlagType
  <2>5. CASE WatchdogStartsSocket
    BY <2>5 DEF WatchdogStartsSocket, WatchdogType, SocketType
  <2> QED
    BY <1>12, <2>1, <2>2, <2>3, <2>4, <2>5 DEF Watchdog
<1>13. CASE Disconnect
  <2>1. WatchdogType' /\ UserType'
    BY <1>13 DEF Disconnect, WatchdogType, UserType
  <2> QED
    BY <1>13, <2>1 DEF Disconnect
<1>14. CASE Disconnecting
  <2>1. CASE DisconnectJoins
    <3>1. RoutineType' /\ UserType'
      BY <1>0, <2>1 DEF DisconnectJoins, Thread, UserType
    <3> QED
      BY <2>1, <3>1 DEF DisconnectJoins
  <2>2. CASE DisconnectSocket \/ DisconnectStopped \/ DisconnectClears
    <3>1. FlagType' /\ UserType'
      BY <2>2 DEF DisconnectSocket, DisconnectStopped, DisconnectClears, FlagType, UserType
    <3> QED
      BY <2>2, <3>1 DEF DisconnectSocket, DisconnectStopped, DisconnectClears
  <2> QED
    BY <1>14, <2>1, <2>2 DEF Disconnecting
<1>15. CASE UNCHANGED vars
  BY <1>15 DEF vars, NoRoutine, watchdog
<1> QED
  BY <1>1, <1>2, <1>3, <1>4, <1>5, <1>6, <1>7, <1>8, <1>9, <1>10, <1>11, <1>12, <1>13,
     <1>14, <1>15, StepCases

(* TypeInv is an invariant: the other proofs start from it. *)
LEMMA TypeInvInit == Init => TypeInv
<1> SUFFICES ASSUME Init PROVE TypeInv
  OBVIOUS
<1>1. RoutineType
  BY DEF Init, RoutineType, RoutineState
<1>2. SocketType /\ FlagType /\ HeartType /\ ServerType
  BY DEF Init, SocketType, FlagType, HeartType, ServerType
<1>3. WatchdogType /\ UserType
  BY DEF Init, WatchdogType, UserType
<1>4. stale = 0 /\ fresh = 0
  BY DEF Init
<1>5. InboxType
  BY <1>4, SessionConstants DEF InboxType
<1> QED
  BY <1>1, <1>2, <1>3, <1>5 DEF TypeInv

LEMMA TypeInvAlways == Spec => []TypeInv
  BY TypeInvInit, TypeInvNext, PTL DEF Spec

(* Every flag, counter and thread keeps its type, whatever the threads do  *)
(* to each other, and the worker takes no event that was not queued.       *)
THEOREM SessionTypeCorrect == Spec => []TypeOK
<1>1. TypeInv => TypeOK
  BY SessionConstants DEF TypeInv, TypeOK, SocketType, FlagType, HeartType, RoutineType,
     ServerType, InboxType, WatchdogType, UserType
<1> QED
  BY <1>1, TypeInvAlways, PTL
-----------------------------------------------------------------------------
(* A routine that was not overlapped before or after a step ran alone. *)
LEMMA GoAlone ==
  ASSUME TypeInv, RoutineInv, NEW t \in Thread, NEW to \in RoutineState, Go(t, to),
         ~overlapped'
  PROVE  /\ ~overlapped /\ ~terminated /\ Alone'
         /\ routine'[t] = to
         /\ \A u \in Thread \ {t} : routine'[u] = routine[u]
         /\ to # "no" => \A u \in Thread \ {t} : routine[u] = "no"
<1> USE DEF TypeInv, RoutineType
<1>1. ~overlapped /\ ~terminated /\ Alone
  BY DEF Go, RoutineInv
<1>2. routine'[t] = to /\ \A u \in Thread \ {t} : routine'[u] = routine[u]
  BY DEF Go
<1>3. to # "no" => \A u \in Thread \ {t} : routine[u] = "no"
  BY DEF Go
<1>4. Alone'
  BY <1>1, <1>2, <1>3 DEF Alone
<1> QED
  BY <1>1, <1>2, <1>3, <1>4

(* A step that leaves the routines, the heartbeat thread and its flag      *)
(* alone keeps what they say of each other.                                *)
LEMMA RoutineFrame ==
  ASSUME RoutineInv, NoRoutine, UNCHANGED <<running, pinger, terminated>>
  PROVE  RoutineInv'
BY DEF RoutineInv, NoRoutine, Alone, Stands, Consistent, Quiet

(* Entering a routine, when all others are outside theirs, is safe: until  *)
(* then flag and thread agreed.                                            *)
LEMMA RoutineEntered ==
  ASSUME TypeInv, RoutineInv, NEW t \in Thread, NEW to \in {"check", "test"},
         routine[t] = "no", Go(t, to), UNCHANGED <<running, pinger, terminated>>
  PROVE  RoutineInv'
<1> SUFFICES ASSUME ~overlapped' PROVE RoutineInv'
  BY DEF RoutineInv
<1>0. to \in RoutineState
  BY DEF RoutineState
<1>1. /\ ~overlapped /\ ~terminated /\ Alone' /\ routine'[t] = to
      /\ \A u \in Thread \ {t} : routine'[u] = "no" /\ routine[u] = "no"
  BY <1>0, GoAlone
<1>2. Consistent
  BY <1>1 DEF RoutineInv, Quiet
<1>3. Consistent'
  BY <1>2 DEF Consistent
<1>4. \A u \in Thread : Stands(u)'
  BY <1>1, <1>3 DEF Stands
<1>5. ~Quiet' /\ ~terminated'
  BY <1>1 DEF Quiet
<1> QED
  BY <1>1, <1>4, <1>5 DEF RoutineInv

(* Every step of schedule_ping and of the teardown, taken alone, leaves    *)
(* the flag and the thread as the next step expects them, and neither      *)
(* starts a thread over a joinable one nor joins one that is not.          *)
LEMMA RoutineStep ==
  ASSUME TypeInv, RoutineInv, NEW t \in Thread, Routine(t)
  PROVE  RoutineInv'
<1> SUFFICES ASSUME ~overlapped' PROVE RoutineInv'
  BY DEF RoutineInv
<1>1. PICK to \in RoutineState : Go(t, to)
  BY DEF Routine, RoutineState, ScheduleCheck, ScheduleArm, ScheduleSpawn, TeardownTest,
         TeardownClear, TeardownJoinable, TeardownJoin, TeardownJoined
<1>2. /\ ~overlapped /\ ~terminated /\ Alone' /\ routine'[t] = to
      /\ \A u \in Thread \ {t} : routine'[u] = routine[u]
  BY <1>1, GoAlone
<1>3. routine[t] # "no"
  BY DEF Routine, ScheduleCheck, ScheduleArm, ScheduleSpawn, TeardownTest,
         TeardownClear, TeardownJoinable, TeardownJoin, TeardownJoined
<1>4. \A u \in Thread \ {t} : routine[u] = "no" /\ routine'[u] = "no"
  BY <1>2, <1>3 DEF RoutineInv, Alone
<1>5. Stands(t)
  BY <1>2 DEF RoutineInv
<1>6. ASSUME Stands(t)', routine'[t] = "no" => Consistent', ~terminated'
      PROVE  RoutineInv'
  <2>1. \A u \in Thread : Stands(u)'
    BY <1>4, <1>6 DEF Stands
  <2>2. Quiet' => Consistent'
    BY <1>6 DEF Quiet
  <2> QED
    BY <1>2, <1>6, <2>1, <2>2 DEF RoutineInv
<1> USE <1>2, <1>5 DEF Stands, Consistent
<1>7. CASE ScheduleCheck(t)
  <2>1. routine'[t] = IF running THEN "no" ELSE "arm"
    BY <1>1, <1>7 DEF ScheduleCheck, Go, TypeInv, RoutineType
  <2> QED
    BY <1>6, <1>7, <2>1 DEF ScheduleCheck, TypeInv, HeartType
<1>8. CASE ScheduleArm(t)
  <2>1. routine'[t] = "spawn"
    BY <1>8 DEF ScheduleArm, Go, TypeInv, RoutineType
  <2> QED
    BY <1>6, <1>8, <2>1 DEF ScheduleArm
<1>9. CASE ScheduleSpawn(t)
  <2>1. routine'[t] = "no"
    BY <1>9 DEF ScheduleSpawn, Go, TypeInv, RoutineType
  <2>2. running' = running /\ pinger' = "first" /\ terminated' = terminated
    BY <1>9 DEF ScheduleSpawn
  <2> QED
    BY <1>6, <1>9, <2>1, <2>2 DEF ScheduleSpawn
<1>10. CASE TeardownTest(t)
  <2>1. routine'[t] = IF running THEN "clear" ELSE "no"
    BY <1>10 DEF TeardownTest, Go, TypeInv, RoutineType
  <2> QED
    BY <1>6, <1>10, <2>1 DEF TeardownTest
<1>11. CASE TeardownClear(t)
  <2>1. routine'[t] = "joinable"
    BY <1>11 DEF TeardownClear, Go, TypeInv, RoutineType
  <2> QED
    BY <1>6, <1>11, <2>1 DEF TeardownClear
<1>12. CASE TeardownJoinable(t)
  <2>1. routine'[t] = "join"
    BY <1>12 DEF TeardownJoinable, Go, TypeInv, RoutineType
  <2> QED
    BY <1>6, <1>12, <2>1 DEF TeardownJoinable
<1>13. CASE TeardownJoin(t)
  <2>1. ~(pinger = "none" \/ \E u \in Thread : routine[u] = "joining")
    BY <1>4, <1>13 DEF TeardownJoin
  <2>2. ~terminated' /\ Go(t, "joining") /\ running' = running /\ pinger' = pinger
    BY <1>13, <2>1, Zenon DEF TeardownJoin
  <2>3. routine'[t] = "joining"
    BY <2>2 DEF Go, TypeInv, RoutineType
  <2> QED
    BY <1>6, <1>13, <2>2, <2>3 DEF TeardownJoin
<1>14. CASE TeardownJoined(t)
  <2>1. routine'[t] = "no"
    BY <1>14 DEF TeardownJoined, Go, TypeInv, RoutineType
  <2> QED
    BY <1>6, <1>14, <2>1 DEF TeardownJoined
<1> QED
  BY <1>7, <1>8, <1>9, <1>10, <1>11, <1>12, <1>13, <1>14 DEF Routine

(* Callbacks of the socket run one after the other, and disconnect() tears *)
(* the heartbeat down after it joined the watchdog.                        *)
LEMMA NotEnteredNext == TypeInv /\ NotEntered /\ [Next]_vars => NotEntered'
<1> SUFFICES ASSUME TypeInv, NotEntered, [Next]_vars PROVE NotEntered'
  OBVIOUS
<1> USE DEF NotEntered
<1>1. ASSUME NEW t \in Thread, Routine(t) PROVE NotEntered'
  <2>1. \E to \in RoutineState : Go(t, to)
    BY <1>1 DEF Routine, RoutineState, ScheduleCheck, ScheduleArm, ScheduleSpawn,
       TeardownTest, TeardownClear, TeardownJoinable, TeardownJoin, TeardownJoined
  <2>2. routine[t] # "no" /\ UNCHANGED <<wpc, upc>>
    BY <1>1 DEF Routine, ScheduleCheck, ScheduleArm, ScheduleSpawn,
       TeardownTest, TeardownClear, TeardownJoinable, TeardownJoin, TeardownJoined
  <2>3. \A u \in Thread \ {t} : routine'[u] = routine[u]
    BY <2>1 DEF Go, TypeInv, RoutineType
  <2> QED
    BY <2>2, <2>3 DEF Thread
<1>2. CASE OnConnected
  <2>1. routine'["user"] = routine["user"] /\ wpc' = "idle" /\ upc' = upc
    BY <1>2 DEF OnConnected, NoRoutine, Go, TypeInv, RoutineType, Thread
  <2> QED
    BY <2>1
<1>3. CASE OnDisconnected
  <2>1. routine'["user"] = routine["user"] /\ wpc' = "idle" /\ upc' = upc
    BY <1>3 DEF OnDisconnected, Go, TypeInv, RoutineType, Thread
  <2> QED
    BY <2>1
<1>4. CASE HandleAuthenticated
  BY <1>4 DEF HandleAuthenticated, Go, TypeInv, RoutineType, Thread
<1>5. CASE SocketClose \/ SocketOpen
  BY <1>5 DEF SocketClose, SocketOpen, SocketIdle, NoRoutine
<1>6. CASE SocketStop \/ ServerAuthenticates \/ ServerIgnores \/ TimePasses
  BY <1>6 DEF SocketStop, ServerAuthenticates, ServerIgnores, TimePasses, NoRoutine
<1>7. CASE Pinger
  BY <1>7 DEF Pinger, PingFirst, PingAgain, PingExit, NoRoutine
<1>8. CASE Watchdog
  BY <1>8 DEF Watchdog, WatchdogExit, WatchdogFindsDead, WatchdogAuthenticates,
     WatchdogStopsSocket, WatchdogSocketStopped, WatchdogStartsSocket, NoRoutine
<1>9. CASE Disconnect
  BY <1>9 DEF Disconnect, NoRoutine
<1>10. CASE Disconnecting
  <2>1. CASE DisconnectJoins
    BY <2>1 DEF DisconnectJoins, Go, TypeInv, RoutineType, Thread
  <2>2. CASE DisconnectSocket \/ DisconnectStopped \/ DisconnectClears
    BY <2>2 DEF DisconnectSocket, DisconnectStopped, DisconnectClears, NoRoutine
  <2> QED
    BY <1>10, <2>1, <2>2 DEF Disconnecting
<1>11. CASE UNCHANGED vars
  BY <1>11 DEF vars
<1> QED
  BY <1>1, <1>2, <1>3, <1>4, <1>5, <1>6, <1>7, <1>8, <1>9, <1>10, <1>11, StepCases

(* Every step of every thread keeps RoutineInv. *)
LEMMA RoutineInvNext == TypeInv /\ NotEntered /\ RoutineInv /\ [Next]_vars => RoutineInv'
<1> SUFFICES ASSUME TypeInv, NotEntered, RoutineInv, [Next]_vars PROVE RoutineInv'
  OBVIOUS
<1>1. ASSUME NEW t \in Thread, Routine(t) PROVE RoutineInv'
  BY <1>1, RoutineStep
<1>2. CASE OnConnected
  <2>1. CASE AuthInUrl
    BY <1>2, <2>1, RoutineEntered DEF OnConnected, NotEntered, Thread
  <2>2. CASE ~AuthInUrl
    BY <1>2, <2>2, RoutineFrame DEF OnConnected
  <2> QED
    BY <2>1, <2>2
<1>3. CASE OnDisconnected
  BY <1>3, RoutineEntered DEF OnDisconnected, NotEntered, Thread
<1>4. CASE HandleAuthenticated
  BY <1>4, RoutineEntered DEF HandleAuthenticated, Thread
<1>5. CASE DisconnectJoins
  BY <1>5, RoutineEntered DEF DisconnectJoins, NotEntered, Thread
<1>6. CASE SocketStop \/ SocketClose \/ SocketOpen \/ ServerAuthenticates \/ ServerIgnores
  BY <1>6, RoutineFrame DEF SocketStop, SocketClose, SocketOpen, ServerAuthenticates,
     ServerIgnores
<1>7. CASE Pinger
  <2>1. NoRoutine /\ UNCHANGED <<running, terminated>>
    BY <1>7 DEF Pinger, PingFirst, PingAgain, PingExit
  <2>2. \/ pinger = "first" /\ pinger' = "loop"
        \/ pinger' = pinger
        \/ pinger = "loop" /\ ~running /\ pinger' = "exited"
    BY <1>7 DEF Pinger, PingFirst, PingAgain, PingExit
  <2> QED
    BY <2>1, <2>2 DEF RoutineInv, NoRoutine, Alone, Stands, Consistent, Quiet, TypeInv,
       RoutineType, RoutineState
<1>8. CASE TimePasses \/ Watchdog \/ Disconnect
  BY <1>8, RoutineFrame DEF TimePasses, Watchdog, WatchdogExit, WatchdogFindsDead,
     WatchdogAuthenticates, WatchdogStopsSocket, WatchdogSocketStopped,
     WatchdogStartsSocket, Disconnect
<1>9. CASE DisconnectSocket \/ DisconnectStopped \/ DisconnectClears
  BY <1>9, RoutineFrame DEF DisconnectSocket, DisconnectStopped, DisconnectClears
<1>10. CASE UNCHANGED vars
  BY <1>10, RoutineFrame DEF vars, NoRoutine
<1> QED
  BY <1>1, <1>2, <1>3, <1>4, <1>5, <1>6, <1>7, <1>8, <1>9, <1>10, StepCases
  DEF Disconnecting

(* As long as no two threads are in schedule_ping or the teardown at once, *)
(* the process is never terminated, and between their runs                 *)
(* ping_thread_running says whether a heartbeat thread is there.           *)
THEOREM OnlyOverlapTerminates == Spec => []SafeUnlessOverlapped
<1>1. Init => NotEntered /\ RoutineInv
  BY DEF Init, NotEntered, RoutineInv, Alone, Stands, Consistent, Quiet, Thread
<1>2. RoutineInv => SafeUnlessOverlapped
  BY DEF RoutineInv, SafeUnlessOverlapped, Consistent
<1> QED
  BY <1>1, <1>2, TypeInvAlways, NotEnteredNext, RoutineInvNext, PTL DEF Spec
-----------------------------------------------------------------------------
(* Only the server's answer, or an event of an earlier connection, lets    *)
(* the flag be set; closing the connection withdraws the first.            *)
LEMMA FlagInvNext == TypeInv /\ FlagInv /\ [Next]_vars => FlagInv'
<1> SUFFICES ASSUME TypeInv, FlagInv, [Next]_vars PROVE FlagInv'
  OBVIOUS
<1> USE DEF FlagInv, server, watchdog
<1>1. ASSUME NEW t \in Thread, Routine(t) PROVE FlagInv'
  <2>1. UNCHANGED <<conn, wpc, authenticated, late, fresh, srvAuth, dpc>>
    BY <1>1 DEF Routine, ScheduleCheck, ScheduleArm, ScheduleSpawn,
       TeardownTest, TeardownClear, TeardownJoinable, TeardownJoin, TeardownJoined
  <2> QED
    BY <2>1
<1>2. CASE OnConnected
  BY <1>2 DEF OnConnected
<1>3. CASE OnDisconnected
  BY <1>3 DEF OnDisconnected
<1>4. CASE SocketStop
  BY <1>4 DEF SocketStop, SocketIdle
<1>5. CASE SocketClose
  BY <1>5 DEF SocketClose, SocketIdle
<1>6. CASE SocketOpen
  BY <1>6 DEF SocketOpen, SocketIdle
<1>7. CASE ServerAuthenticates
  BY <1>7 DEF ServerAuthenticates
<1>8. CASE ServerIgnores
  BY <1>8 DEF ServerIgnores
<1>9. CASE HandleAuthenticated
  <2>1. /\ UNCHANGED <<conn, wpc, dpc, srvAuth>>
        /\ \/ late' = TRUE /\ fresh' = fresh
           \/ fresh > 0 /\ fresh' = fresh - 1 /\ late' = late
    BY <1>9 DEF HandleAuthenticated, TypeInv, InboxType
  <2>2. fresh' > 0 => fresh > 0
    BY <2>1 DEF TypeInv, InboxType
  <2>3. srvAuth \/ late'
    BY <2>1
  <2> QED
    BY <2>1, <2>2, <2>3
<1>10. CASE Pinger
  BY <1>10 DEF Pinger, PingFirst, PingAgain, PingExit
<1>11. CASE TimePasses \/ Disconnect
  BY <1>11 DEF TimePasses, Disconnect
<1>12. CASE Watchdog
  BY <1>12 DEF Watchdog, WatchdogExit, WatchdogFindsDead, WatchdogAuthenticates,
     WatchdogStopsSocket, WatchdogSocketStopped, WatchdogStartsSocket
<1>13. CASE Disconnecting
  BY <1>13 DEF Disconnecting, DisconnectJoins, DisconnectSocket, DisconnectStopped,
     DisconnectClears
<1>14. CASE UNCHANGED vars
  BY <1>14 DEF vars
<1> QED
  BY <1>1, <1>2, <1>3, <1>4, <1>5, <1>6, <1>7, <1>8, <1>9, <1>10, <1>11, <1>12, <1>13,
     <1>14, StepCases

(* The flag claims an open connection is authenticated, against the        *)
(* server, only after an event of an earlier connection was handled late.  *)
THEOREM FlagIsEarnedOrLate == Spec => []FlagIsEarned
<1>1. Init => FlagInv
  BY DEF Init, FlagInv
<1>2. FlagInv => FlagIsEarned
  BY DEF FlagInv, FlagIsEarned
<1> QED
  BY <1>1, <1>2, TypeInvAlways, FlagInvNext, PTL DEF Spec

(* The same where both ways to authenticate are instances of one           *)
(* specification: a session that authenticates by the event claims an open *)
(* connection authenticated only if its server said so, unless an          *)
(* Authenticated event of an earlier connection was handled since the last *)
(* on_disconnected: gateway.cpp:375 then sets the flag late, and the claim *)
(* stays false until the connection is lost or the server accepts.         *)
THEOREM ClaimIsEarnedUnlessLate == MCSpec => []EarnedUnlessLate
<1> DEFINE Inv == part = "event" => TypeInv /\ FlagInv
<1>1. MCInit => Inv
  BY TypeInvInit DEF MCInit, Init, FlagInv
<1>2. Inv /\ [MCNext]_allVars => Inv'
  <2> SUFFICES ASSUME Inv, [MCNext]_allVars, part' = "event" PROVE (TypeInv /\ FlagInv)'
    OBVIOUS
  <2>1. part = "event" /\ [Next]_vars
    BY DEF MCNext, allVars
  <2> QED
    BY <2>1, TypeInvNext, FlagInvNext
<1>3. Inv => EarnedUnlessLate
  BY DEF EarnedUnlessLate, FlagInv, FlagIsEarned
<1> QED
  BY <1>1, <1>2, <1>3, PTL DEF MCSpec
-----------------------------------------------------------------------------
(* The watchdog starts no socket after it ended, and disconnect() waits    *)
(* for that end before it tears anything down.                             *)
LEMMA WatchdogGoneNext == WatchdogGone /\ [Next]_vars => WatchdogGone'
<1> SUFFICES ASSUME WatchdogGone, [Next]_vars PROVE WatchdogGone'
  OBVIOUS
<1> USE DEF WatchdogGone, watchdog
<1>1. CASE UNCHANGED <<upc, dpc>>
  BY <1>1
<1>2. CASE Watchdog
  BY <1>2 DEF Watchdog, WatchdogExit, WatchdogFindsDead, WatchdogAuthenticates,
     WatchdogStopsSocket, WatchdogSocketStopped, WatchdogStartsSocket
<1>3. CASE Disconnect \/ Disconnecting
  BY <1>3 DEF Disconnect, Disconnecting, DisconnectJoins, DisconnectSocket,
     DisconnectStopped, DisconnectClears
<1>4. ASSUME NEW t \in Thread, Routine(t) PROVE UNCHANGED <<upc, dpc>>
  BY <1>4 DEF Routine, ScheduleCheck, ScheduleArm, ScheduleSpawn,
     TeardownTest, TeardownClear, TeardownJoinable, TeardownJoin, TeardownJoined
<1>5. ASSUME OnConnected \/ OnDisconnected \/ SocketStop \/ SocketClose \/ SocketOpen
      PROVE  UNCHANGED <<upc, dpc>>
  BY <1>5 DEF OnConnected, OnDisconnected, SocketStop, SocketClose, SocketOpen
<1>6. ASSUME \/ ServerAuthenticates \/ ServerIgnores \/ HandleAuthenticated
             \/ Pinger \/ TimePasses \/ UNCHANGED vars
      PROVE  UNCHANGED <<upc, dpc>>
  BY <1>6 DEF ServerAuthenticates, ServerIgnores, HandleAuthenticated, Pinger, PingFirst,
     PingAgain, PingExit, TimePasses, vars
<1> QED
  BY <1>1, <1>2, <1>3, <1>4, <1>5, <1>6, StepCases

(* Only the watchdog turns a stopped socket on again. *)
LEMMA OnlyWatchdogStarts ==
  ASSUME [Next]_vars, conn = "off", conn' # "off"
  PROVE  dpc = "starting"
<1>1. ASSUME NEW t \in Thread, Routine(t) PROVE FALSE
  BY <1>1 DEF Routine, ScheduleCheck, ScheduleArm, ScheduleSpawn,
     TeardownTest, TeardownClear, TeardownJoinable, TeardownJoin, TeardownJoined
<1>2. ~(OnConnected \/ OnDisconnected \/ SocketStop \/ SocketClose \/ SocketOpen)
  BY DEF OnConnected, OnDisconnected, SocketStop, SocketClose, SocketOpen
<1>3. ~(ServerAuthenticates \/ ServerIgnores \/ HandleAuthenticated \/ Pinger \/ TimePasses)
  BY DEF ServerAuthenticates, ServerIgnores, HandleAuthenticated, Pinger, PingFirst,
     PingAgain, PingExit, TimePasses
<1>4. ~(Disconnect \/ Disconnecting \/ UNCHANGED vars)
  BY DEF Disconnect, Disconnecting, DisconnectJoins, DisconnectSocket,
     DisconnectStopped, DisconnectClears, vars
<1>5. Watchdog
  BY <1>1, <1>2, <1>3, <1>4, StepCases
<1> QED
  BY <1>5 DEF Watchdog, WatchdogExit, WatchdogFindsDead, WatchdogAuthenticates,
     WatchdogStopsSocket, WatchdogSocketStopped, WatchdogStartsSocket

(* Once disconnect() has stopped the socket, nothing starts it again.      *)
THEOREM StoppedForGood == Spec => StopIsFinal
<1>1. Init => WatchdogGone
  BY DEF Init, WatchdogGone
<1>2. WatchdogGone /\ [Next]_vars
        => [(upc \in {"clear", "done"} /\ conn = "off") => (conn' = "off")]_vars
  BY OnlyWatchdogStarts DEF WatchdogGone
<1> QED
  BY <1>1, <1>2, WatchdogGoneNext, PTL DEF Spec, StopIsFinal
=============================================================================
