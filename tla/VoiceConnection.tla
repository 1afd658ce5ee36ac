-------------------------- MODULE VoiceConnection ---------------------------
(***************************************************************************)
(* A voice connection: connect, disconnect, the callbacks of its signalling*)
(* socket, write_pcm and the thread that encodes and sends.                *)
(*                                                                         *)
(* The bot's thread connects and disconnects.  connect() begins with       *)
(* disconnect() and waits, under connect_mutex, for an answer, a failure or*)
(* ten seconds.  The socket's thread handles the server's messages; on the *)
(* published track it starts the send loop.  Both the bot's thread and the *)
(* socket's call stop_thread.                                              *)
(*                                                                         *)
(* External: Close is the last callback of a socket that was open and Error*)
(* of one that was not; ws.stop() asks it to close and joins its thread.   *)
(* The WebRTC library may refuse what it is given: it throws, and of the   *)
(* handlers only trickle catches, which changes nothing here.  A message   *)
(* may say that it is longer than it is; what is read is SignalCodec's.    *)
(***************************************************************************)
EXTENDS Naturals

CONSTANTS
  FrameSize,     \* samples of a frame
  MaxSamples,    \* bound: samples in pcm_queue
  MaxConnects,   \* bound: calls of connect
  MaxTracks      \* bound: tracks published by the server in one connection

ConstantsAssumption ==
  /\ FrameSize \in Nat \ {0} /\ MaxSamples \in Nat
  /\ MaxConnects \in Nat /\ MaxTracks \in Nat
-----------------------------------------------------------------------------
VARIABLES
  app,           \* where the bot's thread is
  errand,        \* who called disconnect(): the bot, connect, or its timeout
  locked,        \* connect_mutex is held across that disconnect()
  verdict,       \* what connect returned last
  socket,        \* ws
  asked,         \* ws.stop() was called
  callback,      \* where the socket's thread is in the callback
  joined, failed,
  peers,         \* sub_pc and pub_pc
  encoder,       \* it is created
  running,
  loop,          \* send_thread: it can be joined unless it is "none"
  queue,         \* the number of samples in pcm_queue
  connects,      \* calls of connect
  terminated,    \* std::terminate, or a null pointer was used
  answered, tracks, unready, raced, serverClosed, timedOut, unfit
                 \* history, of this connection: the server sent a join
                 \* response; its tracks; one came before the response; one
                 \* was handled under disconnect(); the server closed it;
                 \* connect timed out; the WebRTC library threw, or a
                 \* message was read beyond its end

history == <<answered, tracks, unready, raced, serverClosed, timedOut, unfit>>
vars == <<app, errand, locked, verdict, socket, asked, callback, joined, failed, peers,
          encoder, running, loop, queue, connects, terminated, history>>

Stopping == {"join", "joining", "askSocket", "joinSocket"}

FlagsOK ==
  /\ locked \in BOOLEAN /\ asked \in BOOLEAN /\ joined \in BOOLEAN /\ failed \in BOOLEAN
  /\ peers \in BOOLEAN /\ encoder \in BOOLEAN /\ running \in BOOLEAN /\ terminated \in BOOLEAN
  /\ answered \in BOOLEAN /\ unready \in BOOLEAN /\ raced \in BOOLEAN
  /\ serverClosed \in BOOLEAN /\ timedOut \in BOOLEAN /\ unfit \in BOOLEAN

PlacesOK ==
  /\ app \in {"idle", "halt", "release", "start", "wait"} \cup Stopping
  /\ errand \in {"disconnect", "connect", "timeout"}
  /\ verdict \in {"none", "true", "false"}
  /\ socket \in {"off", "connecting", "open", "ended"}
  /\ callback \in {"none", "error", "close", "joined", "track", "spawn", "halt", "join", "joining"}
  /\ loop \in {"none", "test", "wait", "check", "use", "done"}
  /\ queue \in 0..MaxSamples
  /\ connects \in 0..MaxConnects /\ tracks \in 0..MaxTracks
  /\ locked => errand = "timeout"

TypeOK == FlagsOK /\ PlacesOK

Init ==
  /\ app = "idle" /\ errand = "disconnect" /\ locked = FALSE /\ verdict = "none"
  /\ socket = "off" /\ asked = FALSE /\ callback = "none"
  /\ joined = FALSE /\ failed = FALSE /\ peers = FALSE /\ encoder = FALSE
  /\ running = FALSE /\ loop = "none" /\ queue = 0
  /\ connects = 0 /\ terminated = FALSE
  /\ answered = FALSE /\ tracks = 0 /\ unready = FALSE
  /\ raced = FALSE /\ serverClosed = FALSE /\ timedOut = FALSE /\ unfit = FALSE
-----------------------------------------------------------------------------
(* What the steps of disconnect(), of the socket's thread and of the send  *)
(* loop leave alone.                                                       *)
socketVars == <<socket, callback, joined, failed, peers, encoder>>
loopVars == <<running, loop, queue>>
appVars == <<app, errand, locked, verdict, asked, connects>>

CallDisconnect ==
  /\ app = "idle" /\ connects > 0
  /\ app' = "halt" /\ errand' = "disconnect"
  /\ UNCHANGED <<locked, verdict, asked, connects, socketVars, loopVars, terminated, history>>

CallConnect ==
  /\ app = "idle" /\ connects < MaxConnects
  /\ app' = "halt" /\ errand' = "connect" /\ verdict' = "none"
  /\ UNCHANGED <<locked, asked, connects, socketVars, loopVars, terminated, history>>

(* Faulty: leaves the send loop running. *)
HaltNot ==
  /\ app = "halt" /\ app' = "join"
  /\ UNCHANGED <<errand, locked, verdict, asked, connects, socketVars, loopVars, terminated, history>>

(* stop_thread. *)
Halt ==
  /\ app = "halt" /\ app' = "join"
  /\ running' = FALSE
  /\ UNCHANGED <<errand, locked, verdict, asked, connects, socketVars, loop, queue, terminated, history>>

(* A thread that is joined twice at a time: std::system_error. *)
Join ==
  /\ app = "join"
  /\ app' = IF loop = "none" THEN "askSocket" ELSE "joining"
  /\ terminated' = (loop # "none" /\ callback = "joining")
  /\ UNCHANGED <<errand, locked, verdict, asked, connects, socketVars, loopVars, history>>

Joined ==
  /\ app = "joining" /\ loop = "done"
  /\ app' = "askSocket" /\ loop' = "none"
  /\ UNCHANGED <<errand, locked, verdict, asked, connects, socketVars, running, queue, terminated, history>>

AskSocket ==
  /\ app = "askSocket" /\ app' = "joinSocket"
  /\ asked' = TRUE
  /\ UNCHANGED <<errand, locked, verdict, connects, socketVars, loopVars, terminated, history>>

(* Faulty: does not join the socket's thread. *)
SocketStoppedEarly ==
  /\ app = "joinSocket"
  /\ app' = "release" /\ asked' = FALSE /\ socket' = "off"
  /\ UNCHANGED <<errand, locked, verdict, connects, callback, joined, failed, peers, encoder,
                 loopVars, terminated, history>>

SocketStopped ==
  /\ app = "joinSocket" /\ socket \in {"off", "ended"}
  /\ app' = "release" /\ asked' = FALSE /\ socket' = "off"
  /\ UNCHANGED <<errand, locked, verdict, connects, callback, joined, failed, peers, encoder,
                 loopVars, terminated, history>>

(* The end of disconnect(): connect goes on, or returns after its timeout. *)
Release ==
  /\ app = "release"
  /\ app' = IF errand = "connect" THEN "start" ELSE "idle"
  /\ verdict' = IF errand = "timeout" THEN "false" ELSE verdict
  /\ locked' = FALSE
  /\ peers' = FALSE /\ encoder' = FALSE /\ joined' = FALSE /\ failed' = FALSE
  /\ UNCHANGED <<errand, asked, connects, socket, callback, loopVars, terminated, history>>

Start ==
  /\ app = "start" /\ app' = "wait"
  /\ connects' = connects + 1 /\ socket' = "connecting"
  /\ joined' = FALSE /\ failed' = FALSE
  /\ answered' = FALSE /\ tracks' = 0 /\ unready' = FALSE
  /\ raced' = FALSE /\ serverClosed' = FALSE /\ timedOut' = FALSE /\ unfit' = FALSE
  /\ UNCHANGED <<errand, locked, verdict, asked, callback, peers, encoder, loopVars, terminated>>

Answer ==
  /\ app = "wait" /\ (joined \/ failed)
  /\ app' = "idle"
  /\ verdict' = IF joined THEN "true" ELSE "false"
  /\ UNCHANGED <<errand, locked, asked, connects, socketVars, loopVars, terminated, history>>

(* connect calls disconnect() with the lock of connect_mutex in its scope. *)
TimeOut ==
  /\ app = "wait" /\ ~joined /\ ~failed
  /\ app' = "halt" /\ errand' = "timeout" /\ locked' = TRUE /\ timedOut' = TRUE
  /\ UNCHANGED <<verdict, asked, connects, socketVars, loopVars, terminated,
                 answered, tracks, unready, raced, serverClosed, unfit>>
-----------------------------------------------------------------------------
(* The socket's thread. *)
Open ==
  /\ socket = "connecting" /\ callback = "none"
  /\ socket' = "open"
  /\ UNCHANGED <<appVars, callback, joined, failed, peers, encoder, loopVars, terminated, history>>

ConnectFails ==
  /\ socket = "connecting" /\ callback = "none"
  /\ callback' = "error"
  /\ UNCHANGED <<appVars, socket, joined, failed, peers, encoder, loopVars, terminated, history>>

Close ==
  /\ socket = "open" /\ callback = "none"
  /\ callback' = "close"
  /\ serverClosed' = (serverClosed \/ ~asked)
  /\ UNCHANGED <<appVars, socket, joined, failed, peers, encoder, loopVars, terminated,
                 answered, tracks, unready, raced, timedOut, unfit>>

(* The callback of Error ends here, the one of Close with stop_thread. *)
SetFailed ==
  /\ callback \in {"error", "close"} /\ ~locked
  /\ failed' = TRUE
  /\ callback' = IF callback = "close" THEN "halt" ELSE "none"
  /\ socket' = IF callback = "close" THEN "open" ELSE "ended"
  /\ UNCHANGED <<appVars, joined, peers, encoder, loopVars, terminated, history>>

(* What the WebRTC library is given may be unfit, which ends the process.  *)
Given == unfit' \in BOOLEAN /\ terminated' = unfit'

InitializePeerConnections == peers' = TRUE /\ Given

JoinResponse ==
  /\ socket = "open" /\ callback = "none"
  /\ callback' = "joined" /\ InitializePeerConnections /\ answered' = TRUE
  /\ UNCHANGED <<appVars, socket, joined, failed, encoder, loopVars,
                 tracks, unready, raced, serverClosed, timedOut>>

(* The offer for the subscriber and the answer to the publisher are given  *)
(* to its peer connection, if it is there.                                 *)
SetRemoteDescription ==
  /\ socket = "open" /\ callback = "none" /\ peers /\ Given
  /\ UNCHANGED <<appVars, socketVars, loopVars, answered, tracks, unready, raced,
                 serverClosed, timedOut>>

(* A message that is cut off is read beyond its end. *)
CutOff ==
  /\ socket = "open" /\ callback = "none" /\ Given
  /\ UNCHANGED <<appVars, socketVars, loopVars, answered, tracks, unready, raced,
                 serverClosed, timedOut>>

SetJoined ==
  /\ callback = "joined" /\ ~locked
  /\ callback' = "none" /\ joined' = TRUE
  /\ UNCHANGED <<appVars, socket, failed, peers, encoder, loopVars, terminated, history>>

(* track_published, of the bot's own track: pub_pc is used, and the encoder*)
(* created, which may fail.                                                *)
TrackPublished ==
  /\ socket = "open" /\ callback = "none" /\ tracks < MaxTracks
  /\ tracks' = tracks + 1
  /\ unready' = (unready \/ ~peers) /\ unfit' \in {FALSE, peers}
  /\ terminated' = (~peers \/ unfit')
  /\ callback' = "track" /\ encoder' \in BOOLEAN
  /\ UNCHANGED <<appVars, socket, joined, failed, peers, loopVars,
                 answered, raced, serverClosed, timedOut>>

SetRunning ==
  /\ callback = "track" /\ callback' = "spawn"
  /\ running' = TRUE
  /\ raced' = (raced \/ app \in Stopping)
  /\ UNCHANGED <<appVars, socket, joined, failed, peers, encoder, loop, queue, terminated,
                 answered, tracks, unready, serverClosed, timedOut, unfit>>

(* The assignment to a std::thread that can be joined terminates. *)
Spawn ==
  /\ callback = "spawn" /\ callback' = "none"
  /\ terminated' = (loop # "none")
  /\ loop' = "test"
  /\ UNCHANGED <<appVars, socket, joined, failed, peers, encoder, running, queue, history>>

CloseHalt ==
  /\ callback = "halt" /\ callback' = "join"
  /\ running' = FALSE
  /\ UNCHANGED <<appVars, socket, joined, failed, peers, encoder, loop, queue, terminated, history>>

CloseJoin ==
  /\ callback = "join"
  /\ callback' = IF loop = "none" THEN "none" ELSE "joining"
  /\ socket' = IF loop = "none" THEN "ended" ELSE socket
  /\ terminated' = (loop # "none" /\ app = "joining")
  /\ UNCHANGED <<appVars, joined, failed, peers, encoder, loopVars, history>>

CloseJoined ==
  /\ callback = "joining" /\ loop = "done"
  /\ callback' = "none" /\ loop' = "none" /\ socket' = "ended"
  /\ UNCHANGED <<appVars, joined, failed, peers, encoder, running, queue, terminated, history>>
-----------------------------------------------------------------------------
(* The bot writes samples on a thread of its own. *)
WritePcm ==
  /\ running /\ queue < MaxSamples
  /\ queue' = queue + 1
  /\ UNCHANGED <<appVars, socketVars, running, loop, terminated, history>>

(* send_loop. *)
TestRunning ==
  /\ loop = "test"
  /\ loop' = IF running THEN "wait" ELSE "done"
  /\ UNCHANGED <<appVars, socketVars, running, queue, terminated, history>>

TakeFrame ==
  /\ loop = "wait"
  /\ \/ ~running /\ loop' = "done" /\ queue' = queue
     \/ running /\ queue >= FrameSize /\ loop' = "check" /\ queue' = queue - FrameSize
  /\ UNCHANGED <<appVars, socketVars, running, terminated, history>>

(* A frame is lost unless the track is open and there is an encoder. *)
CheckEncoder ==
  /\ loop = "check"
  /\ \E next \in {"test"} \cup (IF encoder THEN {"use"} ELSE {}) : loop' = next
  /\ UNCHANGED <<appVars, socketVars, running, queue, terminated, history>>

(* Also the track that the frame is sent on may have been closed. *)
UseEncoder ==
  /\ loop = "use" /\ loop' = "test" /\ Given
  /\ UNCHANGED <<appVars, socketVars, running, queue, answered, tracks, unready, raced,
                 serverClosed, timedOut>>
-----------------------------------------------------------------------------
AppStep == Halt \/ Join \/ Joined \/ AskSocket \/ SocketStopped \/ Release \/ Start \/ Answer \/ TimeOut
SocketStep ==
  Open \/ ConnectFails \/ SetFailed \/ SetJoined \/ SetRunning \/ Spawn
    \/ CloseHalt \/ CloseJoin \/ CloseJoined
ServerStep == JoinResponse \/ SetRemoteDescription \/ TrackPublished \/ CutOff \/ Close
LoopStep == TestRunning \/ TakeFrame \/ CheckEncoder \/ UseEncoder

Next ==
  /\ ~terminated
  /\ CallConnect \/ CallDisconnect \/ WritePcm \/ AppStep \/ SocketStep \/ ServerStep \/ LoopStep

(* The threads run, a connection opens or fails, and ten seconds pass.  A  *)
(* socket that is asked to closes even under messages without end.  The    *)
(* server need not do anything.                                            *)
Spec ==
  /\ Init /\ [][Next]_vars
  /\ WF_vars(~terminated /\ AppStep)
  /\ WF_vars(~terminated /\ SocketStep)
  /\ WF_vars(~terminated /\ LoopStep)
  /\ SF_vars(~terminated /\ asked /\ Close)
-----------------------------------------------------------------------------
(* connect returns true only if the server has answered this connection,   *)
(* and not one that was given up before.                                   *)
VerdictIsOwn == verdict = "true" /\ connects > 0 /\ app # "start" => answered

(* disconnect does not free the encoder while the send loop encodes a frame*)
(* with it, even if the track is published under it; only a second track   *)
(* may replace it meanwhile.                                               *)
EncoderOutlivesUse == loop = "use" => encoder \/ tracks > 1

(* When disconnect() has returned neither the send loop nor a callback     *)
(* runs any more.                                                          *)
NothingRunsAfterStop == socket = "off" => loop = "none" /\ callback = "none"

(* The process ends only if the server publishes the track twice or before *)
(* its answer, or closes the connection on its own, or if a message of it  *)
(* is cut off or asks of the WebRTC library what it refuses.               *)
TerminationHasCause == terminated => tracks > 1 \/ unready \/ serverClosed \/ unfit

(* What holds of a connection and its threads, whoever stops them. *)
ConnectionIsSound ==
  TypeOK /\ VerdictIsOwn /\ EncoderOutlivesUse /\ NothingRunsAfterStop /\ TerminationHasCause

(* connect and disconnect return, unless connect times out or the track is *)
(* published under disconnect.                                             *)
CallsReturn == app # "idle" ~> app = "idle" \/ timedOut \/ raced \/ terminated

(* connect tells the bot within its ten seconds whether it has succeeded.  *)
ConnectReturns == app = "wait" ~> app = "idle" \/ raced \/ terminated
=============================================================================
