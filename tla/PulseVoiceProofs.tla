-------------------------- MODULE PulseVoiceProofs --------------------------
(***************************************************************************)
(* Proofs about the voice: the ownership of the PulseAudio streams, for any*)
(* number of clients and moves; then the threads of a connection, for any  *)
(* number of connects, tracks and samples; then the reader of the          *)
(* signalling's messages, for any messages that are shorter than a Word,  *)
(* whatever its size.  What the recursive functions of SignalCodec and     *)
(* FlattenSeq are comes by induction from WFMin and the well-founded order *)
(* of the numbers, for sets and not for operators.                         *)
(***************************************************************************)
EXTENDS MCPulseVoice, FiniteSetTheorems, SequenceTheorems, WellFoundedInduction, TLAPS

(* Two clients never have the same impl, only living ones have one, and    *)
(* the impl of a client that was not constructed is nobody's.              *)
Separate ==
  /\ \A c, d \in Client : c # d /\ pimpl[c] # Null => pimpl[c] # pimpl[d]
  /\ \A c \in Client : pimpl[c] # Null => life[c] = "alive"
  /\ \A c, d \in Client : life[c] = "unborn" => pimpl[d] # c

OpenHasOwner ==
  \A i \in Client : streams[i] # {} =>
    initialized[i] /\ (i \in overwritten \/ \E c \in Client : pimpl[c] = i)

PulseInv == TypeOK /\ Separate /\ OpenHasOwner

LEMMA InvInit == Init => PulseInv
BY NullAssumption DEF Init, PulseInv, TypeOK, Separate, OpenHasOwner, Direction

LEMMA InvStep == PulseInv /\ [Next]_vars => PulseInv'
<1> SUFFICES ASSUME PulseInv, [Next]_vars PROVE PulseInv'
  OBVIOUS
<1> USE NullAssumption DEF PulseInv
<1>1. ASSUME NEW c \in Client, Construct(c) PROVE PulseInv'
  <2>1. TypeOK'
    BY <1>1 DEF Construct, TypeOK
  <2>2. Separate'
    BY <1>1 DEF Construct, TypeOK, Separate
  <2>3. OpenHasOwner'
    BY <1>1 DEF Construct, TypeOK, Separate, OpenHasOwner
  <2> QED
    BY <2>1, <2>2, <2>3
<1>2. ASSUME NEW c \in Client, NEW from \in Client, MoveConstruct(c, from) PROVE PulseInv'
  <2>1. TypeOK'
    BY <1>2 DEF MoveConstruct, TypeOK
  <2>2. Separate'
    BY <1>2 DEF MoveConstruct, Alive, TypeOK, Separate
  <2>3. OpenHasOwner'
    <3>1. \A i \in Client : (\E d \in Client : pimpl[d] = i) => \E d \in Client : pimpl'[d] = i
      <4> SUFFICES ASSUME NEW i \in Client, NEW d \in Client, pimpl[d] = i
                   PROVE  \E e \in Client : pimpl'[e] = i
        OBVIOUS
      <4>1. d # c
        BY <1>2 DEF MoveConstruct, TypeOK, Separate
      <4>2. CASE d = from
        BY <1>2, <4>2 DEF MoveConstruct, TypeOK
      <4>3. CASE d # from
        BY <1>2, <4>1, <4>3 DEF MoveConstruct, TypeOK
      <4> QED
        BY <4>2, <4>3
    <3> QED
      BY <1>2, <3>1 DEF MoveConstruct, OpenHasOwner
  <2> QED
    BY <2>1, <2>2, <2>3
<1>3. ASSUME NEW c \in Client, NEW from \in Client, MoveAssign(c, from) PROVE PulseInv'
  <2>1. TypeOK'
    BY <1>3 DEF MoveAssign, TypeOK
  <2>2. Separate'
    BY <1>3 DEF MoveAssign, Alive, TypeOK, Separate
  <2>3. OpenHasOwner'
    <3>1. \A i \in Client : (\E d \in Client : pimpl[d] = i) =>
            i \in overwritten' \/ \E d \in Client : pimpl'[d] = i
      <4> SUFFICES ASSUME NEW i \in Client, NEW d \in Client, pimpl[d] = i
                   PROVE  i \in overwritten' \/ \E e \in Client : pimpl'[e] = i
        OBVIOUS
      <4>1. CASE d = c
        BY <1>3, <4>1 DEF MoveAssign
      <4>2. CASE d = from
        BY <1>3, <4>2 DEF MoveAssign, TypeOK
      <4>3. CASE d # c /\ d # from
        BY <1>3, <4>3 DEF MoveAssign, TypeOK
      <4> QED
        BY <4>1, <4>2, <4>3
    <3>2. overwritten \subseteq overwritten' /\ UNCHANGED <<initialized, streams>>
      BY <1>3 DEF MoveAssign
    <3> QED
      BY <3>1, <3>2 DEF OpenHasOwner
  <2> QED
    BY <2>1, <2>2, <2>3
<1>4. ASSUME NEW c \in Client, Initialize(c) PROVE PulseInv'
  <2>1. pimpl[c] \in Client /\ UNCHANGED <<life, pimpl, streams, overwritten, culprit>>
        /\ initialized' = [initialized EXCEPT ![pimpl[c]] = TRUE]
    BY <1>4 DEF Initialize, TypeOK
  <2> QED
    BY <2>1 DEF TypeOK, Separate, OpenHasOwner
<1>5. ASSUME NEW c \in Client, Shutdown(c) PROVE PulseInv'
  <2>1. pimpl[c] \in Client /\ UNCHANGED <<life, pimpl, overwritten, culprit>>
        /\ streams' = [streams EXCEPT ![pimpl[c]] = {}]
        /\ initialized' = [initialized EXCEPT ![pimpl[c]] = FALSE]
    BY <1>5 DEF Shutdown, Close, TypeOK
  <2> QED
    BY <2>1 DEF TypeOK, Separate, OpenHasOwner
<1>6. ASSUME NEW c \in Client, NEW d \in Direction, UseStream(c, d) PROVE PulseInv'
  <2>1. pimpl[c] \in Client /\ initialized[pimpl[c]]
        /\ UNCHANGED <<life, pimpl, initialized, overwritten, culprit>>
        /\ streams' = [streams EXCEPT ![pimpl[c]] = @ \cup {d}]
    BY <1>6 DEF UseStream, TypeOK
  <2> QED
    BY <2>1 DEF TypeOK, Separate, OpenHasOwner
<1>7. ASSUME NEW c \in Client, Destroy(c) PROVE PulseInv'
  <2>1. /\ pimpl[c] \in Client /\ UNCHANGED <<overwritten, culprit>>
        /\ streams' = [streams EXCEPT ![pimpl[c]] = {}]
        /\ initialized' = [initialized EXCEPT ![pimpl[c]] = FALSE]
        /\ life' = [life EXCEPT ![c] = "destroyed"]
        /\ pimpl' = [pimpl EXCEPT ![c] = Null]
    BY <1>7 DEF Destroy, Close, TypeOK
  <2>2. TypeOK' /\ Separate'
    BY <2>1 DEF TypeOK, Separate
  <2>3. OpenHasOwner'
    BY <2>1 DEF TypeOK, OpenHasOwner
  <2> QED
    BY <2>2, <2>3
<1>8. ASSUME NEW c \in Client, UseNull(c) PROVE PulseInv'
  BY <1>8 DEF UseNull, TypeOK, Separate, OpenHasOwner
<1>9. CASE UNCHANGED vars
  BY <1>9 DEF vars, TypeOK, Separate, OpenHasOwner
<1>10. {"play", "record"} = Direction
  BY DEF Direction
<1> QED
  BY <1>1, <1>2, <1>3, <1>4, <1>5, <1>6, <1>7, <1>8, <1>9, <1>10
     DEF Next, WriteAudio, RecordMic

LEMMA AlwaysPulseInv == Spec => []PulseInv
<1>1. Init => PulseInv
  BY InvInit
<1>2. PulseInv /\ [Next]_vars => PulseInv'
  BY InvStep
<1> QED
  BY <1>1, <1>2, PTL DEF Spec

(* Every variable of the clients keeps its type.                           *)
THEOREM PulseTypeCorrect == Spec => []TypeOK
<1>1. PulseInv => TypeOK
  BY DEF PulseInv
<1> QED
  BY <1>1, AlwaysPulseInv, PTL

(* No moves make two clients own, and close, the same streams.             *)
THEOREM StreamsOwnedOnce == Spec => []OwnedOnce
<1>1. PulseInv => OwnedOnce
  <2> SUFFICES ASSUME PulseInv, NEW i \in Client PROVE Cardinality(Owner(i)) <= 1
    BY DEF OwnedOnce
  <2>1. \A c, d \in Owner(i) : c = d
    BY NullAssumption DEF PulseInv, Separate, Owner
  <2>2. CASE Owner(i) = {}
    BY <2>2, FS_EmptySet
  <2>3. CASE Owner(i) # {}
    <3>1. PICK c \in Owner(i) : Owner(i) = {c}
      BY <2>1, <2>3
    <3>2. Cardinality(Owner(i)) = 1
      BY <3>1, FS_Singleton
    <3> QED
      BY <3>2
  <2> QED
    BY <2>2, <2>3
<1> QED
  BY <1>1, AlwaysPulseInv, PTL

(* Every open stream has a client that will close it, unless a move        *)
(* assignment has deleted its impl.                                        *)
THEOREM OpenStreamsAreOwned == Spec => []OpenIsOwned
<1>1. PulseInv => OpenIsOwned
  BY NullAssumption DEF PulseInv, Separate, OpenHasOwner, OpenIsOwned, Owner
<1> QED
  BY <1>1, AlwaysPulseInv, PTL

(* Whatever moves there were, every open stream is closed once, or its impl*)
(* was deleted by a move assignment.                                       *)
THEOREM StreamsStayKept == Spec => []StreamsAreKept
<1>1. OwnedOnce /\ OpenIsOwned => StreamsAreKept
  BY DEF StreamsAreKept
<1> QED
  BY <1>1, StreamsOwnedOnce, OpenStreamsAreOwned, PTL
-----------------------------------------------------------------------------
(* The connection.  The socket's thread is in a callback only while the    *)
(* socket is open, or for its error; the send loop starts in one; and the  *)
(* socket ends by a callback that has joined the loop.                     *)
SocketStage ==
  /\ socket \in {"off", "ended"} => loop = "none" /\ callback = "none"
  /\ socket = "connecting" => loop = "none" /\ callback \in {"none", "error"}
  /\ socket = "open" => callback # "error"
  /\ app \in {"release", "start"} => socket = "off"

(* What the place of the bot's thread says of the socket, of the lock and  *)
(* of the call it is in.                                                   *)
AppStage ==
  /\ asked <=> app = "joinSocket"
  /\ locked => app \in {"halt", "release"} \cup Voice!Stopping
  /\ app \in {"start", "wait"} => errand = "connect" /\ verdict = "none"
  /\ errand = "connect" /\ app \in {"halt", "release", "start"} \cup Voice!Stopping =>
       verdict = "none" /\ connects < MaxConnects

(* Who was told of a connection was so by an answer of this one. *)
AnswerIsOwn ==
  joined \/ callback = "joined" \/ verdict = "true" => answered

(* The send loop comes of a track; a second one comes with a second track. *)
LoopHasTrack ==
  /\ loop # "none" \/ callback \in {"track", "spawn"} => tracks > 0
  /\ loop # "none" /\ callback \in {"track", "spawn"} => tracks > 1
  /\ loop = "use" => encoder \/ tracks > 1

(* The socket closes because the server did, or because disconnect() waits *)
(* for it, when it has joined the loop itself.                             *)
CloseHasCause ==
  callback \in {"close", "halt", "join", "joining"} => serverClosed \/ app = "joinSocket"

ConnectionLinks ==
  /\ SocketStage /\ AppStage /\ AnswerIsOwn /\ LoopHasTrack /\ CloseHasCause
  /\ Voice!TerminationHasCause

ConnectionInv == Voice!TypeOK /\ ConnectionLinks

LEMMA ConnectionInvInit == Voice!Init => ConnectionInv
<1> SUFFICES ASSUME Voice!Init PROVE ConnectionInv
  OBVIOUS
<1> USE VoiceConstants DEF Voice!Init
<1>1. Voice!FlagsOK
  BY DEF Voice!FlagsOK
<1>2. Voice!PlacesOK
  BY DEF Voice!ConstantsAssumption, Voice!PlacesOK, Voice!Stopping
<1>3. ConnectionLinks
  BY DEF Voice!Stopping, ConnectionLinks, SocketStage, AppStage, AnswerIsOwn, LoopHasTrack,
         CloseHasCause, Voice!TerminationHasCause
<1> QED
  BY <1>1, <1>2, <1>3 DEF ConnectionInv, Voice!TypeOK

LEMMA ConnectionInvStep == ConnectionInv /\ [Voice!Next]_(Voice!vars) => ConnectionInv'
<1> SUFFICES ASSUME ConnectionInv, [Voice!Next]_(Voice!vars) PROVE ConnectionInv'
  OBVIOUS
<1> USE VoiceConstants
    DEF Voice!ConstantsAssumption, Voice!FlagsOK, Voice!PlacesOK, Voice!TypeOK,
        Voice!Stopping, ConnectionInv, ConnectionLinks,
        SocketStage, AppStage, AnswerIsOwn, LoopHasTrack, CloseHasCause,
        Voice!TerminationHasCause,
        Voice!socketVars, Voice!loopVars, Voice!appVars, Voice!history
<1>1. ASSUME Voice!CallConnect PROVE ConnectionInv'
  BY <1>1 DEF Voice!CallConnect
<1>2. ASSUME Voice!CallDisconnect PROVE ConnectionInv'
  BY <1>2 DEF Voice!CallDisconnect
<1>3. ASSUME Voice!WritePcm PROVE ConnectionInv'
  BY <1>3 DEF Voice!WritePcm
<1>4. ASSUME Voice!Halt PROVE ConnectionInv'
  <2>1. Voice!FlagsOK'
    BY <1>4, ZenonT(40) DEF Voice!Halt
  <2>2. Voice!PlacesOK'
    BY <1>4 DEF Voice!Halt
  <2>3. ConnectionLinks'
    BY <1>4 DEF Voice!Halt
  <2> QED
    BY <2>1, <2>2, <2>3
<1>5. ASSUME Voice!Join PROVE ConnectionInv'
  BY <1>5 DEF Voice!Join
<1>6. ASSUME Voice!Joined PROVE ConnectionInv'
  <2>1. Voice!FlagsOK'
    BY <1>6 DEF Voice!Joined
  <2>2. Voice!PlacesOK'
    BY <1>6 DEF Voice!Joined
  <2>3. ConnectionLinks'
    BY <1>6 DEF Voice!Joined
  <2> QED
    BY <2>1, <2>2, <2>3
<1>7. ASSUME Voice!AskSocket PROVE ConnectionInv'
  <2>1. Voice!FlagsOK'
    BY <1>7 DEF Voice!AskSocket
  <2>2. Voice!PlacesOK'
    BY <1>7 DEF Voice!AskSocket
  <2>3. ConnectionLinks'
    BY <1>7 DEF Voice!AskSocket
  <2> QED
    BY <2>1, <2>2, <2>3
<1>8. ASSUME Voice!SocketStopped PROVE ConnectionInv'
  <2>1. Voice!FlagsOK'
    BY <1>8, ZenonT(40) DEF Voice!SocketStopped
  <2>2. Voice!PlacesOK'
    BY <1>8 DEF Voice!SocketStopped
  <2>3. ConnectionLinks'
    BY <1>8 DEF Voice!SocketStopped
  <2> QED
    BY <2>1, <2>2, <2>3
<1>9. ASSUME Voice!Release PROVE ConnectionInv'
  <2>1. Voice!FlagsOK'
    BY <1>9 DEF Voice!Release
  <2>2. Voice!PlacesOK'
    BY <1>9 DEF Voice!Release
  <2>3. ConnectionLinks'
    BY <1>9 DEF Voice!Release
  <2> QED
    BY <2>1, <2>2, <2>3
<1>10. ASSUME ~terminated, Voice!Start PROVE ConnectionInv'
  <2>1. Voice!FlagsOK'
    BY <1>10 DEF Voice!Start
  <2>2. Voice!PlacesOK'
    BY <1>10 DEF Voice!Start
  <2>3. ConnectionLinks'
    BY <1>10 DEF Voice!Start
  <2> QED
    BY <2>1, <2>2, <2>3
<1>11. ASSUME Voice!Answer PROVE ConnectionInv'
  BY <1>11 DEF Voice!Answer
<1>12. ASSUME Voice!TimeOut PROVE ConnectionInv'
  <2>1. Voice!FlagsOK'
    BY <1>12 DEF Voice!TimeOut
  <2>2. Voice!PlacesOK'
    BY <1>12 DEF Voice!TimeOut
  <2>3. ConnectionLinks'
    BY <1>12 DEF Voice!TimeOut
  <2> QED
    BY <2>1, <2>2, <2>3
<1>13. ASSUME Voice!Open PROVE ConnectionInv'
  BY <1>13 DEF Voice!Open
<1>14. ASSUME Voice!ConnectFails PROVE ConnectionInv'
  BY <1>14 DEF Voice!ConnectFails
<1>15. ASSUME Voice!SetFailed PROVE ConnectionInv'
  BY <1>15 DEF Voice!SetFailed
<1>16. ASSUME Voice!SetJoined PROVE ConnectionInv'
  BY <1>16 DEF Voice!SetJoined
<1>17. ASSUME Voice!SetRunning PROVE ConnectionInv'
  <2>1. Voice!FlagsOK'
    BY <1>17 DEF Voice!SetRunning
  <2>2. Voice!PlacesOK'
    BY <1>17 DEF Voice!SetRunning
  <2>3. ConnectionLinks'
    BY <1>17 DEF Voice!SetRunning
  <2> QED
    BY <2>1, <2>2, <2>3
<1>18. ASSUME Voice!Spawn PROVE ConnectionInv'
  <2>1. Voice!FlagsOK'
    BY <1>18 DEF Voice!Spawn
  <2>2. Voice!PlacesOK'
    BY <1>18 DEF Voice!Spawn
  <2>3. ConnectionLinks'
    BY <1>18 DEF Voice!Spawn
  <2> QED
    BY <2>1, <2>2, <2>3
<1>19. ASSUME Voice!CloseHalt PROVE ConnectionInv'
  <2>1. Voice!FlagsOK'
    BY <1>19, ZenonT(40) DEF Voice!CloseHalt
  <2>2. Voice!PlacesOK'
    BY <1>19 DEF Voice!CloseHalt
  <2>3. ConnectionLinks'
    BY <1>19 DEF Voice!CloseHalt
  <2> QED
    BY <2>1, <2>2, <2>3
<1>20. ASSUME Voice!CloseJoin PROVE ConnectionInv'
  <2>1. Voice!FlagsOK'
    BY <1>20 DEF Voice!CloseJoin
  <2>2. Voice!PlacesOK'
    BY <1>20 DEF Voice!CloseJoin
  <2>3. ConnectionLinks'
    BY <1>20 DEF Voice!CloseJoin
  <2> QED
    BY <2>1, <2>2, <2>3
<1>21. ASSUME Voice!CloseJoined PROVE ConnectionInv'
  BY <1>21 DEF Voice!CloseJoined
<1>22. ASSUME Voice!JoinResponse PROVE ConnectionInv'
  <2>1. Voice!FlagsOK'
    BY <1>22, ZenonT(40) DEF Voice!JoinResponse, Voice!InitializePeerConnections, Voice!Given
  <2>2. Voice!PlacesOK'
    BY <1>22 DEF Voice!JoinResponse, Voice!InitializePeerConnections, Voice!Given
  <2>3. ConnectionLinks'
    BY <1>22 DEF Voice!JoinResponse, Voice!InitializePeerConnections, Voice!Given
  <2> QED
    BY <2>1, <2>2, <2>3
<1>23. ASSUME Voice!TrackPublished PROVE ConnectionInv'
  <2>1. Voice!FlagsOK'
    BY <1>23, ZenonT(40) DEF Voice!TrackPublished
  <2>2. Voice!PlacesOK'
    BY <1>23 DEF Voice!TrackPublished
  <2>3. ConnectionLinks'
    BY <1>23 DEF Voice!TrackPublished
  <2> QED
    BY <2>1, <2>2, <2>3
<1>24. ASSUME Voice!Close PROVE ConnectionInv'
  <2>1. Voice!FlagsOK'
    BY <1>24 DEF Voice!Close
  <2>2. Voice!PlacesOK'
    BY <1>24 DEF Voice!Close
  <2>3. ConnectionLinks'
    BY <1>24, ZenonT(40) DEF Voice!Close
  <2> QED
    BY <2>1, <2>2, <2>3
<1>25. ASSUME Voice!TestRunning PROVE ConnectionInv'
  BY <1>25 DEF Voice!TestRunning
<1>26. ASSUME Voice!TakeFrame PROVE ConnectionInv'
  BY <1>26 DEF Voice!TakeFrame
<1>27. ASSUME Voice!CheckEncoder PROVE ConnectionInv'
  BY <1>27 DEF Voice!CheckEncoder
<1>28. ASSUME Voice!UseEncoder PROVE ConnectionInv'
  <2>1. Voice!FlagsOK'
    BY <1>28, ZenonT(40) DEF Voice!UseEncoder, Voice!Given
  <2>2. Voice!PlacesOK'
    BY <1>28 DEF Voice!UseEncoder, Voice!Given
  <2>3. ConnectionLinks'
    BY <1>28 DEF Voice!UseEncoder, Voice!Given
  <2> QED
    BY <2>1, <2>2, <2>3
<1>29. ASSUME UNCHANGED Voice!vars PROVE ConnectionInv'
  BY <1>29 DEF Voice!vars
<1>30. ASSUME Voice!SetRemoteDescription PROVE ConnectionInv'
  <2>1. Voice!FlagsOK'
    BY <1>30, ZenonT(40) DEF Voice!SetRemoteDescription, Voice!Given
  <2>2. Voice!PlacesOK'
    BY <1>30 DEF Voice!SetRemoteDescription, Voice!Given
  <2>3. ConnectionLinks'
    BY <1>30 DEF Voice!SetRemoteDescription, Voice!Given
  <2> QED
    BY <2>1, <2>2, <2>3
<1>31. ASSUME Voice!CutOff PROVE ConnectionInv'
  <2>1. Voice!FlagsOK'
    BY <1>31, ZenonT(40) DEF Voice!CutOff, Voice!Given
  <2>2. Voice!PlacesOK'
    BY <1>31 DEF Voice!CutOff, Voice!Given
  <2>3. ConnectionLinks'
    BY <1>31 DEF Voice!CutOff, Voice!Given
  <2> QED
    BY <2>1, <2>2, <2>3
<1> QED
  BY <1>1, <1>2, <1>3, <1>4, <1>5, <1>6, <1>7, <1>8, <1>9, <1>10, <1>11, <1>12, <1>13,
     <1>14, <1>15, <1>16, <1>17, <1>18, <1>19, <1>20, <1>21, <1>22, <1>23, <1>24,
     <1>25, <1>26, <1>27, <1>28, <1>29, <1>30, <1>31
  DEF Voice!Next, Voice!AppStep, Voice!SocketStep, Voice!ServerStep, Voice!LoopStep

LEMMA AlwaysConnectionInv == MCSpec => []ConnectionInv
<1>1. MCInit => ConnectionInv
  BY ConnectionInvInit DEF MCInit
<1>2. [MCNext]_allVars => [Voice!Next]_(Voice!vars)
  BY DEF MCNext, allVars, connectionVars, Voice!vars, Voice!history
<1>3. ConnectionInv /\ [MCNext]_allVars => ConnectionInv'
  BY <1>2, ConnectionInvStep
<1> QED
  BY <1>1, <1>3, PTL DEF MCSpec

(* connect reports success only on an answer of the server to this         *)
(* connection, never on one left by a connection given up before it.       *)
THEOREM VerdictStaysOwn == MCSpec => []Voice!VerdictIsOwn
<1>1. ConnectionInv => Voice!VerdictIsOwn
  BY DEF ConnectionInv, ConnectionLinks, AnswerIsOwn, Voice!VerdictIsOwn
<1> QED
  BY <1>1, AlwaysConnectionInv, PTL

(* What holds of a connection whoever stops its threads, and however the   *)
(* callbacks of its socket fall between the steps of disconnect: the       *)
(* answer is this connection's, the encoder outlives its use, nothing runs *)
(* after the stop, and the process ends only for the causes named.         *)
THEOREM ConnectionStaysSound == MCSpec => []ConnectionIsSound
<1>1. ConnectionInv => ConnectionIsSound
  BY DEF ConnectionInv, ConnectionLinks, SocketStage, AnswerIsOwn, LoopHasTrack,
         ConnectionIsSound, Voice!ConnectionIsSound, Voice!VerdictIsOwn,
         Voice!EncoderOutlivesUse, Voice!NothingRunsAfterStop
<1> QED
  BY <1>1, AlwaysConnectionInv, PTL
-----------------------------------------------------------------------------
(* Induction on a number, for a set of numbers. *)
LEMMA NumbersFromZero ==
  ASSUME NEW S, 0 \in S, \A n \in Nat : n \in S => n + 1 \in S
  PROVE  \A n \in Nat : n \in S
<1> SUFFICES ASSUME Nat \ S # {} PROVE FALSE
  OBVIOUS
<1>1. PICK i \in Nat \ S : \A j \in Nat \ S : <<j, i>> \notin OpToRel(<, Nat)
  BY WFMin, NatLessThanWellFounded, Zenon
<1>2. \A j \in Nat \ S : ~(j < i)
  BY <1>1, Zenon DEF OpToRel
<1>3. i # 0 /\ i - 1 \in Nat /\ i - 1 \in S
  BY <1>2
<1> QED
  BY <1>3

(* The bytes of a number, as WriteVarint has them in terms of those of a   *)
(* smaller one, for a function g on the numbers of D.                      *)
Bytewise(g, n) == IF n < 128 THEN <<n>> ELSE <<128 + (n % 128)>> \o g[n \div 128]

Writes(D, g) == g = [n \in D |-> Bytewise(g, n)]

LEMMA BytewiseAgrees ==
  ASSUME NEW g, NEW h, NEW n \in Nat, n >= 128 => g[n \div 128] = h[n \div 128]
  PROVE  Bytewise(g, n) = Bytewise(h, n)
<1>1. CASE n < 128
  BY <1>1 DEF Bytewise
<1>2. CASE n >= 128
  <2>1. ~(n < 128) /\ g[n \div 128] = h[n \div 128]
    BY <1>2
  <2> QED
    BY <2>1, Zenon DEF Bytewise
<1> QED
  BY <1>1, <1>2

LEMMA WritesUpTo ==
  ASSUME NEW m \in Nat
  PROVE  \E g : Writes(0..m, g)
<1> DEFINE S == {k \in Nat : \E g : Writes(0..k, g)}
<1>1. 0 \in S
  <2> DEFINE g == [n \in 0..0 |-> <<n>>]
  <2>1. \A n \in 0..0 : Bytewise(g, n) = <<n>>
    BY DEF Bytewise
  <2> HIDE DEF Bytewise
  <2>2. g = [n \in 0..0 |-> Bytewise(g, n)]
    BY <2>1
  <2> HIDE DEF g
  <2> QED
    BY <2>2 DEF Writes
<1>2. ASSUME NEW k \in Nat, k \in S PROVE k + 1 \in S
  <2>1. PICK g : Writes(0..k, g)
    BY <1>2
  <2> DEFINE h == [n \in 0..(k + 1) |-> IF n = k + 1 THEN Bytewise(g, n) ELSE g[n]]
  <2>2. \A n \in 0..k : h[n] = g[n]
    OBVIOUS
  <2>3. ASSUME NEW n \in 0..(k + 1) PROVE h[n] = Bytewise(h, n)
    <3>1. n \in Nat /\ (n >= 128 => n \div 128 \in 0..k)
      OBVIOUS
    <3>2. n >= 128 => g[n \div 128] = h[n \div 128]
      BY <2>2, <3>1
    <3>3. h[n] = Bytewise(g, n)
      <4>1. CASE n = k + 1
        BY <4>1
      <4>2. CASE n # k + 1
        <5>1. n \in 0..k /\ h[n] = g[n]
          BY <4>2
        <5>2. g[n] = Bytewise(g, n)
          BY <2>1, <5>1, Zenon DEF Writes
        <5> QED
          BY <5>1, <5>2
      <4> QED
        BY <4>1, <4>2
    <3> HIDE DEF h
    <3>4. Bytewise(g, n) = Bytewise(h, n)
      BY <3>1, <3>2, BytewiseAgrees
    <3> QED
      BY <3>3, <3>4
  <2>4. h = [n \in 0..(k + 1) |-> h[n]]
    OBVIOUS
  <2> HIDE DEF h
  <2>5. [n \in 0..(k + 1) |-> h[n]] = [n \in 0..(k + 1) |-> Bytewise(h, n)]
    BY <2>3
  <2>6. Writes(0..(k + 1), h)
    BY <2>4, <2>5, Zenon DEF Writes
  <2> QED
    BY <2>6
<1> HIDE DEF S
<1>3. m \in S
  BY <1>1, <1>2, NumbersFromZero
<1> QED
  BY <1>3 DEF S

LEMMA WritesAgree ==
  ASSUME NEW l \in Nat, NEW m \in Nat, NEW g, NEW h, Writes(0..l, g), Writes(0..m, h),
         NEW n \in Nat, n <= l, n <= m
  PROVE  g[n] = h[n]
<1> DEFINE S == {k \in Nat : \A i \in 0..k : i <= l /\ i <= m => g[i] = h[i]}
<1>0. ASSUME NEW i \in Nat, i <= l, i <= m PROVE g[i] = Bytewise(g, i) /\ h[i] = Bytewise(h, i)
  <2>1. i \in 0..l /\ i \in 0..m
    BY <1>0
  <2> QED
    BY <2>1, Zenon DEF Writes
<1>1. 0 \in S
  <2> SUFFICES ASSUME NEW i \in 0..0 PROVE g[i] = h[i]
    OBVIOUS
  <2>1. g[i] = Bytewise(g, i) /\ h[i] = Bytewise(h, i)
    BY <1>0
  <2>2. Bytewise(g, i) = Bytewise(h, i)
    BY BytewiseAgrees
  <2> QED
    BY <2>1, <2>2
<1>2. ASSUME NEW k \in Nat, k \in S PROVE k + 1 \in S
  <2> SUFFICES ASSUME NEW i \in 0..(k + 1), i <= l, i <= m PROVE g[i] = h[i]
    OBVIOUS
  <2>1. i \in Nat /\ (i >= 128 => i \div 128 \in 0..k /\ i \div 128 <= l /\ i \div 128 <= m)
    OBVIOUS
  <2>2. i >= 128 => g[i \div 128] = h[i \div 128]
    BY <1>2, <2>1
  <2>3. Bytewise(g, i) = Bytewise(h, i)
    BY <2>1, <2>2, BytewiseAgrees
  <2> QED
    BY <1>0, <2>1, <2>3
<1> HIDE DEF S
<1>3. n \in S
  BY <1>1, <1>2, NumbersFromZero
<1>4. n \in 0..n
  OBVIOUS
<1> QED
  BY <1>3, <1>4 DEF S

LEMMA WritesExist == \E g : Writes(Nat, g)
<1> DEFINE G(m) == CHOOSE g : Writes(0..m, g)
           h == [n \in Nat |-> G(n)[n]]
<1>1. \A m \in Nat : Writes(0..m, G(m))
  BY WritesUpTo, Zenon
<1> HIDE DEF G
<1>2. ASSUME NEW n \in Nat PROVE h[n] = Bytewise(h, n)
  <2>1. h[n] = G(n)[n]
    OBVIOUS
  <2>2. n \in 0..n
    OBVIOUS
  <2>3. G(n)[n] = Bytewise(G(n), n)
    BY <1>1, <2>2, Zenon DEF Writes
  <2>4. n >= 128 => G(n)[n \div 128] = h[n \div 128]
    <3> SUFFICES ASSUME n >= 128 PROVE G(n)[n \div 128] = h[n \div 128]
      OBVIOUS
    <3> DEFINE j == n \div 128
    <3>1. j \in Nat /\ j <= n /\ j <= j
      OBVIOUS
    <3> HIDE DEF j
    <3>2. Writes(0..n, G(n)) /\ Writes(0..j, G(j))
      BY <1>1, <3>1
    <3>3. G(n)[j] = G(j)[j]
      BY <3>1, <3>2, WritesAgree
    <3>4. h[j] = G(j)[j]
      BY <3>1
    <3> QED
      BY <3>3, <3>4 DEF j
  <2> HIDE DEF h
  <2>5. Bytewise(G(n), n) = Bytewise(h, n)
    BY <2>4, BytewiseAgrees
  <2> QED
    BY <2>1, <2>3, <2>5
<1>3. h = [n \in Nat |-> h[n]]
  OBVIOUS
<1> HIDE DEF h
<1>4. [n \in Nat |-> h[n]] = [n \in Nat |-> Bytewise(h, n)]
  BY <1>2
<1> QED
  BY <1>3, <1>4, Zenon DEF Writes

LEMMA VarintLaw ==
  ASSUME NEW n \in Nat
  PROVE  Signals!WriteVarint(n) =
           IF n < 128 THEN <<n>> ELSE <<128 + (n % 128)>> \o Signals!WriteVarint(n \div 128)
<1> DEFINE F == CHOOSE g : g = [m \in Nat |->
             IF m < 128 THEN <<m>> ELSE <<128 + (m % 128)>> \o g[m \div 128]]
<1>1. \A m : Signals!WriteVarint(m) = F[m]
  BY DEF Signals!WriteVarint
<1>2. \E g : g = [m \in Nat |-> IF m < 128 THEN <<m>> ELSE <<128 + (m % 128)>> \o g[m \div 128]]
  BY WritesExist, Zenon DEF Writes, Bytewise
<1>3. F = [m \in Nat |-> IF m < 128 THEN <<m>> ELSE <<128 + (m % 128)>> \o F[m \div 128]]
  BY <1>2, Zenon
<1> HIDE DEF F
<1>4. F[n] = IF n < 128 THEN <<n>> ELSE <<128 + (n % 128)>> \o F[n \div 128]
  BY <1>3, Zenon
<1> QED
  BY <1>1, <1>4, Zenon

LEMMA VarintType ==
  ASSUME NEW n \in Nat
  PROVE  Signals!WriteVarint(n) \in Seq(0..255) /\ Len(Signals!WriteVarint(n)) >= 1
<1> DEFINE Good(k) == Signals!WriteVarint(k) \in Seq(0..255) /\ Len(Signals!WriteVarint(k)) >= 1
           S == {k \in Nat : \A i \in 0..k : Good(i)}
<1>1. ASSUME NEW k \in Nat, k < 128 PROVE Good(k)
  <2>1. Signals!WriteVarint(k) = <<k>>
    BY <1>1, VarintLaw
  <2>2. <<k>> \in Seq(0..255) /\ Len(<<k>>) = 1
    BY <1>1
  <2> QED
    BY <2>1, <2>2
<1>2. 0 \in S
  BY <1>1
<1>3. ASSUME NEW k \in Nat, k \in S PROVE k + 1 \in S
  <2> SUFFICES ASSUME NEW i \in 0..(k + 1), i >= 128 PROVE Good(i)
    BY <1>1
  <2>1. i \in Nat /\ i \div 128 \in 0..k /\ 128 + (i % 128) \in 0..255
    OBVIOUS
  <2>2. Good(i \div 128)
    BY <1>3, <2>1
  <2>3. Signals!WriteVarint(i) = <<128 + (i % 128)>> \o Signals!WriteVarint(i \div 128)
    <3>1. ~(i < 128)
      OBVIOUS
    <3> QED
      BY <2>1, <3>1, VarintLaw, Zenon
  <2> DEFINE a == <<128 + (i % 128)>>
             b == Signals!WriteVarint(i \div 128)
  <2>4. a \in Seq(0..255) /\ Len(a) = 1
    BY <2>1
  <2> HIDE DEF a, b
  <2>5. b \in Seq(0..255) /\ Len(b) >= 1
    BY <2>2 DEF b
  <2>6. a \o b \in Seq(0..255) /\ Len(a \o b) = 1 + Len(b) /\ Len(b) \in Nat
    <3>1. a \o b \in Seq(0..255) /\ Len(a \o b) = Len(a) + Len(b)
      BY <2>4, <2>5, ConcatProperties, Zenon
    <3>2. Len(b) \in Nat
      BY <2>5, LenProperties, Zenon
    <3> QED
      BY <2>4, <3>1, <3>2
  <2> QED
    BY <2>3, <2>5, <2>6 DEF a, b
<1> HIDE DEF S
<1>4. n \in S
  BY <1>2, <1>3, NumbersFromZero
<1>5. n \in 0..n
  OBVIOUS
<1> QED
  BY <1>4, <1>5 DEF S

(* What read_varint makes of the last byte of a number, of one before it,  *)
(* and of the end of what is read or of the data; and what a reader of N   *)
(* bytes that begins at c reads from the place i, in terms of what it reads*)
(* from the next.                                                          *)
EndOf(b, i) == [end |-> "whole", val |-> b, next |-> i + 1]
MoreOf(r, b) == [r EXCEPT !.val = (@ * 128) + b - 128]
NoneAt(e, i) == [end |-> e, val |-> 0, next |-> i]

Readwise(d, c, N, g, i) ==
  IF i = N THEN NoneAt("short", i)
  ELSE IF c + i >= Len(d) THEN NoneAt("stray", i)
  ELSE IF d[c + i + 1] < 128 THEN EndOf(d[c + i + 1], i)
  ELSE MoreOf(g[i + 1], d[c + i + 1])

Scans(d, c, N, m, g) == g = [i \in m..N |-> Readwise(d, c, N, g, i)]

LEMMA ReadwiseAgrees ==
  ASSUME NEW d, NEW c, NEW N, NEW g, NEW h, NEW i, i # N => g[i + 1] = h[i + 1]
  PROVE  Readwise(d, c, N, g, i) = Readwise(d, c, N, h, i)
BY Zenon DEF Readwise

LEMMA ScansExist ==
  ASSUME NEW d, NEW c, NEW N \in Nat
  PROVE  \E g : Scans(d, c, N, 0, g)
<1> DEFINE S == {k \in Nat : k <= N => \E g : Scans(d, c, N, N - k, g)}
<1>1. 0 \in S
  <2> DEFINE g == [i \in N..N |-> Readwise(d, c, N, <<>>, i)]
  <2>1. ASSUME NEW i \in N..N PROVE Readwise(d, c, N, <<>>, i) = Readwise(d, c, N, g, i)
    <3>1. i = N
      OBVIOUS
    <3> HIDE DEF g
    <3> QED
      BY <3>1, ReadwiseAgrees
  <2>2. g = [i \in N..N |-> Readwise(d, c, N, g, i)]
    <3>1. [i \in N..N |-> Readwise(d, c, N, <<>>, i)] = [i \in N..N |-> Readwise(d, c, N, g, i)]
      BY <2>1
    <3> QED
      BY <3>1
  <2> HIDE DEF g
  <2>3. Scans(d, c, N, N, g)
    BY <2>2 DEF Scans
  <2>4. N - 0 = N
    OBVIOUS
  <2> QED
    BY <2>3, <2>4
<1>2. ASSUME NEW k \in Nat, k \in S PROVE k + 1 \in S
  <2> SUFFICES ASSUME k + 1 <= N PROVE \E g : Scans(d, c, N, N - (k + 1), g)
    OBVIOUS
  <2> DEFINE m == N - (k + 1)
  <2>0. m \in Nat /\ N - k = m + 1 /\ m < N /\ m + 1 <= N
    OBVIOUS
  <2> HIDE DEF m
  <2>1. PICK g : Scans(d, c, N, m + 1, g)
    BY <1>2, <2>0
  <2> DEFINE h == [i \in m..N |-> IF i = m THEN Readwise(d, c, N, g, i) ELSE g[i]]
  <2>2. \A i \in (m + 1)..N : h[i] = g[i]
    BY <2>0
  <2>3. ASSUME NEW i \in m..N PROVE h[i] = Readwise(d, c, N, h, i)
    <3>1. i # N => g[i + 1] = h[i + 1]
      <4>1. i # N => i + 1 \in (m + 1)..N
        BY <2>0
      <4> QED
        BY <2>2, <4>1
    <3>2. h[i] = Readwise(d, c, N, g, i)
      <4>1. CASE i = m
        BY <4>1
      <4>2. CASE i # m
        <5>1. i \in (m + 1)..N
          BY <2>0, <4>2
        <5>2. g[i] = Readwise(d, c, N, g, i)
          BY <2>1, <5>1, Zenon DEF Scans
        <5> QED
          BY <2>2, <5>1, <5>2
      <4> QED
        BY <4>1, <4>2
    <3> HIDE DEF h
    <3>3. Readwise(d, c, N, g, i) = Readwise(d, c, N, h, i)
      BY <3>1, ReadwiseAgrees
    <3> QED
      BY <3>2, <3>3
  <2>4. h = [i \in m..N |-> h[i]]
    OBVIOUS
  <2> HIDE DEF h
  <2>5. [i \in m..N |-> h[i]] = [i \in m..N |-> Readwise(d, c, N, h, i)]
    BY <2>3
  <2>6. Scans(d, c, N, m, h)
    BY <2>4, <2>5, Zenon DEF Scans
  <2> QED
    BY <2>6 DEF m
<1> HIDE DEF S
<1>3. N \in S
  BY <1>1, <1>2, NumbersFromZero
<1>4. N - N = 0 /\ N <= N
  OBVIOUS
<1> QED
  BY <1>3, <1>4 DEF S

(* What is read is a number, whole or not, and a place to go on from. *)
Reading(N) == [end : {"short", "stray", "whole"}, val : Nat, next : 0..N]

LEMMA LastByte ==
  ASSUME NEW N \in Nat, NEW b \in Nat, NEW i \in Nat, i < N
  PROVE  EndOf(b, i) \in Reading(N)
<1>1. i + 1 \in 0..N
  OBVIOUS
<1> QED
  BY <1>1 DEF EndOf, Reading

LEMMA NoByte ==
  ASSUME NEW N \in Nat, NEW i \in 0..N, NEW e \in {"short", "stray"}
  PROVE  NoneAt(e, i) \in Reading(N)
BY DEF NoneAt, Reading

LEMMA MoreBytes ==
  ASSUME NEW N \in Nat, NEW r \in Reading(N), NEW b \in 128..255
  PROVE  /\ MoreOf(r, b) \in Reading(N) /\ MoreOf(r, b).end = r.end
         /\ MoreOf(r, b).val = (r.val * 128) + b - 128 /\ MoreOf(r, b).next = r.next
<1>1. r.val \in Nat
  BY DEF Reading
<1>2. \A v \in Nat : (v * 128) + b - 128 \in Nat
  OBVIOUS
<1>3. (r.val * 128) + b - 128 \in Nat
  BY <1>1, <1>2
<1>4. \A v \in Nat : LET q == [r EXCEPT !.val = v]
                    IN  q \in Reading(N) /\ q.end = r.end /\ q.val = v /\ q.next = r.next
  BY DEF Reading
<1> QED
  BY <1>3, <1>4, Zenon DEF MoreOf

(* The law of read_varint. *)
LEMMA ReadLaw ==
  ASSUME NEW c, NEW N \in Nat
  PROVE  \E g : /\ Scans(data, c, N, 0, g)
                /\ \A at :
                     Signals!ReadVarint(c, N, at) =
                       [val |-> IF g[at].end = "whole" THEN g[at].val % Word ELSE 0,
                        next |-> g[at].next,
                        stray |-> g[at].end = "stray" \/ g[at].next - at > WordBytes]
<1> DEFINE F == CHOOSE g : g = [i \in 0..N |->
             IF i = N THEN [end |-> "short", val |-> 0, next |-> i]
             ELSE IF c + i >= Len(data) THEN [end |-> "stray", val |-> 0, next |-> i]
             ELSE IF data[c + i + 1] < 128 THEN [end |-> "whole", val |-> data[c + i + 1], next |-> i + 1]
             ELSE [g[i + 1] EXCEPT !.val = (@ * 128) + data[c + i + 1] - 128]]
<1>1. \A at : Signals!ReadVarint(c, N, at) =
                [val |-> IF F[at].end = "whole" THEN F[at].val % Word ELSE 0,
                 next |-> F[at].next,
                 stray |-> F[at].end = "stray" \/ F[at].next - at > WordBytes]
  BY DEF Signals!ReadVarint
<1>2. \E g : g = [i \in 0..N |->
             IF i = N THEN [end |-> "short", val |-> 0, next |-> i]
             ELSE IF c + i >= Len(data) THEN [end |-> "stray", val |-> 0, next |-> i]
             ELSE IF data[c + i + 1] < 128 THEN [end |-> "whole", val |-> data[c + i + 1], next |-> i + 1]
             ELSE [g[i + 1] EXCEPT !.val = (@ * 128) + data[c + i + 1] - 128]]
  <2>1. PICK g : Scans(data, c, N, 0, g)
    BY ScansExist
  <2> QED
    BY <2>1, Zenon DEF Scans, Readwise, EndOf, MoreOf, NoneAt
<1>3. F = [i \in 0..N |->
             IF i = N THEN [end |-> "short", val |-> 0, next |-> i]
             ELSE IF c + i >= Len(data) THEN [end |-> "stray", val |-> 0, next |-> i]
             ELSE IF data[c + i + 1] < 128 THEN [end |-> "whole", val |-> data[c + i + 1], next |-> i + 1]
             ELSE [F[i + 1] EXCEPT !.val = (@ * 128) + data[c + i + 1] - 128]]
  BY <1>2, Zenon
<1> HIDE DEF F
<1>4. Scans(data, c, N, 0, F)
  BY <1>3, Zenon DEF Scans, Readwise, EndOf, MoreOf, NoneAt
<1> QED
  BY <1>1, <1>4

(* Whatever the data are, it reads a number and goes on. *)
LEMMA ReadsTyped ==
  ASSUME NEW d \in Seq(0..255), NEW c \in Nat, NEW N \in Nat, NEW g, Scans(d, c, N, 0, g)
  PROVE  \A i \in 0..N : g[i] = Readwise(d, c, N, g, i) /\ g[i] \in Reading(N)
<1> DEFINE S == {k \in Nat : k <= N => g[N - k] \in Reading(N)}
<1>1. Len(d) \in Nat /\ \A i \in 1..Len(d) : d[i] \in 0..255
  BY LenProperties, ElementOfSeq
<1>2. \A i \in 0..N : g[i] = Readwise(d, c, N, g, i)
  BY Zenon DEF Scans
<1>3. 0 \in S
  <2>1. N \in 0..N /\ N - 0 = N
    OBVIOUS
  <2>2. g[N] = NoneAt("short", N)
    BY <1>2, <2>1 DEF Readwise
  <2>3. g[N] \in Reading(N)
    BY <2>1, <2>2, NoByte
  <2> QED
    BY <2>1, <2>3
<1>4. ASSUME NEW k \in Nat, k \in S PROVE k + 1 \in S
  <2> SUFFICES ASSUME k + 1 <= N PROVE g[N - (k + 1)] \in Reading(N)
    OBVIOUS
  <2>0. N - (k + 1) \in Nat
    OBVIOUS
  <2>1. PICK i \in Nat : i = N - (k + 1)
    BY <2>0, Zenon
  <2>2. i \in 0..N /\ i < N /\ i + 1 = N - k /\ k <= N /\ i # N
    BY <2>1
  <2>3. g[i + 1] \in Reading(N)
    BY <1>4, <2>2
  <2>5. g[i] = Readwise(d, c, N, g, i)
    BY <1>2, <2>2
  <2>6. CASE c + i >= Len(d)
    <3>1. g[i] = NoneAt("stray", i)
      BY <2>2, <2>5, <2>6, Zenon DEF Readwise
    <3> QED
      BY <2>1, <2>2, <3>1, NoByte
  <2>7. CASE ~(c + i >= Len(d))
    <3> DEFINE b == d[c + i + 1]
    <3>1. b \in 0..255
      <4>1. c + i + 1 \in 1..Len(d)
        BY <1>1, <2>7
      <4> QED
        BY <1>1, <4>1
    <3>2. g[i] = IF b < 128 THEN EndOf(b, i) ELSE MoreOf(g[i + 1], b)
      BY <2>2, <2>5, <2>7, Zenon DEF Readwise
    <3> HIDE DEF b
    <3>3. CASE b < 128
      <4>1. b \in Nat
        BY <3>1
      <4>2. EndOf(b, i) \in Reading(N)
        BY <2>2, <4>1, LastByte
      <4> QED
        BY <2>1, <3>2, <3>3, <4>2
    <3>4. CASE ~(b < 128)
      <4>1. b \in 128..255
        BY <3>1, <3>4
      <4>2. MoreOf(g[i + 1], b) \in Reading(N)
        BY <2>3, <4>1, MoreBytes
      <4> QED
        BY <2>1, <3>2, <3>4, <4>2
    <3> QED
      BY <3>3, <3>4, Zenon
  <2> QED
    BY <2>6, <2>7, Zenon
<1>5. ASSUME NEW i \in 0..N PROVE g[i] \in Reading(N)
  <2> HIDE DEF S
  <2>1. N - i \in Nat /\ N - i <= N /\ N - (N - i) = i
    OBVIOUS
  <2>2. N - i \in S
    BY <1>3, <1>4, <2>1, NumbersFromZero
  <2> QED
    BY <2>1, <2>2 DEF S
<1> QED
  BY <1>2, <1>5

(* The remainders of numbers by those that the code counts modulo. *)
LEMMA Remainder ==
  ASSUME NEW n \in Nat, NEW w \in Nat \ {0}
  PROVE  n % w \in Nat /\ (n < w => n % w = n)
OBVIOUS

LEMMA WordTypes ==
  /\ Word \in Nat \ {0} /\ IntWord \in Nat \ {0} /\ IntWord <= Word /\ WordBytes \in Nat
  /\ \A v \in Nat : v < Word => Len(Signals!WriteVarint(v)) <= WordBytes
<1>1. /\ Word \in Nat \ {0} /\ IntWord \in 1..Word /\ WordBytes \in Nat
      /\ \A v \in 0..(Word - 1) : Len(Signals!WriteVarint(v)) <= WordBytes
  BY SignalConstants DEF Signals!ConstantsAssumption
<1>2. \A v \in Nat : v < Word => v \in 0..(Word - 1)
  BY <1>1
<1> QED
  BY <1>1, <1>2

LEMMA ReadType ==
  ASSUME data \in Seq(0..255), NEW c \in Nat, NEW N \in Nat, NEW at \in 0..N
  PROVE  /\ Signals!ReadVarint(c, N, at).val \in Nat
         /\ Signals!ReadVarint(c, N, at).next \in 0..N
         /\ Signals!ReadVarint(c, N, at).stray \in BOOLEAN
<1>1. PICK g : /\ Scans(data, c, N, 0, g)
               /\ \A a :
                     Signals!ReadVarint(c, N, a) =
                       [val |-> IF g[a].end = "whole" THEN g[a].val % Word ELSE 0,
                        next |-> g[a].next,
                        stray |-> g[a].end = "stray" \/ g[a].next - a > WordBytes]
  BY ReadLaw
<1>2. g[at] \in Reading(N)
  BY <1>1, ReadsTyped, Zenon
<1>3. g[at].val \in Nat /\ g[at].next \in 0..N
  BY <1>2 DEF Reading
<1>4. g[at].val % Word \in Nat
  BY <1>3, WordTypes, Remainder
<1>5. Signals!ReadVarint(c, N, at) =
        [val |-> IF g[at].end = "whole" THEN g[at].val % Word ELSE 0,
         next |-> g[at].next,
         stray |-> g[at].end = "stray" \/ g[at].next - at > WordBytes]
  BY <1>1
<1> QED
  BY <1>3, <1>4, <1>5

(* The bytes s are in d from the place at. *)
Segment(d, at, s) == at + Len(s) <= Len(d) /\ \A i \in 1..Len(s) : d[at + i] = s[i]

LEMMA SegmentParts ==
  ASSUME NEW a \in Seq(0..255), NEW b \in Seq(0..255), NEW d \in Seq(0..255), NEW at \in Nat,
         Segment(d, at, a \o b)
  PROVE  Segment(d, at, a) /\ Segment(d, at + Len(a), b) /\ Len(a \o b) = Len(a) + Len(b)
         /\ Len(a) \in Nat /\ Len(b) \in Nat
<1>1. Len(a \o b) = Len(a) + Len(b) /\ Len(a) \in Nat /\ Len(b) \in Nat /\ Len(d) \in Nat
      /\ \A i \in 1..(Len(a) + Len(b)) : (a \o b)[i] = IF i <= Len(a) THEN a[i] ELSE b[i - Len(a)]
  BY ConcatProperties, LenProperties
<1>2. \A i \in 1..(Len(a) + Len(b)) : d[at + i] = (a \o b)[i]
  BY <1>1 DEF Segment
<1>3. at + Len(a) + Len(b) <= Len(d)
  BY <1>1 DEF Segment
<1>4. ASSUME NEW i \in 1..Len(a) PROVE d[at + i] = a[i]
  <2>1. i \in 1..(Len(a) + Len(b)) /\ i <= Len(a)
    BY <1>1
  <2> QED
    BY <1>1, <1>2, <2>1
<1>5. ASSUME NEW i \in 1..Len(b) PROVE d[(at + Len(a)) + i] = b[i]
  <2> DEFINE j == Len(a) + i
  <2>1. j \in 1..(Len(a) + Len(b)) /\ ~(j <= Len(a)) /\ j - Len(a) = i /\ at + j = (at + Len(a)) + i
    BY <1>1
  <2> HIDE DEF j
  <2> QED
    BY <1>1, <1>2, <2>1
<1>6. at + Len(a) <= Len(d) /\ (at + Len(a)) + Len(b) <= Len(d)
  BY <1>1, <1>3
<1>7. Segment(d, at, a) /\ Segment(d, at + Len(a), b)
  BY <1>4, <1>5, <1>6, Zenon DEF Segment
<1> QED
  BY <1>1, <1>7

(* It reads what WriteVarint wrote. *)
LEMMA VarintParts ==
  ASSUME NEW n \in Nat, n >= 128
  PROVE  \E q \in Nat, r \in 128..255 :
           /\ q < n /\ (q * 128) + r - 128 = n
           /\ Signals!WriteVarint(n) = <<r>> \o Signals!WriteVarint(q)
<1>1. ~(n < 128) /\ n \div 128 \in Nat /\ n \div 128 < n /\ 128 + (n % 128) \in 128..255
      /\ ((n \div 128) * 128) + (128 + (n % 128)) - 128 = n
  OBVIOUS
<1>2. Signals!WriteVarint(n) = <<128 + (n % 128)>> \o Signals!WriteVarint(n \div 128)
  BY <1>1, VarintLaw
<1> QED
  BY <1>1, <1>2, Zenon

(* A byte of a number and the rest of it. *)
LEMMA SegmentByte ==
  ASSUME NEW d \in Seq(0..255), NEW r \in 0..255, NEW s \in Seq(0..255), NEW a \in Nat,
         Segment(d, a, <<r>> \o s)
  PROVE  /\ a < Len(d) /\ d[a + 1] = r /\ Segment(d, a + 1, s)
         /\ Len(<<r>> \o s) = 1 + Len(s) /\ Len(s) \in Nat
<1>1. <<r>> \in Seq(0..255) /\ Len(<<r>>) = 1 /\ <<r>>[1] = r
  OBVIOUS
<1>2. /\ Segment(d, a, <<r>>) /\ Segment(d, a + Len(<<r>>), s)
      /\ Len(<<r>> \o s) = Len(<<r>>) + Len(s) /\ Len(s) \in Nat
  BY <1>1, SegmentParts
<1>3. Len(d) \in Nat
  BY LenProperties
<1> QED
  BY <1>1, <1>2, <1>3 DEF Segment

(* A reader of N bytes that begins at c has the bytes s at its place a. *)
Has(d, c, N, a, s) == Segment(d, c + a, s) /\ a + Len(s) <= N

LEMMA HasParts ==
  ASSUME NEW a \in Seq(0..255), NEW b \in Seq(0..255), NEW d \in Seq(0..255),
         NEW c \in Nat, NEW N \in Nat, NEW at \in Nat, Has(d, c, N, at, a \o b)
  PROVE  /\ Has(d, c, N, at, a) /\ Has(d, c, N, at + Len(a), b)
         /\ Len(a \o b) = Len(a) + Len(b) /\ Len(a) \in Nat /\ Len(b) \in Nat
<1>1. /\ Segment(d, c + at, a) /\ Segment(d, (c + at) + Len(a), b)
      /\ Len(a \o b) = Len(a) + Len(b) /\ Len(a) \in Nat /\ Len(b) \in Nat
  <2>1. c + at \in Nat /\ Segment(d, c + at, a \o b)
    BY DEF Has
  <2> QED
    BY <2>1, SegmentParts
<1>2. (c + at) + Len(a) = c + (at + Len(a))
  BY <1>1
<1>3. at + Len(a \o b) <= N
  BY DEF Has
<1>4. at + Len(a) <= N /\ (at + Len(a)) + Len(b) <= N
  BY <1>1, <1>3
<1> QED
  BY <1>1, <1>2, <1>4, Zenon DEF Has

(* The scan finds the number n at its place a, and goes on behind it. *)
Right(g, n, a) ==
  /\ g[a].end = "whole" /\ g[a].val = n
  /\ g[a].next = a + Len(Signals!WriteVarint(n))

LEMMA VarintScanned ==
  ASSUME NEW d \in Seq(0..255), NEW c \in Nat, NEW N \in Nat, NEW g, Scans(d, c, N, 0, g),
         NEW v \in Nat
  PROVE  \A a \in Nat : Has(d, c, N, a, Signals!WriteVarint(v)) => Right(g, v, a)
<1>a. ASSUME NEW r \in 128..255, NEW x \in Reading(N)
      PROVE  MoreOf(x, r).end = x.end /\ MoreOf(x, r).next = x.next
             /\ MoreOf(x, r).val = (x.val * 128) + r - 128
  <2>1. MoreOf(x, r).end = x.end
    BY MoreBytes
  <2>2. MoreOf(x, r).next = x.next
    BY MoreBytes
  <2>3. MoreOf(x, r).val = (x.val * 128) + r - 128
    BY MoreBytes
  <2> QED
    BY <2>1, <2>2, <2>3, Zenon
<1>b. ASSUME NEW r \in 0..255, NEW s \in Seq(0..255), NEW a \in Nat, Has(d, c, N, a, <<r>> \o s)
      PROVE  /\ a < N /\ ~(c + a >= Len(d)) /\ d[c + a + 1] = r /\ Has(d, c, N, a + 1, s)
             /\ Len(<<r>> \o s) = 1 + Len(s) /\ Len(s) \in Nat
  <2>1. /\ c + a < Len(d) /\ d[(c + a) + 1] = r /\ Segment(d, (c + a) + 1, s)
        /\ Len(<<r>> \o s) = 1 + Len(s) /\ Len(s) \in Nat
    <3>1. c + a \in Nat /\ Segment(d, c + a, <<r>> \o s)
      BY <1>b DEF Has
    <3> QED
      BY <3>1, SegmentByte
  <2>2. Len(d) \in Nat /\ c + a + 1 = (c + a) + 1 /\ (c + a) + 1 = c + (a + 1)
    BY LenProperties
  <2>3. a + Len(<<r>> \o s) <= N
    BY <1>b DEF Has
  <2>4. a < N /\ (a + 1) + Len(s) <= N
    BY <2>1, <2>3
  <2>5. Has(d, c, N, a + 1, s)
    BY <2>1, <2>2, <2>4, Zenon DEF Has
  <2> QED
    BY <2>1, <2>2, <2>4, <2>5
<1> DEFINE W(n) == Signals!WriteVarint(n)
           S == {k \in Nat : \A n \in 0..k : \A a \in Nat : Has(d, c, N, a, W(n)) => Right(g, n, a)}
<1>1. \A i \in 0..N : g[i] = Readwise(d, c, N, g, i) /\ g[i] \in Reading(N)
  BY ReadsTyped, Zenon
<1>2. ASSUME NEW a \in Nat, a < N, ~(c + a >= Len(d)), NEW b, d[c + a + 1] = b
      PROVE  /\ g[a + 1] \in Reading(N)
             /\ b < 128 => g[a] = EndOf(b, a)
             /\ ~(b < 128) => g[a] = MoreOf(g[a + 1], b)
  <2>1. a # N /\ a \in 0..N /\ a + 1 \in 0..N
    BY <1>2
  <2>2. g[a] = Readwise(d, c, N, g, a) /\ g[a + 1] \in Reading(N)
    BY <1>1, <2>1
  <2> QED
    BY <1>2, <2>1, <2>2, Zenon DEF Readwise
<1>3. ASSUME NEW n \in Nat, n < 128, NEW a \in Nat, Has(d, c, N, a, W(n)) PROVE Right(g, n, a)
  <2>1. W(n) = <<n>> /\ Len(<<n>>) = 1 /\ <<n>> = <<n>> \o <<>>
    <3>1. W(n) = <<n>>
      BY <1>3, VarintLaw, Zenon
    <3>2. <<n>> \in Seq(Nat) /\ Len(<<n>>) = 1
      OBVIOUS
    <3>3. <<n>> = <<n>> \o <<>>
      BY <3>2, ConcatEmptySeq
    <3> QED
      BY <3>1, <3>2, <3>3
  <2>2. n \in 0..255 /\ <<>> \in Seq(0..255)
    BY <1>3, EmptySeq
  <2>3. a < N /\ ~(c + a >= Len(d)) /\ d[c + a + 1] = n
    <3>1. Has(d, c, N, a, <<n>> \o <<>>)
      BY <1>3, <2>1, Zenon
    <3> QED
      BY <1>b, <2>2, <3>1, Zenon
  <2>4. g[a] = EndOf(n, a)
    BY <1>2, <1>3, <2>3, Zenon
  <2>5. g[a].end = "whole" /\ g[a].val = n /\ g[a].next = a + 1
    BY <2>4 DEF EndOf
  <2> QED
    BY <2>1, <2>5 DEF Right
<1>4. 0 \in S
  BY <1>3
<1>5. ASSUME NEW k \in Nat, k \in S PROVE k + 1 \in S
  <2> SUFFICES ASSUME NEW n \in 0..(k + 1), n >= 128, NEW a \in Nat, Has(d, c, N, a, W(n))
               PROVE  Right(g, n, a)
    BY <1>3
  <2>1. PICK q \in Nat, r \in 128..255 : /\ q < n /\ (q * 128) + r - 128 = n
                                        /\ W(n) = <<r>> \o W(q)
    <3>1. n \in Nat
      OBVIOUS
    <3> QED
      BY <3>1, VarintParts, Zenon
  <2>2. W(q) \in Seq(0..255)
    BY VarintType, Zenon
  <2>3. r \in 0..255 /\ ~(r < 128)
    OBVIOUS
  <2>4. /\ a < N /\ ~(c + a >= Len(d)) /\ d[c + a + 1] = r /\ Has(d, c, N, a + 1, W(q))
        /\ Len(W(n)) = 1 + Len(W(q)) /\ Len(W(q)) \in Nat
    <3>1. Has(d, c, N, a, <<r>> \o W(q))
      BY <2>1
    <3>2. /\ a < N /\ ~(c + a >= Len(d)) /\ d[c + a + 1] = r /\ Has(d, c, N, a + 1, W(q))
          /\ Len(<<r>> \o W(q)) = 1 + Len(W(q)) /\ Len(W(q)) \in Nat
      <4> HIDE DEF W
      <4> QED
        BY <1>b, <2>2, <2>3, <3>1, Zenon
    <3> QED
      BY <2>1, <3>2, Zenon
  <2>5. Right(g, q, a + 1)
    <3>1. q \in 0..k /\ a + 1 \in Nat
      BY <2>1
    <3> QED
      BY <1>5, <2>4, <3>1
  <2>6. g[a] = MoreOf(g[a + 1], r) /\ g[a + 1] \in Reading(N)
    BY <1>2, <2>3, <2>4, Zenon
  <2>7. /\ g[a].end = g[a + 1].end
        /\ g[a].val = (g[a + 1].val * 128) + r - 128 /\ g[a].next = g[a + 1].next
    <3>1. /\ MoreOf(g[a + 1], r).end = g[a + 1].end
          /\ MoreOf(g[a + 1], r).val = (g[a + 1].val * 128) + r - 128
          /\ MoreOf(g[a + 1], r).next = g[a + 1].next
      BY <1>a, <2>6, Zenon
    <3> QED
      BY <2>6, <3>1, Zenon
  <2>8. /\ g[a + 1].end = "whole" /\ g[a + 1].val = q
        /\ g[a + 1].next = (a + 1) + Len(W(q))
    BY <2>5, Zenon DEF Right
  <2>9. g[a].val = n
    BY <2>1, <2>7, <2>8
  <2>10. g[a].next = a + Len(W(n))
    BY <2>4, <2>7, <2>8
  <2>11. g[a].end = "whole"
    BY <2>7, <2>8, Zenon
  <2> QED
    BY <2>9, <2>10, <2>11, Zenon DEF Right
<1> HIDE DEF S
<1>6. v \in S
  BY <1>4, <1>5, NumbersFromZero
<1>7. v \in 0..v
  OBVIOUS
<1> QED
  BY <1>6, <1>7 DEF S

(* It reads the number that was written, and does not stray. *)
LEMMA VarintIsRead ==
  ASSUME data \in Seq(0..255), NEW c \in Nat, NEW N \in Nat, NEW at \in Nat,
         NEW v \in Nat, v < Word, Has(data, c, N, at, Signals!WriteVarint(v))
  PROVE  Signals!ReadVarint(c, N, at) =
           [val |-> v, next |-> at + Len(Signals!WriteVarint(v)), stray |-> FALSE]
<1>1. PICK g : /\ Scans(data, c, N, 0, g)
               /\ \A a :
                     Signals!ReadVarint(c, N, a) =
                       [val |-> IF g[a].end = "whole" THEN g[a].val % Word ELSE 0,
                        next |-> g[a].next,
                        stray |-> g[a].end = "stray" \/ g[a].next - a > WordBytes]
  BY ReadLaw
<1>2. Right(g, v, at)
  BY <1>1, VarintScanned
<1>3. Len(Signals!WriteVarint(v)) \in Nat /\ Len(Signals!WriteVarint(v)) <= WordBytes /\ v % Word = v
  BY VarintType, LenProperties, WordTypes, Remainder
<1>4. ~(g[at].end = "stray" \/ g[at].next - at > WordBytes)
  BY <1>2, <1>3, WordTypes DEF Right
<1>5. g[at].end = "whole" /\ g[at].val = v /\ g[at].next = at + Len(Signals!WriteVarint(v))
  BY <1>2 DEF Right
<1>6. Signals!ReadVarint(c, N, at) =
        [val |-> IF g[at].end = "whole" THEN g[at].val % Word ELSE 0, next |-> g[at].next,
         stray |-> g[at].end = "stray" \/ g[at].next - at > WordBytes]
  BY <1>1
<1> HIDE <1>1
<1> QED
  BY <1>3, <1>4, <1>5, <1>6

(* What WriteField writes after the key. *)
Body(f) ==
  CASE f.wire = Signals!Varint -> Signals!WriteVarint(f.value)
    [] f.wire = Signals!Bytes  -> Signals!WriteVarint(Len(f.value)) \o f.value
    [] OTHER                   -> f.value

Key(f) == (f.num * 8) + f.wire

LEMMA FieldTypes ==
  ASSUME NEW f \in Fields
  PROVE  /\ f.num \in Nat /\ f.num >= 1 /\ f.wire \in {0, 1, 2, 5} /\ Key(f) < IntWord
         /\ f.wire = 0 => f.value \in Nat /\ f.value < Word
         /\ f.wire # 0 => f.value \in Seq(0..255)
         /\ f.wire = 1 => Len(f.value) = 8
         /\ f.wire = 5 => Len(f.value) = 4
<1>1. /\ f.num \in Nat \ {0} /\ f.wire \in {0, 1, 2, 5}
      /\ f.wire = 0 => f.value \in 0..(Word - 1)
      /\ f.wire # 0 => f.value \in Seq(0..255)
      /\ f.wire = 1 => Len(f.value) = 8
      /\ f.wire = 5 => Len(f.value) = 4
  BY SignalConstants
     DEF Signals!ConstantsAssumption, Signals!Varint, Signals!Fixed64, Signals!Bytes, Signals!Fixed32
<1>2. Key(f) < IntWord
  BY SignalConstants, Zenon DEF Signals!ConstantsAssumption, Key
<1>3. \A n \in 0..(Word - 1) : n \in Nat /\ n < Word
  BY WordTypes
<1> QED
  BY <1>1, <1>2, <1>3

LEMMA KeyParts ==
  ASSUME NEW f \in Fields
  PROVE  /\ Key(f) \in Nat /\ Key(f) < Word
         /\ (Key(f) \div 8) % IntWord = f.num /\ Key(f) % 8 = f.wire
<1>1. \A n \in Nat, w \in 0..7 :
        (n * 8) + w \in Nat /\ ((n * 8) + w) \div 8 = n /\ ((n * 8) + w) % 8 = w /\ n <= (n * 8) + w
  OBVIOUS
<1>2. f.num \in Nat /\ f.wire \in 0..7 /\ Key(f) < IntWord
  BY FieldTypes
<1>3. Key(f) \in Nat /\ Key(f) \div 8 = f.num /\ Key(f) % 8 = f.wire /\ f.num <= Key(f)
  BY <1>1, <1>2, Zenon DEF Key
<1>4. f.num < IntWord /\ Key(f) < Word
  BY <1>2, <1>3, WordTypes
<1>5. f.num % IntWord = f.num
  BY <1>2, <1>4, WordTypes, Remainder
<1> QED
  BY <1>3, <1>4, <1>5

LEMMA BodyParts ==
  ASSUME NEW f \in Fields
  PROVE  /\ Body(f) \in Seq(0..255)
         /\ f.wire = 0 => Body(f) = Signals!WriteVarint(f.value)
         /\ f.wire = 2 => Body(f) = Signals!WriteVarint(Len(f.value)) \o f.value
         /\ f.wire \in {1, 5} => Body(f) = f.value
<1>1. CASE f.wire = 0
  <2>1. Body(f) = Signals!WriteVarint(f.value)
    BY <1>1 DEF Body, Signals!Varint, Signals!Bytes
  <2>2. f.value \in Nat
    BY <1>1, FieldTypes
  <2>3. Signals!WriteVarint(f.value) \in Seq(0..255)
    BY <2>2, VarintType, Zenon
  <2> QED
    BY <1>1, <2>1, <2>3
<1>2. CASE f.wire = 2
  <2>0. f.wire # Signals!Varint /\ f.wire = Signals!Bytes
    BY <1>2 DEF Signals!Varint, Signals!Bytes
  <2>1. Body(f) = Signals!WriteVarint(Len(f.value)) \o f.value
    BY <2>0, Zenon DEF Body
  <2>2. f.value \in Seq(0..255) /\ Len(f.value) \in Nat
    BY <1>2, FieldTypes, LenProperties
  <2>3. Signals!WriteVarint(Len(f.value)) \in Seq(0..255)
    BY <2>2, VarintType, Zenon
  <2>4. Signals!WriteVarint(Len(f.value)) \o f.value \in Seq(0..255)
    BY <2>2, <2>3, ConcatProperties, Zenon
  <2>5. f.wire # 0 /\ f.wire \notin {1, 5}
    BY <1>2
  <2>6. Body(f) \in Seq(0..255)
    BY <2>1, <2>4, Zenon
  <2> QED
    BY <2>1, <2>5, <2>6, Zenon
<1>3. CASE f.wire \in {1, 5}
  <2>1. Body(f) = f.value
    BY <1>3 DEF Body, Signals!Varint, Signals!Bytes
  <2>2. f.value \in Seq(0..255)
    BY <1>3, FieldTypes
  <2>3. f.wire # 0 /\ f.wire # 2
    BY <1>3
  <2> QED
    BY <2>1, <2>2, <2>3, Zenon
<1>4. f.wire = 0 \/ f.wire = 2 \/ f.wire \in {1, 5}
  BY FieldTypes
<1> QED
  BY <1>1, <1>2, <1>3, <1>4, Zenon

LEMMA FieldParts ==
  ASSUME NEW f \in Fields
  PROVE  /\ Signals!WriteField(f) = Signals!WriteVarint(Key(f)) \o Body(f)
         /\ Signals!WriteVarint(Key(f)) \in Seq(0..255)
         /\ Signals!WriteField(f) \in Seq(0..255) /\ Len(Signals!WriteField(f)) >= 1
<1>1. Signals!WriteField(f) = Signals!WriteVarint(Key(f)) \o Body(f)
  BY Zenon DEF Signals!WriteField, Key, Body
<1>2. Signals!WriteVarint(Key(f)) \in Seq(0..255) /\ Len(Signals!WriteVarint(Key(f))) >= 1
  BY KeyParts, VarintType, Zenon
<1>3. Body(f) \in Seq(0..255)
  BY BodyParts
<1> DEFINE a == Signals!WriteVarint(Key(f))
<1> HIDE DEF a
<1>4. a \o Body(f) \in Seq(0..255) /\ Len(a \o Body(f)) = Len(a) + Len(Body(f)) /\ Len(Body(f)) \in Nat
      /\ Len(a) \in Nat
  BY <1>2, <1>3, ConcatProperties, LenProperties DEF a
<1>5. Len(a) >= 1
  BY <1>2 DEF a
<1>6. Len(a \o Body(f)) >= 1
  BY <1>4, <1>5
<1> QED
  BY <1>1, <1>2, <1>4, <1>6 DEF a

LEMMA SegmentIs ==
  ASSUME NEW d \in Seq(0..255), NEW v \in Seq(0..255), NEW c \in Nat, Segment(d, c, v)
  PROVE  SubSeq(d, c + 1, c + Len(v)) = v
<1>1. Len(v) \in Nat /\ Len(d) \in Nat
  BY LenProperties
<1>2. PICK m \in Nat, n \in Nat : m = c + 1 /\ n = c + Len(v)
  <2>1. c + 1 \in Nat /\ c + Len(v) \in Nat
    BY <1>1
  <2> QED
    BY <2>1, Zenon
<1>3. n <= Len(d) /\ \A i \in 1..Len(v) : d[c + i] = v[i]
  BY <1>2 DEF Segment
<1>4. \A i \in m..n : d[i] \in 0..255
  <2>1. \A i \in m..n : i \in 1..Len(d)
    BY <1>1, <1>2, <1>3
  <2> QED
    BY <2>1, ElementOfSeq
<1> DEFINE u == SubSeq(d, m, n)
<1>5. /\ u \in Seq(0..255) /\ Len(u) = IF m <= n THEN n - m + 1 ELSE 0
      /\ \A i \in 1..(n - m + 1) : u[i] = d[m + i - 1]
  <2>1. m \in Int /\ n \in Int
    OBVIOUS
  <2>2. u \in Seq(0..255)
    BY <1>4, <2>1, SubSeqProperties
  <2>3. Len(u) = IF m <= n THEN n - m + 1 ELSE 0
    BY <1>4, <2>1, SubSeqProperties
  <2>4. \A i \in 1..(n - m + 1) : u[i] = d[m + i - 1]
    BY <1>4, <2>1, SubSeqProperties
  <2> QED
    BY <2>2, <2>3, <2>4
<1> HIDE DEF u
<1>6. Len(u) = Len(v)
  BY <1>1, <1>2, <1>5
<1>7. ASSUME NEW i \in 1..Len(u) PROVE u[i] = v[i]
  <2>1. i \in 1..(n - m + 1) /\ m + i - 1 = c + i /\ i \in 1..Len(v)
    BY <1>1, <1>2, <1>6
  <2> QED
    BY <1>3, <1>5, <2>1
<1>8. u = v
  BY <1>5, <1>6, <1>7, SeqEqual
<1> QED
  BY <1>2, <1>8 DEF u

LEMMA BodyString ==
  ASSUME NEW f \in Fields, f.wire = 2
  PROVE  f.value \in Seq(0..255) /\ Body(f) = Signals!WriteVarint(Len(f.value)) \o f.value
<1>1. f.wire # 0
  OBVIOUS
<1> QED
  BY <1>1, FieldTypes, BodyParts, Zenon

(* The key of a field that is there. *)
LEMMA KeyIsRead ==
  ASSUME data \in Seq(0..255), NEW c \in Nat, NEW N \in Nat, NEW at \in Nat, NEW f \in Fields,
         Has(data, c, N, at, Signals!WriteVarint(Key(f)))
  PROVE  Signals!ReadKey(c, N, at) =
           [num |-> f.num, wire |-> f.wire, next |-> at + Len(Signals!WriteVarint(Key(f))),
            stray |-> FALSE]
<1> DEFINE k == Signals!ReadVarint(c, N, at)
<1>1. k = [val |-> Key(f), next |-> at + Len(Signals!WriteVarint(Key(f))), stray |-> FALSE]
  <2>1. Key(f) \in Nat /\ Key(f) < Word
    BY KeyParts
  <2> QED
    BY <2>1, VarintIsRead
<1>2. k.val = Key(f) /\ k.next = at + Len(Signals!WriteVarint(Key(f))) /\ k.stray = FALSE
  BY <1>1
<1>3. Signals!ReadKey(c, N, at) =
        [num |-> (k.val \div 8) % IntWord, wire |-> k.val % 8, next |-> k.next, stray |-> k.stray]
  BY DEF Signals!ReadKey
<1> HIDE DEF k
<1> QED
  BY <1>2, <1>3, KeyParts, Zenon

(* What read_string reads of a string that is there, and its length. *)
LEMMA StringIsRead ==
  ASSUME data \in Seq(0..255), NEW v \in Seq(0..255), NEW c \in Nat, NEW N \in Nat, N < Word,
         NEW at \in Nat, Has(data, c, N, at, Signals!WriteVarint(Len(v)) \o v)
  PROVE  LET w == Signals!WriteVarint(Len(v))
             length == Signals!ReadVarint(c, N, at)
         IN  /\ Signals!ReadString(c, N, at) =
                  [val |-> v, next |-> at + Len(w \o v), stray |-> FALSE]
             /\ length = [val |-> Len(v), next |-> at + Len(w), stray |-> FALSE]
             /\ (length.next + length.val) % Word = at + Len(w \o v)
             /\ at + Len(w \o v) = (at + Len(w)) + Len(v)
             /\ Len(w) \in Nat /\ Len(v) \in Nat /\ Has(data, c, N, at + Len(w), v)
<1> DEFINE w == Signals!WriteVarint(Len(v))
           p == Signals!ReadVarint(c, N, at)
<1>1. Len(v) \in Nat /\ Len(data) \in Nat
  BY LenProperties
<1>2. w \in Seq(0..255)
  BY <1>1, VarintType, Zenon
<1>3. /\ Has(data, c, N, at, w) /\ Has(data, c, N, at + Len(w), v)
      /\ Len(w \o v) = Len(w) + Len(v) /\ Len(w) \in Nat
  <2> HIDE DEF w
  <2>1. Has(data, c, N, at, w \o v)
    BY DEF w
  <2> QED
    BY <1>2, <2>1, HasParts
<1> DEFINE e == at + Len(w \o v)
           b == at + Len(w)
<1>4. e = b + Len(v) /\ e <= N /\ Len(v) < Word /\ e < Word /\ e \in Nat /\ b \in Nat
  <2>1. Segment(data, c + at, w \o v) /\ at + Len(w \o v) <= N
    BY DEF Has
  <2> HIDE DEF w
  <2> QED
    BY <1>1, <1>3, <2>1, WordTypes
<1>5. p = [val |-> Len(v), next |-> b, stray |-> FALSE]
  BY <1>1, <1>3, <1>4, VarintIsRead
<1>6. p.val = Len(v) /\ p.next = b /\ p.stray = FALSE
  BY <1>5
<1> HIDE DEF w, p
<1>7. (p.next + p.val) % Word = e
  <2>1. p.next + p.val = e
    BY <1>4, <1>6
  <2> HIDE DEF e
  <2> QED
    BY <1>4, <2>1, WordTypes, Remainder
<1> HIDE DEF e, b
<1> DEFINE f == c + b
<1>8. f \in Nat /\ f + Len(v) <= Len(data) /\ Segment(data, f, v)
  BY <1>1, <1>3, <1>4 DEF Has, Segment, b
<1> HIDE DEF f
<1>9. SubSeq(data, f + 1, f + Len(v)) = v
  BY <1>8, SegmentIs
<1>10. Signals!ReadString(c, N, at) =
         IF (p.next + p.val) % Word > N
         THEN [val |-> <<>>, next |-> p.next, stray |-> p.stray]
         ELSE IF (c + p.next) + p.val > Len(data)
         THEN [val |-> <<>>, next |-> (p.next + p.val) % Word, stray |-> TRUE]
         ELSE [val |-> SubSeq(data, (c + p.next) + 1, (c + p.next) + p.val),
               next |-> (p.next + p.val) % Word, stray |-> p.stray]
  BY Zenon DEF Signals!ReadString, p
<1>11. ~((p.next + p.val) % Word > N) /\ ~((c + p.next) + p.val > Len(data)) /\ c + p.next = f
  <2>1. c + p.next = f
    BY <1>6 DEF f
  <2>2. ~(e > N) /\ ~(f + Len(v) > Len(data))
    BY <1>1, <1>4, <1>8
  <2> QED
    BY <1>6, <1>7, <2>1, <2>2, Zenon
<1>12. Signals!ReadString(c, N, at) = [val |-> v, next |-> e, stray |-> FALSE]
  BY <1>6, <1>7, <1>9, <1>10, <1>11, Zenon
<1> QED
  BY <1>1, <1>3, <1>4, <1>5, <1>7, <1>12 DEF w, p, e, b

(* Skipping a field that is there leads behind it. *)
LEMMA FieldIsSkipped ==
  ASSUME data \in Seq(0..255), NEW c \in Nat, NEW N \in Nat, N < Word,
         NEW at \in Nat, NEW f \in Fields, Has(data, c, N, at, Body(f))
  PROVE  Signals!SkipField(f.wire, c, N, at) = [next |-> at + Len(Body(f)), stray |-> FALSE]
<1> DEFINE p == Signals!ReadVarint(c, N, at)
<1>1. f.wire \in {0, 1, 2, 5}
  BY FieldTypes
<1>2. /\ Signals!SkipField(0, c, N, at) = [next |-> p.next, stray |-> p.stray]
      /\ Signals!SkipField(2, c, N, at) = [next |-> (p.next + p.val) % Word, stray |-> p.stray]
      /\ Signals!SkipField(1, c, N, at) = [next |-> (at + 8) % Word, stray |-> FALSE]
      /\ Signals!SkipField(5, c, N, at) = [next |-> (at + 4) % Word, stray |-> FALSE]
  BY DEF Signals!SkipField, Signals!Varint, Signals!Bytes, Signals!Fixed64, Signals!Fixed32
<1>3. CASE f.wire = 0
  <2>1. f.value \in Nat /\ f.value < Word /\ Body(f) = Signals!WriteVarint(f.value)
    BY <1>3, FieldTypes, BodyParts
  <2>2. p = [val |-> f.value, next |-> at + Len(Signals!WriteVarint(f.value)), stray |-> FALSE]
    <3>1. Has(data, c, N, at, Signals!WriteVarint(f.value))
      BY <2>1, Zenon
    <3>2. \A v \in Nat : v < Word /\ Has(data, c, N, at, Signals!WriteVarint(v)) =>
            p = [val |-> v, next |-> at + Len(Signals!WriteVarint(v)), stray |-> FALSE]
      BY VarintIsRead
    <3> HIDE DEF p
    <3> QED
      BY <2>1, <3>1, <3>2, Zenon
  <2>3. p.next = at + Len(Body(f)) /\ p.stray = FALSE
    BY <2>1, <2>2
  <2> QED
    BY <1>2, <1>3, <2>3, Zenon
<1>4. CASE f.wire = 2
  <2>1. f.value \in Seq(0..255) /\ Body(f) = Signals!WriteVarint(Len(f.value)) \o f.value
    BY <1>4, BodyString
  <2>2. (p.next + p.val) % Word = at + Len(Body(f)) /\ p.stray = FALSE
    <3>1. Has(data, c, N, at, Signals!WriteVarint(Len(f.value)) \o f.value)
      BY <2>1, Zenon
    <3>2. \A v \in Seq(0..255) : Has(data, c, N, at, Signals!WriteVarint(Len(v)) \o v) =>
            /\ (p.next + p.val) % Word = at + Len(Signals!WriteVarint(Len(v)) \o v)
            /\ p.stray = FALSE
      BY StringIsRead
    <3> HIDE DEF p
    <3> QED
      BY <2>1, <3>1, <3>2, Zenon
  <2> QED
    BY <1>2, <1>4, <2>2, Zenon
<1>5. CASE f.wire \in {1, 5}
  <2>1. Body(f) = f.value /\ at + Len(Body(f)) <= N
    BY <1>5, BodyParts DEF Has
  <2>2. CASE f.wire = 1
    <3>1. Len(f.value) = 8 /\ at + 8 \in Nat
      BY <2>2, FieldTypes
    <3>2. at + 8 < Word
      BY <2>1, <3>1, WordTypes
    <3>3. (at + 8) % Word = at + Len(Body(f))
      BY <2>1, <3>1, <3>2, WordTypes, Remainder
    <3> QED
      BY <1>2, <2>2, <3>3, Zenon
  <2>3. CASE f.wire = 5
    <3>1. Len(f.value) = 4 /\ at + 4 \in Nat
      BY <2>3, FieldTypes
    <3>2. at + 4 < Word
      BY <2>1, <3>1, WordTypes
    <3>3. (at + 4) % Word = at + Len(Body(f))
      BY <2>1, <3>1, <3>2, WordTypes, Remainder
    <3> QED
      BY <1>2, <2>3, <3>3, Zenon
  <2> QED
    BY <1>5, <2>2, <2>3
<1> QED
  BY <1>1, <1>3, <1>4, <1>5

LEMMA IntIsRead ==
  ASSUME data \in Seq(0..255), NEW c \in Nat, NEW N \in Nat, NEW at \in Nat,
         NEW v \in Nat, v < Word, Has(data, c, N, at, Signals!WriteVarint(v))
  PROVE  Signals!ReadInt(c, N, at) =
           [val |-> <<v % IntWord>>, next |-> at + Len(Signals!WriteVarint(v)), stray |-> FALSE]
<1> DEFINE n == at + Len(Signals!WriteVarint(v))
           p == Signals!ReadVarint(c, N, at)
<1>1. p = [val |-> v, next |-> n, stray |-> FALSE]
  BY VarintIsRead
<1>2. Signals!ReadInt(c, N, at) = [val |-> <<p.val % IntWord>>, next |-> p.next, stray |-> p.stray]
  BY DEF Signals!ReadInt
<1> HIDE DEF n, p
<1>3. p.val = v /\ p.next = n /\ p.stray = FALSE
  BY <1>1
<1> QED
  BY <1>2, <1>3, Zenon DEF n

(* What is kept of a field, and what is made of the strings it holds. *)
LEMMA KeptType ==
  ASSUME NEW n, NEW f \in Fields
  PROVE  /\ Signals!Kept(n, f) \in Seq(Seq(Nat))
         /\ Signals!IsKnown(n, f.num, f.wire) =>
              f.wire \in {0, 2} /\ Signals!Kept(n, f) = <<IF f.wire = 2 THEN f.value ELSE <<f.value % IntWord>> >>
         /\ ~Signals!IsKnown(n, f.num, f.wire) => Signals!Kept(n, f) = <<>>
<1>1. CASE ~Signals!IsKnown(n, f.num, f.wire)
  <2>1. Signals!Kept(n, f) = <<>>
    BY <1>1 DEF Signals!Kept
  <2> QED
    BY <1>1, <2>1, EmptySeq
<1>2. CASE Signals!IsKnown(n, f.num, f.wire)
  <2>1. f.wire \in {0, 2}
    BY <1>2 DEF Signals!IsKnown, Signals!Varint, Signals!Bytes
  <2>2. Signals!Kept(n, f) = <<IF f.wire = 2 THEN f.value ELSE <<f.value % IntWord>> >>
    BY <1>2 DEF Signals!Kept, Signals!Bytes
  <2>3. CASE f.wire = 2
    <3>1. f.value \in Seq(0..255) /\ 0..255 \subseteq Nat
      BY <2>3, FieldTypes
    <3>2. f.value \in Seq(Nat)
      BY <3>1, SeqMonotonic, Zenon
    <3>3. Signals!Kept(n, f) = <<f.value>>
      BY <2>2, <2>3
    <3>4. Signals!Kept(n, f) \in Seq(Seq(Nat))
      BY <3>2, <3>3
    <3> QED
      BY <1>2, <2>1, <2>2, <3>4, Zenon
  <2>4. CASE f.wire = 0
    <3>1. f.value \in Nat /\ IntWord \in Nat \ {0}
      BY <2>4, FieldTypes, WordTypes
    <3>2. f.value % IntWord \in Nat
      BY <3>1, Remainder
    <3>3. Signals!Kept(n, f) = <<<<f.value % IntWord>>>>
      BY <2>2, <2>4
    <3>4. Signals!Kept(n, f) \in Seq(Seq(Nat))
      <4>1. \A y \in Nat : <<<<y>>>> \in Seq(Seq(Nat))
        OBVIOUS
      <4> QED
        BY <3>2, <3>3, <4>1, Zenon
    <3> QED
      BY <1>2, <2>1, <2>2, <3>4, Zenon
  <2> QED
    BY <2>1, <2>3, <2>4
<1> QED
  BY <1>1, <1>2

(* A turn of a nested reader at a field that is there keeps what it is to  *)
(* keep of it, and goes on behind it.                                      *)
LEMMA FieldIsRead ==
  ASSUME data \in Seq(0..255), got \in Seq(Seq(Nat)),
         NEW c \in Nat, NEW N \in Nat, N < Word, NEW o \in Nat, NEW f \in Fields,
         nested.base = c, nested.size = N, nested.offset = o,
         Has(data, c, N, o, Signals!WriteField(f)), Signals!ReadField
  PROVE  /\ nested' = [nested EXCEPT !.offset = o + Len(Signals!WriteField(f))]
         /\ got' = got \o Signals!Kept(nested.num, f)
         /\ stray' = FALSE
<1> DEFINE a == Signals!WriteVarint(Key(f))
           b == o + Len(a)
           e == b + Len(Body(f))
           known == Signals!IsKnown(nested.num, f.num, f.wire)
<1>1. /\ Signals!WriteField(f) = a \o Body(f) /\ a \in Seq(0..255) /\ Body(f) \in Seq(0..255)
  BY FieldParts, BodyParts
<1>2. /\ Has(data, c, N, o, a) /\ Has(data, c, N, b, Body(f))
      /\ Len(a \o Body(f)) = Len(a) + Len(Body(f)) /\ Len(a) \in Nat /\ Len(Body(f)) \in Nat
  <2> HIDE DEF a
  <2>1. Has(data, c, N, o, a \o Body(f))
    BY <1>1
  <2> QED
    BY <1>1, <2>1, HasParts
<1>3. Signals!ReadKey(c, N, o) = [num |-> f.num, wire |-> f.wire, next |-> b, stray |-> FALSE]
  BY <1>2, KeyIsRead
<1>4. b \in Nat /\ e = o + Len(Signals!WriteField(f))
  BY <1>1, <1>2
<1> HIDE DEF a, b, e
<1> DEFINE k == Signals!ReadKey(c, N, o)
           skip == Signals!SkipField(k.wire, c, N, k.next)
           read == IF k.wire = Signals!Bytes THEN Signals!ReadString(c, N, k.next)
                   ELSE Signals!ReadInt(c, N, k.next)
<1>5. \/ /\ Signals!IsKnown(nested.num, k.num, k.wire)
         /\ nested' = [nested EXCEPT !.offset = read.next]
         /\ got' = Append(got, read.val)
         /\ stray' = (k.stray \/ read.stray)
      \/ /\ ~Signals!IsKnown(nested.num, k.num, k.wire)
         /\ nested' = [nested EXCEPT !.offset = skip.next]
         /\ got' = got
         /\ stray' = (k.stray \/ skip.stray)
  BY Zenon DEF Signals!ReadField
<1>6. k.num = f.num /\ k.wire = f.wire /\ k.next = b /\ k.stray = FALSE
  BY <1>3
<1>7. skip = Signals!SkipField(f.wire, c, N, b)
      /\ read = IF f.wire = 2 THEN Signals!ReadString(c, N, b) ELSE Signals!ReadInt(c, N, b)
  BY <1>6, Zenon DEF Signals!Bytes
<1> HIDE DEF k, skip, read
<1>8. CASE ~known
  <2>1. skip = [next |-> e, stray |-> FALSE]
    BY <1>2, <1>4, <1>7, FieldIsSkipped DEF e
  <2>2. skip.next = e /\ skip.stray = FALSE
    BY <2>1
  <2>3. Signals!Kept(nested.num, f) = <<>> /\ got \o <<>> = got
    BY <1>8, KeptType, ConcatEmptySeq
  <2> QED
    BY <1>4, <1>5, <1>6, <1>8, <2>2, <2>3, Zenon
<1>9. CASE known
  <2>1. f.wire \in {0, 2} /\ Signals!Kept(nested.num, f) \in Seq(Seq(Nat))
        /\ Signals!Kept(nested.num, f) = <<IF f.wire = 2 THEN f.value ELSE <<f.value % IntWord>> >>
    BY <1>9, KeptType
  <2>2. /\ nested' = [nested EXCEPT !.offset = read.next]
        /\ got' = Append(got, read.val)
        /\ stray' = (k.stray \/ read.stray)
    BY <1>5, <1>6, <1>9, Zenon
  <2> DEFINE val == IF f.wire = 2 THEN f.value ELSE <<f.value % IntWord>>
  <2>3. read = [val |-> val, next |-> e, stray |-> FALSE]
    <3>1. CASE f.wire = 2
      <4>1. f.value \in Seq(0..255) /\ Body(f) = Signals!WriteVarint(Len(f.value)) \o f.value
        BY <3>1, BodyString
      <4>2. \A v \in Seq(0..255) : Has(data, c, N, b, Signals!WriteVarint(Len(v)) \o v) =>
              Signals!ReadString(c, N, b) =
                [val |-> v, next |-> b + Len(Signals!WriteVarint(Len(v)) \o v), stray |-> FALSE]
        BY <1>4, StringIsRead
      <4>3. Signals!ReadString(c, N, b) = [val |-> f.value, next |-> e, stray |-> FALSE]
        BY <1>2, <4>1, <4>2, Zenon DEF e
      <4> QED
        BY <1>7, <3>1, <4>3, Zenon
    <3>2. CASE f.wire = 0
      <4>1. f.value \in Nat /\ f.value < Word /\ Body(f) = Signals!WriteVarint(f.value)
        BY <3>2, FieldTypes, BodyParts
      <4>2. \A v \in Nat : v < Word /\ Has(data, c, N, b, Signals!WriteVarint(v)) =>
              Signals!ReadInt(c, N, b) =
                [val |-> <<v % IntWord>>, next |-> b + Len(Signals!WriteVarint(v)), stray |-> FALSE]
        BY <1>4, IntIsRead
      <4>3. Signals!ReadInt(c, N, b) = [val |-> <<f.value % IntWord>>, next |-> e, stray |-> FALSE]
        BY <1>2, <4>1, <4>2, Zenon DEF e
      <4>4. f.wire # 2
        BY <3>2
      <4> QED
        BY <1>7, <4>3, <4>4, Zenon
    <3> QED
      BY <2>1, <3>1, <3>2
  <2> HIDE DEF val
  <2>4. read.val = val /\ read.next = e /\ read.stray = FALSE
    BY <2>3
  <2>5. Append(got, val) = got \o <<val>>
    <3>1. <<val>> \in Seq(Seq(Nat))
      BY <2>1, Zenon DEF val
    <3>2. val \in Seq(Nat)
      BY <3>1
    <3> QED
      BY <3>2
  <2> QED
    BY <1>4, <1>6, <2>1, <2>2, <2>4, <2>5, Zenon DEF val
<1> QED
  BY <1>8, <1>9

(* A turn of the outer reader at a request that is there goes on behind it,*)
(* and leaves what it holds to a nested reader, if it is known.            *)
LEMMA RequestIsRead ==
  ASSUME data \in Seq(0..255), Len(data) < Word, offset \in Nat, NEW f \in Fields,
         Has(data, 0, Len(data), offset, Signals!WriteField(f)), Signals!ReadRequest
  PROVE  /\ offset' = offset + Len(Signals!WriteField(f)) /\ got' = got /\ stray' = FALSE
         /\ ~Signals!IsNested(f.num, f.wire) => nested' = nested
         /\ Signals!IsNested(f.num, f.wire) =>
              \E c \in Nat :
                /\ nested' = [num |-> f.num, base |-> c, size |-> Len(f.value), offset |-> 0]
                /\ Segment(data, c, f.value) /\ Len(f.value) \in Nat /\ Len(f.value) < Word
<1> DEFINE N == Len(data)
           a == Signals!WriteVarint(Key(f))
           b == offset + Len(a)
           e == b + Len(Body(f))
<1>0. N \in Nat /\ 0 \in Nat
  BY LenProperties
<1>1. /\ Signals!WriteField(f) = a \o Body(f) /\ a \in Seq(0..255) /\ Body(f) \in Seq(0..255)
  BY FieldParts, BodyParts
<1>2. /\ Has(data, 0, N, offset, a) /\ Has(data, 0, N, b, Body(f))
      /\ Len(a \o Body(f)) = Len(a) + Len(Body(f)) /\ Len(a) \in Nat /\ Len(Body(f)) \in Nat
  <2> HIDE DEF a, N
  <2>1. Has(data, 0, N, offset, a \o Body(f))
    BY <1>1 DEF N
  <2> QED
    BY <1>0, <1>1, <2>1, HasParts
<1>3. Signals!ReadKey(0, N, offset) = [num |-> f.num, wire |-> f.wire, next |-> b, stray |-> FALSE]
  BY <1>0, <1>2, KeyIsRead
<1>4. b \in Nat /\ e = offset + Len(Signals!WriteField(f))
  BY <1>1, <1>2
<1> HIDE DEF a, b, e
<1> DEFINE k == Signals!ReadKey(0, N, offset)
           length == Signals!ReadVarint(0, N, k.next)
           skip == Signals!SkipField(k.wire, 0, N, k.next)
<1>5. /\ \/ /\ Signals!IsNested(k.num, k.wire)
            /\ nested' = [num |-> k.num, base |-> length.next, size |-> length.val, offset |-> 0]
            /\ offset' = (length.next + length.val) % Word
            /\ stray' = (k.stray \/ length.stray)
         \/ /\ ~Signals!IsNested(k.num, k.wire)
            /\ offset' = skip.next
            /\ stray' = (k.stray \/ skip.stray)
            /\ nested' = nested
      /\ got' = got
  BY Zenon DEF Signals!ReadRequest
<1>6. k.num = f.num /\ k.wire = f.wire /\ k.next = b /\ k.stray = FALSE
  BY <1>3
<1>7. skip = Signals!SkipField(f.wire, 0, N, b) /\ length = Signals!ReadVarint(0, N, b)
  BY <1>6, Zenon
<1> HIDE DEF k, skip, length
<1>8. CASE ~Signals!IsNested(f.num, f.wire)
  <2>1. skip = [next |-> e, stray |-> FALSE]
    BY <1>0, <1>2, <1>4, <1>7, FieldIsSkipped DEF e
  <2>2. skip.next = e /\ skip.stray = FALSE
    BY <2>1
  <2> QED
    BY <1>4, <1>5, <1>6, <1>8, <2>2, Zenon
<1>9. CASE Signals!IsNested(f.num, f.wire)
  <2>1. f.wire = 2
    BY <1>9 DEF Signals!IsNested, Signals!Bytes
  <2>2. f.value \in Seq(0..255) /\ Body(f) = Signals!WriteVarint(Len(f.value)) \o f.value
    BY <2>1, BodyString
  <2> DEFINE w == Signals!WriteVarint(Len(f.value))
  <2>3. /\ length = [val |-> Len(f.value), next |-> b + Len(w), stray |-> FALSE]
        /\ (length.next + length.val) % Word = e
        /\ Len(w) \in Nat /\ Len(f.value) \in Nat /\ Has(data, 0, N, b + Len(w), f.value)
    <3>1. Has(data, 0, N, b, Signals!WriteVarint(Len(f.value)) \o f.value)
      BY <1>2, <2>2, Zenon
    <3>2. \A v \in Seq(0..255) : Has(data, 0, N, b, Signals!WriteVarint(Len(v)) \o v) =>
            LET u == Signals!WriteVarint(Len(v))
                p == Signals!ReadVarint(0, N, b)
            IN  /\ p = [val |-> Len(v), next |-> b + Len(u), stray |-> FALSE]
                /\ (p.next + p.val) % Word = b + Len(u \o v)
                /\ Len(u) \in Nat /\ Len(v) \in Nat /\ Has(data, 0, N, b + Len(u), v)
      BY <1>0, <1>4, StringIsRead
    <3> QED
      BY <1>7, <2>2, <3>1, <3>2, Zenon DEF e
  <2> DEFINE c == b + Len(w)
  <2>4. c \in Nat /\ length.val = Len(f.value) /\ length.next = c /\ length.stray = FALSE
    BY <1>4, <2>3
  <2> HIDE DEF w, c
  <2>5. Segment(data, c, f.value) /\ Len(f.value) < Word
    <3>1. Segment(data, 0 + c, f.value) /\ c + Len(f.value) <= N /\ 0 + c = c
      BY <2>3, <2>4 DEF Has, c
    <3>2. Segment(data, c, f.value)
      BY <3>1, Zenon
    <3>3. Len(f.value) <= N /\ N < Word
      BY <1>0, <2>3, <2>4, <3>1
    <3> QED
      BY <1>0, <2>3, <3>2, <3>3, WordTypes
  <2>6. /\ nested' = [num |-> f.num, base |-> c, size |-> Len(f.value), offset |-> 0]
        /\ offset' = e /\ got' = got /\ stray' = FALSE
    BY <1>5, <1>6, <1>9, <2>3, <2>4, Zenon
  <2> QED
    BY <1>4, <1>9, <2>3, <2>4, <2>5, <2>6, Zenon
<1> QED
  BY <1>8, <1>9

(* The first n sequences of s, one after the other, as FlattenSeq builds them. *)
Joins(f, s, n) ==
  f = [i \in 1..n |-> IF i = 1 THEN s[i] ELSE f[i - 1] \o s[i]]

(* Each value by the one before it. *)
LEMMA JoinsAt ==
  ASSUME NEW f, NEW s, NEW n \in Nat, Joins(f, s, n), NEW k \in 1..n
  PROVE  /\ k = 1 => f[k] = s[k]
         /\ k # 1 => f[k] = f[k - 1] \o s[k]
BY Zenon DEF Joins

(* There are such functions, by induction on n. *)
LEMMA JoinsExist ==
  ASSUME NEW s, NEW n \in Nat
  PROVE  \E f : Joins(f, s, n)
<1> DEFINE S == {k \in Nat : \E f : Joins(f, s, k)}
<1>1. 0 \in S
  <2>1. Joins([i \in 1..0 |-> s[i]], s, 0)
    BY DEF Joins
  <2> QED
    BY <2>1
<1>2. ASSUME NEW k \in Nat, k \in S PROVE k + 1 \in S
  <2>1. PICK f : Joins(f, s, k)
    BY <1>2
  <2> DEFINE last == IF k = 0 THEN s[1] ELSE f[k] \o s[k + 1]
             g == [i \in 1..(k + 1) |-> IF i = k + 1 THEN last ELSE f[i]]
  <2>2. ASSUME NEW i \in 1..(k + 1)
        PROVE  g[i] = IF i = 1 THEN s[i] ELSE g[i - 1] \o s[i]
    <3>1. CASE i = k + 1
      BY <3>1
    <3>2. CASE i # k + 1
      <4>1. i \in 1..k
        BY <3>2
      <4>2. f[i] = IF i = 1 THEN s[i] ELSE f[i - 1] \o s[i]
        BY <2>1, <4>1 DEF Joins
      <4>3. g[i] = f[i] /\ (i # 1 => g[i - 1] = f[i - 1])
        BY <4>1
      <4> QED
        BY <4>2, <4>3
    <3> QED
      BY <3>1, <3>2
  <2> HIDE DEF last
  <2>3. Joins(g, s, k + 1)
    BY <2>2 DEF Joins
  <2> QED
    BY <2>3
<1> HIDE DEF S
<1>3. n \in S
  BY <1>1, <1>2, NumbersFromZero
<1> QED
  BY <1>3 DEF S

(* They depend on those sequences only. *)
LEMMA JoinsAgree ==
  ASSUME NEW f, NEW g, NEW s, NEW t, NEW m \in Nat, NEW n \in Nat, m <= n,
         Joins(f, s, m), Joins(g, t, n), \A i \in 1..m : s[i] = t[i],
         NEW k \in 1..m
  PROVE  f[k] = g[k]
<1> DEFINE S == {i \in Nat : i \in 1..m => f[i] = g[i]}
<1>1. 0 \in S
  OBVIOUS
<1>2. ASSUME NEW i \in Nat, i \in S PROVE i + 1 \in S
  <2> SUFFICES ASSUME i + 1 \in 1..m PROVE f[i + 1] = g[i + 1]
    OBVIOUS
  <2> DEFINE j == i + 1
  <2>0. j \in 1..m /\ j \in 1..n /\ j - 1 = i /\ (j = 1 <=> i = 0) /\ s[j] = t[j]
    OBVIOUS
  <2> HIDE DEF j
  <2>1. (j = 1 => f[j] = s[j]) /\ (j # 1 => f[j] = f[j - 1] \o s[j])
    BY <2>0, Zenon DEF Joins
  <2>2. (j = 1 => g[j] = t[j]) /\ (j # 1 => g[j] = g[j - 1] \o t[j])
    BY <2>0, Zenon DEF Joins
  <2>3. i # 0 => f[i] = g[i]
    BY <1>2
  <2>4. f[j] = g[j]
    BY <2>0, <2>1, <2>2, <2>3, Zenon
  <2> QED
    BY <2>4 DEF j
<1> HIDE DEF S
<1>3. k \in S
  BY <1>1, <1>2, NumbersFromZero
<1> QED
  BY <1>3 DEF S

(* What FlattenSeq returns is the last of them. *)
LEMMA FlattenJoins ==
  ASSUME NEW s, Len(s) \in Nat \ {0}
  PROVE  \E f : Joins(f, s, Len(s)) /\ Signals!FlattenSeq(s) = f[Len(s)]
<1> DEFINE f == CHOOSE f : f = [i \in 1..Len(s) |-> IF i = 1 THEN s[i] ELSE f[i - 1] \o s[i]]
<1>1. Signals!FlattenSeq(s) = f[Len(s)]
  BY DEF Signals!FlattenSeq
<1>2. \E g : g = [i \in 1..Len(s) |-> IF i = 1 THEN s[i] ELSE g[i - 1] \o s[i]]
  BY JoinsExist DEF Joins
<1>3. Joins(f, s, Len(s))
  BY <1>2, Zenon DEF Joins
<1> QED
  BY <1>1, <1>3

(* FlattenSeq of no sequence. *)
LEMMA FlattenEmpty == Signals!FlattenSeq(<<>>) = <<>>
BY DEF Signals!FlattenSeq

(* FlattenSeq of one sequence more ... *)
LEMMA FlattenAppend ==
  ASSUME NEW S, NEW s \in Seq(Seq(S)), NEW x \in Seq(S)
  PROVE  Signals!FlattenSeq(Append(s, x)) = Signals!FlattenSeq(s) \o x
<1> DEFINE t == Append(s, x)
           n == Len(s)
<1>1. /\ n \in Nat /\ Len(t) = n + 1 /\ t[n + 1] = x
      /\ \A i \in 1..n : t[i] = s[i]
  BY AppendProperties
<1>2. PICK g : Joins(g, t, n + 1) /\ Signals!FlattenSeq(t) = g[n + 1]
  <2>1. Len(t) \in Nat \ {0}
    BY <1>1
  <2>2. \E g : Joins(g, t, Len(t)) /\ Signals!FlattenSeq(t) = g[Len(t)]
    BY <2>1, FlattenJoins
  <2>3. Len(t) = n + 1
    BY <1>1
  <2> HIDE DEF t, n
  <2> QED
    BY <2>2, <2>3, Zenon
<1>3. CASE n = 0
  <2>1. s = <<>>
    BY <1>3
  <2>2. g[1] = t[1]
    <3>1. 1 \in 1..(n + 1) /\ n + 1 \in Nat
      BY <1>1
    <3> HIDE DEF n, t
    <3>2. \A k \in 1..(n + 1) : k = 1 => g[k] = t[k]
      BY <1>2, <3>1, JoinsAt
    <3> QED
      BY <3>1, <3>2
  <2>3. Signals!FlattenSeq(t) = x
    BY <1>1, <1>2, <1>3, <2>2
  <2>4. <<>> \o x = x
    BY ConcatEmptySeq
  <2> QED
    BY <2>1, <2>3, <2>4, FlattenEmpty
<1>4. CASE n # 0
  <2>1. PICK f : Joins(f, s, n) /\ Signals!FlattenSeq(s) = f[n]
    BY <1>1, <1>4, FlattenJoins
  <2>2. f[n] = g[n]
    <3> HIDE DEF n, t
    <3>1. n \in 1..n /\ n <= n + 1 /\ n + 1 \in Nat /\ \A i \in 1..n : s[i] = t[i]
      BY <1>1, <1>4
    <3> QED
      BY <1>1, <1>2, <2>1, <3>1, JoinsAgree
  <2>3. g[n + 1] = g[n] \o x
    <3> DEFINE k == n + 1
    <3>1. k \in 1..(n + 1) /\ k # 1 /\ k - 1 = n /\ t[k] = x /\ n + 1 \in Nat
      BY <1>1, <1>4
    <3> HIDE DEF k, t
    <3>2. g[k] = g[k - 1] \o t[k]
      BY <1>2, <3>1, JoinsAt
    <3>3. g[k] = g[n] \o x
      BY <3>1, <3>2, Zenon
    <3> QED
      BY <3>3 DEF k
  <2> QED
    BY <1>2, <2>1, <2>2, <2>3
<1> QED
  BY <1>3, <1>4

(* ... which is a sequence of their elements, ... *)
LEMMA FlattenType ==
  ASSUME NEW S, NEW s \in Seq(Seq(S))
  PROVE  Signals!FlattenSeq(s) \in Seq(S)
<1> DEFINE N == {n \in Nat : \A t \in Seq(Seq(S)) : Len(t) = n => Signals!FlattenSeq(t) \in Seq(S)}
<1>1. 0 \in N
  <2>1. \A t \in Seq(Seq(S)) : Len(t) = 0 => t = <<>>
    BY EmptySeq
  <2> QED
    BY <2>1, FlattenEmpty
<1>2. ASSUME NEW n \in Nat, n \in N PROVE n + 1 \in N
  <2> SUFFICES ASSUME NEW t \in Seq(Seq(S)), Len(t) = n + 1
               PROVE  Signals!FlattenSeq(t) \in Seq(S)
    OBVIOUS
  <2>1. t # <<>>
    OBVIOUS
  <2>2. PICK u \in Seq(Seq(S)), x \in Seq(S) : t = Append(u, x)
    BY <2>1, SequenceEmptyOrAppend
  <2>3. Len(u) = n
    BY <2>2, AppendProperties
  <2> QED
    BY <1>2, <2>2, <2>3, FlattenAppend, ConcatProperties
<1> HIDE DEF N
<1>3. Len(s) \in N
  BY <1>1, <1>2, NumbersFromZero
<1> QED
  BY <1>3 DEF N

(* The first fields of a message. *)
Upto(m, k) == SubSeq(m, 1, k)

(* What h gives for the fields of m, one after the other: their bytes, or  *)
(* what is to be kept of them.                                             *)
Gathered(h, m) == Signals!FlattenSeq([i \in DOMAIN m |-> h[m[i]]])

(* h gives a sequence over S for each field in T. *)
Gives(h, T, S) == h \in [T -> Seq(S)]

LEMMA UptoNext ==
  ASSUME NEW T, NEW m \in Seq(T)
  PROVE  /\ Upto(m, 0) = <<>> /\ Upto(m, Len(m)) = m
         /\ \A k \in 0..Len(m) : Upto(m, k) \in Seq(T)
         /\ \A k \in Nat : k < Len(m) => m[k + 1] \in T /\ Upto(m, k + 1) = Append(Upto(m, k), m[k + 1])
<1>1. Len(m) \in Nat
  BY LenProperties
<1>2. Upto(m, 0) = <<>>
  BY SubSeqEmpty DEF Upto
<1>3. Upto(m, Len(m)) = m
  BY SubSeqFull DEF Upto
<1>4. ASSUME NEW k \in 0..Len(m) PROVE Upto(m, k) \in Seq(T)
  <2>1. \A i \in 1..k : m[i] \in T
    <3>1. \A i \in 1..k : i \in 1..Len(m)
      BY <1>1
    <3> QED
      BY <3>1, ElementOfSeq
  <2>2. 1 \in Int /\ k \in Int
    OBVIOUS
  <2> QED
    BY <2>1, <2>2, SubSeqProperties DEF Upto
<1>5. ASSUME NEW k \in Nat, k < Len(m)
      PROVE  m[k + 1] \in T /\ Upto(m, k + 1) = Append(Upto(m, k), m[k + 1])
  <2>1. k + 1 \in 1..Len(m) /\ 1 \in 1..Len(m) /\ k + 1 \in 1..(k + 1)
    BY <1>1, <1>5
  <2>2. m[k + 1] \in T
    BY <2>1, ElementOfSeq
  <2>3. Upto(m, k) \in Seq(T) /\ Upto(m, k + 1) \in Seq(T)
    <3>1. k \in 0..Len(m) /\ k + 1 \in 0..Len(m)
      BY <1>1, <1>5
    <3> QED
      BY <1>4, <3>1
  <2>4. /\ Len(Upto(m, k)) = k /\ Len(Upto(m, k + 1)) = k + 1
        /\ \A i \in 1..k : Upto(m, k)[i] = m[i]
        /\ \A i \in 1..(k + 1) : Upto(m, k + 1)[i] = m[i]
    BY <1>1, <1>5 DEF Upto
  <2> DEFINE u == Append(Upto(m, k), m[k + 1])
  <2>5. /\ u \in Seq(T) /\ Len(u) = k + 1 /\ u[k + 1] = m[k + 1]
        /\ \A i \in 1..k : u[i] = m[i]
    BY <2>2, <2>3, <2>4, AppendProperties
  <2> HIDE DEF u
  <2>6. ASSUME NEW i \in 1..(k + 1) PROVE Upto(m, k + 1)[i] = u[i]
    <3>1. i = k + 1 \/ i \in 1..k
      OBVIOUS
    <3> QED
      BY <2>4, <2>5, <3>1
  <2>7. Upto(m, k + 1) = u
    BY <2>3, <2>4, <2>5, <2>6, SeqEqual
  <2> QED
    BY <2>2, <2>7 DEF u
<1> QED
  BY <1>2, <1>3, <1>4, <1>5

LEMMA GatheredAppend ==
  ASSUME NEW T, NEW S, NEW h, Gives(h, T, S), NEW m \in Seq(T), NEW x \in T
  PROVE  /\ Gathered(h, m) \in Seq(S)
         /\ Gathered(h, Append(m, x)) = Gathered(h, m) \o h[x]
<1> DEFINE s == [i \in DOMAIN m |-> h[m[i]]]
           u == Append(m, x)
<1>1. /\ Len(m) \in Nat /\ DOMAIN m = 1..Len(m) /\ \A i \in 1..Len(m) : m[i] \in T
  BY LenProperties, ElementOfSeq
<1>2. s \in Seq(Seq(S)) /\ Len(s) = Len(m) /\ \A i \in 1..Len(m) : s[i] = h[m[i]]
  BY <1>1 DEF Gives
<1>3. /\ u \in Seq(T) /\ Len(u) = Len(m) + 1 /\ u[Len(m) + 1] = x
      /\ \A i \in 1..Len(m) : u[i] = m[i]
      /\ DOMAIN u = 1..(Len(m) + 1)
  BY AppendProperties, LenProperties
<1> DEFINE v == [i \in DOMAIN u |-> h[u[i]]]
           w == Append(s, h[x])
<1>4. h[x] \in Seq(S)
  BY DEF Gives
<1>5. /\ w \in Seq(Seq(S)) /\ Len(w) = Len(m) + 1 /\ w[Len(m) + 1] = h[x]
      /\ \A i \in 1..Len(m) : w[i] = h[m[i]]
  <2> HIDE DEF s
  <2> QED
    BY <1>2, <1>4, AppendProperties
<1> HIDE DEF u, w, s
<1>6. \A i \in 1..(Len(m) + 1) : u[i] \in T
  BY <1>3, ElementOfSeq
<1>7. v \in Seq(Seq(S)) /\ Len(v) = Len(m) + 1 /\ \A i \in 1..(Len(m) + 1) : v[i] = h[u[i]]
  BY <1>1, <1>3, <1>6 DEF Gives
<1> HIDE DEF v
<1>8. ASSUME NEW i \in 1..Len(v) PROVE v[i] = w[i]
  <2>1. v[i] = h[u[i]]
    BY <1>7
  <2>2. CASE i = Len(m) + 1
    BY <1>3, <1>5, <2>1, <2>2, Zenon
  <2>3. CASE i \in 1..Len(m)
    BY <1>3, <1>5, <2>1, <2>3, Zenon
  <2>4. i = Len(m) + 1 \/ i \in 1..Len(m)
    BY <1>1, <1>7
  <2> QED
    BY <2>2, <2>3, <2>4, Zenon
<1>9. v = w
  BY <1>5, <1>7, <1>8, SeqEqual
<1>10. Gathered(h, m) = Signals!FlattenSeq(s) /\ Gathered(h, u) = Signals!FlattenSeq(v)
  BY DEF Gathered, s, v
<1>11. Signals!FlattenSeq(s) \in Seq(S) /\ Signals!FlattenSeq(w) = Signals!FlattenSeq(s) \o h[x]
  BY <1>2, <1>4, FlattenAppend, FlattenType DEF w
<1> QED
  BY <1>9, <1>10, <1>11 DEF u

LEMMA GatheredType ==
  ASSUME NEW T, NEW S, NEW h, Gives(h, T, S), NEW m \in Seq(T)
  PROVE  Gathered(h, m) \in Seq(S)
<1>1. CASE T = {}
  <2>1. m = <<>>
    BY <1>1
  <2>2. [i \in DOMAIN <<>> |-> h[<<>>[i]]] = <<>>
    OBVIOUS
  <2>3. Gathered(h, <<>>) = <<>>
    BY <2>2, FlattenEmpty DEF Gathered
  <2> QED
    BY <2>1, <2>3, EmptySeq
<1>2. CASE T # {}
  <2>1. PICK x \in T : TRUE
    BY <1>2
  <2> QED
    BY <2>1, GatheredAppend
<1> QED
  BY <1>1, <1>2

LEMMA ConcatTwice ==
  ASSUME NEW S, NEW a \in Seq(S), NEW r \in Seq(S), NEW x \in Seq(S)
  PROVE  (a \o r) \o x = a \o (r \o x) /\ r \o x \in Seq(S)
<1>1. (a \o r) \o x = a \o (r \o x)
  BY ConcatAssociative, SMTT(30)
<1>2. r \o x \in Seq(S)
  BY ConcatProperties
<1> QED
  BY <1>1, <1>2

(* b is a followed by something. *)
Extends(a, b, S) == \E r \in Seq(S) : b = a \o r

(* The fields behind the k-th only add to it. *)
LEMMA GatheredGrows ==
  ASSUME NEW T, NEW S, NEW h, Gives(h, T, S), NEW m \in Seq(T), NEW k \in 0..Len(m)
  PROVE  Extends(Gathered(h, Upto(m, k)), Gathered(h, m), S)
<1>a. ASSUME NEW u \in Seq(T), NEW x \in T PROVE Gathered(h, Append(u, x)) = Gathered(h, u) \o h[x]
  BY GatheredAppend
<1>b. \A a, b, c \in Seq(S) : (a \o b) \o c = a \o (b \o c) /\ b \o c \in Seq(S)
  <2> SUFFICES ASSUME NEW a \in Seq(S), NEW b \in Seq(S), NEW c \in Seq(S)
               PROVE  (a \o b) \o c = a \o (b \o c) /\ b \o c \in Seq(S)
    OBVIOUS
  <2> QED
    BY ConcatTwice
<1> DEFINE g(j) == Gathered(h, Upto(m, j))
           Grows(i) == i <= Len(m) => \E r \in Seq(S) : g(i) = g(k) \o r
           J == {j \in Nat : Grows(k + j)}
<1>0. Len(m) \in Nat
  BY LenProperties
<1>1. \A j \in 0..Len(m) : g(j) \in Seq(S)
  BY UptoNext, GatheredType
<1>2. Grows(k)
  <2>1. g(k) \in Seq(S)
    BY <1>1
  <2> HIDE DEF g
  <2>2. g(k) = g(k) \o <<>> /\ <<>> \in Seq(S)
    BY <2>1, ConcatEmptySeq, EmptySeq
  <2> QED
    BY <2>2, Zenon
<1>3. ASSUME NEW i \in Nat, Grows(i) PROVE Grows(i + 1)
  <2> SUFFICES ASSUME i + 1 <= Len(m) PROVE \E r \in Seq(S) : g(i + 1) = g(k) \o r
    OBVIOUS
  <2>1. i < Len(m) /\ i <= Len(m) /\ i \in 0..Len(m)
    BY <1>0
  <2>2. PICK r \in Seq(S) : g(i) = g(k) \o r
    BY <1>3, <2>1
  <2>3. m[i + 1] \in T /\ Upto(m, i + 1) = Append(Upto(m, i), m[i + 1]) /\ Upto(m, i) \in Seq(T)
    BY <2>1, UptoNext
  <2>4. Gathered(h, Append(Upto(m, i), m[i + 1])) = g(i) \o h[m[i + 1]]
    BY <1>a, <2>3, Zenon
  <2>5. g(i + 1) = g(i) \o h[m[i + 1]]
    BY <2>3, <2>4, Zenon
  <2> DEFINE x == h[m[i + 1]]
  <2>6. x \in Seq(S)
    BY <2>3 DEF Gives
  <2>7. g(k) \in Seq(S)
    BY <1>1
  <2> HIDE DEF x, g
  <2>8. (g(k) \o r) \o x = g(k) \o (r \o x) /\ r \o x \in Seq(S)
    BY <1>b, <2>6, <2>7, Zenon
  <2>9. g(i + 1) = g(k) \o (r \o x)
    BY <2>2, <2>5, <2>8, Zenon DEF x
  <2> QED
    BY <2>8, <2>9, Zenon
<1> HIDE DEF g, Grows
<1>4. 0 \in J
  <2>1. k + 0 = k
    OBVIOUS
  <2> QED
    BY <1>2, <2>1
<1>5. ASSUME NEW j \in Nat, j \in J PROVE j + 1 \in J
  <2>1. k + j \in Nat /\ (k + j) + 1 = k + (j + 1) /\ j + 1 \in Nat
    OBVIOUS
  <2>2. Grows(k + j)
    BY <1>5
  <2>3. Grows((k + j) + 1)
    BY <1>3, <2>1, <2>2
  <2> QED
    BY <2>1, <2>3
<1> HIDE DEF J
<1>6. Len(m) - k \in Nat /\ k + (Len(m) - k) = Len(m) /\ Len(m) <= Len(m)
  BY <1>0
<1>7. Len(m) - k \in J
  BY <1>4, <1>5, <1>6, NumbersFromZero
<1>8. PICK r \in Seq(S) : g(Len(m)) = g(k) \o r
  BY <1>6, <1>7 DEF J, Grows
<1> QED
  BY <1>8, UptoNext DEF g, Extends


(* Part by part, what h gives of m. *)
LEMMA GatheredParts ==
  ASSUME NEW T, NEW S, NEW h, Gives(h, T, S), NEW m \in Seq(T), NEW k \in 0..Len(m)
  PROVE  /\ Gathered(h, Upto(m, k)) \in Seq(S)
         /\ Extends(Gathered(h, Upto(m, k)), Gathered(h, m), S)
         /\ k < Len(m) =>
              /\ m[k + 1] \in T /\ h[m[k + 1]] \in Seq(S)
              /\ Gathered(h, Upto(m, k + 1)) = Gathered(h, Upto(m, k)) \o h[m[k + 1]]
<1>0. ASSUME NEW u \in Seq(T), NEW x \in T PROVE Gathered(h, Append(u, x)) = Gathered(h, u) \o h[x]
  BY GatheredAppend
<1>1. Upto(m, k) \in Seq(T)
  BY UptoNext
<1>2. Gathered(h, Upto(m, k)) \in Seq(S)
  BY <1>1, GatheredType
<1>3. Extends(Gathered(h, Upto(m, k)), Gathered(h, m), S)
  BY GatheredGrows
<1>4. ASSUME k < Len(m)
      PROVE  /\ m[k + 1] \in T /\ h[m[k + 1]] \in Seq(S)
             /\ Gathered(h, Upto(m, k + 1)) = Gathered(h, Upto(m, k)) \o h[m[k + 1]]
  <2>1. k \in Nat
    BY LenProperties
  <2>2. m[k + 1] \in T /\ Upto(m, k + 1) = Append(Upto(m, k), m[k + 1])
    BY <1>4, <2>1, UptoNext
  <2>3. Gathered(h, Append(Upto(m, k), m[k + 1])) = Gathered(h, Upto(m, k)) \o h[m[k + 1]]
    BY <1>0, <1>1, <2>2, Zenon
  <2>4. h[m[k + 1]] \in Seq(S)
    BY <2>2 DEF Gives
  <2> QED
    BY <2>2, <2>3, <2>4, Zenon
<1> QED
  BY <1>2, <1>3, <1>4

LEMMA NothingGathered ==
  ASSUME NEW T, NEW h, NEW m \in Seq(T)
  PROVE  Gathered(h, Upto(m, 0)) = <<>> /\ Gathered(h, Upto(m, Len(m))) = Gathered(h, m)
<1>1. Upto(m, 0) = <<>> /\ Upto(m, Len(m)) = m
  BY UptoNext
<1>2. [i \in DOMAIN <<>> |-> h[<<>>[i]]] = <<>>
  OBVIOUS
<1> QED
  BY <1>1, <1>2, FlattenEmpty, Zenon DEF Gathered

(* Where the bytes of m are, behind those of its first k parts are those   *)
(* of the next, if there is one.                                           *)
LEMMA NextPart ==
  ASSUME NEW T, NEW h, Gives(h, T, 0..255), \A x \in T : Len(h[x]) >= 1,
         NEW m \in Seq(T), NEW k \in 0..Len(m), NEW d \in Seq(0..255), NEW c \in Nat,
         Segment(d, c, Gathered(h, m))
  PROVE  LET o == Len(Gathered(h, Upto(m, k)))
             N == Len(Gathered(h, m))
         IN  /\ o \in Nat /\ N \in Nat /\ o <= N
             /\ k = Len(m) => o = N
             /\ k < Len(m) =>
                  /\ m[k + 1] \in T /\ o < N
                  /\ Has(d, c, N, o, h[m[k + 1]])
                  /\ Len(Gathered(h, Upto(m, k + 1))) = o + Len(h[m[k + 1]])
<1> DEFINE a == Gathered(h, Upto(m, k))
           whole == Gathered(h, m)
<1>1. a \in Seq(0..255) /\ Extends(a, whole, 0..255) /\ Len(a) \in Nat
  BY GatheredParts, LenProperties
<1>2. k = Len(m) => a = whole
  BY NothingGathered
<1>3. Len(a) <= Len(whole) /\ Len(whole) \in Nat
  <2> HIDE DEF a, whole
  <2>1. PICK r \in Seq(0..255) : whole = a \o r
    BY <1>1 DEF Extends
  <2>2. Len(a \o r) = Len(a) + Len(r) /\ Len(r) \in Nat
    BY <1>1, ConcatProperties, LenProperties
  <2> QED
    BY <1>1, <2>1, <2>2
<1>4. ASSUME k < Len(m)
      PROVE  /\ m[k + 1] \in T /\ Len(a) < Len(whole)
             /\ Has(d, c, Len(whole), Len(a), h[m[k + 1]])
             /\ Len(Gathered(h, Upto(m, k + 1))) = Len(a) + Len(h[m[k + 1]])
  <2> DEFINE x == h[m[k + 1]]
             b == Gathered(h, Upto(m, k + 1))
  <2>1. Len(m) \in Nat /\ k + 1 \in 0..Len(m)
    <3>1. Len(m) \in Nat
      BY LenProperties
    <3> QED
      BY <1>4, <3>1
  <2>2. m[k + 1] \in T /\ x \in Seq(0..255) /\ b = a \o x
    <3>1. m[k + 1] \in T
      BY <1>4, GatheredParts
    <3>2. x \in Seq(0..255)
      BY <3>1 DEF Gives
    <3>3. b = a \o x
      BY <1>4, GatheredParts
    <3> QED
      BY <3>1, <3>2, <3>3, Zenon
  <2>3. Extends(b, whole, 0..255)
    BY <2>1, GatheredParts
  <2>4. Len(x) >= 1
    BY <2>2
  <2>5. Segment(d, c, whole)
    OBVIOUS
  <2> HIDE DEF a, whole, x, b
  <2>6. PICK r \in Seq(0..255) : whole = (a \o x) \o r
    BY <2>2, <2>3 DEF Extends
  <2>7. a \o x \in Seq(0..255)
    BY <1>1, <2>2, ConcatProperties
  <2>8. Segment(d, c, a \o x) /\ Len((a \o x) \o r) = Len(a \o x) + Len(r) /\ Len(r) \in Nat
    BY <2>5, <2>6, <2>7, SegmentParts
  <2>9. /\ Segment(d, c + Len(a), x) /\ Len(a \o x) = Len(a) + Len(x) /\ Len(x) \in Nat
    BY <1>1, <2>2, <2>8, SegmentParts
  <2>10. Len(a) < Len(whole) /\ Len(a) + Len(x) <= Len(whole)
    BY <1>1, <2>4, <2>6, <2>8, <2>9
  <2> QED
    BY <2>2, <2>9, <2>10 DEF Has, x, b
<1> QED
  BY <1>1, <1>2, <1>3, <1>4

(* The bytes of a field and of a request, and what is kept of them. *)
fieldBytes == [f \in Fields |-> Signals!WriteField(f)]
fieldKept(n) == [f \in Fields |-> Signals!Kept(n, f)]
requestBytes == [r \in Requests |-> Signals!WriteField(r.field)]
requestKept == [r \in Requests |-> Signals!KeptOf(r)]

LEMMA FieldsGive ==
  /\ Gives(fieldBytes, Fields, 0..255) /\ \A f \in Fields : Len(fieldBytes[f]) >= 1
  /\ \A n : Gives(fieldKept(n), Fields, Seq(Nat))
<1>1. ASSUME NEW f \in Fields
      PROVE  Signals!WriteField(f) \in Seq(0..255) /\ Len(Signals!WriteField(f)) >= 1
  BY FieldParts
<1>2. ASSUME NEW n, NEW f \in Fields PROVE Signals!Kept(n, f) \in Seq(Seq(Nat))
  BY KeptType
<1> QED
  BY <1>1, <1>2 DEF fieldBytes, fieldKept, Gives

LEMMA RequestTypes ==
  ASSUME NEW r \in Requests
  PROVE  /\ r.field \in Fields /\ r.parts \in Seq(Fields)
         /\ Signals!IsNested(r.field.num, r.field.wire) =>
              /\ r.field.value = Gathered(fieldBytes, r.parts)
              /\ Signals!KeptOf(r) = Gathered(fieldKept(r.field.num), r.parts)
         /\ ~Signals!IsNested(r.field.num, r.field.wire) => Signals!KeptOf(r) = <<>>
<1>1. /\ r.field \in Fields /\ r.parts \in Seq(Fields)
      /\ Signals!IsNested(r.field.num, r.field.wire) => r.field.value = Signals!Write(r.parts)
  BY SignalConstants, Zenon DEF Signals!ConstantsAssumption
<1> DEFINE m == r.parts
           n == r.field.num
<1>2. \A i \in DOMAIN m : m[i] \in Fields
  BY <1>1, LenProperties, ElementOfSeq
<1>3. [i \in DOMAIN m |-> Signals!WriteField(m[i])] = [i \in DOMAIN m |-> fieldBytes[m[i]]]
  <2>1. \A i \in DOMAIN m : fieldBytes[m[i]] = Signals!WriteField(m[i])
    BY <1>2, Zenon DEF fieldBytes
  <2> QED
    BY <2>1
<1>4. [i \in DOMAIN m |-> Signals!Kept(n, m[i])] = [i \in DOMAIN m |-> fieldKept(n)[m[i]]]
  <2>1. \A i \in DOMAIN m : fieldKept(n)[m[i]] = Signals!Kept(n, m[i])
    BY <1>2, Zenon DEF fieldKept
  <2> QED
    BY <2>1
<1>5. Signals!Write(m) = Gathered(fieldBytes, m)
  BY <1>3, Zenon DEF Signals!Write, Gathered
<1>6. Signals!IsNested(n, r.field.wire) => Signals!KeptOf(r) = Gathered(fieldKept(n), m)
  BY <1>4, Zenon DEF Signals!KeptOf, Gathered
<1>7. ~Signals!IsNested(n, r.field.wire) => Signals!KeptOf(r) = <<>>
  BY Zenon DEF Signals!KeptOf
<1> QED
  BY <1>1, <1>5, <1>6, <1>7

LEMMA RequestsGive ==
  /\ Gives(requestBytes, Requests, 0..255) /\ \A r \in Requests : Len(requestBytes[r]) >= 1
  /\ Gives(requestKept, Requests, Seq(Nat))
<1>1. ASSUME NEW r \in Requests
      PROVE  Signals!WriteField(r.field) \in Seq(0..255) /\ Len(Signals!WriteField(r.field)) >= 1
  BY RequestTypes, FieldParts
<1>2. ASSUME NEW r \in Requests PROVE Signals!KeptOf(r) \in Seq(Seq(Nat))
  <2>1. CASE Signals!IsNested(r.field.num, r.field.wire)
    <3>1. Signals!KeptOf(r) = Gathered(fieldKept(r.field.num), r.parts) /\ r.parts \in Seq(Fields)
      BY <2>1, RequestTypes
    <3>2. Gathered(fieldKept(r.field.num), r.parts) \in Seq(Seq(Nat))
      BY <3>1, FieldsGive, GatheredType
    <3> QED
      BY <3>1, <3>2
  <2>2. CASE ~Signals!IsNested(r.field.num, r.field.wire)
    <3>1. Signals!KeptOf(r) = <<>>
      BY <2>2, RequestTypes
    <3> QED
      BY <3>1, EmptySeq
  <2> QED
    BY <2>1, <2>2
<1> QED
  BY <1>1, <1>2 DEF requestBytes, requestKept, Gives

LEMMA MessageTypes ==
  ASSUME NEW m \in Messages
  PROVE  /\ m \in Seq(Requests) /\ Len(m) \in Nat
         /\ Signals!Sent(m) = Gathered(requestBytes, m)
         /\ Signals!Sent(m) \in Seq(0..255) /\ Len(Signals!Sent(m)) < Word
<1>1. m \in Seq(Requests) /\ Len(Signals!Sent(m)) < Word
  BY SignalConstants, Zenon DEF Signals!ConstantsAssumption
<1>2. Len(m) \in Nat /\ \A i \in DOMAIN m : m[i] \in Requests
  BY <1>1, LenProperties, ElementOfSeq
<1>3. \A i \in DOMAIN m : requestBytes[m[i]] = Signals!WriteField(m[i].field)
  BY <1>2, Zenon DEF requestBytes
<1>4. [i \in DOMAIN m |-> Signals!WriteField(m[i].field)] = [i \in DOMAIN m |-> requestBytes[m[i]]]
  BY <1>3
<1>5. Signals!Sent(m) = Gathered(requestBytes, m)
  BY <1>4, Zenon DEF Signals!Sent, Gathered
<1>6. Gathered(requestBytes, m) \in Seq(0..255)
  BY <1>1, RequestsGive, GatheredType
<1> QED
  BY <1>1, <1>2, <1>5, <1>6

LEMMA KnownIs ==
  ASSUME message \in Messages
  PROVE  Signals!Known = Gathered(requestKept, message)
<1>1. \A i \in DOMAIN message : message[i] \in Requests
  BY MessageTypes, LenProperties, ElementOfSeq
<1>2. \A i \in DOMAIN message : requestKept[message[i]] = Signals!KeptOf(message[i])
  BY <1>1, Zenon DEF requestKept
<1>3. [i \in DOMAIN message |-> Signals!KeptOf(message[i])]
        = [i \in DOMAIN message |-> requestKept[message[i]]]
  BY <1>2
<1> QED
  BY <1>3, Zenon DEF Signals!Known, Gathered

(* Whatever the data are, a reader's step leads to a place, and to a string*)
(* or a number.                                                            *)
LEMMA ModWord == \A n \in Nat : n % Word \in Nat /\ n % IntWord \in Nat /\ n % 8 \in Nat /\ n \div 8 \in Nat
<1>1. \A n \in Nat : n % 8 \in Nat /\ n \div 8 \in Nat
  OBVIOUS
<1>2. \A n \in Nat : n % Word \in Nat /\ n % IntWord \in Nat
  BY WordTypes, Remainder
<1> QED
  BY <1>1, <1>2

LEMMA KeyType ==
  ASSUME data \in Seq(0..255), NEW c \in Nat, NEW N \in Nat, NEW at \in 0..N
  PROVE  /\ Signals!ReadKey(c, N, at).num \in Nat /\ Signals!ReadKey(c, N, at).next \in 0..N
         /\ Signals!ReadKey(c, N, at).stray \in BOOLEAN
<1> DEFINE k == Signals!ReadVarint(c, N, at)
<1>1. k.val \in Nat /\ k.next \in 0..N /\ k.stray \in BOOLEAN
  BY ReadType
<1>2. Signals!ReadKey(c, N, at) =
        [num |-> (k.val \div 8) % IntWord, wire |-> k.val % 8, next |-> k.next, stray |-> k.stray]
  BY DEF Signals!ReadKey
<1> HIDE DEF k
<1>3. (k.val \div 8) % IntWord \in Nat
  BY <1>1, ModWord
<1> QED
  BY <1>1, <1>2, <1>3

LEMMA StringType ==
  ASSUME data \in Seq(0..255), NEW c \in Nat, NEW N \in Nat, NEW at \in 0..N
  PROVE  /\ Signals!ReadString(c, N, at).val \in Seq(Nat)
         /\ Signals!ReadString(c, N, at).next \in Nat
         /\ Signals!ReadString(c, N, at).stray \in BOOLEAN
<1> DEFINE p == Signals!ReadVarint(c, N, at)
           e == (p.next + p.val) % Word
           b == c + p.next
<1>1. p.val \in Nat /\ p.next \in 0..N /\ p.stray \in BOOLEAN
  BY ReadType
<1> HIDE DEF p
<1>2. Signals!ReadString(c, N, at) =
        IF e > N THEN [val |-> <<>>, next |-> p.next, stray |-> p.stray]
        ELSE IF b + p.val > Len(data) THEN [val |-> <<>>, next |-> e, stray |-> TRUE]
        ELSE [val |-> SubSeq(data, b + 1, b + p.val), next |-> e, stray |-> p.stray]
  BY Zenon DEF Signals!ReadString, p
<1>3. p.next \in Nat /\ b \in Nat /\ p.next + p.val \in Nat
  BY <1>1
<1>4. e \in Nat
  BY <1>3, ModWord
<1> HIDE DEF e, b
<1>5. CASE e > N
  <2>1. Signals!ReadString(c, N, at) = [val |-> <<>>, next |-> p.next, stray |-> p.stray]
    BY <1>2, <1>5
  <2> QED
    BY <1>1, <1>3, <2>1, EmptySeq
<1>6. CASE ~(e > N) /\ b + p.val > Len(data)
  <2>1. Signals!ReadString(c, N, at) = [val |-> <<>>, next |-> e, stray |-> TRUE]
    BY <1>2, <1>6
  <2> QED
    BY <1>4, <2>1, EmptySeq
<1>7. CASE ~(e > N) /\ ~(b + p.val > Len(data))
  <2>1. Signals!ReadString(c, N, at) =
          [val |-> SubSeq(data, b + 1, b + p.val), next |-> e, stray |-> p.stray]
    BY <1>2, <1>7
  <2>2. Len(data) \in Nat
    BY LenProperties
  <2>3. \A i \in (b + 1)..(b + p.val) : i \in 1..Len(data)
    BY <1>1, <1>3, <1>7, <2>2
  <2>4. \A i \in (b + 1)..(b + p.val) : data[i] \in 0..255
    BY <2>3, ElementOfSeq
  <2>5. b + 1 \in Int /\ b + p.val \in Int
    BY <1>1, <1>3
  <2>6. SubSeq(data, b + 1, b + p.val) \in Seq(0..255) /\ 0..255 \subseteq Nat
    BY <2>4, <2>5, SubSeqProperties
  <2>7. SubSeq(data, b + 1, b + p.val) \in Seq(Nat)
    BY <2>6, SeqMonotonic, Zenon
  <2> QED
    BY <1>1, <1>4, <2>1, <2>7
<1> QED
  BY <1>5, <1>6, <1>7

LEMMA IntType ==
  ASSUME data \in Seq(0..255), NEW c \in Nat, NEW N \in Nat, NEW at \in 0..N
  PROVE  /\ Signals!ReadInt(c, N, at).val \in Seq(Nat)
         /\ Signals!ReadInt(c, N, at).next \in Nat
         /\ Signals!ReadInt(c, N, at).stray \in BOOLEAN
<1> DEFINE p == Signals!ReadVarint(c, N, at)
<1>1. p.val \in Nat /\ p.next \in 0..N /\ p.stray \in BOOLEAN
  BY ReadType
<1>2. Signals!ReadInt(c, N, at) = [val |-> <<p.val % IntWord>>, next |-> p.next, stray |-> p.stray]
  BY DEF Signals!ReadInt
<1> HIDE DEF p
<1>3. p.val % IntWord \in Nat /\ p.next \in Nat
  <2>1. p.val % IntWord \in Nat
    BY <1>1, ModWord, Zenon
  <2>2. p.next \in Nat
    BY <1>1
  <2> QED
    BY <2>1, <2>2
<1>4. \A y \in Nat : <<y>> \in Seq(Nat)
  OBVIOUS
<1> QED
  BY <1>1, <1>2, <1>3, <1>4

LEMMA SkipType ==
  ASSUME data \in Seq(0..255), NEW c \in Nat, NEW N \in Nat, NEW at \in 0..N, NEW wire
  PROVE  /\ Signals!SkipField(wire, c, N, at).next \in Nat
         /\ Signals!SkipField(wire, c, N, at).stray \in BOOLEAN
<1> DEFINE p == Signals!ReadVarint(c, N, at)
<1>1. p.val \in Nat /\ p.next \in 0..N /\ p.stray \in BOOLEAN
  BY ReadType
<1>2. \/ Signals!SkipField(wire, c, N, at) = [next |-> p.next, stray |-> p.stray]
      \/ Signals!SkipField(wire, c, N, at) = [next |-> (p.next + p.val) % Word, stray |-> p.stray]
      \/ Signals!SkipField(wire, c, N, at) = [next |-> (at + 8) % Word, stray |-> FALSE]
      \/ Signals!SkipField(wire, c, N, at) = [next |-> (at + 4) % Word, stray |-> FALSE]
      \/ Signals!SkipField(wire, c, N, at) = [next |-> at, stray |-> FALSE]
  BY DEF Signals!SkipField, Signals!Varint, Signals!Bytes, Signals!Fixed64, Signals!Fixed32
<1> HIDE DEF p
<1>3. p.next \in Nat /\ p.next + p.val \in Nat /\ at + 8 \in Nat /\ at + 4 \in Nat /\ at \in Nat
  BY <1>1
<1>4. (p.next + p.val) % Word \in Nat /\ (at + 8) % Word \in Nat /\ (at + 4) % Word \in Nat
  BY <1>3, ModWord, Zenon
<1>5. \A x \in Nat, b \in BOOLEAN :
        [next |-> x, stray |-> b].next \in Nat /\ [next |-> x, stray |-> b].stray \in BOOLEAN
  OBVIOUS
<1>6. FALSE \in BOOLEAN
  OBVIOUS
<1> QED
  BY <1>1, <1>2, <1>3, <1>4, <1>5, <1>6, Zenon

LEMMA RequestTurnType ==
  ASSUME Signals!TypeOK, Signals!ReadRequest
  PROVE  Signals!TypeOK'
<1> DEFINE N == Len(data)
           k == Signals!ReadKey(0, N, offset)
           length == Signals!ReadVarint(0, N, k.next)
           skip == Signals!SkipField(k.wire, 0, N, k.next)
<1>1. /\ message' = message /\ data' = data /\ got' = got
      /\ message \in Messages /\ data \in Seq(0..255) /\ got \in Seq(Seq(Nat))
      /\ offset \in Nat /\ offset < N
      /\ nested \in [num : Nat, base : Nat, size : Nat, offset : Nat]
  BY DEF Signals!TypeOK, Signals!ReadRequest
<1>2. N \in Nat /\ offset \in 0..N
  <2>1. N \in Nat
    BY <1>1, LenProperties
  <2> HIDE DEF N
  <2> QED
    BY <1>1, <2>1
<1>3. \/ /\ nested' = [num |-> k.num, base |-> length.next, size |-> length.val, offset |-> 0]
         /\ offset' = (length.next + length.val) % Word
         /\ stray' = (k.stray \/ length.stray)
      \/ /\ offset' = skip.next
         /\ stray' = (k.stray \/ skip.stray)
         /\ nested' = nested
  BY Zenon DEF Signals!ReadRequest
<1> HIDE DEF N
<1>4. k.num \in Nat /\ k.next \in 0..N /\ k.stray \in BOOLEAN
  BY <1>1, <1>2, KeyType
<1> HIDE DEF k
<1>5. length.val \in Nat /\ length.next \in 0..N /\ length.stray \in BOOLEAN
  BY <1>1, <1>2, <1>4, ReadType
<1>6. skip.next \in Nat /\ skip.stray \in BOOLEAN
  BY <1>1, <1>2, <1>4, SkipType
<1> HIDE DEF length, skip
<1>7. length.next \in Nat /\ length.next + length.val \in Nat
  BY <1>2, <1>5
<1>8. (length.next + length.val) % Word \in Nat
  BY <1>7, ModWord
<1>9. [num |-> k.num, base |-> length.next, size |-> length.val, offset |-> 0]
        \in [num : Nat, base : Nat, size : Nat, offset : Nat]
  BY <1>4, <1>5, <1>7
<1>10. /\ offset' \in Nat /\ nested' \in [num : Nat, base : Nat, size : Nat, offset : Nat]
       /\ stray' \in BOOLEAN
  <2>1. (k.stray \/ length.stray) \in BOOLEAN /\ (k.stray \/ skip.stray) \in BOOLEAN
    OBVIOUS
  <2> QED
    BY <1>1, <1>3, <1>6, <1>8, <1>9, <2>1, Zenon
<1> QED
  BY <1>1, <1>10, Zenon DEF Signals!TypeOK

LEMMA FieldTurnType ==
  ASSUME Signals!TypeOK, Signals!ReadField
  PROVE  Signals!TypeOK'
<1> DEFINE c == nested.base
           N == nested.size
           k == Signals!ReadKey(c, N, nested.offset)
           string == Signals!ReadString(c, N, k.next)
           int == Signals!ReadInt(c, N, k.next)
           skip == Signals!SkipField(k.wire, c, N, k.next)
<1>1. /\ message' = message /\ data' = data /\ offset' = offset
      /\ message \in Messages /\ data \in Seq(0..255) /\ got \in Seq(Seq(Nat)) /\ offset \in Nat
      /\ nested \in [num : Nat, base : Nat, size : Nat, offset : Nat] /\ nested.offset < N
  BY DEF Signals!TypeOK, Signals!ReadField, Signals!InNested
<1>2. c \in Nat /\ N \in Nat /\ nested.offset \in 0..N
  BY <1>1
<1>3. \/ /\ \/ nested' = [nested EXCEPT !.offset = string.next] /\ got' = Append(got, string.val)
               /\ stray' = (k.stray \/ string.stray)
            \/ nested' = [nested EXCEPT !.offset = int.next] /\ got' = Append(got, int.val)
               /\ stray' = (k.stray \/ int.stray)
      \/ /\ nested' = [nested EXCEPT !.offset = skip.next] /\ got' = got
         /\ stray' = (k.stray \/ skip.stray)
  <2> HIDE DEF c, N
  <2> QED
    BY Zenon DEF Signals!ReadField, c, N
<1> HIDE DEF c, N
<1>4. k.next \in 0..N
  BY <1>1, <1>2, KeyType
<1> HIDE DEF k
<1>5. string.val \in Seq(Nat) /\ string.next \in Nat
  BY <1>1, <1>2, <1>4, StringType
<1>6. int.val \in Seq(Nat) /\ int.next \in Nat
  BY <1>1, <1>2, <1>4, IntType
<1>7. skip.next \in Nat
  BY <1>1, <1>2, <1>4, SkipType
<1> HIDE DEF string, int, skip
<1>8. \A x \in Seq(Nat) : Append(got, x) \in Seq(Seq(Nat))
  BY <1>1
<1>9. \A n \in Nat : [nested EXCEPT !.offset = n] \in [num : Nat, base : Nat, size : Nat, offset : Nat]
  BY <1>1
<1>10. /\ got' \in Seq(Seq(Nat)) /\ nested' \in [num : Nat, base : Nat, size : Nat, offset : Nat]
  BY <1>1, <1>3, <1>5, <1>6, <1>7, <1>8, <1>9, Zenon
<1>11. stray' \in BOOLEAN
  <2>1. /\ (k.stray \/ string.stray) \in BOOLEAN /\ (k.stray \/ int.stray) \in BOOLEAN
        /\ (k.stray \/ skip.stray) \in BOOLEAN
    OBVIOUS
  <2> QED
    BY <1>3, <2>1, Zenon
<1> QED
  BY <1>1, <1>10, <1>11, Zenon DEF Signals!TypeOK

(* The reader of a whole message has not strayed.  It stands behind the    *)
(* first k requests, and has kept what there is to keep of them; or within *)
(* the one after them, behind some of its parts, which are kept as well.   *)
Outside(m, o, g, k) ==
  /\ o = Len(Gathered(requestBytes, Upto(m, k)))
  /\ g = Gathered(requestKept, Upto(m, k))

Inside(d, nest, r, j) ==
  /\ Signals!IsNested(r.field.num, r.field.wire)
  /\ nest.num = r.field.num /\ nest.size = Len(r.field.value)
  /\ Segment(d, nest.base, r.field.value)
  /\ nest.offset = Len(Gathered(fieldBytes, Upto(r.parts, j)))

Within(m, d, o, nest, g, k) ==
  /\ k < Len(m)
  /\ o = Len(Gathered(requestBytes, Upto(m, k + 1)))
  /\ \E j \in 0..Len(m[k + 1].parts) :
       /\ Inside(d, nest, m[k + 1], j)
       /\ g = Gathered(requestKept, Upto(m, k))
                \o Gathered(fieldKept(m[k + 1].field.num), Upto(m[k + 1].parts, j))

Stands(m, d, o, nest, g) ==
  \E k \in 0..Len(m) : IF nest.offset < nest.size THEN Within(m, d, o, nest, g, k) ELSE Outside(m, o, g, k)

Reads(m, d, o, nest, g, s) == d = Signals!Sent(m) => s = FALSE /\ Stands(m, d, o, nest, g)

SignalInv == Signals!TypeOK /\ Reads(message, data, offset, nested, got, stray)

LEMMA SignalsStart == Signals!Init => SignalInv
<1> SUFFICES ASSUME Signals!Init PROVE SignalInv
  OBVIOUS
<1>1. /\ message \in Messages /\ \E n \in 0..Len(Signals!Sent(message)) : data = SubSeq(Signals!Sent(message), 1, n)
      /\ offset = 0 /\ nested = [num |-> 0, base |-> 0, size |-> 0, offset |-> 0]
      /\ got = <<>> /\ stray = FALSE
  BY DEF Signals!Init
<1>2. message \in Seq(Requests) /\ Len(message) \in Nat /\ Signals!Sent(message) \in Seq(0..255)
  BY <1>1, MessageTypes
<1>3. data \in Seq(0..255)
  <2> DEFINE w == Signals!Sent(message)
  <2> HIDE DEF w
  <2>1. PICK n \in 0..Len(w) : data = SubSeq(w, 1, n)
    BY <1>1 DEF w
  <2>2. w \in Seq(0..255) /\ Len(w) \in Nat
    BY <1>2, LenProperties DEF w
  <2>3. \A i \in 1..n : i \in 1..Len(w)
    BY <2>2
  <2>4. \A i \in 1..n : w[i] \in 0..255
    BY <2>2, <2>3, ElementOfSeq
  <2>5. 1 \in Int /\ n \in Int
    BY <2>2
  <2>6. SubSeq(w, 1, n) \in Seq(0..255)
    BY <2>4, <2>5, SubSeqProperties
  <2> QED
    BY <2>1, <2>6
<1>4. Signals!TypeOK
  BY <1>1, <1>3, EmptySeq DEF Signals!TypeOK
<1>5. Outside(message, offset, got, 0)
  <2>1. Len(<<>>) = 0
    OBVIOUS
  <2>2. Gathered(requestBytes, Upto(message, 0)) = <<>> /\ Gathered(requestKept, Upto(message, 0)) = <<>>
    BY <1>2, NothingGathered
  <2> QED
    BY <1>1, <2>1, <2>2, Zenon DEF Outside
<1>6. ~(nested.offset < nested.size) /\ 0 \in 0..Len(message)
  BY <1>1, <1>2
<1> QED
  BY <1>1, <1>4, <1>5, <1>6, Zenon DEF SignalInv, Reads, Stands

(* A whole message has its next request where the outer reader stands. *)
LEMMA NextRequest ==
  ASSUME message \in Messages, data \in Seq(0..255), data = Signals!Sent(message),
         NEW k \in 0..Len(message), offset = Len(Gathered(requestBytes, Upto(message, k)))
  PROVE  /\ Len(message) \in Nat /\ Len(data) \in Nat /\ Len(data) < Word
         /\ offset \in Nat /\ offset <= Len(data) /\ (k = Len(message) => offset = Len(data))
         /\ k < Len(message) =>
              /\ message[k + 1] \in Requests /\ message[k + 1].field \in Fields
              /\ offset < Len(data) /\ k + 1 \in 0..Len(message)
              /\ Has(data, 0, Len(data), offset, Signals!WriteField(message[k + 1].field))
              /\ Len(Gathered(requestBytes, Upto(message, k + 1)))
                   = offset + Len(Signals!WriteField(message[k + 1].field))
              /\ Gathered(requestKept, Upto(message, k + 1))
                   = Gathered(requestKept, Upto(message, k)) \o Signals!KeptOf(message[k + 1])
<1>1. /\ message \in Seq(Requests) /\ Len(message) \in Nat
      /\ data = Gathered(requestBytes, message) /\ Len(data) < Word
  BY MessageTypes
<1>2. Len(data) \in Nat
  BY LenProperties
<1>3. Segment(data, 0, data)
  BY <1>2 DEF Segment
<1>4. /\ offset \in Nat /\ offset <= Len(data) /\ (k = Len(message) => offset = Len(data))
      /\ k < Len(message) =>
           /\ message[k + 1] \in Requests /\ offset < Len(data)
           /\ Has(data, 0, Len(data), offset, requestBytes[message[k + 1]])
           /\ Len(Gathered(requestBytes, Upto(message, k + 1)))
                = offset + Len(requestBytes[message[k + 1]])
  <2>1. Segment(data, 0, Gathered(requestBytes, message)) /\ 0 \in Nat
    BY <1>1, <1>3, Zenon
  <2>2. LET o == Len(Gathered(requestBytes, Upto(message, k)))
            N == Len(Gathered(requestBytes, message))
        IN  /\ o \in Nat /\ N \in Nat /\ o <= N
            /\ k = Len(message) => o = N
            /\ k < Len(message) =>
                 /\ message[k + 1] \in Requests /\ o < N
                 /\ Has(data, 0, N, o, requestBytes[message[k + 1]])
                 /\ Len(Gathered(requestBytes, Upto(message, k + 1)))
                      = o + Len(requestBytes[message[k + 1]])
    BY <1>1, <2>1, RequestsGive, NextPart
  <2> QED
    BY <1>1, <2>2, Zenon
<1>5. ASSUME k < Len(message)
      PROVE  Gathered(requestKept, Upto(message, k + 1))
               = Gathered(requestKept, Upto(message, k)) \o requestKept[message[k + 1]]
  <2>1. message \in Seq(Requests) /\ Gives(requestKept, Requests, Seq(Nat))
    BY <1>1, RequestsGive
  <2>2. \A m \in Seq(Requests) : \A j \in 0..Len(m) : j < Len(m) =>
          Gathered(requestKept, Upto(m, j + 1)) = Gathered(requestKept, Upto(m, j)) \o requestKept[m[j + 1]]
    BY <2>1, GatheredParts
  <2> QED
    BY <1>5, <2>1, <2>2, Zenon
<1>6. ASSUME k < Len(message)
      PROVE  /\ message[k + 1].field \in Fields /\ k + 1 \in 0..Len(message)
             /\ requestBytes[message[k + 1]] = Signals!WriteField(message[k + 1].field)
             /\ requestKept[message[k + 1]] = Signals!KeptOf(message[k + 1])
  <2>1. message[k + 1] \in Requests
    BY <1>4, <1>6
  <2>2. message[k + 1].field \in Fields
    BY <2>1, RequestTypes
  <2>3. k + 1 \in 0..Len(message)
    BY <1>1, <1>6
  <2> QED
    BY <2>1, <2>2, <2>3, Zenon DEF requestBytes, requestKept
<1> QED
  BY <1>1, <1>2, <1>4, <1>5, <1>6, Zenon

(* What holds a message has its next part where a nested reader stands. *)
LEMMA NextField ==
  ASSUME data \in Seq(0..255), NEW m \in Seq(Fields), NEW j \in 0..Len(m), NEW c \in Nat,
         Segment(data, c, Gathered(fieldBytes, m))
  PROVE  LET o == Len(Gathered(fieldBytes, Upto(m, j)))
             N == Len(Gathered(fieldBytes, m))
         IN  /\ j = Len(m) => o = N
             /\ j < Len(m) =>
                  /\ m[j + 1] \in Fields /\ o < N
                  /\ Has(data, c, N, o, fieldBytes[m[j + 1]])
                  /\ Len(Gathered(fieldBytes, Upto(m, j + 1))) = o + Len(fieldBytes[m[j + 1]])
BY FieldsGive, NextPart

LEMMA NextKept ==
  ASSUME NEW n, NEW m \in Seq(Fields), NEW j \in 0..Len(m)
  PROVE  /\ Gathered(fieldKept(n), Upto(m, j)) \in Seq(Seq(Nat))
         /\ j < Len(m) => Gathered(fieldKept(n), Upto(m, j + 1))
                            = Gathered(fieldKept(n), Upto(m, j)) \o fieldKept(n)[m[j + 1]]
<1> DEFINE h == fieldKept(n)
<1>1. Gives(h, Fields, Seq(Nat))
  BY FieldsGive
<1> HIDE DEF h
<1>2. Gathered(h, Upto(m, j)) \in Seq(Seq(Nat))
  BY <1>1, GatheredParts
<1>3. j < Len(m) => Gathered(h, Upto(m, j + 1)) = Gathered(h, Upto(m, j)) \o h[m[j + 1]]
  BY <1>1, GatheredParts
<1> QED
  BY <1>2, <1>3 DEF h

LEMMA ConcatKept == \A a, b, c \in Seq(Seq(Nat)) : (a \o b) \o c = a \o (b \o c) /\ b \o c \in Seq(Seq(Nat))
<1> SUFFICES ASSUME NEW a \in Seq(Seq(Nat)), NEW b \in Seq(Seq(Nat)), NEW c \in Seq(Seq(Nat))
             PROVE  (a \o b) \o c = a \o (b \o c) /\ b \o c \in Seq(Seq(Nat))
  OBVIOUS
<1> QED
  BY ConcatTwice

LEMMA RequestTurn ==
  ASSUME Signals!TypeOK, data = Signals!Sent(message), NEW k \in 0..Len(message),
         Outside(message, offset, got, k), Signals!ReadRequest
  PROVE  stray' = FALSE /\ Stands(message, data, offset', nested', got')
<1> DEFINE r == message[k + 1]
           f == r.field
           nest == Signals!IsNested(f.num, f.wire)
           kept == Gathered(requestKept, Upto(message, k))
<1>1. /\ message \in Messages /\ data \in Seq(0..255) /\ got \in Seq(Seq(Nat))
      /\ offset < Len(data) /\ ~(nested.offset < nested.size)
      /\ offset = Len(Gathered(requestBytes, Upto(message, k))) /\ got = kept
  BY DEF Signals!TypeOK, Signals!ReadRequest, Signals!InNested, Outside
<1>2. /\ Len(message) \in Nat /\ Len(data) \in Nat /\ Len(data) < Word /\ offset \in Nat
      /\ (k = Len(message) => offset = Len(data))
  BY <1>1, NextRequest
<1>3. k < Len(message)
  <2>1. offset # Len(data)
    BY <1>1, <1>2
  <2> QED
    BY <1>2, <2>1
<1>4. /\ r \in Requests /\ f \in Fields /\ k + 1 \in 0..Len(message)
      /\ Has(data, 0, Len(data), offset, Signals!WriteField(f))
      /\ Len(Gathered(requestBytes, Upto(message, k + 1))) = offset + Len(Signals!WriteField(f))
      /\ Gathered(requestKept, Upto(message, k + 1)) = kept \o Signals!KeptOf(r)
  BY <1>1, <1>3, NextRequest
<1> HIDE DEF f
<1>5. /\ offset' = offset + Len(Signals!WriteField(f)) /\ got' = got /\ stray' = FALSE
      /\ ~nest => nested' = nested
      /\ nest =>
           \E c \in Nat :
             /\ nested' = [num |-> f.num, base |-> c, size |-> Len(f.value), offset |-> 0]
             /\ Segment(data, c, f.value) /\ Len(f.value) \in Nat /\ Len(f.value) < Word
  BY <1>1, <1>2, <1>4, RequestIsRead
<1>6. offset' = Len(Gathered(requestBytes, Upto(message, k + 1)))
  BY <1>4, <1>5
<1>7. r.parts \in Seq(Fields) /\ (~nest => Signals!KeptOf(r) = <<>>)
      /\ (nest => /\ f.value = Gathered(fieldBytes, r.parts)
                  /\ Signals!KeptOf(r) = Gathered(fieldKept(f.num), r.parts))
  BY <1>4, RequestTypes DEF f
<1>8. kept \in Seq(Seq(Nat)) /\ kept \o <<>> = kept
  <2>1. kept \in Seq(Seq(Nat))
    BY <1>1
  <2> QED
    BY <2>1, ConcatEmptySeq
<1>9. ASSUME ~(nested'.offset < nested'.size), Signals!KeptOf(r) = <<>>
      PROVE  Stands(message, data, offset', nested', got')
  <2>1. got' = Gathered(requestKept, Upto(message, k + 1))
    BY <1>1, <1>4, <1>5, <1>8, <1>9, Zenon
  <2>2. Outside(message, offset', got', k + 1)
    BY <1>6, <2>1, Zenon DEF Outside
  <2> QED
    BY <1>4, <1>9, <2>2, Zenon DEF Stands
<1>10. CASE ~nest
  BY <1>1, <1>5, <1>7, <1>9, <1>10, Zenon
<1>11. CASE nest
  <2>1. PICK c \in Nat : /\ nested' = [num |-> f.num, base |-> c, size |-> Len(f.value), offset |-> 0]
                         /\ Segment(data, c, f.value) /\ Len(f.value) \in Nat
    BY <1>5, <1>11, Zenon
  <2>2. nested'.num = f.num /\ nested'.base = c /\ nested'.size = Len(f.value) /\ nested'.offset = 0
    BY <2>1
  <2>3. Len(r.parts) \in Nat /\ 0 \in 0..Len(r.parts)
    <3>1. Len(r.parts) \in Nat
      BY <1>7, LenProperties
    <3> QED
      BY <3>1
  <2>4. /\ Gathered(fieldBytes, Upto(r.parts, 0)) = <<>>
        /\ Gathered(fieldKept(f.num), Upto(r.parts, 0)) = <<>> /\ Len(<<>>) = 0
    BY <1>7, NothingGathered
  <2>5. CASE 0 < Len(f.value)
    <3>1. Inside(data, nested', r, 0)
      BY <1>11, <2>1, <2>2, <2>4, Zenon DEF Inside, f
    <3>2. got' = kept \o Gathered(fieldKept(f.num), Upto(r.parts, 0))
      BY <1>1, <1>5, <1>8, <2>4, Zenon
    <3>3. Within(message, data, offset', nested', got', k)
      BY <1>3, <1>6, <2>3, <3>1, <3>2, Zenon DEF Within, f
    <3>4. nested'.offset < nested'.size
      BY <2>2, <2>5, Zenon
    <3> QED
      BY <1>5, <3>3, <3>4, Zenon DEF Stands
  <2>6. CASE ~(0 < Len(f.value))
    <3>1. ~(0 < Len(r.parts))
      <4>1. LET o == Len(Gathered(fieldBytes, Upto(r.parts, 0)))
                N == Len(Gathered(fieldBytes, r.parts))
            IN  0 < Len(r.parts) => o < N
        BY <1>1, <1>7, <1>11, <2>1, <2>3, NextField
      <4> QED
        BY <1>7, <1>11, <2>4, <2>6, <4>1, Zenon
    <3>2. Len(r.parts) = 0
      BY <2>3, <3>1
    <3>3. Gathered(fieldKept(f.num), r.parts) = Gathered(fieldKept(f.num), Upto(r.parts, Len(r.parts)))
      BY <1>7, NothingGathered
    <3>4. Signals!KeptOf(r) = <<>>
      BY <1>7, <1>11, <2>4, <3>2, <3>3, Zenon
    <3>5. ~(nested'.offset < nested'.size)
      BY <2>2, <2>6, Zenon
    <3> QED
      BY <1>5, <1>9, <3>4, <3>5, Zenon
  <2> QED
    BY <2>5, <2>6
<1> QED
  BY <1>5, <1>10, <1>11

LEMMA FieldTurn ==
  ASSUME Signals!TypeOK, data = Signals!Sent(message), NEW k \in 0..Len(message),
         Within(message, data, offset, nested, got, k), Signals!ReadField
  PROVE  stray' = FALSE /\ Stands(message, data, offset', nested', got')
<1> DEFINE r == message[k + 1]
           n == r.field.num
           m == r.parts
           bytes(j) == Gathered(fieldBytes, Upto(m, j))
           parts(j) == Gathered(fieldKept(n), Upto(m, j))
           kept == Gathered(requestKept, Upto(message, k))
<1>1. /\ message \in Messages /\ data \in Seq(0..255) /\ got \in Seq(Seq(Nat)) /\ offset \in Nat
      /\ nested \in [num : Nat, base : Nat, size : Nat, offset : Nat]
      /\ nested.offset < nested.size /\ offset' = offset
  BY DEF Signals!TypeOK, Signals!ReadField, Signals!InNested
<1>2. /\ k < Len(message) /\ offset = Len(Gathered(requestBytes, Upto(message, k + 1)))
      /\ \E j \in 0..Len(m) : Inside(data, nested, r, j) /\ got = kept \o parts(j)
  BY Zenon DEF Within
<1>3. PICK j \in 0..Len(m) : Inside(data, nested, r, j) /\ got = kept \o parts(j)
  BY <1>2, Zenon
<1>4. /\ message \in Seq(Requests) /\ Len(message) \in Nat /\ Len(data) < Word /\ Len(data) \in Nat
  BY <1>1, MessageTypes, LenProperties
<1>5. k \in Nat /\ k + 1 \in 0..Len(message)
  BY <1>2, <1>4
<1>6. r \in Requests
  BY <1>2, <1>4, <1>5, UptoNext
<1>7. /\ Signals!IsNested(n, r.field.wire) /\ nested.num = n /\ nested.size = Len(r.field.value)
      /\ Segment(data, nested.base, r.field.value) /\ nested.offset = Len(bytes(j))
  BY <1>3, Zenon DEF Inside
<1>8. /\ m \in Seq(Fields) /\ r.field.value = Gathered(fieldBytes, m)
      /\ Signals!KeptOf(r) = Gathered(fieldKept(n), m)
  BY <1>6, <1>7, RequestTypes
<1>9. Gathered(requestKept, Upto(message, k + 1)) = kept \o Signals!KeptOf(r) /\ kept \in Seq(Seq(Nat))
  <2>1. Gives(requestKept, Requests, Seq(Nat))
    BY RequestsGive
  <2>2. kept \in Seq(Seq(Nat))
    BY <1>4, <2>1, GatheredParts
  <2>3. Gathered(requestKept, Upto(message, k + 1)) = kept \o requestKept[r]
    BY <1>2, <1>4, <2>1, GatheredParts
  <2>4. requestKept[r] = Signals!KeptOf(r)
    BY <1>6, Zenon DEF requestKept
  <2> QED
    BY <2>2, <2>3, <2>4, Zenon
<1>10. Len(m) \in Nat /\ j \in Nat /\ j <= Len(m)
  <2>1. Len(m) \in Nat
    BY <1>8, LenProperties
  <2> HIDE DEF m
  <2> QED
    BY <2>1
<1> DEFINE f == m[j + 1]
           c == nested.base
           N == nested.size
           o == nested.offset
<1>11. /\ (j = Len(m) => o = N)
       /\ j < Len(m) => /\ f \in Fields /\ Has(data, c, N, o, fieldBytes[f])
                        /\ Len(bytes(j + 1)) = o + Len(fieldBytes[f])
  <2>1. Segment(data, c, Gathered(fieldBytes, m)) /\ c \in Nat /\ N = Len(Gathered(fieldBytes, m))
    BY <1>1, <1>7, <1>8
  <2>3. LET p == Len(Gathered(fieldBytes, Upto(m, j)))
            M == Len(Gathered(fieldBytes, m))
        IN  /\ j = Len(m) => p = M
            /\ j < Len(m) =>
                 /\ m[j + 1] \in Fields
                 /\ Has(data, c, M, p, fieldBytes[m[j + 1]])
                 /\ Len(Gathered(fieldBytes, Upto(m, j + 1))) = p + Len(fieldBytes[m[j + 1]])
    BY <1>1, <1>8, <2>1, NextField
  <2> QED
    BY <1>7, <2>1, <2>3, Zenon
<1>12. j < Len(m) /\ j + 1 \in 0..Len(m) /\ N \in Nat /\ o \in Nat /\ c \in Nat
  BY <1>1, <1>10, <1>11
<1>13. f \in Fields /\ fieldBytes[f] = Signals!WriteField(f) /\ fieldKept(n)[f] = Signals!Kept(n, f)
  BY <1>11, <1>12, Zenon DEF fieldBytes, fieldKept
<1>14. N < Word
  <2>1. c + N <= Len(data)
    BY <1>7, Zenon DEF Segment
  <2> HIDE DEF N, c
  <2> QED
    BY <1>4, <1>12, <2>1, WordTypes
<1>15. /\ nested' = [nested EXCEPT !.offset = o + Len(Signals!WriteField(f))]
       /\ got' = got \o Signals!Kept(n, f) /\ stray' = FALSE
  <2>1. Has(data, c, N, o, Signals!WriteField(f))
    BY <1>11, <1>12, <1>13, Zenon
  <2>2. nested.num = n
    BY <1>7
  <2> HIDE DEF f, n
  <2>3. /\ nested' = [nested EXCEPT !.offset = o + Len(Signals!WriteField(f))]
        /\ got' = got \o Signals!Kept(nested.num, f) /\ stray' = FALSE
    BY <1>1, <1>12, <1>13, <1>14, <2>1, FieldIsRead
  <2> QED
    BY <2>2, <2>3, Zenon
<1>16. /\ nested'.num = n /\ nested'.base = c /\ nested'.size = N
       /\ nested'.offset = Len(bytes(j + 1))
  <2>1. Len(bytes(j + 1)) = o + Len(Signals!WriteField(f))
    BY <1>11, <1>12, <1>13, Zenon
  <2>2. \A x : LET q == [nested EXCEPT !.offset = x]
               IN  q.num = nested.num /\ q.base = nested.base /\ q.size = nested.size /\ q.offset = x
    BY <1>1
  <2> QED
    BY <1>7, <1>15, <2>1, <2>2, Zenon
<1>17. parts(j + 1) = parts(j) \o Signals!Kept(n, f) /\ parts(j) \in Seq(Seq(Nat))
  <2>2. parts(j) \in Seq(Seq(Nat))
    BY <1>8, NextKept
  <2>3. parts(j + 1) = parts(j) \o fieldKept(n)[f]
    BY <1>8, <1>12, NextKept
  <2> QED
    BY <1>13, <2>2, <2>3, Zenon
<1>18. got' = kept \o parts(j + 1)
  <2>1. Signals!Kept(n, f) \in Seq(Seq(Nat))
    BY <1>13, KeptType
  <2>2. (kept \o parts(j)) \o Signals!Kept(n, f) = kept \o (parts(j) \o Signals!Kept(n, f))
    BY <1>9, <1>17, <2>1, ConcatKept, Zenon
  <2> QED
    BY <1>3, <1>15, <1>17, <2>2, Zenon
<1>19. CASE nested'.offset < nested'.size
  <2>1. Inside(data, nested', r, j + 1)
    BY <1>7, <1>16, Zenon DEF Inside
  <2>2. Within(message, data, offset', nested', got', k)
    BY <1>1, <1>2, <1>12, <1>18, <2>1, Zenon DEF Within
  <2> QED
    BY <1>15, <1>19, <2>2, Zenon DEF Stands
<1>20. CASE ~(nested'.offset < nested'.size)
  <2>1. j + 1 = Len(m)
    <3>1. LET p == Len(Gathered(fieldBytes, Upto(m, j + 1)))
              M == Len(Gathered(fieldBytes, m))
          IN  j + 1 < Len(m) => p < M
      <4>1. Segment(data, c, Gathered(fieldBytes, m))
        BY <1>7, <1>8
      <4> QED
        BY <1>1, <1>8, <1>12, <4>1, NextField
    <3>2. ~(j + 1 < Len(m))
      BY <1>7, <1>8, <1>16, <1>20, <3>1, Zenon
    <3> HIDE DEF m
    <3> QED
      BY <1>10, <1>12, <3>2
  <2>2. parts(j + 1) = Signals!KeptOf(r)
    BY <1>8, <2>1, NothingGathered
  <2>3. got' = Gathered(requestKept, Upto(message, k + 1))
    BY <1>9, <1>18, <2>2, Zenon
  <2>4. Outside(message, offset', got', k + 1)
    BY <1>1, <1>2, <2>3, Zenon DEF Outside
  <2> QED
    BY <1>5, <1>15, <1>20, <2>4, Zenon DEF Stands
<1> QED
  BY <1>19, <1>20

LEMMA SignalsStep == SignalInv /\ [Signals!Next]_Signals!vars => SignalInv'
<1> SUFFICES ASSUME SignalInv, [Signals!Next]_Signals!vars PROVE SignalInv'
  OBVIOUS
<1>0. Signals!TypeOK /\ Reads(message, data, offset, nested, got, stray)
  BY DEF SignalInv
<1>1. CASE UNCHANGED Signals!vars
  <2>1. /\ message' = message /\ data' = data /\ offset' = offset /\ nested' = nested
        /\ got' = got /\ stray' = stray
    BY <1>1 DEF Signals!vars
  <2> QED
    BY <1>0, <2>1 DEF SignalInv, Signals!TypeOK
<1>2. CASE Signals!ReadRequest
  <2>1. message' = message /\ data' = data /\ ~(nested.offset < nested.size)
    BY <1>2 DEF Signals!ReadRequest, Signals!InNested
  <2>2. Signals!TypeOK'
    BY <1>0, <1>2, RequestTurnType
  <2>3. ASSUME data = Signals!Sent(message)
        PROVE  stray' = FALSE /\ Stands(message, data, offset', nested', got')
    <3>1. PICK k \in 0..Len(message) : Outside(message, offset, got, k)
      BY <1>0, <2>1, <2>3, Zenon DEF Reads, Stands
    <3> QED
      BY <1>0, <1>2, <2>3, <3>1, RequestTurn
  <2>4. Reads(message, data, offset', nested', got', stray')
    BY <2>3, Zenon DEF Reads
  <2> QED
    BY <2>1, <2>2, <2>4 DEF SignalInv
<1>3. CASE Signals!ReadField
  <2>1. message' = message /\ data' = data /\ nested.offset < nested.size
    BY <1>3 DEF Signals!ReadField, Signals!InNested
  <2>2. Signals!TypeOK'
    BY <1>0, <1>3, FieldTurnType
  <2>3. ASSUME data = Signals!Sent(message)
        PROVE  stray' = FALSE /\ Stands(message, data, offset', nested', got')
    <3>1. PICK k \in 0..Len(message) : Within(message, data, offset, nested, got, k)
      BY <1>0, <2>1, <2>3, Zenon DEF Reads, Stands
    <3> QED
      BY <1>0, <1>3, <2>3, <3>1, FieldTurn
  <2>4. Reads(message, data, offset', nested', got', stray')
    BY <2>3, Zenon DEF Reads
  <2> QED
    BY <2>1, <2>2, <2>4 DEF SignalInv
<1> QED
  BY <1>1, <1>2, <1>3 DEF Signals!Next

LEMMA PrefixOf ==
  ASSUME NEW S, NEW a \in Seq(S), NEW b, Extends(a, b, S)
  PROVE  Signals!IsPrefix(a, b)
<1>1. PICK r \in Seq(S) : b = a \o r
  BY DEF Extends
<1>2. /\ b \in Seq(S) /\ Len(b) = Len(a) + Len(r) /\ Len(a) \in Nat /\ Len(r) \in Nat
      /\ \A i \in 1..(Len(a) + Len(r)) : b[i] = IF i <= Len(a) THEN a[i] ELSE r[i - Len(a)]
  BY <1>1, ConcatProperties, LenProperties
<1>3. SubSeq(a, 1, Len(a)) = a
  BY SubSeqFull
<1> DEFINE c == SubSeq(b, 1, Len(a))
<1>4. \A i \in 1..Len(a) : i \in 1..Len(b) /\ b[i] = a[i] /\ a[i] \in S
  <2>1. \A i \in 1..Len(a) : i \in 1..(Len(a) + Len(r)) /\ i <= Len(a)
    BY <1>2
  <2>2. \A i \in 1..Len(a) : a[i] \in S
    BY ElementOfSeq
  <2> QED
    BY <1>2, <2>1, <2>2
<1>5. \A i \in 1..Len(a) : b[i] \in S
  BY <1>4
<1>6. 1 \in Int /\ Len(a) \in Int
  BY <1>2
<1>7. c \in Seq(S) /\ Len(c) = Len(a)
  BY <1>2, <1>5, <1>6, SubSeqProperties
<1>8. \A i \in 1..Len(a) : c[i] = b[i]
  BY <1>2, <1>5, <1>6, SubSeqProperties
<1> HIDE DEF c
<1>9. ASSUME NEW i \in 1..Len(c) PROVE c[i] = a[i]
  <2>1. i \in 1..Len(a)
    BY <1>7
  <2> QED
    BY <1>4, <1>8, <2>1
<1>10. c = a
  BY <1>7, <1>9, SeqEqual
<1>11. Len(a) <= Len(b)
  BY <1>2
<1> QED
  BY <1>3, <1>10, <1>11, Zenon DEF Signals!IsPrefix, c

LEMMA SignalsRead == SignalInv => Signals!TypeOK /\ Signals!WholeIsRead
<1> SUFFICES ASSUME SignalInv, data = Signals!Sent(message)
             PROVE  /\ ~stray /\ Signals!IsPrefix(got, Signals!Known)
                    /\ Signals!IsRead => got = Signals!Known /\ offset = Len(data)
  BY DEF SignalInv, Signals!WholeIsRead
<1>1. Signals!TypeOK /\ stray = FALSE /\ Stands(message, data, offset, nested, got)
  BY DEF SignalInv, Reads
<1>2. message \in Messages /\ data \in Seq(0..255) /\ got \in Seq(Seq(Nat)) /\ offset \in Nat
  BY <1>1 DEF Signals!TypeOK
<1>3. /\ message \in Seq(Requests) /\ Len(message) \in Nat /\ Gives(requestKept, Requests, Seq(Nat))
      /\ Signals!Known = Gathered(requestKept, message)
  BY <1>2, MessageTypes, RequestsGive, KnownIs
<1> DEFINE kept(i) == Gathered(requestKept, Upto(message, i))
<1>4. ASSUME NEW i \in 0..Len(message)
      PROVE  kept(i) \in Seq(Seq(Nat)) /\ Extends(kept(i), Signals!Known, Seq(Nat))
  <2>1. \A m \in Seq(Requests) : \A n \in 0..Len(m) :
          /\ Gathered(requestKept, Upto(m, n)) \in Seq(Seq(Nat))
          /\ Extends(Gathered(requestKept, Upto(m, n)), Gathered(requestKept, m), Seq(Nat))
    BY <1>3, GatheredParts
  <2> QED
    BY <1>3, <1>4, <2>1, Zenon
<1>5. PICK k \in 0..Len(message) :
        IF nested.offset < nested.size THEN Within(message, data, offset, nested, got, k)
        ELSE Outside(message, offset, got, k)
  BY <1>1 DEF Stands
<1>6. CASE ~(nested.offset < nested.size)
  <2>1. got = kept(k) /\ offset = Len(Gathered(requestBytes, Upto(message, k)))
    BY <1>5, <1>6, Zenon DEF Outside
  <2>2. Signals!IsPrefix(got, Signals!Known)
    <3>1. Extends(got, Signals!Known, Seq(Nat))
      BY <1>4, <2>1, Zenon
    <3> QED
      BY <1>2, <3>1, PrefixOf
  <2>3. ASSUME offset >= Len(data) PROVE got = Signals!Known /\ offset = Len(data)
    <3>1. /\ offset <= Len(data) /\ Len(data) \in Nat
          /\ k < Len(message) => offset < Len(data)
      BY <1>2, <2>1, NextRequest
    <3>2. k = Len(message) /\ offset = Len(data)
      BY <1>2, <1>3, <2>3, <3>1
    <3>3. kept(Len(message)) = Signals!Known
      BY <1>3, NothingGathered
    <3> QED
      BY <2>1, <3>2, <3>3, Zenon
  <2> QED
    BY <1>1, <2>2, <2>3, Zenon DEF Signals!IsRead
<1>7. CASE nested.offset < nested.size
  <2> DEFINE r == message[k + 1]
             n == r.field.num
             parts(j) == Gathered(fieldKept(n), Upto(r.parts, j))
  <2>1. Within(message, data, offset, nested, got, k)
    BY <1>5, <1>7, Zenon
  <2>2. PICK j \in 0..Len(r.parts) : /\ Inside(data, nested, r, j)
                                    /\ got = kept(k) \o parts(j)
    BY <2>1, Zenon DEF Within
  <2>3. k < Len(message) /\ k \in Nat /\ k + 1 \in 0..Len(message)
    <3>1. k < Len(message)
      BY <2>1, Zenon DEF Within
    <3> QED
      BY <1>3, <3>1
  <2>4. r \in Requests
    BY <1>3, <2>3, UptoNext
  <2>5. r.parts \in Seq(Fields) /\ Signals!KeptOf(r) = Gathered(fieldKept(n), r.parts)
    <3>1. Signals!IsNested(n, r.field.wire)
      BY <2>2, Zenon DEF Inside
    <3> QED
      BY <2>4, <3>1, RequestTypes
  <2>6. kept(k + 1) = kept(k) \o Signals!KeptOf(r)
    <3>1. \A m \in Seq(Requests) : \A i \in 0..Len(m) : i < Len(m) =>
            Gathered(requestKept, Upto(m, i + 1)) = Gathered(requestKept, Upto(m, i)) \o requestKept[m[i + 1]]
      BY <1>3, GatheredParts
    <3>2. requestKept[r] = Signals!KeptOf(r)
      BY <2>4, Zenon DEF requestKept
    <3> QED
      BY <1>3, <2>3, <3>1, <3>2, Zenon
  <2>7. parts(j) \in Seq(Seq(Nat)) /\ Extends(parts(j), Signals!KeptOf(r), Seq(Nat))
    <3>1. Gives(fieldKept(n), Fields, Seq(Nat))
      BY FieldsGive
    <3>2. \A h : Gives(h, Fields, Seq(Nat)) =>
            \A m \in Seq(Fields) : \A i \in 0..Len(m) :
              /\ Gathered(h, Upto(m, i)) \in Seq(Seq(Nat))
              /\ Extends(Gathered(h, Upto(m, i)), Gathered(h, m), Seq(Nat))
      BY GatheredParts
    <3> QED
      BY <2>5, <3>1, <3>2, Zenon
  <2>8. /\ kept(k) \in Seq(Seq(Nat)) /\ Extends(kept(k + 1), Signals!Known, Seq(Nat))
    BY <1>4, <2>3, Zenon
  <2> HIDE DEF kept, parts, r, n
  <2>9. PICK s \in Seq(Seq(Nat)), t \in Seq(Seq(Nat)) :
          Signals!KeptOf(r) = parts(j) \o s /\ Signals!Known = kept(k + 1) \o t
    BY <2>7, <2>8, Zenon DEF Extends
  <2>10. Signals!Known = got \o (s \o t) /\ s \o t \in Seq(Seq(Nat))
    <3>1. kept(k) \o (parts(j) \o s) = got \o s
      BY <2>2, <2>7, <2>8, <2>9, ConcatKept, Zenon
    <3>2. (got \o s) \o t = got \o (s \o t) /\ s \o t \in Seq(Seq(Nat))
      BY <1>2, <2>9, ConcatKept, Zenon
    <3> QED
      BY <2>6, <2>9, <3>1, <3>2, Zenon
  <2>11. Signals!IsPrefix(got, Signals!Known)
    <3>1. Extends(got, Signals!Known, Seq(Nat))
      BY <2>10, Zenon DEF Extends
    <3> QED
      BY <1>2, <3>1, PrefixOf
  <2> QED
    BY <1>1, <1>7, <2>11, Zenon DEF Signals!IsRead, Signals!InNested
<1> QED
  BY <1>6, <1>7

(* pb_reader reads back from a complete message what pb_writer wrote: the  *)
(* known fields of each offer, answer and trickle, whatever the fields     *)
(* between them hold; and it never reads a byte behind the message.        *)
THEOREM SignalsStayRead == Signals!Spec => [](Signals!TypeOK /\ Signals!WholeIsRead)
<1>1. Signals!Init => SignalInv
  BY SignalsStart
<1>2. SignalInv /\ [Signals!Next]_Signals!vars => SignalInv'
  BY SignalsStep
<1>3. SignalInv => Signals!TypeOK /\ Signals!WholeIsRead
  BY SignalsRead
<1> QED
  BY <1>1, <1>2, <1>3, PTL DEF Signals!Spec
=============================================================================
