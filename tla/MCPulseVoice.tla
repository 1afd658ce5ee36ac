---------------------------- MODULE MCPulseVoice ----------------------------
(***************************************************************************)
(* Instances of the modules of the voice: PulseAudio clients, a connection,*)
(* and the messages of its signalling.  They share no state: the initial   *)
(* state chooses a part, and only that part's instance takes steps.        *)
(***************************************************************************)
EXTENDS PulseVoice

CONSTANTS
  FrameSize, MaxSamples, MaxConnects, MaxTracks,   \* of VoiceConnection
  Word, WordBytes, IntWord, Fields, Requests, Messages   \* of SignalCodec

VARIABLES
  part,
  app, errand, locked, verdict, socket, asked, callback, joined, failed, peers, encoder,
  running, loop, queue, connects, terminated, answered, tracks, unready, raced, serverClosed,
  timedOut, unfit,
  message, data, offset, nested, got, stray

Voice == INSTANCE VoiceConnection

Signals == INSTANCE SignalCodec

(* The format alone, in which the values of Requests are written. *)
Format == INSTANCE SignalCodec WITH Fields <- {}, Requests <- {}, Messages <- {}

ASSUME VoiceConstants == Voice!ConstantsAssumption
ASSUME SignalConstants == Signals!ConstantsAssumption

(* Values of Fields: fields that are known, that are not, whose number or  *)
(* wire type alone is known, and numbers about 128, 16384 and the bounds of*)
(* int and Word; some hold bytes that look like fields.                    *)
Field(n, w, v) == [num |-> n, wire |-> w, value |-> v]
Eight == [i \in 1..8 |-> 8 + i]

KnownFields ==
  {Field(1, 2, <<>>), Field(1, 2, <<10, 1, 65>>), Field(2, 0, 0), Field(2, 0, 127),
   Field(2, 0, 128), Field(2, 0, 16384), Field(2, 0, 65535), Field(2, 2, <<16, 1>>)}
OtherFields ==
  {Field(1, 2, <<11, 12, 65>>), Field(1, 0, 300), Field(17, 2, <<16, 200, 10>>),
   Field(3, 1, Eight), Field(3, 5, <<16, 1, 16, 2>>)}

(* Requests: a trickle of at most two parts, the descriptions of at most   *)
(* one, and fields that the outer reader skips.                            *)
Request(n, parts) == [field |-> Field(n, 2, Format!Write(parts)), parts |-> parts]
UpToLength(n, S) == UNION {[1..k -> S] : k \in 0..n}
SomeRequests ==
  {Request(4, s) : s \in UpToLength(2, KnownFields \cup OtherFields)}
    \cup {Request(n, s) : n \in {2, 3}, s \in UpToLength(1, KnownFields)}
SkippedRequests ==
  {[field |-> f, parts |-> <<>>] :
     f \in {Field(4, 0, 18), Field(5, 2, <<34, 3, 16>>), Field(17, 1, Eight), Field(2, 5, <<34, 2, 16, 0>>)}}
FewRequests ==
  SkippedRequests
    \cup {Request(4, s) : s \in {<<>>, <<Field(2, 0, 1)>>, <<Field(1, 2, <<65>>), Field(2, 0, 300)>>}}
    \cup {Request(3, <<Field(2, 2, <<7>>), Field(3, 2, <<10, 1>>)>>)}

AllRequests == SomeRequests \cup FewRequests
SomeMessages == {<<r>> : r \in SomeRequests} \cup UpToLength(2, FewRequests)
AllFields == {r.field : r \in AllRequests} \cup UNION {{r.parts[i] : i \in DOMAIN r.parts} : r \in AllRequests}

connectionVars ==
  <<app, errand, locked, verdict, socket, asked, callback, joined, failed, peers, encoder, running,
    loop, queue, connects, terminated, answered, tracks, unready, raced, serverClosed, timedOut,
    unfit>>
signalVars == <<message, data, offset, nested, got, stray>>
allVars == <<part, vars, connectionVars, signalVars>>
-----------------------------------------------------------------------------
SignalsIdle ==
  /\ message = <<>> /\ data = <<>> /\ offset = 0 /\ got = <<>> /\ stray = FALSE
  /\ nested = [num |-> 0, base |-> 0, size |-> 0, offset |-> 0]

MCInit ==
  /\ Init /\ Voice!Init
  /\ \/ part \in {"streams", "connection"} /\ SignalsIdle
     \/ part = "signals" /\ Signals!Init

MCNext ==
  /\ part' = part
  /\ \/ part = "streams" /\ Next /\ UNCHANGED <<connectionVars, signalVars>>
     \/ part = "connection" /\ Voice!Next /\ UNCHANGED <<vars, signalVars>>
     \/ part = "signals" /\ Signals!Next /\ UNCHANGED <<vars, connectionVars>>

Connection(step) == part = "connection" /\ ~terminated /\ step

(* The fairness of VoiceConnection and of SignalCodec. *)
MCSpec ==
  /\ MCInit /\ [][MCNext]_allVars
  /\ WF_connectionVars(Connection(Voice!AppStep))
  /\ WF_connectionVars(Connection(Voice!SocketStep))
  /\ WF_connectionVars(Connection(Voice!LoopStep))
  /\ SF_connectionVars(Connection(asked /\ Voice!Close))
  /\ WF_signalVars(part = "signals" /\ Signals!Next)
-----------------------------------------------------------------------------
(* ConnectionIsSound and CallsReturn of VoiceConnection. *)
ConnectionIsSound == Voice!ConnectionIsSound
CallsReturn == part = "connection" => Voice!CallsReturn

(* MessagesAreRead of SignalCodec. *)
MessagesAreRead == part = "signals" => Signals!MessagesAreRead
=============================================================================
