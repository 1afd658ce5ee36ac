----------------------------- MODULE PulseVoice -----------------------------
(***************************************************************************)
(* pulse_voice_client: clients that open a playback and a recording stream *)
(* of PulseAudio at their first use, close them in shutdown, and may be    *)
(* moved.                                                                  *)
(*                                                                         *)
(* A client owns its streams by a unique_ptr to an impl without destructor.*)
(* A client that was moved from has a null pointer, which every operation  *)
(* uses, the destructor's shutdown among them.                             *)
(***************************************************************************)
EXTENDS Naturals, FiniteSets

CONSTANTS
  Client,      \* the clients; each constructed one has an impl of its own
  Null         \* a null pointer

ASSUME NullAssumption == Null \notin Client

Direction == {"play", "record"}
-----------------------------------------------------------------------------
VARIABLES
  life,          \* each client: not constructed, alive or destroyed
  pimpl,         \* pimpl_ of each client: the client its impl was made for
  initialized,   \* of each impl
  streams,       \* the open streams of each impl
  overwritten,   \* history: impls that a move assignment has deleted
  culprit        \* the client whose null pointer was used, or Null

vars == <<life, pimpl, initialized, streams, overwritten, culprit>>

TypeOK ==
  /\ life \in [Client -> {"unborn", "alive", "destroyed"}]
  /\ pimpl \in [Client -> Client \cup {Null}]
  /\ initialized \in [Client -> BOOLEAN]
  /\ streams \in [Client -> SUBSET Direction]
  /\ overwritten \in SUBSET Client
  /\ culprit \in Client \cup {Null}

Init ==
  /\ life = [c \in Client |-> "unborn"]
  /\ pimpl = [c \in Client |-> Null]
  /\ initialized = [c \in Client |-> FALSE]
  /\ streams = [c \in Client |-> {}]
  /\ overwritten = {} /\ culprit = Null
-----------------------------------------------------------------------------
Alive(c) == life[c] = "alive" /\ culprit = Null

(* An operation of a client that was moved from. *)
UseNull(c) ==
  /\ Alive(c) /\ pimpl[c] = Null
  /\ culprit' = c
  /\ UNCHANGED <<life, pimpl, initialized, streams, overwritten>>

Construct(c) ==
  /\ life[c] = "unborn" /\ culprit = Null
  /\ life' = [life EXCEPT ![c] = "alive"]
  /\ pimpl' = [pimpl EXCEPT ![c] = c]
  /\ UNCHANGED <<initialized, streams, overwritten, culprit>>

(* Faulty: copies the pointer. *)
MoveConstructCopy(c, from) ==
  /\ c # from /\ life[c] = "unborn" /\ Alive(from)
  /\ life' = [life EXCEPT ![c] = "alive"]
  /\ pimpl' = [pimpl EXCEPT ![c] = pimpl[from]]
  /\ UNCHANGED <<initialized, streams, overwritten, culprit>>

MoveConstruct(c, from) ==
  /\ c # from /\ life[c] = "unborn" /\ Alive(from)
  /\ life' = [life EXCEPT ![c] = "alive"]
  /\ pimpl' = [pimpl EXCEPT ![c] = pimpl[from], ![from] = Null]
  /\ UNCHANGED <<initialized, streams, overwritten, culprit>>

(* It deletes the impl of c, and closes no stream of it. *)
MoveAssign(c, from) ==
  /\ c # from /\ Alive(c) /\ Alive(from)
  /\ pimpl' = [pimpl EXCEPT ![c] = pimpl[from], ![from] = Null]
  /\ overwritten' = overwritten \cup ({pimpl[c]} \ {Null})
  /\ UNCHANGED <<life, initialized, streams, culprit>>

Initialize(c) ==
  /\ Alive(c) /\ pimpl[c] # Null
  /\ initialized' = [initialized EXCEPT ![pimpl[c]] = TRUE]
  /\ UNCHANGED <<life, pimpl, streams, overwritten, culprit>>

Close(i) ==
  /\ streams' = [streams EXCEPT ![i] = {}]
  /\ initialized' = [initialized EXCEPT ![i] = FALSE]

Shutdown(c) ==
  /\ Alive(c) /\ pimpl[c] # Null
  /\ Close(pimpl[c])
  /\ UNCHANGED <<life, pimpl, overwritten, culprit>>

(* A stream is opened unless it is open; the server may refuse it.  An     *)
(* error of the stream later changes nothing.                              *)
UseStream(c, d) ==
  /\ Alive(c) /\ pimpl[c] # Null /\ initialized[pimpl[c]]
  /\ streams' = [streams EXCEPT ![pimpl[c]] = @ \cup {d}]
  /\ UNCHANGED <<life, pimpl, initialized, overwritten, culprit>>

(* play_tone and play_chime call it. *)
WriteAudio(c) == UseStream(c, "play")

RecordMic(c) == UseStream(c, "record")

Destroy(c) ==
  /\ Alive(c) /\ pimpl[c] # Null
  /\ Close(pimpl[c])
  /\ life' = [life EXCEPT ![c] = "destroyed"]
  /\ pimpl' = [pimpl EXCEPT ![c] = Null]
  /\ UNCHANGED <<overwritten, culprit>>

Next ==
  \/ \E c \in Client :
       \/ Construct(c) \/ Initialize(c) \/ Shutdown(c) \/ Destroy(c) \/ UseNull(c)
       \/ WriteAudio(c) \/ RecordMic(c)
  \/ \E c, from \in Client : MoveConstruct(c, from) \/ MoveAssign(c, from)

Spec == Init /\ [][Next]_vars
-----------------------------------------------------------------------------
Owner(i) == {c \in Client : life[c] = "alive" /\ pimpl[c] = i}

(* Whatever moves there were, no two clients own the same streams, which   *)
(* both would close.                                                       *)
OwnedOnce == \A i \in Client : Cardinality(Owner(i)) <= 1

(* An open stream has a client that will close it, unless a move assignment*)
(* has deleted its impl; and that client was initialised.                  *)
OpenIsOwned ==
  \A i \in Client : streams[i] # {} => initialized[i] /\ (Owner(i) # {} \/ i \in overwritten)

(* Streams are closed by one client each, whatever moves there were. *)
StreamsAreKept == OwnedOnce /\ OpenIsOwned
=============================================================================
