---------------------------- MODULE OneShotReply ----------------------------
(***************************************************************************)
(* What a caller of cluster::await_message is promised, without saying     *)
(* how: every request that was made is answered exactly once, either with  *)
(* a message or with a timeout, and a request that was not made is never   *)
(* answered.                                                               *)
(***************************************************************************)
EXTENDS Sequences

CONSTANT Request            \* the calls of await_message that pass a callback

VARIABLES
  asked,                    \* the requests made so far
  replies                   \* what each callback was invoked with, in order

vars == <<asked, replies>>

Answer == {"message", "timeout"}

Init ==
  /\ asked = {}
  /\ replies = [r \in Request |-> <<>>]

Ask(r) ==
  /\ r \notin asked
  /\ asked' = asked \cup {r}
  /\ UNCHANGED replies

Reply(r) ==
  /\ r \in asked
  /\ replies[r] = <<>>
  /\ \E a \in Answer : replies' = [replies EXCEPT ![r] = <<a>>]
  /\ UNCHANGED asked

Next == \E r \in Request : Ask(r) \/ Reply(r)

Spec ==
  /\ Init /\ [][Next]_vars
  /\ \A r \in Request : WF_vars(Reply(r))
=============================================================================
