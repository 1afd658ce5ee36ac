----------------------------- MODULE EventStream -----------------------------
(***************************************************************************)
(* What the gateway promises about the events it receives, without its     *)
(* queue, worker and threads: events leave the stream in the order they    *)
(* came; an event that controls the session is handled before any later    *)
(* event leaves; any other event is handled concurrently, once, or is      *)
(* discarded; and while the gateway is open every event leaves.            *)
(***************************************************************************)
EXTENDS Sequences

CONSTANTS Event, Control

VARIABLES
  received,       \* every event the server sent, in order
  inbox,          \* those that did not leave the stream yet
  active,         \* those being handled concurrently
  handled,        \* those that were handled, in the order they finished
  open            \* the gateway is not being destroyed

vars == <<received, inbox, active, handled, open>>

Elements(s) == {s[i] : i \in DOMAIN s}

Init ==
  /\ received = <<>> /\ inbox = <<>> /\ handled = <<>>
  /\ active = {}
  /\ open = TRUE

Receive(e) ==
  /\ e \notin Elements(received)
  /\ received' = Append(received, e)
  /\ inbox' = Append(inbox, e)
  /\ UNCHANGED <<active, handled, open>>

Leave ==
  /\ inbox # <<>>
  /\ inbox' = Tail(inbox)
  /\ \/ /\ Head(inbox) \in Control
        /\ handled' = Append(handled, Head(inbox))
        /\ UNCHANGED active
     \/ /\ Head(inbox) \notin Control
        /\ active' \in {active, active \cup {Head(inbox)}}
        /\ UNCHANGED handled
  /\ UNCHANGED <<received, open>>

Finish(e) ==
  /\ e \in active
  /\ active' = active \ {e}
  /\ handled' = Append(handled, e)
  /\ UNCHANGED <<received, inbox, open>>

Close ==
  /\ open' = FALSE
  /\ UNCHANGED <<received, inbox, active, handled>>

Next == Leave \/ Close \/ \E e \in Event : Receive(e) \/ Finish(e)

Spec ==
  /\ Init /\ [][Next]_vars
  /\ WF_vars(open /\ Leave)
  /\ \A e \in Event : WF_vars(Finish(e))
=============================================================================
