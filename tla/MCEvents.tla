------------------------------ MODULE MCEvents -------------------------------
(***************************************************************************)
(* EventPipeline, and an instance of EventRouting, which goes on where it  *)
(* ends.  They share no variables: the initial state chooses which of them *)
(* takes steps, and for EventRouting between two sets of payloads.         *)
(***************************************************************************)
EXTENDS EventPipeline

CONSTANTS Alone, Together, Item, Type, Inside, About, BadItem, User, Handler, Key    \* of EventRouting

VARIABLES part, handlers, ignored, pc, todo, calling, log, number, atStart, free, shut

routingVars == <<handlers, ignored, pc, todo, calling, log, number, atStart, free, shut>>
allVars == <<part, vars, routingVars>>

Routing == INSTANCE EventRouting
  WITH Payload <- Alone \cup Together, Event <- Item, Malformed <- BadItem

ASSUME Items == Routing!EventAssumption

(* Values of the constants: a Bulk (1) of a Bulk of a message and a Ping,  *)
(* of an event without a type, one of an unknown type and a server one of  *)
(* whose roles is no object; a Bulk (10) of an unknown event and a message. *)
Sent == 1..10
Types == <<"Bulk", "Bulk", "Message", "Ping", "none", "ServerCreate",
           "Ready", "Pong", "Unknown", "Bulk">>
Nested == [e \in Sent |->
  CASE e = 1 -> <<2, 5, 9, 6>> [] e = 2 -> <<3, 4>> [] e = 10 -> <<9, 3>> [] OTHER -> <<>>]
FromAuthor == [e \in Sent |-> CHOOSE u \in User : TRUE]

(* The payloads of Alone come one at a time and to any handlers; those of  *)
(* Together at once and to at most one handler, of messages.               *)
OneHandler ==
  [k \in Key |-> IF k = "Message" THEN <<CHOOSE h \in Handler : TRUE>> ELSE <<>>]

Bulk == part = "bulk" /\ \A p \in Together : pc[p] = "waiting"
Mixed ==
  /\ part = "mixed" /\ \A p \in Alone : pc[p] = "waiting"
  /\ handlers \in {Routing!NoHandlers, OneHandler}
-----------------------------------------------------------------------------
MCInit == Init /\ Routing!Init /\ part \in {"pipeline", "bulk", "mixed"}

MCNext ==
  /\ part' = part
  /\ \/ part = "pipeline" /\ Next /\ UNCHANGED routingVars
     \/ Routing!Next /\ (Bulk \/ Mixed)' /\ UNCHANGED vars

(* The fairness of EventPipeline and of EventRouting. *)
MCSpec ==
  /\ MCInit /\ [][MCNext]_allVars
  /\ WF_vars(part = "pipeline" /\ NotifyOne)
  /\ WF_vars(part = "pipeline" /\ Worker)
  /\ \A e \in Event : WF_vars(part = "pipeline" /\ FinishHandler(e))
  /\ WF_vars(part = "pipeline" /\ Destructor)
  /\ \A p \in Together : WF_routingVars(part = "mixed" /\ Routing!Thread(p))
-----------------------------------------------------------------------------
(* RoutingIsSound and PayloadsEnd of EventRouting. *)
RoutingIsSound == Routing!RoutingIsSound

PayloadsEnd == \A p \in Together : <>(part = "mixed" => Routing!Ended(p))
=============================================================================
