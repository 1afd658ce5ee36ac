----------------------------- MODULE Paginator ------------------------------
(***************************************************************************)
(* utils::paginator: a message whose pages its owner turns by reactions.   *)
(*                                                                         *)
(* The answer to each send has a thread of its own, which puts two arrows  *)
(* under the message and registers a listener, which stays.  Each reaction *)
(* is handled by every listener in turn on a thread of its own, without a  *)
(* lock: the page is tested, changed, and read again; the edit that shows  *)
(* it has a thread, too.  All of them test the flag alive once and use the *)
(* paginator after that.                                                   *)
(***************************************************************************)
EXTENDS Integers, FiniteSets

CONSTANTS
  Pages,       \* the pages added before send
  MaxSends,    \* bound: calls of send
  Press        \* the reactions

ConstantsAssumption == Pages \in Nat \ {0} /\ MaxSends \in Nat

(* The owner's arrow to the next page and back, what is neither of them or *)
(* of another user, and the bot's own reactions.                           *)
Sign == {"right", "left", "none", "bot"}
-----------------------------------------------------------------------------
VARIABLES
  alive,         \* the flag that outlives the paginator
  sends,         \* the calls of send
  arrival,       \* the thread of each send's answer
  listeners,     \* how many listeners are registered
  messageId,     \* message_id_: the message whose answer came last
  currentPage,
  handler,       \* the thread of each reaction
  overlapped,    \* history: two handlers worked on the page at a time, or
                 \* send set it under one
  usedFreed,     \* history: a member was used after the destructor
  caught,        \* history: the destructor ran while a thread was beyond its test
  outOfRange     \* history: pages_ was read outside of its bounds

vars == <<alive, sends, arrival, listeners, messageId, currentPage, handler,
          overlapped, usedFreed, caught, outOfRange>>

HandlerType ==
  [pc : {"unmade", "listener", "alive", "step", "wrap", "read", "done"},
   message : 0..MaxSends,      \* the message it was made on
   sign : Sign,
   left : Nat,                 \* listeners of its snapshot whose call has not ended
   edits : Nat,                \* edits of its listeners that are not answered
   answered : Nat,             \* callbacks of edits that found the paginator alive
   taken : BOOLEAN]            \* the reaction is taken back

TypeOK ==
  /\ alive \in BOOLEAN
  /\ sends \in 0..MaxSends /\ listeners \in Nat
  /\ arrival \in [1..MaxSends -> {"unsent", "sent", "alive", "asleep", "done"}]
  /\ messageId \in 0..MaxSends
  /\ currentPage \in Int
  /\ handler \in [Press -> HandlerType]
  /\ {overlapped, usedFreed, caught, outOfRange} \subseteq BOOLEAN

Init ==
  /\ alive = TRUE /\ sends = 0 /\ listeners = 0
  /\ arrival = [m \in 1..MaxSends |-> "unsent"]
  /\ messageId = 0 /\ currentPage = 0
  /\ handler = [p \in Press |-> [pc |-> "unmade", message |-> 0, sign |-> "none",
                                 left |-> 0, edits |-> 0, answered |-> 0, taken |-> FALSE]]
  /\ overlapped = FALSE /\ usedFreed = FALSE /\ caught = FALSE /\ outOfRange = FALSE
-----------------------------------------------------------------------------
sendVars == <<alive, sends, arrival, listeners, messageId>>

Busy == \E p \in Press : handler[p].pc \in {"step", "wrap", "read"}

(* Threads that use the paginator without a further test. *)
BeyondTest ==
  \/ \E m \in 1..MaxSends : arrival[m] \in {"alive", "asleep"}
  \/ \E p \in Press : handler[p].pc \in {"alive", "step", "wrap", "read"} \/ handler[p].answered > 0

UseThis == usedFreed' = (usedFreed \/ ~alive)

Send ==
  /\ alive /\ sends < MaxSends
  /\ sends' = sends + 1 /\ currentPage' = 0
  /\ arrival' = [arrival EXCEPT ![sends + 1] = "sent"]
  /\ overlapped' = (overlapped \/ Busy)
  /\ UNCHANGED <<alive, listeners, messageId, handler, usedFreed, caught, outOfRange>>

(* The callback of send_message: failure, and a dead paginator, end it.    *)
Arrive(m) ==
  /\ arrival[m] = "sent"
  /\ \/ arrival' = [arrival EXCEPT ![m] = "done"]
     \/ alive /\ arrival' = [arrival EXCEPT ![m] = "alive"]
  /\ UNCHANGED <<alive, sends, listeners, messageId, currentPage, handler, overlapped,
                 usedFreed, caught, outOfRange>>

(* The message is kept; with pages to turn, the first arrow, and a sleep.  *)
KeepMessage(m) ==
  /\ arrival[m] = "alive"
  /\ messageId' = m
  /\ arrival' = [arrival EXCEPT ![m] = IF Pages > 1 THEN "asleep" ELSE "done"]
  /\ UseThis
  /\ UNCHANGED <<alive, sends, listeners, currentPage, handler, overlapped, caught, outOfRange>>

(* After it the second arrow and the listener. *)
Listen(m) ==
  /\ arrival[m] = "asleep"
  /\ arrival' = [arrival EXCEPT ![m] = "done"]
  /\ listeners' = listeners + 1
  /\ UseThis
  /\ UNCHANGED <<alive, sends, messageId, currentPage, handler, overlapped, caught, outOfRange>>

(* A reaction to one of the messages: its thread calls every listener that *)
(* is registered by now; without one, nothing happens.                     *)
React(p) ==
  /\ handler[p].pc = "unmade" /\ listeners > 0
  /\ \E m \in 1..sends, sign \in Sign :
       handler' = [handler EXCEPT ![p].pc = "listener", ![p].message = m, ![p].sign = sign,
                                  ![p].left = listeners]
  /\ UNCHANGED <<sendVars, currentPage, overlapped, usedFreed, caught, outOfRange>>

(* A thread when the call of a listener has ended; it ends with the last,  *)
(* and nobody asks what the reaction was.                                  *)
Onward(h) ==
  IF h.left > 1 THEN [h EXCEPT !.left = @ - 1, !.pc = "listener"]
  ELSE [h EXCEPT !.left = 0, !.pc = "done", !.sign = "none"]

(* Faulty: does not test the flag. *)
CallAnyway(p) ==
  /\ handler[p].pc = "listener"
  /\ handler' = [handler EXCEPT ![p].pc = "alive"]
  /\ UNCHANGED <<sendVars, currentPage, overlapped, usedFreed, caught, outOfRange>>

(* The next listener tests the flag. *)
Call(p) ==
  /\ handler[p].pc = "listener"
  /\ handler' = [handler EXCEPT ![p] = IF alive THEN [@ EXCEPT !.pc = "alive"] ELSE Onward(@)]
  /\ UNCHANGED <<sendVars, currentPage, overlapped, usedFreed, caught, outOfRange>>

Ours(p) ==
  handler[p].pc = "alive" /\ handler[p].message = messageId /\ handler[p].sign # "bot"

(* Another message, or the bot itself. *)
Skip(p) ==
  /\ handler[p].pc = "alive" /\ ~Ours(p)
  /\ handler' = [handler EXCEPT ![p] = Onward(@)]
  /\ UseThis
  /\ UNCHANGED <<sendVars, currentPage, overlapped, caught, outOfRange>>

(* A reaction that turns no page is taken back. *)
Refuse(p) ==
  /\ Ours(p) /\ handler[p].sign = "none"
  /\ handler' = [handler EXCEPT ![p] = [Onward(@) EXCEPT !.taken = TRUE]]
  /\ UseThis
  /\ UNCHANGED <<sendVars, currentPage, overlapped, caught, outOfRange>>

(* The test of the page chooses the change: to the next page, or from the  *)
(* last to the first, and the like to the left.                            *)
AtEdge(p) == IF handler[p].sign = "left" THEN currentPage <= 0 ELSE currentPage >= Pages - 1

TestPage(p) ==
  /\ Ours(p) /\ handler[p].sign \in {"right", "left"}
  /\ handler' = [handler EXCEPT ![p].pc = IF AtEdge(p) THEN "wrap" ELSE "step"]
  /\ overlapped' = (overlapped \/ Busy)
  /\ UseThis
  /\ UNCHANGED <<sendVars, currentPage, caught, outOfRange>>

ChangePage(p) ==
  /\ \/ /\ handler[p].pc = "step"
        /\ currentPage' = IF handler[p].sign = "left" THEN currentPage - 1 ELSE currentPage + 1
     \/ /\ handler[p].pc = "wrap"
        /\ currentPage' = IF handler[p].sign = "left" THEN Pages - 1 ELSE 0
  /\ handler' = [handler EXCEPT ![p].pc = "read"]
  /\ UseThis
  /\ UNCHANGED <<sendVars, overlapped, caught, outOfRange>>

(* The page is read for the edit. *)
ReadPage(p) ==
  /\ handler[p].pc = "read"
  /\ outOfRange' = (outOfRange \/ currentPage \notin 0..(Pages - 1))
  /\ handler' = [handler EXCEPT ![p] = [Onward(@) EXCEPT !.edits = handler[p].edits + 1]]
  /\ UseThis
  /\ UNCHANGED <<sendVars, currentPage, overlapped, caught>>

(* The callback of an edit, done or failed, tests the flag ...             *)
Edited(p) ==
  /\ handler[p].edits > 0
  /\ handler' = [handler EXCEPT ![p].edits = @ - 1, ![p].answered = IF alive THEN @ + 1 ELSE @]
  /\ UNCHANGED <<sendVars, currentPage, overlapped, usedFreed, caught, outOfRange>>

(* ... and takes the reaction back. *)
TakeBack(p) ==
  /\ handler[p].answered > 0
  /\ handler' = [handler EXCEPT ![p].answered = @ - 1, ![p].taken = TRUE]
  /\ UseThis
  /\ UNCHANGED <<sendVars, currentPage, overlapped, caught, outOfRange>>

Destroy ==
  /\ alive /\ alive' = FALSE
  /\ caught' = BeyondTest
  /\ UNCHANGED <<sends, arrival, listeners, messageId, currentPage, handler,
                 overlapped, usedFreed, outOfRange>>

Turn(p) == TestPage(p) \/ ChangePage(p) \/ ReadPage(p)

Handle(p) == Call(p) \/ Skip(p) \/ Refuse(p) \/ Turn(p) \/ Edited(p) \/ TakeBack(p)

Next ==
  \/ Send \/ Destroy
  \/ \E m \in 1..MaxSends : Arrive(m) \/ KeepMessage(m) \/ Listen(m)
  \/ \E p \in Press : React(p) \/ Handle(p)

(* Handlers end, edits are answered or given up. *)
Spec == Init /\ [][Next]_vars /\ \A p \in Press : WF_vars(Handle(p))
-----------------------------------------------------------------------------
(* The page that is shown exists, unless two handlers worked on it at a    *)
(* time, or send did under one.                                            *)
OutOfRangeHasCause == outOfRange => overlapped

(* A reaction that a listener finds on its message is taken back, unless   *)
(* the paginator dies or another message takes its place.                  *)
ReactionsAreTakenBack ==
  \A p \in Press :
    Ours(p) ~> handler[p].taken \/ ~alive \/ handler[p].message # messageId

(* One reaction turns the pages by one, if the message was sent once. *)
TurnIsOne ==
  [][\A p \in Press :
       ChangePage(p) /\ ~overlapped /\ sends = 1
         => (currentPage' - currentPage) % Pages
              = (IF handler[p].sign = "right" THEN 1 ELSE -1) % Pages]_vars

(* A paginator is used after its destructor only by a thread that was      *)
(* beyond its test of the flag when the destructor ran: the answer of a    *)
(* send, a listener, the callback of an edit.  The listeners that stay     *)
(* registered leave it alone.                                              *)
FreedUseHasCause == usedFreed => caught

(* A menu turns by one page, and leaves its pages only by a race.          *)
PagesAreSound == [](TypeOK /\ OutOfRangeHasCause /\ FreedUseHasCause) /\ TurnIsOne
=============================================================================
