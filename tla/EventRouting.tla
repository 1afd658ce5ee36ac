---------------------------- MODULE EventRouting ----------------------------
(***************************************************************************)
(* What gateway::handle_event does with a payload: how its events, those   *)
(* of a Bulk included, reach the handlers of event_dispatcher.             *)
(*                                                                         *)
(* Ping, Pong, Authenticated and Ready are handled on the worker's thread, *)
(* one at a time; every other payload on a detached thread of its own.     *)
(* A thread keeps a list of the events it has yet to handle; the events of *)
(* a Bulk go to its front, as the recursion of handle_event has it.  For   *)
(* each event it calls the raw handlers, then acts on the event's type: it *)
(* answers, drops the event or calls the handlers of the type.  It calls   *)
(* the copy of a list of handlers it made under mutex_, so that handlers   *)
(* may be added meanwhile, also by a handler.  What throws ends it.        *)
(***************************************************************************)
EXTENDS Naturals, SequencesExt

CONSTANTS
  Payload,     \* the payloads that arrive, each an event
  Event,       \* all events, those inside others too
  Type,        \* the type of each event; "none": j["type"] is no string
  Inside,      \* the events in "v" of each event, in order
  About,       \* the user an event is of
  Malformed,   \* events whose fields are not of the kind the code takes
  User,
  Handler,     \* the bot's callbacks, each registered once
  Key          \* the lists of handlers that are used: "raw" or a type

(* The lists of handlers, each of the types that follow one another in     *)
(* handle_event.                                                           *)
MessageTypes ==
  {"Message", "MessageUpdate", "MessageDelete", "MessageReact", "MessageUnreact"}
ChannelTypes == {"ChannelCreate", "ChannelUpdate", "ChannelDelete"}
ServerTypes == {"ServerCreate", "ServerUpdate", "ServerDelete"}
MemberTypes ==
  {"ServerMemberJoin", "ServerMemberLeave", "ServerMemberUpdate", "UserUpdate"}
TypingTypes == {"ChannelStartTyping", "ChannelStopTyping"}
RoleTypes == {"ServerRoleCreate", "ServerRoleUpdate", "ServerRoleDelete"}
UncheckedTypes == {"UserSettingsUpdate", "UserPresenceUpdate", "WebhookUpdate"}
DispatchedTypes ==
  MessageTypes \cup ChannelTypes \cup ServerTypes \cup MemberTypes
    \cup TypingTypes \cup RoleTypes \cup UncheckedTypes
    \cup {"VoiceStateUpdate", "Ready", "Error"}

(* Types of which a field is taken as a string without a test, or that     *)
(* hold roles, alone or in a server's map of them, each written to as an   *)
(* object without a test.                                                  *)
ThrowingTypes ==
  UncheckedTypes
    \cup {"VoiceStateUpdate", "ServerRoleCreate", "ServerCreate", "Ready"}

(* Types whose dispatch asks should_ignore_user. *)
TestedMessages == {"Message", "MessageReact", "MessageUnreact"}
TestedMembers == MemberTypes
TestedPresence == TypingTypes \cup {"VoiceStateUpdate"}
TestedTypes == TestedMessages \cup TestedMembers \cup TestedPresence

(* Types handle_event answers or takes note of itself. *)
OwnTypes == {"Authenticated", "Ping", "Pong"}
WorkerTypes == OwnTypes \cup {"Ready"}

(* An event is in no event inside it: of any events one holds none of them. *)
EventAssumption ==
  /\ Payload \subseteq Event
  /\ Inside \in [Event -> Seq(Event)]
  /\ \A S \in SUBSET Event \ {{}} : \E e \in S : \A i \in DOMAIN Inside[e] : Inside[e][i] \notin S
  /\ \A e \in Event : Inside[e] # <<>> => Type[e] = "Bulk"
  /\ About \in [Event -> User]
  /\ \A e \in Malformed : e \in Event /\ Type[e] \in ThrowingTypes
  /\ Key \subseteq DispatchedTypes \cup {"raw"}
-----------------------------------------------------------------------------
VARIABLES
  handlers,   \* the handlers of each list, in the order they were added
  ignored,    \* the users should_ignore_user is true of
  pc,         \* the thread of each payload
  todo,       \* the events it has yet to handle, the current one first
  calling,    \* the handlers left of the copy it calls
  log,        \* history: what it did, each with the event and its number
  number,     \* history: how many events it has begun
  atStart,    \* history: the handlers when it started
  free,       \* history: users not ignored at a moment since it started
  shut        \* history: users ignored at a moment since it started

vars == <<handlers, ignored, pc, todo, calling, log, number, atStart, free, shut>>

(* "own" stands for what handle_event does itself. *)
Did == Handler \cup {"own"}

TypeOK ==
  /\ handlers \in [Key -> Seq(Handler)]
  /\ ignored \in SUBSET User
  /\ pc \in [Payload -> {"waiting", "next", "raw", "route", "typed", "done", "threw"}]
  /\ todo \in [Payload -> Seq(Event)]
  /\ calling \in [Payload -> Seq(Handler)]
  /\ log \in [Payload -> Seq(Nat \X Event \X {"raw", "typed", "own"} \X Did)]
  /\ atStart \in [Payload -> [Key -> Seq(Handler)]]
  /\ number \in [Payload -> Nat]
  /\ free \in [Payload -> SUBSET User] /\ shut \in [Payload -> SUBSET User]

NoHandlers == [k \in Key |-> <<>>]

Init ==
  /\ handlers = NoHandlers
  /\ ignored = {}
  /\ pc = [p \in Payload |-> "waiting"]
  /\ todo = [p \in Payload |-> <<p>>]
  /\ calling = [p \in Payload |-> <<>>]
  /\ log = [p \in Payload |-> <<>>]
  /\ number = [p \in Payload |-> 0]
  /\ atStart = [p \in Payload |-> NoHandlers]
  /\ free = [p \in Payload |-> {}] /\ shut = [p \in Payload |-> {}]

Running(p) == pc[p] \notin {"waiting", "done", "threw"}

Known(k) == IF k \in Key THEN handlers[k] ELSE <<>>
-----------------------------------------------------------------------------
(* The bot. *)

PushBack(k, h) == [handlers EXCEPT ![k] = Append(@, h)]

(* cluster::on_... *)
Register(k, h) ==
  /\ \A l \in Key : h \notin ToSet(handlers[l])
  /\ handlers' = PushBack(k, h)
  /\ UNCHANGED <<ignored, pc, todo, calling, log, number, atStart, free, shut>>

(* The function the bot set as should_ignore_user changes its mind. *)
ChangeIgnored(u) ==
  /\ ignored' = IF u \in ignored THEN ignored \ {u} ELSE ignored \cup {u}
  /\ free' = [p \in Payload |->
       IF Running(p) /\ u \in ignored THEN free[p] \cup {u} ELSE free[p]]
  /\ shut' = [p \in Payload |->
       IF Running(p) /\ u \notin ignored THEN shut[p] \cup {u} ELSE shut[p]]
  /\ UNCHANGED <<handlers, pc, todo, calling, log, number, atStart>>
-----------------------------------------------------------------------------
(* The thread of a payload. *)

Start(p) ==
  /\ pc[p] = "waiting"
  /\ Type[p] \in WorkerTypes =>
       \A q \in Payload : Running(q) => Type[q] \notin WorkerTypes
  /\ pc' = [pc EXCEPT ![p] = "next"]
  /\ atStart' = [atStart EXCEPT ![p] = handlers]
  /\ free' = [free EXCEPT ![p] = User \ ignored]
  /\ shut' = [shut EXCEPT ![p] = ignored]
  /\ UNCHANGED <<handlers, ignored, todo, calling, log, number>>

Note(p, stage, what) == Append(log[p], <<number[p], Head(todo[p]), stage, what>>)

(* handle_event is called for the next event. *)
Enter(p) ==
  /\ pc[p] = "next" /\ todo[p] # <<>>
  /\ number' = [number EXCEPT ![p] = @ + 1]
  /\ IF Type[Head(todo[p])] = "none"
     THEN /\ todo' = [todo EXCEPT ![p] = Tail(@)]
          /\ UNCHANGED <<pc, calling>>
     ELSE /\ pc' = [pc EXCEPT ![p] = "raw"]
          /\ calling' = [calling EXCEPT ![p] = Known("raw")]
          /\ UNCHANGED todo
  /\ UNCHANGED <<handlers, ignored, log, atStart, free, shut>>

End(p) ==
  /\ pc[p] = "next" /\ todo[p] = <<>>
  /\ pc' = [pc EXCEPT ![p] = "done"]
  /\ UNCHANGED <<handlers, ignored, todo, calling, log, number, atStart, free, shut>>

(* Faulty: mutex_ is held while a handler is called, which waits for ever  *)
(* as long as it has another handler to register.                          *)
CallUnderLock(p) ==
  /\ pc[p] \in {"raw", "typed"} /\ calling[p] # <<>>
  /\ \A h \in Handler : \E k \in Key : h \in ToSet(handlers[k])
  /\ log' = [log EXCEPT ![p] = Note(p, pc[p], Head(calling[p]))]
  /\ calling' = [calling EXCEPT ![p] = Tail(@)]
  /\ UNCHANGED <<handlers, ignored, pc, todo, number, atStart, free, shut>>

(* Calls the next handler of its copy, which returns or throws. *)
Call(p) ==
  /\ pc[p] \in {"raw", "typed"} /\ calling[p] # <<>>
  /\ log' = [log EXCEPT ![p] = Note(p, pc[p], Head(calling[p]))]
  /\ \/ /\ calling' = [calling EXCEPT ![p] = Tail(@)]
        /\ UNCHANGED <<pc, todo>>
     \/ /\ pc' = [pc EXCEPT ![p] = "threw"]
        /\ todo' = [todo EXCEPT ![p] = <<>>]
        /\ calling' = [calling EXCEPT ![p] = <<>>]
  /\ UNCHANGED <<handlers, ignored, number, atStart, free, shut>>

Called(p) ==
  /\ pc[p] \in {"raw", "typed"} /\ calling[p] = <<>>
  /\ pc' = [pc EXCEPT ![p] = IF @ = "raw" THEN "route" ELSE "next"]
  /\ todo' = [todo EXCEPT ![p] = IF pc[p] = "raw" THEN @ ELSE Tail(@)]
  /\ UNCHANGED <<handlers, ignored, calling, log, number, atStart, free, shut>>

Routing(p, type) == pc[p] = "route" /\ Type[Head(todo[p])] = type

(* handle_event returns; the list goes on with rest. *)
Return(p, rest) ==
  /\ pc' = [pc EXCEPT ![p] = "next"]
  /\ todo' = [todo EXCEPT ![p] = rest]
  /\ UNCHANGED <<handlers, ignored, calling, number, atStart, free, shut>>

(* Faulty: the events of a Bulk wait for those that follow it. *)
OpenBulkLast(p) ==
  /\ Routing(p, "Bulk")
  /\ Return(p, Tail(todo[p]) \o Inside[Head(todo[p])])
  /\ UNCHANGED log

OpenBulk(p) ==
  /\ Routing(p, "Bulk")
  /\ Return(p, Inside[Head(todo[p])] \o Tail(todo[p]))
  /\ UNCHANGED log

(* Answers or takes note of a control event, wherever it came. *)
ActItself(p) ==
  \E type \in OwnTypes :
    /\ Routing(p, type)
    /\ log' = [log EXCEPT ![p] = Note(p, "own", "own")]
    /\ Return(p, Tail(todo[p]))

(* A type handle_event does not know. *)
DropUnknown(p) ==
  /\ pc[p] = "route"
  /\ Type[Head(todo[p])] \notin DispatchedTypes \cup OwnTypes \cup {"Bulk"}
  /\ Return(p, Tail(todo[p]))
  /\ UNCHANGED log

(* A field is not what the code takes it for, or should_ignore_user, a     *)
(* function of the bot, throws.                                            *)
Reject(p) ==
  /\ pc[p] = "route"
  /\ Head(todo[p]) \in Malformed \/ Type[Head(todo[p])] \in TestedTypes
  /\ pc' = [pc EXCEPT ![p] = "threw"]
  /\ todo' = [todo EXCEPT ![p] = <<>>]
  /\ UNCHANGED <<handlers, ignored, calling, log, number, atStart, free, shut>>

Ignored(e) == Type[e] \in TestedTypes /\ About[e] \in ignored

(* dispatch_... returns because should_ignore_user is true of the user. *)
Ignore(p) ==
  /\ pc[p] = "route" /\ Type[Head(todo[p])] \in DispatchedTypes
  /\ Head(todo[p]) \notin Malformed /\ Ignored(Head(todo[p]))
  /\ Return(p, Tail(todo[p]))
  /\ UNCHANGED log

(* dispatch_... copies the handlers of the type. *)
Dispatch(p) ==
  /\ pc[p] = "route" /\ Type[Head(todo[p])] \in DispatchedTypes
  /\ Head(todo[p]) \notin Malformed /\ ~ Ignored(Head(todo[p]))
  /\ LET type == Type[Head(todo[p])] IN
     IF type \in Key
     THEN /\ pc' = [pc EXCEPT ![p] = "typed"]
          /\ calling' = [calling EXCEPT ![p] = handlers[type]]
          /\ UNCHANGED todo
     ELSE /\ pc' = [pc EXCEPT ![p] = "next"]
          /\ todo' = [todo EXCEPT ![p] = Tail(@)]
          /\ UNCHANGED calling
  /\ UNCHANGED <<handlers, ignored, log, number, atStart, free, shut>>

Thread(p) ==
  \/ Start(p) \/ Enter(p) \/ End(p)
  \/ Call(p) \/ Called(p)
  \/ OpenBulk(p) \/ ActItself(p) \/ DropUnknown(p)
  \/ Reject(p) \/ Ignore(p) \/ Dispatch(p)

Next ==
  \/ \E k \in Key, h \in Handler : Register(k, h)
  \/ \E u \in User : ChangeIgnored(u)
  \/ \E p \in Payload : Thread(p)

(* A thread that can go on does; every handler returns or throws. *)
Spec == Init /\ [][Next]_vars /\ \A p \in Payload : WF_vars(Thread(p))
-----------------------------------------------------------------------------
(* The events of a payload in the order a reader of the message sees them. *)
Flat[e \in Event] ==
  <<e>> \o FlattenSeq([i \in DOMAIN Inside[e] |-> Flat[Inside[e][i]]])

KeyOf(entry) == IF entry[3] = "raw" THEN "raw" ELSE Type[entry[2]]

IndexOf(entry) == CHOOSE i \in DOMAIN handlers[KeyOf(entry)] :
                    handlers[KeyOf(entry)][i] = entry[4]

(* The events of a payload are handled one after the other in the order of *)
(* the message, through any nesting of Bulks; of each the raw handlers are *)
(* called before the others, each list in the order of registration, and   *)
(* none is left out or called twice, whatever is registered meanwhile.     *)
CallsInOrder ==
  \A p \in Payload : \A i \in DOMAIN log[p] :
    LET entry == log[p][i]
        before == IF i = 1 THEN <<0, p, "own", "own">> ELSE log[p][i - 1]
        first == before[1] < entry[1] \/ (before[3] = "raw" /\ entry[3] # "raw")
    IN /\ before[1] <= entry[1] /\ Flat[p][entry[1]] = entry[2]
       /\ entry[3] = "own" => first
       /\ entry[3] # "own" =>
            \/ first /\ IndexOf(entry) = 1
            \/ /\ before[1] = entry[1] /\ before[3] = entry[3]
               /\ IndexOf(entry) = IndexOf(before) + 1

(* What the n-th event of p had to set off: the handlers that were there   *)
(* when the thread started, unless its user was ignored at some moment.    *)
Heard(p, n) ==
  LET e == Flat[p][n]
      Logged(stage, h) == <<n, e, stage, h>> \in ToSet(log[p])
  IN Type[e] # "none" =>
       /\ "raw" \in Key => \A h \in ToSet(atStart[p]["raw"]) : Logged("raw", h)
       /\ Type[e] \in OwnTypes => Logged("own", "own")
       /\ Type[e] \in Key \ {"raw"} /\ (Type[e] \in TestedTypes => About[e] \notin shut[p]) =>
            \A h \in ToSet(atStart[p][Type[e]]) : Logged("typed", h)

(* An event is lost on a handler registered before its payload came only   *)
(* because of an exception in an earlier handler or event of the payload:  *)
(* a thread that ends without one has handled everything, and one that     *)
(* ends with one everything before the event it was at.                    *)
LossHasCause ==
  \A p \in Payload :
    /\ \A n \in 1..Len(Flat[p]) : n < number[p] => Heard(p, n)
    /\ pc[p] = "done" => \A n \in 1..Len(Flat[p]) : Heard(p, n)

(* No handler of a type that asks should_ignore_user hears of a user who   *)
(* was ignored from the start of the thread on, inside a Bulk or not.      *)
IgnoredAreUnheard ==
  \A p \in Payload : \A entry \in ToSet(log[p]) :
    entry[3] = "typed" /\ Type[entry[2]] \in TestedTypes => About[entry[2]] \in free[p]

(* What the handlers of an event may rely on, through any nesting. *)
RoutingIsSound == TypeOK /\ CallsInOrder /\ LossHasCause /\ IgnoredAreUnheard

(* A payload comes to its end although its handlers register others.       *)
Ended(p) == pc[p] \in {"done", "threw"}

PayloadsEnd == \A p \in Payload : <>Ended(p)
=============================================================================
