----------------------------- MODULE AsyncCalls -----------------------------
(***************************************************************************)
(* The calls of cluster that make one request on a detached thread and     *)
(* call back: messages, moderation, roles, invites, slow mode, permissions.*)
(*                                                                         *)
(* The thread sends the request, reads the answer, and calls the bot's     *)
(* callback, all within one try block whose catch calls back with failure. *)
(* What escapes from a thread ends the process.  send_message starts       *)
(* another thread that deletes the message later, without a try block.     *)
(***************************************************************************)
EXTENDS Naturals, Sequences

CONSTANTS
  Call,           \* the calls, each with its thread
  Operation       \* the operations the bot calls
-----------------------------------------------------------------------------
(* The operations by what they do with the answer: "send" reads it and may *)
(* delete later, "yield" reads it, "list" accepts it in some shapes only,  *)
(* "report" looks at the status alone, "moderate" runs on_moderation_action*)
(* before the callback, "fetch" reads it and catches everything.           *)
MessagingCalls ==
  [send |-> {"send_message"}, yield |-> {"edit_message"},
   report |-> {"delete_message", "pin_message", "unpin_message", "react_to_message",
               "unreact_from_message"}]

ModerationCalls ==
  [moderate |-> {"ban_user", "unban_user", "kick_member", "timeout_member",
                 "remove_timeout"},
   yield |-> {"create_role"}, report |-> {"delete_role"}]

ServerAndChannelCalls ==
  [list |-> {"get_member_count", "fetch_server_invites"}, yield |-> {"create_invite"},
   report |-> {"set_slowmode", "clear_slowmode", "fetch_channel_permissions",
               "set_channel_permissions", "move_channel_to_category"}]

UserCalls ==
  [report |-> {"update_status"}, fetch |-> {"fetch_member"}]

Sections == {MessagingCalls, ModerationCalls, ServerAndChannelCalls, UserCalls}

Kinds == {"send", "yield", "list", "report", "moderate", "fetch"}

KindOf ==
  [o \in Operation |->
     CHOOSE k \in Kinds : \E s \in Sections : k \in DOMAIN s /\ o \in s[k]]

OperationsHaveKinds ==
  \A o \in Operation : \E s \in Sections : \E k \in DOMAIN s : o \in s[k]
-----------------------------------------------------------------------------
VARIABLES
  respectLimits,  \* config.http_respect_ratelimits: or a 429 is thrown
  call,           \* the operation of each call, and if it sets delete_after
  pc,             \* the thread of each call
  done,           \* the platform carried the request out
  calls,          \* what each callback was told, in order
  hooked,         \* how often on_moderation_action ran
  faults,         \* history: what went wrong on each thread
  deletion,       \* the thread that deletes each message
  terminated      \* std::terminate

given == <<respectLimits, call>>
vars == <<given, pc, done, calls, hooked, faults, deletion, terminated>>

Fault == {"thread",      \* a thread could not be started
          "request",     \* refused, unanswered, or thrown
          "parse",       \* from_json threw, or the answer has another shape
          "hook", "callback",    \* the bot's code threw a std::exception
          "other",               \* ... or something else
          "deletion"}    \* the request to delete threw, other than for a 429

TypeOK ==
  /\ call \in [Call -> [op : Operation, deleteAfter : BOOLEAN]]
  /\ pc \in [Call -> {"idle", "requesting", "hook", "parse", "callback",
                      "called", "catch", "ended"}]
  /\ done \in [Call -> BOOLEAN]
  /\ calls \in [Call -> Seq(BOOLEAN)]
  /\ hooked \in [Call -> 0..1]
  /\ faults \in [Call -> SUBSET Fault]
  /\ deletion \in [Call -> {"none", "sleeping", "deleted", "kept"}]
  /\ respectLimits \in BOOLEAN /\ terminated \in BOOLEAN

Kind(c) == KindOf[call[c].op]

Init ==
  /\ respectLimits \in BOOLEAN
  /\ call \in [Call -> [op : Operation, deleteAfter : BOOLEAN]]
  /\ \A c \in Call : call[c].deleteAfter => Kind(c) = "send"
  /\ pc = [c \in Call |-> "idle"]
  /\ done = [c \in Call |-> FALSE]
  /\ calls = [c \in Call |-> <<>>]
  /\ hooked = [c \in Call |-> 0]
  /\ faults = [c \in Call |-> {}]
  /\ deletion = [c \in Call |-> "none"]
  /\ terminated = FALSE
-----------------------------------------------------------------------------
Go(c, p) == pc' = [pc EXCEPT ![c] = p]

Note(c, f) == faults' = [faults EXCEPT ![c] = @ \cup {f}]

(* An exception inside the try block: fetch_member catches everything,     *)
(* the others a std::exception.                                            *)
Throws(c, f) ==
  /\ Note(c, f)
  /\ IF f # "other" \/ Kind(c) = "fetch"
     THEN Go(c, "catch") /\ UNCHANGED terminated
     ELSE Go(c, "ended") /\ terminated' = TRUE

(* Where the thread goes after an answer. *)
AfterAnswer(c, ok) ==
  IF Kind(c) = "moderate" /\ ok THEN "hook"
  ELSE IF Kind(c) \in {"send", "yield", "list", "fetch"} /\ ok THEN "parse" ELSE "callback"

-----------------------------------------------------------------------------
(* std::thread throws to the caller if it cannot start a thread. *)
Begin(c) ==
  /\ pc[c] = "idle"
  /\ \/ Go(c, "requesting") /\ UNCHANGED faults
     \/ Go(c, "ended") /\ Note(c, "thread")
  /\ UNCHANGED <<given, done, calls, hooked, deletion, terminated>>

(* The platform carries the request out; its answer may be lost. *)
CarryOut(c) ==
  /\ pc[c] = "requesting" /\ ~done[c]
  /\ done' = [done EXCEPT ![c] = TRUE]
  /\ UNCHANGED <<given, pc, calls, hooked, faults, deletion, terminated>>

Succeeds(c) ==
  /\ pc[c] = "requesting" /\ done[c]
  /\ Go(c, AfterAnswer(c, TRUE))
  /\ UNCHANGED <<given, done, calls, hooked, faults, deletion, terminated>>

(* The request has no answer or a refusal; or it throws: for a 429, for a  *)
(* text that is no UTF-8, or because a hook of the bot does.               *)
Fails(c) ==
  /\ pc[c] = "requesting"
  /\ \/ /\ Go(c, AfterAnswer(c, FALSE))
        /\ Note(c, "request")
        /\ UNCHANGED terminated
     \/ \E f \in {"request", "other"} : Throws(c, f)
  /\ UNCHANGED <<given, done, calls, hooked, deletion>>

RunHook(c) ==
  /\ pc[c] = "hook"
  /\ hooked' = [hooked EXCEPT ![c] = @ + 1]
  /\ \/ Go(c, "callback") /\ UNCHANGED <<faults, terminated>>
     \/ \E f \in {"hook", "other"} : Throws(c, f)
  /\ UNCHANGED <<given, done, calls, deletion>>

Parse(c) ==
  /\ pc[c] = "parse"
  /\ \/ Go(c, "callback") /\ UNCHANGED <<faults, terminated>>
     \/ Kind(c) = "list" /\ Go(c, "callback") /\ Note(c, "parse") /\ UNCHANGED terminated
     \/ Throws(c, "parse")
  /\ UNCHANGED <<given, done, calls, hooked, deletion>>

CallBack(c) ==
  /\ pc[c] = "callback"
  /\ calls' = [calls EXCEPT ![c] = Append(@, faults[c] \cap {"request", "parse"} = {})]
  /\ \/ Go(c, "called") /\ UNCHANGED <<faults, terminated>>
     \/ \E f \in {"callback", "other"} : Throws(c, f)
  /\ UNCHANGED <<given, done, hooked, deletion>>

(* send_message starts the deleting thread after the callback returned. *)
AfterCallback(c) ==
  /\ pc[c] = "called"
  /\ IF call[c].deleteAfter /\ "request" \notin faults[c]
     THEN \/ /\ deletion' = [deletion EXCEPT ![c] = "sleeping"]
             /\ Go(c, "ended") /\ UNCHANGED <<faults, terminated>>
          \/ Throws(c, "thread") /\ UNCHANGED deletion
     ELSE Go(c, "ended") /\ UNCHANGED <<faults, deletion, terminated>>
  /\ UNCHANGED <<given, done, calls, hooked>>

(* Faulty: does not call back. *)
CatchSilently(c) ==
  /\ pc[c] = "catch" /\ Go(c, "ended")
  /\ UNCHANGED <<given, done, calls, hooked, faults, deletion, terminated>>

(* Faulty: passes the answer on once more. *)
CatchTrue(c) ==
  /\ pc[c] = "catch" /\ Go(c, "ended")
  /\ calls' = [calls EXCEPT ![c] = Append(@, TRUE)]
  /\ UNCHANGED <<given, done, hooked, faults, deletion, terminated>>

(* The catch calls back with failure; what that throws is not caught. *)
Catch(c) ==
  /\ pc[c] = "catch"
  /\ calls' = [calls EXCEPT ![c] = Append(@, FALSE)]
  /\ Go(c, "ended")
  /\ \/ UNCHANGED <<faults, terminated>>
     \/ \E f \in {"callback", "other"} : Note(c, f) /\ terminated' = TRUE
  /\ UNCHANGED <<given, done, hooked, deletion>>

(* rest_.delete_message on a thread without a try block: it throws a 429   *)
(* where limits are not respected, and anything else as Fails does.        *)
DeleteLater(c) ==
  /\ deletion[c] = "sleeping"
  /\ \E d \in {"deleted", "kept"} : deletion' = [deletion EXCEPT ![c] = d]
  /\ \/ UNCHANGED <<faults, terminated>>
     \/ terminated' = TRUE /\ ~respectLimits /\ UNCHANGED faults
     \/ terminated' = TRUE /\ Note(c, "deletion")
  /\ UNCHANGED <<given, pc, done, calls, hooked>>

Work(c) ==
  Succeeds(c) \/ Fails(c) \/ RunHook(c) \/ Parse(c) \/ CallBack(c) \/ AfterCallback(c) \/ Catch(c)

Next == ~terminated /\ \E c \in Call : Begin(c) \/ Work(c) \/ CarryOut(c) \/ DeleteLater(c)

(* Threads run, requests are answered or fail, handlers return or throw,   *)
(* as long as there is a process.                                          *)
Spec ==
  /\ Init /\ [][Next]_vars
  /\ \A c \in Call : /\ WF_vars(~terminated /\ Work(c))
                     /\ WF_vars(~terminated /\ DeleteLater(c))
-----------------------------------------------------------------------------
(* A callback is called a second time only because it threw itself or the  *)
(* deleting thread could not be started, and then with failure.            *)
SecondCallHasCause ==
  \A c \in Call :
    /\ Len(calls[c]) <= 2
    /\ Len(calls[c]) = 2 => /\ calls[c][2] = FALSE
                            /\ faults[c] \cap {"callback", "other", "thread"} # {}

(* Success is told only of what was done; and failure of something that    *)
(* was done only if its answer was lost or unreadable, or the bot's hook   *)
(* threw.                                                                  *)
FirstCallIsTrue ==
  \A c \in Call : calls[c] # <<>> =>
    /\ calls[c][1] => done[c]
    /\ ~calls[c][1] /\ done[c] => faults[c] \cap {"request", "parse", "hook", "other"} # {}

(* on_moderation_action runs exactly for the moderation that took place    *)
(* and was answered, before its callback.                                  *)
HookBeforeCallback ==
  \A c \in Call :
    /\ hooked[c] > 0 => Kind(c) = "moderate" /\ done[c]
    /\ Kind(c) = "moderate" /\ calls[c] # <<>> /\ calls[c][1] => hooked[c] = 1

(* The process ends only through an exception of the bot's code, where     *)
(* limits are not respected, or because the request that deletes a message *)
(* later throws: no other request that throws ends it.                     *)
TerminationHasCause ==
  terminated => \/ ~respectLimits
                \/ \E c \in Call : faults[c] \cap {"callback", "hook", "other", "deletion"} # {}

(* Callbacks are told the truth, and again only for a cause.               *)
CallbacksAreSound ==
  TypeOK /\ SecondCallHasCause /\ FirstCallIsTrue /\ HookBeforeCallback /\ TerminationHasCause

(* A thread that began calls back, and a message that was to be deleted    *)
(* later is tried, unless the process ends or the callback threw.          *)
EveryCallIsAnswered ==
  \A c \in Call : pc[c] = "requesting" ~> calls[c] # <<>> \/ terminated \/ "other" \in faults[c]

SentIsDeletedLater ==
  \A c \in Call :
    call[c].deleteAfter /\ pc[c] = "callback" /\ "request" \notin faults[c] ~>
      \/ deletion[c] \in {"deleted", "kept"} \/ terminated
      \/ faults[c] \cap {"callback", "other", "thread"} # {}
=============================================================================
