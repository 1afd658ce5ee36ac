----------------------------- MODULE RestClient -----------------------------
(***************************************************************************)
(* rest_client: the calls of its wrappers, each one request that           *)
(* perform_request sends, waits for, and sends again.                      *)
(*                                                                         *)
(* Every call runs on its caller's thread; the threads share the table of  *)
(* the rate limiter.  The platform carries a request out, refuses it, or   *)
(* answers 429; the request or its answer can be lost.  A lost request is  *)
(* tried again RetryCount times, a 429 without counting.                   *)
(***************************************************************************)
EXTENDS Integers

CONSTANTS
  Request,        \* the calls, each with the thread it runs on
  Calls,          \* the wrappers the bot uses
  Target,         \* what their paths name: channels, servers, ...
  SharedBucket,   \* a bucket the platform may name in X-RateLimit-Bucket
  RetryCount,     \* config.http_retry_count
  RespectLimits,  \* config.http_respect_ratelimits
  TicksPerMs, RetryDelay,    \* the clock, and the second between retries in ticks
  Waits,          \* milliseconds the platform asks to wait
  MaxRefusals,    \* bound: how often it answers 429 to one call
  MaxClock        \* bound: the last moment; later moments are taken for it
-----------------------------------------------------------------------------
(* The wrappers by the method of their one request, in the order of        *)
(* rest.cpp.  The paths differ from wrapper to wrapper.                    *)
SystemCalls ==
  [GET |-> {"get_node_info", "get_stats", "get_gateway", "get_channel_webhooks",
            "get_attachment_metadata", "get_user_settings", "get_unread_channels"},
   POST |-> {"create_report", "create_webhook", "execute_webhook", "update_user_settings"},
   DELETE |-> {"delete_webhook"}]

MessageAndServerCalls ==
  [GET |-> {"get_messages", "get_message", "get_pinned_messages"},
   POST |-> {"search_messages", "pin_message", "create_server"},
   PATCH |-> {"edit_server"},
   DELETE |-> {"delete_messages_bulk", "remove_reaction", "unpin_message"}]

MemberAndRoleCalls ==
  [GET |-> {"get_server_invites", "get_server_bans", "get_server_members"},
   POST |-> {"create_role"},
   PATCH |-> {"edit_member", "edit_role"},
   PUT |-> {"ban_user"},
   DELETE |-> {"leave_server", "unban_user", "kick_member", "delete_role"}]

ChannelCalls ==
  [GET |-> {"get_server_channels", "get_channel_invites", "get_channel_permissions"},
   POST |-> {"create_channel", "create_channel_invite"},
   PATCH |-> {"edit_channel"},
   PUT |-> {"set_channel_permission", "add_group_recipient"},
   DELETE |-> {"delete_channel", "delete_channel_permission", "remove_group_recipient"}]

UserAndEmojiCalls ==
  [GET |-> {"get_user_profile", "get_mutual_friends_and_servers", "get_relationships",
            "get_custom_emoji"},
   PATCH |-> {"edit_current_user"},
   PUT |-> {"set_relationship", "create_custom_emoji"},
   DELETE |-> {"delete_relationship", "delete_custom_emoji"}]

SessionAndBotCalls ==
  [GET |-> {"get_all_sessions", "get_active_dms", "open_dm", "get_voice_call_info", "get_bot"},
   POST |-> {"login_session", "logout_session", "create_account", "verify_account",
             "reset_password", "delete_account", "verify_totp", "use_mfa_ticket",
             "create_bot", "invite_bot"},
   PATCH |-> {"edit_bot"},
   DELETE |-> {"delete_session", "delete_bot"}]

AdditionalCalls ==
  [GET |-> {"get_webhook", "get_server", "get_server_member", "get_server_emojis",
            "get_channel", "get_user", "get_user_default_avatar", "get_mfa_methods",
            "get_mfa_recovery_codes"},
   POST |-> {"regenerate_mfa_recovery_codes"},
   PATCH |-> {"edit_webhook", "reset_password_apply", "change_password", "change_email"},
   PUT |-> {"acknowledge_message", "acknowledge_channel"},
   DELETE |-> {"clear_reactions", "delete_all_sessions"}]

InviteCalls ==
  [GET |-> {"get_invite", "get_onboarding_status", "get_webhook_with_token"},
   POST |-> {"accept_invite", "complete_onboarding", "execute_webhook_with_token",
             "execute_github_webhook"},
   PATCH |-> {"edit_webhook_with_token", "edit_webhook_message"},
   PUT |-> {"add_reaction"},
   DELETE |-> {"delete_webhook_with_token", "delete_webhook_message"}]

FurtherCalls ==
  [GET |-> {"get_user_flags", "get_group_members", "get_owned_bots", "get_bot_invite_info",
            "search_users"},
   POST |-> {"create_group", "join_voice_call", "create_message"},
   PATCH |-> {"change_username", "edit_message", "edit_role_ranks"},
   PUT |-> {"set_channel_default_permission", "end_voice_ring"},
   DELETE |-> {"delete_message"}]

Sections == {SystemCalls, MessageAndServerCalls, MemberAndRoleCalls, ChannelCalls,
             UserAndEmojiCalls, SessionAndBotCalls, AdditionalCalls,
             InviteCalls, FurtherCalls}

Methods == {"GET", "POST", "PATCH", "PUT", "DELETE"}

Using(m) == UNION {s[m] : s \in {t \in Sections : m \in DOMAIN t}}

MethodOf == [c \in Calls |-> CHOOSE m \in Methods : c \in Using(m)]

ASSUME CallsHaveMethods == \A c \in Calls : \E m \in Methods : c \in Using(m)

ASSUME RestConstants ==
  /\ RetryCount \in Nat /\ MaxRefusals \in Nat
  /\ MaxClock \in Nat /\ RetryDelay \in Nat /\ TicksPerMs \in Nat \ {0}
  /\ Waits \subseteq Nat /\ RespectLimits \in BOOLEAN
-----------------------------------------------------------------------------
VARIABLES
  call,           \* the wrapper and the target of each call
  task,           \* the thread of each call, inside perform_request
  remote,         \* what became of its request on the platform
  first,          \* history: the limit its check saw, and its first sending
  buckets,        \* ratelimiter::buckets_: a bucket's remaining calls and reset
  clock           \* steady_clock in ticks

vars == <<call, task, remote, first, buckets, clock>>

Keys == (Calls \X Target) \cup {SharedBucket}

Tasks ==
  [pc : {"idle", "waiting",   \* asleep, or about to send
         "sent", "done"},
   retries : 0..RetryCount, wakeAt : 0..MaxClock,
   outcome : {"none", "ok", "rejected", "failed", "thrown", "raised"},
   reported : Nat]            \* calls of error_callback_

Remotes ==
  [status : {"none", "ok", "refused", "limited"},   \* the answer on its way
   effects : Nat,             \* how often it changed something
   lost : Nat,                \* requests that were given up without an answer
   late : Nat,                \* of these, the ones still under way
   refusals : 0..MaxRefusals]

TypeOK ==
  /\ call \in [Request -> Calls \X Target]
  /\ task \in [Request -> Tasks]
  /\ remote \in [Request -> Remotes]
  /\ first \in [Request -> [seen : 0..MaxClock, sentAt : -1..MaxClock]]
  /\ buckets \in [Keys -> [remaining : Nat, resetAt : 0..MaxClock]]
  /\ clock \in 0..MaxClock

Method(r) == MethodOf[call[r][1]]

Later(d) == IF clock + d > MaxClock THEN MaxClock ELSE clock + d

(* What ratelimiter::check takes for the end of a bucket's limit: none if  *)
(* it knows of none, or of calls that remain.                              *)
LimitOf(b) == IF buckets[b].remaining > 0 THEN 0 ELSE buckets[b].resetAt

(* Faulty: takes a bucket without remaining calls for one that has some. *)
CheckExhausted(b) ==
  IF buckets[b].remaining >= 0 \/ clock >= LimitOf(b) THEN 0
  ELSE (LimitOf(b) - clock) \div TicksPerMs

(* ratelimiter::check: the milliseconds left, truncated. *)
Check(b) == IF clock >= LimitOf(b) THEN 0 ELSE (LimitOf(b) - clock) \div TicksPerMs

Init ==
  /\ call \in [Request -> Calls \X Target]
  /\ task = [r \in Request |-> [pc |-> "idle", retries |-> 0, wakeAt |-> 0,
                                outcome |-> "none", reported |-> 0]]
  /\ remote = [r \in Request |-> [status |-> "none", effects |-> 0, lost |-> 0,
                                  late |-> 0, refusals |-> 0]]
  /\ first = [r \in Request |-> [seen |-> 0, sentAt |-> -1]]
  /\ buckets = [b \in Keys |-> [remaining |-> 1, resetAt |-> 0]]
  /\ clock = 0
-----------------------------------------------------------------------------
Pause(r, d) == [task[r] EXCEPT !.pc = "waiting", !.wakeAt = Later(d)]

Succeed(r) == [task[r] EXCEPT !.pc = "done", !.outcome = "ok"]

(* An exception that error_callback_ is not told of. *)
Raise(r) == [task[r] EXCEPT !.pc = "done", !.outcome = "raised"]

Fail(r, o) ==
  [task[r] EXCEPT !.pc = "done", !.outcome = o, !.reported = @ + 1]

(* Headers of the answer may tell the state of its bucket, under the       *)
(* name of the call's own path or under one that the platform chose.       *)
UpdateLimiter(r) ==
  \/ UNCHANGED buckets
  \/ \E b \in {call[r], SharedBucket}, left \in 0..1, w \in Waits :
       buckets' = [buckets EXCEPT ![b] =
                     [remaining |-> left, resetAt |-> Later(w * TicksPerMs)]]

Answered(r, status) ==
  /\ task[r].pc = "sent" /\ remote[r].status = status
  /\ remote' = [remote EXCEPT ![r].status = "none"]
  /\ UNCHANGED <<call, first, clock>>
  /\ UpdateLimiter(r)

Lose(r) ==
  /\ task[r].pc = "sent"
  /\ \E late \in IF remote[r].status = "none" THEN {0, 1} ELSE {0} :
       remote' = [remote EXCEPT ![r].lost = @ + 1, ![r].late = @ + late,
                                ![r].status = "none"]
  /\ UNCHANGED <<call, first, buckets, clock>>
-----------------------------------------------------------------------------
(* Faulty variants of the code, which the properties below tell from it.   *)

(* Reports a refusal and tries again. *)
RejectionRetried(r) ==
  /\ Answered(r, "refused")
  /\ task' = [task EXCEPT ![r] = [Fail(r, "rejected") EXCEPT !.pc = "waiting"]]

(* Tries again when the body of a success cannot be parsed. *)
SuccessUnparsed(r) ==
  /\ Answered(r, "ok")
  /\ \E t \in {Succeed(r), Pause(r, 0)} : task' = [task EXCEPT ![r] = t]
-----------------------------------------------------------------------------
(* The bucket is asked once, before the first sending. *)
Begin(r) ==
  /\ task[r].pc = "idle"
  /\ task' = [task EXCEPT ![r] =
                Pause(r, IF RespectLimits THEN Check(call[r]) * TicksPerMs ELSE 0)]
  /\ first' = [first EXCEPT ![r].seen = IF RespectLimits THEN LimitOf(call[r]) ELSE 0]
  /\ UNCHANGED <<call, remote, buckets, clock>>

Send(r) ==
  /\ task[r].pc = "waiting" /\ clock >= task[r].wakeAt
  /\ task' = [task EXCEPT ![r].pc = "sent"]
  /\ first' = [first EXCEPT ![r].sentAt = IF @ = -1 THEN clock ELSE @]
  /\ UNCHANGED <<call, remote, buckets, clock>>

(* Before anything is sent pre_request_hook_ may throw, and so does        *)
(* body.dump() if a text of the bot is no UTF-8.                           *)
Unsent(r) ==
  /\ task[r].pc = "waiting" /\ first[r].sentAt = -1
  /\ task' = [task EXCEPT ![r] = Raise(r)]
  /\ UNCHANGED <<call, remote, first, buckets, clock>>

(* No answer in time: again after a second, or given up and reported.  The *)
(* request may still reach the platform.                                   *)
NoResult(r) ==
  /\ Lose(r)
  /\ task' = [task EXCEPT ![r] =
                IF task[r].retries < RetryCount
                THEN [Pause(r, RetryDelay) EXCEPT !.retries = @ + 1]
                ELSE Fail(r, "failed")]

Success(r) ==
  Answered(r, "ok") /\ task' = [task EXCEPT ![r] = Succeed(r)]

(* A refusal is reported, but for one whose text is neither JSON nor       *)
(* UTF-8: dump() throws on it before error_callback_ is called.            *)
Rejection(r) ==
  /\ Answered(r, "refused")
  /\ \E t \in {Fail(r, "rejected"), Raise(r)} : task' = [task EXCEPT ![r] = t]

(* 429: the wait of the answer, and again without counting, or thrown. *)
Limited(r) ==
  /\ Answered(r, "limited")
  /\ \/ /\ RespectLimits
        /\ \E w \in Waits : task' = [task EXCEPT ![r] = Pause(r, w * TicksPerMs)]
     \/ ~RespectLimits /\ task' = [task EXCEPT ![r] = Fail(r, "thrown")]
-----------------------------------------------------------------------------
(* The platform.  Doing again what was done has no further effect, unless  *)
(* it creates something; what was deleted cannot be deleted again.         *)
Effects(r) ==
  IF Method(r) = "POST" THEN remote[r].effects + 1 ELSE 1

CarryOut(r) ==
  /\ task[r].pc = "sent" /\ remote[r].status = "none"
  /\ remote' = [remote EXCEPT
       ![r].status = IF Method(r) = "DELETE" /\ remote[r].effects > 0
                     THEN "refused" ELSE "ok",
       ![r].effects = Effects(r)]
  /\ UNCHANGED <<call, task, first, buckets, clock>>

CarryOutLate(r) ==
  /\ remote[r].late > 0
  /\ remote' = [remote EXCEPT ![r].late = @ - 1, ![r].effects = Effects(r)]
  /\ UNCHANGED <<call, task, first, buckets, clock>>

Refuse(r) ==
  /\ task[r].pc = "sent" /\ remote[r].status = "none"
  /\ \/ remote' = [remote EXCEPT ![r].status = "refused"]
     \/ /\ remote[r].refusals < MaxRefusals
        /\ remote' = [remote EXCEPT ![r].status = "limited", ![r].refusals = @ + 1]
  /\ UNCHANGED <<call, task, first, buckets, clock>>

Tick ==
  /\ clock < MaxClock
  /\ clock' = clock + 1
  /\ UNCHANGED <<call, task, remote, first, buckets>>

Result(r) == NoResult(r) \/ Success(r) \/ Rejection(r) \/ Limited(r)

Next ==
  \/ \E r \in Request : Begin(r) \/ Unsent(r) \/ Send(r) \/ Result(r)
       \/ CarryOut(r) \/ CarryOutLate(r) \/ Refuse(r)
  \/ Tick

(* Time passes, threads run, and every try is answered or times out.       *)
Spec ==
  /\ Init /\ [][Next]_vars
  /\ WF_vars(Tick)
  /\ \A r \in Request : WF_vars(Send(r)) /\ WF_vars(Result(r))
-----------------------------------------------------------------------------
(* A call that began on a limit the limiter knows waits it out, but for    *)
(* the part of a millisecond that the truncation of check() loses; the     *)
(* answers of other calls may change the limit meanwhile.                  *)
KnownLimitIsObserved ==
  \A r \in Request : first[r].sentAt # -1 =>
    first[r].sentAt + TicksPerMs > first[r].seen

(* Nothing is done twice, unless it creates something and a try stayed     *)
(* without an answer: then at most once more for each such try, of which   *)
(* the retry count bounds the number.                                      *)
TwiceOnlyIfLost ==
  \A r \in Request :
    /\ remote[r].effects > 1 => Method(r) = "POST"
    /\ remote[r].effects <= remote[r].lost + IF task[r].outcome = "failed" THEN 0 ELSE 1
    /\ remote[r].lost <= RetryCount + 1

(* A success was carried out; a call fails although it was carried out     *)
(* only if a try stayed without an answer; error_callback_ is called once  *)
(* for a call that failed and never for another, and it is not called for  *)
(* one that a text or a hook made throw.                                   *)
ReportsAreTrue ==
  \A r \in Request :
    /\ task[r].outcome = "ok" => remote[r].effects > 0
    /\ task[r].outcome \notin {"none", "ok"} /\ remote[r].effects > 0
         => remote[r].lost > 0
    /\ task[r].reported = IF task[r].outcome \in {"none", "ok", "raised"} THEN 0 ELSE 1

(* What a caller is told is true, and the platform did no more than that.  *)
OutcomesAreTrue == TwiceOnlyIfLost /\ ReportsAreTrue

(* Every call has one outcome, in the end, and what it did is bounded by   *)
(* its tries: perform_request implements the reported call.                *)
Reported == INSTANCE ReportedCall
  WITH Tries <- RetryCount + 1,
       kind <- [r \in Request |->
                  IF task[r].pc = "idle" THEN "none"
                  ELSE IF Method(r) = "POST" THEN "creates" ELSE "repeatable"],
       effects <- [r \in Request |-> remote[r].effects],
       outcome <- [r \in Request |->
                     IF task[r].outcome \in {"none", "ok"} THEN task[r].outcome
                     ELSE "failed"]

ImplementsReportedCall == Reported!Spec
=============================================================================
