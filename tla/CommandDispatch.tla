--------------------------- MODULE CommandDispatch ---------------------------
(***************************************************************************)
(* cluster::dispatch_command: from a message to the run of a command.      *)
(*                                                                         *)
(* Every Message event, and with dispatch_commands_on_edit every edit,     *)
(* runs dispatch_command on a thread of its own.  The thread looks the     *)
(* command up, tests and records its cooldown under cooldowns_mutex_, and  *)
(* in a server starts another detached thread that asks the REST API for   *)
(* the member; that thread asks the bot's handler, reads the cached        *)
(* server, compares permissions and calls the command.  Roles, the cached  *)
(* server and the clock go on meanwhile.  The bot's handlers may throw;    *)
(* fetch_member catches what its callback throws and calls it once more.   *)
(*                                                                         *)
(* A thread of this module is the dispatch of one message together with    *)
(* the member fetch it starts: the two never run at once.  The writes of   *)
(* dispatch_command to user_cache_ are left to a model of the caches.      *)
(***************************************************************************)
EXTENDS Naturals, Integers, Sequences

CONSTANTS
  Thread,         \* the dispatches, of messages and of edited messages
  User, Role, Permission,
  Word,           \* the first words of contents, and the names of commands
  Fold,           \* tolower, or the identity: case_insensitive_commands
  NoPrefix,       \* the word of a content that no prefix of the bot starts
  Registered,     \* registered_commands_, complete before messages arrive
  Placement,      \* {TRUE}, {FALSE} or both: is the server of a message known
  DispatchOnEdit, \* dispatch_commands_on_edit
  ServerVersion,  \* the server in the states it can be cached in
  NoServer,       \* server_cache_ has no entry
  Unset,          \* the content of a thread that did not start
  TicksPerSecond, \* the resolution of steady_clock
  MaxClock        \* bound: the clock stops here

Commands ==
  [name : Word, aliases : SUBSET Word, cooldown : Nat, required : SUBSET Permission]

Servers == [owner : User, default : SUBSET Permission, grants : [Role -> SUBSET Permission]]

ASSUME DispatchConstants ==
  /\ Fold \in [Word -> Word]
  /\ NoPrefix \notin Word
  /\ Registered \in Seq(Commands)
  /\ Placement \subseteq BOOLEAN
  /\ DispatchOnEdit \in BOOLEAN
  /\ ServerVersion \subseteq Servers
  /\ NoServer \notin ServerVersion
  /\ TicksPerSecond \in Nat \ {0}
  /\ MaxClock \in Nat

Contents == [author : User, word : Word \cup {NoPrefix}, inServer : Placement]

ASSUME UnsetIsNew == Unset \notin Contents

VARIABLES
  clock,          \* steady_clock, from 1
  last,           \* command_cooldowns_: the last accepted use, 0 for none
  roles,          \* the members' roles as the platform has them
  server,         \* the entry of server_cache_
  pc, content,
  verdict, stamp, remaining,   \* of the cooldown: what, when, seconds to wait
  member,         \* the roles of the fetched member
  bypass,         \* bypass_permissions
  caught,         \* fetch_member is in its catch
  runs,           \* how often the command's callback was called
  reports,        \* what command_error_handler_ was called with
  executed,       \* commands_executed_
  held, known,    \* history: the author's roles and the cached servers since the start
  terminated      \* std::terminate was called

world == <<clock, roles, server>>
limiter == <<last, verdict, stamp, remaining>>
history == <<held, known>>
outcome == <<runs, reports, executed>>
vars == <<world, limiter, history, outcome, pc, content, member, bypass, caught, terminated>>
-----------------------------------------------------------------------------
Never == 0

(* The two passes over registered_commands_: names first, then aliases,    *)
(* the first that matches in either.                                       *)
NameMatches(w) == {i \in DOMAIN Registered : Fold[Registered[i].name] = Fold[w]}

AliasMatches(w) ==
  {i \in DOMAIN Registered : \E a \in Registered[i].aliases : Fold[a] = Fold[w]}

Known(w) == w \in Word /\ NameMatches(w) \cup AliasMatches(w) # {}

First(S) == CHOOSE i \in S : \A j \in S : i <= j

FindCommand(w) ==
  Registered[First(IF NameMatches(w) # {} THEN NameMatches(w) ELSE AliasMatches(w))]

Command(t) == FindCommand(content[t].word)
Author(t) == content[t].author

(* The entry of command_cooldowns_ that a thread looks at.                 *)
Entry(t) == <<Command(t).name, Author(t)>>

(* Whole seconds since then, as duration_cast truncates them.              *)
Elapsed(t) == (clock - last[Entry(t)]) \div TicksPerSecond

CoolingDown(t) == last[Entry(t)] # Never /\ Elapsed(t) < Command(t).cooldown

(* cluster::has_permission *)
Allowed(s, R, p) == p \in s.default \/ \E r \in R : p \in s.grants[r]

HasPermission(s, u, R, mask) == s.owner = u \/ \A p \in mask : Allowed(s, R, p)

(* What follows the cooldown: the member is fetched for a server's message. *)
AfterCooldown(c) == IF c.inServer THEN "fetching" ELSE "deciding"

AfterLookup(c) ==
  IF c.word = NoPrefix THEN "ignored"
  ELSE IF ~Known(c.word) THEN "unknown"
  ELSE IF FindCommand(c.word).cooldown > 0 THEN "limiting"
  ELSE AfterCooldown(c)

Final == {"ignored", "lost", "unknown", "cooled", "denied", "reported", "ran", "failed"}

PcState == Final \cup
  { "idle",       \* no message arrived
    "updating",   \* on_message_update asks for the edited message
    "limiting",   \* about to lock cooldowns_mutex_
    "cooling",    \* in command_cooldown_handler_
    "fetching",   \* in rest_.get_server_member
    "deciding",   \* in command_run_handler_
    "checking",   \* about to read the cached server
    "running",    \* in the command's callback
    "reporting" } \* in command_error_handler_

Reasons == {"member_fetch_failed", "server_only", "server_resolve_failed", "permission_denied"}

TypeOK ==
  /\ clock \in Nat \ {0}
  /\ last \in [Word \X User -> Nat]
  /\ roles \in [User -> SUBSET Role]
  /\ server \in ServerVersion \cup {NoServer}
  /\ pc \in [Thread -> PcState]
  /\ content \in [Thread -> Contents \cup {Unset}]
  /\ verdict \in [Thread -> {"none", "granted", "refused"}]
  /\ stamp \in [Thread -> Nat]
  /\ remaining \in [Thread -> Nat]
  /\ member \in [Thread -> SUBSET Role]
  /\ bypass \in [Thread -> BOOLEAN]
  /\ caught \in [Thread -> BOOLEAN]
  /\ runs \in [Thread -> Nat]
  /\ reports \in [Thread -> Seq(Reasons)]
  /\ executed \in Nat
  /\ held \in [Thread -> SUBSET SUBSET Role]
  /\ known \in [Thread -> SUBSET (ServerVersion \cup {NoServer})]
  /\ terminated \in BOOLEAN

Init ==
  /\ clock = 1
  /\ last = [k \in Word \X User |-> Never]
  /\ roles \in [User -> SUBSET Role]
  /\ server \in ServerVersion \cup {NoServer}
  /\ pc = [t \in Thread |-> "idle"]
  /\ content = [t \in Thread |-> Unset]
  /\ verdict = [t \in Thread |-> "none"]
  /\ stamp = [t \in Thread |-> Never]
  /\ remaining = [t \in Thread |-> 0]
  /\ member = [t \in Thread |-> {}]
  /\ bypass = [t \in Thread |-> FALSE]
  /\ caught = [t \in Thread |-> FALSE]
  /\ runs = [t \in Thread |-> 0]
  /\ reports = [t \in Thread |-> <<>>]
  /\ executed = 0
  /\ held = [t \in Thread |-> {}]
  /\ known = [t \in Thread |-> {}]
  /\ terminated = FALSE
-----------------------------------------------------------------------------
(* Steps that several actions end in.                                      *)

(* dispatch_command begins with a message; its server is resolved or not.  *)
Begin(t, c) ==
  /\ content' = [content EXCEPT ![t] = c]
  /\ pc' = [pc EXCEPT ![t] = AfterLookup(c)]
  /\ held' = [held EXCEPT ![t] = {roles[c.author]}]
  /\ known' = [known EXCEPT ![t] = {server}]

Report(t, reason) ==
  /\ reports' = [reports EXCEPT ![t] = Append(@, reason)]
  /\ pc' = [pc EXCEPT ![t] = "reporting"]
  /\ UNCHANGED <<runs, executed>>

Run(t) ==
  /\ executed' = executed + 1
  /\ runs' = [runs EXCEPT ![t] = @ + 1]
  /\ pc' = [pc EXCEPT ![t] = "running"]
  /\ UNCHANGED reports

(* Faulty variants of the code, which the properties below tell from it.   *)

(* Forgets to record the use. *)
PassCooldownUnrecorded(t) ==
  /\ pc[t] = "limiting" /\ ~CoolingDown(t)
  /\ verdict' = [verdict EXCEPT ![t] = "granted"]
  /\ stamp' = [stamp EXCEPT ![t] = clock]
  /\ pc' = [pc EXCEPT ![t] = AfterCooldown(content[t])]
  /\ UNCHANGED <<world, last, remaining, history, outcome, content, member, bypass,
                 caught, terminated>>

RefuseWith(t, seconds) ==
  /\ pc[t] = "limiting" /\ CoolingDown(t)
  /\ verdict' = [verdict EXCEPT ![t] = "refused"]
  /\ stamp' = [stamp EXCEPT ![t] = clock]
  /\ remaining' = [remaining EXCEPT ![t] = seconds]
  /\ pc' = [pc EXCEPT ![t] = "cooling"]
  /\ UNCHANGED <<world, last, history, outcome, content, member, bypass, caught, terminated>>

(* Rounds the elapsed time up. *)
RefuseRoundedUp(t) ==
  RefuseWith(t, Command(t).cooldown
                  - (clock - last[Entry(t)] + TicksPerSecond - 1) \div TicksPerSecond)

(* Lets the command run where the server cannot be resolved. *)
CheckResolvedOnly(t) ==
  /\ pc[t] = "checking"
  /\ IF server # NoServer /\ ~HasPermission(server, Author(t), member[t], Command(t).required)
     THEN Report(t, "permission_denied")
     ELSE Run(t)
  /\ UNCHANGED <<world, limiter, history, content, member, bypass, caught, terminated>>

(* Waits until the server is cached. *)
CheckWhenResolved(t) ==
  /\ pc[t] = "checking" /\ server # NoServer
  /\ IF HasPermission(server, Author(t), member[t], Command(t).required)
     THEN Run(t)
     ELSE Report(t, "permission_denied")
  /\ UNCHANGED <<world, limiter, history, content, member, bypass, caught, terminated>>

(* The catch of fetch_member calls the callback again with success. *)
ThrowRetries(t, standard) ==
  /\ pc[t] \in {"cooling", "deciding", "running", "reporting"}
  /\ IF pc[t] # "cooling" /\ content[t].inServer /\ ~caught[t]
     THEN /\ caught' = [caught EXCEPT ![t] = TRUE]
          /\ pc' = [pc EXCEPT ![t] = "deciding"]
          /\ UNCHANGED terminated
     ELSE /\ pc' = [pc EXCEPT ![t] = "failed"]
          /\ UNCHANGED <<caught, terminated>>
  /\ UNCHANGED <<world, limiter, history, outcome, content, member, bypass>>
-----------------------------------------------------------------------------
(* A Message event reaches the end of the message listener.                *)
Receive(t, c) ==
  /\ pc[t] = "idle"
  /\ Begin(t, c)
  /\ UNCHANGED <<world, limiter, outcome, member, bypass, caught, terminated>>

(* A MessageUpdate event with a content: a thread asks for the message.    *)
MessageUpdated(t) ==
  /\ DispatchOnEdit
  /\ pc[t] = "idle"
  /\ pc' = [pc EXCEPT ![t] = "updating"]
  /\ UNCHANGED <<world, limiter, history, outcome, content, member, bypass, caught, terminated>>

UpdateFetched(t, c) ==
  /\ pc[t] = "updating"
  /\ Begin(t, c)
  /\ UNCHANGED <<world, limiter, outcome, member, bypass, caught, terminated>>

(* The answer is no success, or a request or its parsing throws.           *)
UpdateLost(t) ==
  /\ pc[t] = "updating"
  /\ pc' = [pc EXCEPT ![t] = "lost"]
  /\ UNCHANGED <<world, limiter, history, outcome, content, member, bypass, caught, terminated>>

(* The test and the record of a use are one step under cooldowns_mutex_.   *)
PassCooldown(t) ==
  /\ pc[t] = "limiting"
  /\ ~CoolingDown(t)
  /\ last' = [last EXCEPT ![Entry(t)] = clock]
  /\ verdict' = [verdict EXCEPT ![t] = "granted"]
  /\ stamp' = [stamp EXCEPT ![t] = clock]
  /\ pc' = [pc EXCEPT ![t] = AfterCooldown(content[t])]
  /\ UNCHANGED <<world, remaining, history, outcome, content, member, bypass, caught, terminated>>

RefuseCooldown(t) ==
  /\ pc[t] = "limiting"
  /\ CoolingDown(t)
  /\ verdict' = [verdict EXCEPT ![t] = "refused"]
  /\ stamp' = [stamp EXCEPT ![t] = clock]
  /\ remaining' = [remaining EXCEPT ![t] = Command(t).cooldown - Elapsed(t)]
  /\ pc' = [pc EXCEPT ![t] = "cooling"]
  /\ UNCHANGED <<world, last, history, outcome, content, member, bypass, caught, terminated>>

(* fetch_member: the platform answers with the roles of that moment.       *)
FetchMember(t) ==
  /\ pc[t] = "fetching"
  /\ member' = [member EXCEPT ![t] = roles[Author(t)]]
  /\ pc' = [pc EXCEPT ![t] = "deciding"]
  /\ UNCHANGED <<world, limiter, history, outcome, content, bypass, caught, terminated>>

(* The answer is no success, or the request or its parsing throws; in the  *)
(* second case the callback is called from the catch.                      *)
FetchFails(t, threw) ==
  /\ pc[t] = "fetching"
  /\ caught' = [caught EXCEPT ![t] = threw]
  /\ Report(t, "member_fetch_failed")
  /\ UNCHANGED <<world, limiter, history, content, member, bypass, terminated>>

(* command_run_handler_ returns; without one it is as if it allowed.       *)
Deny(t) ==
  /\ pc[t] = "deciding"
  /\ pc' = [pc EXCEPT ![t] = "denied"]
  /\ UNCHANGED <<world, limiter, history, outcome, content, member, bypass, caught, terminated>>

Bypass(t) ==
  /\ pc[t] = "deciding"
  /\ bypass' = [bypass EXCEPT ![t] = TRUE]
  /\ Run(t)
  /\ UNCHANGED <<world, limiter, history, content, member, caught, terminated>>

AllowUnrestricted(t) ==
  /\ pc[t] = "deciding"
  /\ Command(t).required = {}
  /\ Run(t)
  /\ UNCHANGED <<world, limiter, history, content, member, bypass, caught, terminated>>

AllowOutsideServer(t) ==
  /\ pc[t] = "deciding"
  /\ Command(t).required # {} /\ ~content[t].inServer
  /\ Report(t, "server_only")
  /\ UNCHANGED <<world, limiter, history, content, member, bypass, caught, terminated>>

AllowInServer(t) ==
  /\ pc[t] = "deciding"
  /\ Command(t).required # {} /\ content[t].inServer
  /\ pc' = [pc EXCEPT ![t] = "checking"]
  /\ UNCHANGED <<world, limiter, history, outcome, content, member, bypass, caught, terminated>>

(* get_server copies the cached server under the lock of the caches.       *)
CheckPermission(t) ==
  /\ pc[t] = "checking"
  /\ IF server = NoServer THEN Report(t, "server_resolve_failed")
     ELSE IF ~HasPermission(server, Author(t), member[t], Command(t).required)
     THEN Report(t, "permission_denied")
     ELSE Run(t)
  /\ UNCHANGED <<world, limiter, history, content, member, bypass, caught, terminated>>

(* A handler or the callback returns, and with it the thread.              *)
Return(t) ==
  /\ pc[t] \in {"cooling", "running", "reporting"}
  /\ pc' = [pc EXCEPT ![t] = CASE pc[t] = "cooling" -> "cooled"
                               [] pc[t] = "running" -> "ran"
                               [] OTHER -> "reported"]
  /\ UNCHANGED <<world, limiter, history, outcome, content, member, bypass, caught, terminated>>

(* A handler or the callback throws.  On the thread of fetch_member its    *)
(* catch calls again, with failure, and a second exception leaves the      *)
(* thread; elsewhere the caller's catch takes a std::exception only.       *)
Throw(t, standard) ==
  /\ pc[t] \in {"cooling", "deciding", "running", "reporting"}
  /\ LET fetched == pc[t] # "cooling" /\ content[t].inServer IN
     IF fetched /\ ~caught[t]
     THEN /\ caught' = [caught EXCEPT ![t] = TRUE]
          /\ Report(t, "member_fetch_failed")
          /\ UNCHANGED terminated
     ELSE /\ pc' = [pc EXCEPT ![t] = "failed"]
          /\ terminated' = (fetched \/ ~standard)
          /\ UNCHANGED <<caught, outcome>>
  /\ UNCHANGED <<world, limiter, history, content, member, bypass>>
-----------------------------------------------------------------------------
(* The world outside: time, the platform's roles, the cached server.       *)
Active(t) == content[t] # Unset /\ pc[t] \notin Final

Tick ==
  /\ clock < MaxClock
  /\ clock' = clock + 1
  /\ UNCHANGED <<roles, server, limiter, history, outcome, pc, content, member, bypass,
                 caught, terminated>>

ChangeRoles(u, R) ==
  /\ roles' = [roles EXCEPT ![u] = R]
  /\ held' = [t \in Thread |->
       IF Active(t) /\ Author(t) = u THEN held[t] \cup {R} ELSE held[t]]
  /\ UNCHANGED <<clock, server, limiter, known, outcome, pc, content, member, bypass,
                 caught, terminated>>

CacheServer(s) ==
  /\ server' = s
  /\ known' = [t \in Thread |-> IF Active(t) THEN known[t] \cup {s} ELSE known[t]]
  /\ UNCHANGED <<clock, roles, limiter, held, outcome, pc, content, member, bypass,
                 caught, terminated>>

Advance(t) ==
  \/ \E c \in Contents : UpdateFetched(t, c)
  \/ UpdateLost(t)
  \/ PassCooldown(t) \/ RefuseCooldown(t)
  \/ FetchMember(t) \/ \E threw \in BOOLEAN : FetchFails(t, threw)
  \/ Deny(t) \/ Bypass(t)
  \/ AllowUnrestricted(t) \/ AllowOutsideServer(t) \/ AllowInServer(t)
  \/ CheckPermission(t)
  \/ Return(t) \/ \E standard \in BOOLEAN : Throw(t, standard)

Next ==
  /\ ~terminated
  /\ \/ \E t \in Thread : Advance(t) \/ MessageUpdated(t) \/ \E c \in Contents : Receive(t, c)
     \/ Tick
     \/ \E u \in User, R \in SUBSET Role : ChangeRoles(u, R)
     \/ \E s \in ServerVersion \cup {NoServer} : CacheServer(s)

(* Threads that run are scheduled, requests and the bot's handlers end.    *)
Spec ==
  /\ Init /\ [][Next]_vars
  /\ \A t \in Thread : WF_vars(~terminated /\ Advance(t))
-----------------------------------------------------------------------------
(* The cooldowns of all threads together are a gate: of the uses of one    *)
(* command, under any of its names, by one user, each that is accepted is  *)
(* the cooldown away from those before it, and none is refused otherwise.  *)
Decided(t) == verdict[t] # "none"

Gate == INSTANCE CooldownGate WITH
  Request <- Thread,
  Key <- Word \X User,
  NoKey <- Unset,
  Period <- {TicksPerSecond * Registered[i].cooldown : i \in DOMAIN Registered},
  key <- [t \in Thread |-> IF Decided(t) THEN Entry(t) ELSE Unset],
  period <- [t \in Thread |->
    IF Decided(t) THEN TicksPerSecond * Command(t).cooldown ELSE 0],
  at <- stamp

LimitsByCooldown == Gate!Spec

(* The seconds that command_cooldown_handler_ is told are enough to wait,  *)
(* and not a whole second more: after them the use that was in the way is  *)
(* the cooldown ago.                                                       *)
RemainingIsEnough ==
  \A t \in Thread : verdict[t] = "refused" =>
    \E q \in Thread :
      /\ verdict[q] = "granted" /\ Entry(q) = Entry(t)
      /\ LET wait == stamp[q] + TicksPerSecond * Command(t).cooldown - stamp[t]
         IN  /\ wait <= TicksPerSecond * remaining[t]
             /\ TicksPerSecond * remaining[t] < wait + TicksPerSecond

(* A command that asks for permissions runs only if the handler bypassed   *)
(* the check or the author's roles, as they were at some moment since the  *)
(* message, had them in the server as it was cached at such a moment;      *)
(* whatever threw, failed or changed in between.                           *)
RunIsAuthorised ==
  \A t \in Thread : runs[t] > 0 /\ ~bypass[t] /\ Command(t).required # {} =>
    \E s \in known[t] \ {NoServer}, R \in held[t] :
      HasPermission(s, Author(t), R, Command(t).required)

(* The command is called at most once, and what was called, or already     *)
(* reported, is reported as failed only because fetch_member caught.       *)
SingleOutcome(t) ==
  /\ runs[t] <= 1
  /\ ~caught[t] => runs[t] + Len(reports[t]) <= 1
  /\ runs[t] + Len(reports[t]) <= 2
  /\ runs[t] + Len(reports[t]) = 2 => reports[t][Len(reports[t])] = "member_fetch_failed"

(* A dispatch has one outcome: a command that ran is not run again and is  *)
(* not reported as refused, and a refusal is reported once, except that    *)
(* fetch_member calls its callback again when the callback threw.          *)
OneOutcome == \A t \in Thread : SingleOutcome(t)

(* Every message's dispatch comes to an end, unless an exception ends the  *)
(* process.                                                                *)
DispatchEnds ==
  \A t \in Thread : pc[t] # "idle" ~> pc[t] \in Final \/ terminated
-----------------------------------------------------------------------------
(* The inductive strengthening of the safety properties.                   *)

(* What the place of a thread says of its message and its cooldown.        *)
StageInv ==
  \A t \in Thread :
    /\ content[t] = Unset <=> pc[t] \in {"idle", "updating", "lost"}
    /\ pc[t] \in PcState \ {"idle", "updating", "lost", "ignored", "unknown"} =>
         Known(content[t].word)
    /\ verdict[t] # "none" =>
         pc[t] \notin {"idle", "updating", "lost", "ignored", "unknown", "limiting"}
    /\ verdict[t] = "none" <=> stamp[t] = Never

(* command_cooldowns_ holds the latest accepted use of each command and    *)
(* user.                                                                   *)
CooldownInv ==
  /\ \A k \in Word \X User : last[k] <= clock
  /\ \A t \in Thread : verdict[t] = "granted" => stamp[t] <= last[Entry(t)]
  /\ \A k \in Word \X User : last[k] # Never =>
       \E q \in Thread : verdict[q] = "granted" /\ Entry(q) = k /\ stamp[q] = last[k]

(* The histories hold what the thread may have read.                       *)
HistoryInv ==
  \A t \in Thread :
    /\ Active(t) => roles[Author(t)] \in held[t] /\ server \in known[t]
    /\ pc[t] \in {"deciding", "checking"} /\ content[t].inServer => member[t] \in held[t]
    /\ pc[t] = "checking" => content[t].inServer

(* Runs, reports and the catch of fetch_member.                            *)
OutcomeInv ==
  \A t \in Thread :
    /\ pc[t] \notin {"running", "ran", "reporting", "reported", "failed"} =>
         runs[t] = 0 /\ reports[t] = <<>> /\ ~caught[t]
    /\ pc[t] = "running" => runs[t] = 1 /\ reports[t] = <<>> /\ ~caught[t]
    /\ pc[t] = "reporting" /\ ~caught[t] => runs[t] = 0

DispatchInv ==
  /\ TypeOK
  /\ StageInv
  /\ CooldownInv
  /\ HistoryInv
  /\ OutcomeInv
=============================================================================
