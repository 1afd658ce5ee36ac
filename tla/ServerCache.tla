----------------------------- MODULE ServerCache -----------------------------
(***************************************************************************)
(* The cache of servers, channels and members, fed by the gateway's events.*)
(*                                                                         *)
(* The worker handles Ready itself and starts a thread for every other     *)
(* event, so those are applied in any order.  The removal of a server      *)
(* sleeps 500 ms on yet another thread.  Events sent while there is no     *)
(* connection are lost; a new connection brings a new Ready, which adds    *)
(* and overwrites, and removes nothing.                                    *)
(***************************************************************************)
EXTENDS Naturals, Sequences

CONSTANTS
  Server, Name, Role, Channel, User,
  Ignored,      \* users should_ignore_user is true of
  Absent,       \* no server, no name
  MaxEvents     \* bound: events the platform has to tell

(* A server's name and roles; roles have names.  *)
ServerValue == [name : Name, roles : UNION {[R -> Name] : R \in SUBSET Role}]

(* What went unseen is kept in one set, so nothing has the name of another.*)
ConstantsAssumption ==
  /\ Ignored \subseteq User /\ MaxEvents \in Nat
  /\ Absent \notin Name \cup ServerValue
  /\ Channel \cap User = {} /\ Server \cap (Server \X (Channel \cup User)) = {}
-----------------------------------------------------------------------------
VARIABLES
  platform,     \* what the platform has: [servers, channels, members]
  cached,       \* server_cache_, channel_cache_, member_cache_
  connected,    \* the socket
  stream,       \* events that wait for the worker, in order
  threads,      \* events on their threads, before their listener
  erasing,      \* removals that sleep
  sent,         \* events sent so far
  late,         \* history: servers an older event of which came after a newer
  disordered,   \* history: the same, though a later Ready put the server right
  missed        \* history: servers, channels and members that went unseen

vars == <<platform, cached, connected, stream, threads, erasing, sent, late, disordered, missed>>

State == [servers : [Server -> ServerValue \cup {Absent}],
          channels : SUBSET (Server \X Channel), members : SUBSET (Server \X User)]

Nothing == [servers |-> [s \in Server |-> Absent], channels |-> {}, members |-> {}]

TypeOK ==
  /\ platform \in State /\ cached \in State
  /\ connected \in BOOLEAN
  /\ sent \in 0..MaxEvents
  /\ \A e \in threads : e.n \in 1..sent /\ e.type # "Ready"
  /\ \A e \in erasing : e.n \in 1..sent /\ e.type = "ServerDelete"
  /\ late \subseteq disordered /\ disordered \subseteq Server

Init ==
  /\ platform = Nothing /\ cached = Nothing
  /\ connected = TRUE
  /\ stream = <<>> /\ threads = {} /\ erasing = {}
  /\ sent = 0 /\ late = {} /\ disordered = {} /\ missed = {}
-----------------------------------------------------------------------------
(* What the listeners do to the cache c. *)
Put(c, s, v) == [c EXCEPT !.servers[s] = v]

OnReady(c, e) ==
  [servers |-> [s \in Server |-> IF e.state.servers[s] # Absent THEN e.state.servers[s] ELSE c.servers[s]],
   channels |-> c.channels \cup e.state.channels,
   members |-> c.members \cup e.state.members]

OnServerCreate(c, e) ==
  [Put(c, e.server, e.value) EXCEPT !.channels = @ \cup ({e.server} \X e.channels)]

(* Absent as a name: the update is about another field. *)
OnServerUpdate(c, e) ==
  IF c.servers[e.server] = Absent \/ e.name = Absent
  THEN c ELSE [c EXCEPT !.servers[e.server].name = e.name]

WithRole(roles, r, n) == [q \in DOMAIN roles \cup {r} |-> IF q = r THEN n ELSE roles[q]]

OnRoleCreate(c, e) ==
  IF c.servers[e.server] = Absent THEN c
  ELSE [c EXCEPT !.servers[e.server].roles = WithRole(@, e.role, e.name)]

OnRoleUpdate(c, e) ==
  IF c.servers[e.server] = Absent THEN c
  ELSE [c EXCEPT !.servers[e.server].roles =
          IF e.role \in DOMAIN @ THEN WithRole(@, e.role, e.name) ELSE @]

OnRoleDelete(c, e) ==
  IF c.servers[e.server] = Absent THEN c
  ELSE [c EXCEPT !.servers[e.server].roles = [q \in DOMAIN @ \ {e.role} |-> @[q]]]

OnChannel(c, e) ==
  IF e.type = "ChannelCreate" THEN [c EXCEPT !.channels = @ \cup {<<e.server, e.channel>>}]
  ELSE [c EXCEPT !.channels = @ \ {<<e.server, e.channel>>}]

(* Faulty: the member stays. *)
OnMemberJoined(c, e) == [c EXCEPT !.members = @ \cup {<<e.server, e.user>>}]

(* The dispatcher drops the events of ignored users. *)
OnMember(c, e) ==
  IF e.user \in Ignored THEN c
  ELSE IF e.type = "MemberJoin" THEN [c EXCEPT !.members = @ \cup {<<e.server, e.user>>}]
  ELSE [c EXCEPT !.members = @ \ {<<e.server, e.user>>}]

Listener(c, e) ==
  CASE e.type = "ServerCreate" -> OnServerCreate(c, e)
    [] e.type = "ServerUpdate" -> OnServerUpdate(c, e)
    [] e.type = "RoleCreate" -> OnRoleCreate(c, e)
    [] e.type = "RoleUpdate" -> OnRoleUpdate(c, e)
    [] e.type = "RoleDelete" -> OnRoleDelete(c, e)
    [] e.type \in {"ChannelCreate", "ChannelDelete"} -> OnChannel(c, e)
    [] e.type \in {"MemberJoin", "MemberLeave"} -> OnMember(c, e)
-----------------------------------------------------------------------------
(* e and f may not change places. *)
Whole(e) == e.type \in {"ServerCreate", "ServerDelete"}

Conflict(e, f) ==
  /\ e.server = f.server
  /\ \/ Whole(e) \/ Whole(f)
     \/ e.type = f.type
     \/ \A g \in {e, f} : g.type \in {"RoleCreate", "RoleUpdate", "RoleDelete"}
     \/ \A g \in {e, f} : g.type \in {"ChannelCreate", "ChannelDelete"}
     \/ \A g \in {e, f} : g.type \in {"MemberJoin", "MemberLeave"}

Overtaken(e) == {f.server : f \in {g \in threads \cup erasing : g.n < e.n /\ Conflict(e, g)}}

(* Ready writes everything, so it overtakes all that is still under way,   *)
(* and puts everything else right.                                         *)
Handle(e) ==
  /\ e.type = "Ready"
  /\ cached' = OnReady(cached, e)
  /\ LET slow == {f.server : f \in threads \cup erasing} IN
       /\ late' = {s \in late \cup slow : s \in slow \/ e.state.servers[s] = Absent}
       /\ disordered' = disordered \cup slow
  /\ UNCHANGED <<threads, erasing>>

Spread(e) ==
  /\ e.type # "Ready"
  /\ threads' = threads \cup {e}
  /\ UNCHANGED <<cached, erasing, late, disordered>>

Work ==
  /\ stream # <<>>
  /\ Handle(Head(stream)) \/ Spread(Head(stream))
  /\ stream' = Tail(stream)
  /\ UNCHANGED <<platform, connected, sent, missed>>

RunListener(e) ==
  /\ e \in threads /\ e.type # "ServerDelete"
  /\ cached' = Listener(cached, e)
  /\ late' = late \cup Overtaken(e) /\ disordered' = disordered \cup Overtaken(e)
  /\ threads' = threads \ {e}
  /\ UNCHANGED <<platform, connected, stream, erasing, sent, missed>>

(* on_server_delete only starts a thread that sleeps. *)
StartErasing(e) ==
  /\ e \in threads /\ e.type = "ServerDelete"
  /\ threads' = threads \ {e}
  /\ erasing' = erasing \cup {e}
  /\ UNCHANGED <<platform, cached, connected, stream, sent, late, disordered, missed>>

Erase(e) ==
  /\ e \in erasing
  /\ cached' = Put(cached, e.server, Absent)
  /\ late' = late \cup Overtaken(e) /\ disordered' = disordered \cup Overtaken(e)
  /\ erasing' = erasing \ {e}
  /\ UNCHANGED <<platform, connected, stream, threads, sent, missed>>
-----------------------------------------------------------------------------
(* What happens on the platform, and the event that tells a bot about it.  *)
Tell(e) ==
  /\ sent < MaxEvents /\ sent' = sent + 1
  /\ stream' = IF connected THEN Append(stream, e) ELSE stream
  /\ UNCHANGED <<cached, connected, threads, erasing, late, disordered>>

Has(s) == platform.servers[s] # Absent

AddServer(s) ==
  /\ ~Has(s)
  /\ \E nm \in Name, cs \in SUBSET Channel, us \in SUBSET User :
       LET v == [name |-> nm, roles |-> <<>>]
           new == [Put(platform, s, v) EXCEPT !.channels = @ \cup ({s} \X cs),
                                              !.members = @ \cup ({s} \X us)]
       IN /\ platform' = new
          /\ missed' = (missed \ {s}) \ (({s} \X cs) \cup ({s} \X us))
          /\ Tell([type |-> "ServerCreate", n |-> sent + 1, server |-> s, value |-> v, channels |-> cs])

(* Nobody tells about the channels and members of a server that goes. *)
RemoveServer(s) ==
  LET gone == {p \in platform.channels \cup platform.members : p[1] = s} IN
  /\ Has(s)
  /\ platform' = [Put(platform, s, Absent) EXCEPT !.channels = @ \ gone, !.members = @ \ gone]
  /\ missed' = missed \cup gone \cup (IF connected THEN {} ELSE {s})
  /\ Tell([type |-> "ServerDelete", n |-> sent + 1, server |-> s])

RenameServer(s) ==
  /\ Has(s)
  /\ \E nm \in Name \cup {Absent} :
       LET e == [type |-> "ServerUpdate", n |-> sent + 1, server |-> s, name |-> nm]
       IN platform' = OnServerUpdate(platform, e) /\ Tell(e)
  /\ UNCHANGED missed

ChangeRole(s, r) ==
  /\ Has(s)
  /\ \E t \in IF r \in DOMAIN platform.servers[s].roles THEN {"RoleUpdate", "RoleDelete"} ELSE {"RoleCreate"},
        nm \in Name :
       LET e == [type |-> t, n |-> sent + 1, server |-> s, role |-> r, name |-> nm] IN
       /\ platform' = CASE t = "RoleCreate" -> OnRoleCreate(platform, e)
                        [] t = "RoleUpdate" -> OnRoleUpdate(platform, e)
                        [] t = "RoleDelete" -> OnRoleDelete(platform, e)
       /\ Tell(e)
  /\ UNCHANGED missed

(* A channel or a member comes or goes: what goes unseen is missed.        *)
Goes(p) == missed' = IF connected THEN missed \ {p} ELSE missed \cup {p}

Comes(p) == missed' = missed \ {p}

ToggleChannel(s, c) ==
  LET p == <<s, c>> IN
  /\ Has(s)
  /\ \/ /\ p \in platform.channels
        /\ platform' = [platform EXCEPT !.channels = @ \ {p}]
        /\ Goes(p)
        /\ Tell([type |-> "ChannelDelete", n |-> sent + 1, server |-> s, channel |-> c])
     \/ /\ p \notin platform.channels
        /\ platform' = [platform EXCEPT !.channels = @ \cup {p}]
        /\ Comes(p)
        /\ Tell([type |-> "ChannelCreate", n |-> sent + 1, server |-> s, channel |-> c])

ToggleMember(s, u) ==
  LET p == <<s, u>> IN
  /\ Has(s)
  /\ \/ /\ p \in platform.members
        /\ platform' = [platform EXCEPT !.members = @ \ {p}]
        /\ Goes(p)
        /\ Tell([type |-> "MemberLeave", n |-> sent + 1, server |-> s, user |-> u])
     \/ /\ p \notin platform.members
        /\ platform' = [platform EXCEPT !.members = @ \cup {p}]
        /\ Comes(p)
        /\ Tell([type |-> "MemberJoin", n |-> sent + 1, server |-> s, user |-> u])

Disconnect ==
  /\ connected /\ connected' = FALSE
  /\ UNCHANGED <<platform, cached, stream, threads, erasing, sent, late, disordered, missed>>

(* A new connection begins with Ready: what the platform has now. *)
Reconnect ==
  /\ ~connected /\ connected' = TRUE
  /\ sent < MaxEvents /\ sent' = sent + 1
  /\ stream' = Append(stream, [type |-> "Ready", n |-> sent + 1, state |-> platform])
  /\ UNCHANGED <<platform, cached, threads, erasing, late, disordered, missed>>

PlatformStep ==
  \E s \in Server :
    \/ AddServer(s) \/ RemoveServer(s) \/ RenameServer(s)
    \/ \E r \in Role : ChangeRole(s, r)
    \/ \E c \in Channel : ToggleChannel(s, c)
    \/ \E u \in User : ToggleMember(s, u)

Next ==
  \/ Work
  \/ \E e \in threads : RunListener(e) \/ StartErasing(e)
  \/ \E e \in erasing : Erase(e)
  \/ PlatformStep
  \/ Disconnect \/ Reconnect

Spec == Init /\ [][Next]_vars
-----------------------------------------------------------------------------
Settled == connected /\ stream = <<>> /\ threads = {} /\ erasing = {}

(* Once every event is handled, a server is cached exactly as the platform *)
(* has it, its name and roles included, unless an older event of it was    *)
(* applied after a newer one, or it went while the bot was not connected.  *)
SettledIsExact ==
  Settled => \A s \in Server :
    \/ cached.servers[s] = platform.servers[s]
    \/ s \in late
    \/ s \in missed /\ ~Has(s)

(* The channels of a server are all cached, unless its events were late;   *)
(* one that is cached and is gone went with its server or unseen.          *)
ChannelsAreKnown ==
  Settled => \A p \in Server \X Channel : p[1] \notin disordered =>
    /\ p \in platform.channels => p \in cached.channels
    /\ p \in cached.channels \ platform.channels => p \in missed

(* A member who left is not counted any more, unless unseen or ignored.    *)
LeftIsNotCounted ==
  Settled => \A p \in Server \X User :
    p \in cached.members \ platform.members => p[1] \in disordered \/ p \in missed \/ p[2] \in Ignored

(* The cache follows the platform as far as the order of events lets it.   *)
CacheFollows == TypeOK /\ SettledIsExact /\ ChannelsAreKnown /\ LeftIsNotCounted
=============================================================================
