-------------------------- MODULE MCCommandDispatch --------------------------
(***************************************************************************)
(* Instances of CommandDispatch: two commands, each found by its name or an*)
(* alias; one of the second's aliases is the name of the first, which wins,*)
(* and it is restricted.  The initial state chooses a question, and only   *)
(* the messages and changes that matter to it happen.                      *)
(***************************************************************************)
EXTENDS CommandDispatch

CONSTANTS ping, PING, p, kick, hello, manage, moderator, alice, bob

VARIABLE part

allVars == <<part, vars>>

Words == {ping, PING, p, kick, hello}
FoldCase == [w \in Words |-> IF w = PING THEN ping ELSE w]

Limited == [name |-> ping, aliases |-> {p}, cooldown |-> 1, required |-> {}]
Restricted == [name |-> kick, aliases |-> {p, ping}, cooldown |-> 1, required |-> {manage}]
Both == <<Limited, Restricted>>

VersionWith(owner, granted) ==
  [owner |-> owner, default |-> {}, grants |-> [r \in {moderator} |-> granted]]
Versions == {VersionWith(bob, {}), VersionWith(bob, {manage}), VersionWith(alice, {})}
-----------------------------------------------------------------------------
(* Uses of the first command outside servers, by its name or its alias,    *)
(* up to their verdicts.  Threads are numbered in the order of messages.   *)
Cooldowns ==
  /\ part = "cooldowns"
  /\ UNCHANGED <<roles, server>>
  /\ \A t \in Thread :
       /\ pc'[t] \in {"idle", "limiting", "cooling", "deciding"}
       /\ content'[t] # Unset =>
            /\ content'[t].word \in {ping, p} /\ ~content'[t].inServer
            /\ \A u \in Thread : u < t => content'[u] # Unset

(* Two dispatches of one user, in and outside a server that is not cached. *)
Outcomes ==
  /\ part = "outcomes"
  /\ UNCHANGED world
  /\ \A t \in Thread :
       /\ t > 2 => pc'[t] = "idle"
       /\ content'[t] # Unset => content'[t].author = alice

(* One dispatch while the author's roles and the server change.            *)
Permissions ==
  /\ part = "permissions"
  /\ clock' = 1 /\ roles'[bob] = roles[bob]
  /\ \A t \in Thread :
       /\ t > 1 => pc'[t] = "idle"
       /\ content'[t] # Unset => content'[t].author = alice

Within == part' = part /\ (Cooldowns \/ Outcomes \/ Permissions)

MCInit ==
  /\ Init
  /\ \/ part \in {"cooldowns", "outcomes"} /\ server = NoServer /\ \A u \in User : roles[u] = {}
     \/ part = "permissions" /\ roles[bob] = {}

(* The fairness of CommandDispatch, where Within keeps none from advancing.*)
MCSpec ==
  /\ MCInit /\ [][Next /\ Within]_allVars
  /\ \A t \in Thread : WF_vars(part = "outcomes" /\ ~terminated /\ Advance(t))
-----------------------------------------------------------------------------
(* DispatchEnds of CommandDispatch. *)
DispatchesEnd == part = "outcomes" => DispatchEnds
=============================================================================
