--------------------------- MODULE ReactionRoles ---------------------------
(***************************************************************************)
(* examples/reaction_roles_bot: a member's reactions on one message give   *)
(* and take one role.                                                      *)
(*                                                                         *)
(* The platform sends an event for every reaction that is added or         *)
(* removed.  The gateway handles each on a thread of its own; its handler  *)
(* looks the channel up in the cache and starts a call of RoleUpdates.     *)
(***************************************************************************)
EXTENDS RoleUpdates

CONSTANTS
  Assigned        \* ASSIGNED_ROLE_ID

ASSUME EventNumbers == Call \subseteq Nat /\ Assigned \in Role

VARIABLES
  sent,           \* how many reactions were added or removed, in turns
  handled,        \* the events whose handler ran
  overlapped      \* history: a handler ran before the call of an earlier event ended

reactionVars == <<vars, sent, handled, overlapped>>

(* Odd events are MessageReact, even ones MessageUnreact. *)
IsReact(n) == n % 2 = 1

Reacted == IsReact(sent)

RInit ==
  /\ Init
  /\ roles \cap {Assigned} = {}
  /\ \A n \in Call :
       job[n].role = Assigned /\ job[n].op = IF IsReact(n) THEN "add" ELSE "remove"
  /\ sent = 0
  /\ handled = {}
  /\ overlapped = FALSE

ToggleReaction ==
  /\ sent + 1 \in Call
  /\ sent' = sent + 1
  /\ UNCHANGED <<vars, handled, overlapped>>

Overlaps(n) ==
  \E k \in Call \ {n} :
    job[k].pc \in {"getting", "patching"} \/ (k < n) # (k \in handled)

(* Faulty: gives the role for a removed reaction, too. *)
HandleAsReact(n) ==
  /\ n <= sent /\ n \notin handled
  /\ handled' = handled \cup {n}
  /\ overlapped' = (overlapped \/ Overlaps(n))
  /\ job' = [job EXCEPT ![n].pc = "getting", ![n].op = "add"]
  /\ UNCHANGED <<roles, touched, stale, outside, sent>>

(* The handler of the event: nothing is done for a channel not in the      *)
(* cache.                                                                  *)
Handle(n) ==
  /\ n <= sent /\ n \notin handled
  /\ handled' = handled \cup {n}
  /\ overlapped' = (overlapped \/ Overlaps(n))
  /\ Start(n) \/ UNCHANGED vars
  /\ UNCHANGED sent

RNext ==
  \/ ToggleReaction
  \/ \E n \in Call : Handle(n)
  \/ \E n \in Call : (Work(n) \/ Apply(n)) /\ UNCHANGED <<sent, handled, overlapped>>
  \/ Outside /\ UNCHANGED <<sent, handled, overlapped>>

RSpec == RInit /\ [][RNext]_reactionVars
-----------------------------------------------------------------------------
(* When every event was handled, every call succeeded, and nobody else     *)
(* changed the roles, the member has the role exactly if the reaction is   *)
(* there.  docs.md: "dynamically assign and remove roles based on member   *)
(* reactions".                                                             *)
Settled ==
  /\ outside = 0
  /\ \A n \in Call : n <= sent => job[n].report = "ok"

RoleFollowsReaction == Settled => (Assigned \in roles) = Reacted

(* It may fail to only if two of the events were handled out of order or   *)
(* at once, or if a PATCH that was given up came through late: when the    *)
(* roles had changed since.                                                *)
DivergenceNeedsOverlap ==
  RoleFollowsReaction \/ overlapped \/ \E n \in Call : stale[n]
=============================================================================
