-------------------------- MODULE MCGatewaySession --------------------------
(***************************************************************************)
(* Instances of GatewaySession, one for each way to authenticate: the      *)
(* initial state chooses whether by the event or by the token in the URL.  *)
(***************************************************************************)
EXTENDS GatewaySession

VARIABLE part

allVars == <<part, vars>>

Url == INSTANCE GatewaySession WITH AuthInUrl <- TRUE

ASSUME EventByDefault == ~AuthInUrl
-----------------------------------------------------------------------------
MCInit == part \in {"event", "url"} /\ Init

MCNext ==
  /\ part' = part
  /\ \/ part = "event" /\ Next
     \/ part = "url" /\ Url!Next

(* The fairness of GatewaySession; of the actions it names only those of   *)
(* the socket depend on the way to authenticate.                           *)
MCSpec ==
  /\ MCInit /\ [][MCNext]_allVars
  /\ \A t \in Thread : WF_vars(~terminated /\ Routine(t))
  /\ WF_vars(part = "event" /\ ~terminated /\ Socket)
  /\ WF_vars(part = "url" /\ ~terminated /\ Url!Socket)
  /\ WF_vars(~terminated /\ HandleAuthenticated)
  /\ WF_vars(~terminated /\ Pinger)
  /\ WF_vars(~terminated /\ TimePasses)
  /\ WF_vars(~terminated /\ Watchdog)
  /\ WF_vars(~terminated /\ Disconnecting)
-----------------------------------------------------------------------------
(* FlagIsEarned of GatewaySession, which is about the event: the claim may *)
(* only be false while an event handled late is its cause.                 *)
EarnedUnlessLate == part = "event" => FlagIsEarned
=============================================================================
