---------------------------- MODULE ReportedCall ----------------------------
(***************************************************************************)
(* What a caller of the REST client can rely on, without saying how: a     *)
(* call has exactly one outcome, it succeeds only if the platform carried  *)
(* it out, and only a call that creates something can be carried out more  *)
(* than once, at most as often as it is tried, if need be after the end.   *)
(***************************************************************************)
EXTENDS Naturals

CONSTANTS
  Request,
  Tries                     \* how often a call is tried at most

VARIABLES
  kind,                     \* "none" before the call, then what it does
  effects,                  \* how often the platform carried the call out
  outcome                   \* "none", then "ok" or "failed"

vars == <<kind, effects, outcome>>

Init ==
  /\ kind = [r \in Request |-> "none"]
  /\ effects = [r \in Request |-> 0]
  /\ outcome = [r \in Request |-> "none"]

Ask(r) ==
  /\ kind[r] = "none"
  /\ \E k \in {"creates", "repeatable"} : kind' = [kind EXCEPT ![r] = k]
  /\ UNCHANGED <<effects, outcome>>

CarryOut(r) ==
  /\ kind[r] # "none"
  /\ effects[r] < IF kind[r] = "creates" THEN Tries ELSE 1
  /\ effects' = [effects EXCEPT ![r] = @ + 1]
  /\ UNCHANGED <<kind, outcome>>

Report(r) ==
  /\ kind[r] # "none" /\ outcome[r] = "none"
  /\ \E o \in {"ok", "failed"} :
       /\ o = "ok" => effects[r] > 0
       /\ outcome' = [outcome EXCEPT ![r] = o]
  /\ UNCHANGED <<kind, effects>>

Next == \E r \in Request : Ask(r) \/ CarryOut(r) \/ Report(r)

Spec ==
  /\ Init /\ [][Next]_vars
  /\ \A r \in Request : WF_vars(Report(r))
=============================================================================
