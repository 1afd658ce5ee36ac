---------------------------- MODULE CooldownGate ----------------------------
(***************************************************************************)
(* What a cooldown promises, without saying how: a request is granted      *)
(* exactly if every grant of its key is at least its period ago, and no    *)
(* decision is taken back.  A refusal costs nothing: only grants count.    *)
(***************************************************************************)
EXTENDS Naturals

CONSTANTS
  Request,
  Key,            \* what the requests that limit each other have in common
  NoKey,          \* the key of a request that is not decided
  Period          \* the possible distances, in ticks of the clock

VARIABLES clock, key, period, verdict, at

vars == <<clock, key, period, verdict, at>>

Init ==
  /\ clock = 1
  /\ key = [r \in Request |-> NoKey]
  /\ period = [r \in Request |-> 0]
  /\ verdict = [r \in Request |-> "none"]
  /\ at = [r \in Request |-> 0]

Tick ==
  /\ clock' = clock + 1
  /\ UNCHANGED <<key, period, verdict, at>>

TooSoon(k, p) ==
  \E q \in Request : verdict[q] = "granted" /\ key[q] = k /\ clock < at[q] + p

Decide(r) ==
  /\ verdict[r] = "none"
  /\ \E k \in Key, p \in Period :
       /\ key' = [key EXCEPT ![r] = k]
       /\ period' = [period EXCEPT ![r] = p]
       /\ verdict' = [verdict EXCEPT ![r] = IF TooSoon(k, p) THEN "refused" ELSE "granted"]
  /\ at' = [at EXCEPT ![r] = clock]
  /\ UNCHANGED clock

Next == Tick \/ \E r \in Request : Decide(r)

Spec == Init /\ [][Next]_vars
=============================================================================
