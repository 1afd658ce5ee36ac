-------------------------- MODULE RestClientProofs --------------------------
(***************************************************************************)
(* Proofs about the REST client, for any number of calls, retries and any  *)
(* resolution of the clock.                                                *)
(*                                                                         *)
(* What was done twice, and what is reported of it, needs a tally of the   *)
(* tries: a call's effects and its late requests together are at most the  *)
(* tries that were given up, and one more for an answer that is under way  *)
(* or was returned (Tallied).                                              *)
(***************************************************************************)
EXTENDS MCRestClient, SequenceTheorems, TLAPS

(* The answer that accounts for an effect without a lost try. *)
Current(r) == IF remote[r].status = "ok" \/ task[r].outcome = "ok" THEN 1 ELSE 0

(* How the fields of a call hang together. *)
Phased(r) ==
  /\ task[r].outcome = "none" <=> task[r].pc # "done"
  /\ remote[r].status # "none" => task[r].pc = "sent"
  /\ task[r].pc = "idle" =>
       /\ remote[r].effects = 0 /\ remote[r].lost = 0 /\ remote[r].late = 0
       /\ first[r].sentAt = -1

Tallied(r) ==
  /\ IF Method(r) = "POST"
     THEN remote[r].effects + remote[r].late <= remote[r].lost + Current(r)
     ELSE remote[r].effects <= 1 /\ remote[r].late <= remote[r].lost
  /\ remote[r].effects > 0 => remote[r].lost > 0 \/ Current(r) = 1
  /\ Current(r) = 1 => remote[r].effects > 0
  /\ remote[r].lost = task[r].retries + (IF task[r].outcome = "failed" THEN 1 ELSE 0)
  /\ task[r].reported = IF task[r].outcome \in {"none", "ok", "raised"} THEN 0 ELSE 1

Awaited(r) ==
  /\ task[r].pc = "waiting" /\ first[r].sentAt = -1 =>
       task[r].wakeAt + TicksPerMs > first[r].seen
  /\ first[r].sentAt = -1 => task[r].pc \in {"idle", "waiting", "done"}
  /\ first[r].sentAt # -1 => first[r].sentAt + TicksPerMs > first[r].seen

CallInv(r) == Phased(r) /\ Tallied(r) /\ Awaited(r)

AllCalls == TypeOK /\ \A r \in Request : CallInv(r)
-----------------------------------------------------------------------------
(* Two facts of arithmetic, for the provers. *)
LEMMA Products == \A a, b \in Nat : a * b \in Nat
  BY Z3

LEMMA Truncation ==
  ASSUME NEW d \in Nat, NEW t \in Nat \ {0}
  PROVE  d \div t \in Nat /\ (d \div t) * t <= d /\ (d \div t) * t + t > d
  BY Z3

LEMMA LaterType ==
  ASSUME TypeOK, NEW d \in Nat
  PROVE  /\ Later(d) \in 0..MaxClock
         /\ Later(d) = clock + d \/ Later(d) = MaxClock
  BY RestConstants DEF Later, TypeOK

LEMMA PauseType ==
  ASSUME TypeOK, NEW r \in Request, NEW d \in Nat
  PROVE  /\ Pause(r, d) \in Tasks
         /\ Pause(r, d) = [task[r] EXCEPT !.pc = "waiting", !.wakeAt = Later(d)]
<1>1. task[r] \in Tasks
  BY DEF TypeOK
<1>2. Pause(r, d) = [task[r] EXCEPT !.pc = "waiting", !.wakeAt = Later(d)]
  BY DEF Pause
<1>3. Later(d) \in 0..MaxClock
  BY LaterType
<1> QED
  BY <1>1, <1>2, <1>3 DEF Tasks

(* The pause before the first sending lets a known limit pass, but for a   *)
(* part of a millisecond.                                                  *)
LEMMA CheckLeaves ==
  ASSUME TypeOK, NEW b \in Keys
  PROVE  /\ Check(b) * TicksPerMs \in Nat
         /\ LimitOf(b) \in 0..MaxClock
         /\ clock + Check(b) * TicksPerMs + TicksPerMs > LimitOf(b)
<1> DEFINE L == LimitOf(b)
<1>1. L \in 0..MaxClock /\ clock \in 0..MaxClock /\ TicksPerMs \in Nat \ {0} /\ MaxClock \in Nat
  BY RestConstants DEF LimitOf, TypeOK
<1>2. CASE clock >= L
  <2>1. Check(b) = 0
    BY <1>2 DEF Check
  <2> QED
    BY <1>1, <1>2, <2>1
<1>3. CASE ~(clock >= L)
  <2>1. Check(b) = (L - clock) \div TicksPerMs
    BY <1>3 DEF Check
  <2>2. L - clock \in Nat
    BY <1>1, <1>3
  <2> HIDE DEF L
  <2> DEFINE c == Check(b)  p == c * TicksPerMs
  <2>3. c \in Nat /\ p <= L - clock /\ p + TicksPerMs > L - clock
    BY <1>1, <2>1, <2>2, Truncation
  <2>4. p \in Nat
    BY <1>1, <2>3, Products
  <2> HIDE DEF c, p
  <2>5. clock + p + TicksPerMs > L
    BY <1>1, <2>3, <2>4
  <2> QED
    BY <1>1, <2>4, <2>5 DEF L, c, p
<1> QED
  BY <1>2, <1>3
-----------------------------------------------------------------------------
LEMMA TypeInit == Init => TypeOK
<1> SUFFICES ASSUME Init PROVE TypeOK
  OBVIOUS
<1> USE RestConstants
<1>1. task \in [Request -> Tasks]
  BY DEF Init, Tasks
<1>2. remote \in [Request -> Remotes]
  BY DEF Init, Remotes
<1>3. first \in [Request -> [seen : 0..MaxClock, sentAt : -1..MaxClock]]
  BY DEF Init
<1>4. buckets \in [Keys -> [remaining : Nat, resetAt : 0..MaxClock]] /\ clock \in 0..MaxClock
  BY DEF Init
<1>5. call \in [Request -> Calls \X Target]
  BY DEF Init
<1> QED
  BY <1>1, <1>2, <1>3, <1>4, <1>5 DEF TypeOK

LEMMA UpdateType ==
  ASSUME TypeOK, NEW r \in Request, UpdateLimiter(r)
  PROVE  buckets' \in [Keys -> [remaining : Nat, resetAt : 0..MaxClock]]
<1>1. CASE UNCHANGED buckets
  BY <1>1 DEF TypeOK
<1>2. ASSUME NEW b \in {call[r], SharedBucket}, NEW left \in 0..1, NEW w \in Waits,
             buckets' = [buckets EXCEPT ![b] =
                           [remaining |-> left, resetAt |-> Later(w * TicksPerMs)]]
      PROVE  buckets' \in [Keys -> [remaining : Nat, resetAt : 0..MaxClock]]
  <2>1. w * TicksPerMs \in Nat
    BY RestConstants, Products
  <2>2. Later(w * TicksPerMs) \in 0..MaxClock
    BY <2>1, LaterType
  <2>3. left \in Nat
    OBVIOUS
  <2> QED
    BY <1>2, <2>2, <2>3 DEF TypeOK
<1> QED
  BY <1>1, <1>2 DEF UpdateLimiter

(* The thread of a call after an answer, or none, of its last try. *)
LEMMA FailType ==
  ASSUME TypeOK, NEW r \in Request, NEW o \in {"rejected", "failed", "thrown"}
  PROVE  Fail(r, o) \in Tasks /\ Succeed(r) \in Tasks /\ Raise(r) \in Tasks
<1>1. task[r] \in Tasks
  BY DEF TypeOK
<1>2. task[r].reported + 1 \in Nat
  BY <1>1 DEF Tasks
<1>3. Fail(r, o) \in Tasks
  BY <1>1, <1>2 DEF Fail, Tasks
<1>4. Succeed(r) \in Tasks /\ Raise(r) \in Tasks
  BY <1>1 DEF Succeed, Raise, Tasks
<1> QED
  BY <1>3, <1>4

LEMMA AnsweredType ==
  ASSUME TypeOK, NEW r \in Request, NEW s, Answered(r, s)
  PROVE  /\ remote' \in [Request -> Remotes]
         /\ buckets' \in [Keys -> [remaining : Nat, resetAt : 0..MaxClock]]
         /\ UNCHANGED <<call, first, clock>>
<1>1. remote[r] \in Remotes
  BY DEF TypeOK
<1>2. [remote[r] EXCEPT !.status = "none"] \in Remotes
  BY <1>1 DEF Remotes
<1>3. remote' = [remote EXCEPT ![r].status = "none"] /\ UpdateLimiter(r)
  BY DEF Answered
<1> QED
  BY <1>2, <1>3, UpdateType DEF Answered, TypeOK

LEMMA LoseType ==
  ASSUME TypeOK, NEW r \in Request, Lose(r)
  PROVE  remote' \in [Request -> Remotes] /\ UNCHANGED <<call, first, buckets, clock>>
<1>1. remote[r] \in Remotes
  BY DEF TypeOK
<1>2. PICK late \in {0, 1} :
        remote' = [remote EXCEPT ![r].lost = @ + 1, ![r].late = @ + late, ![r].status = "none"]
  BY DEF Lose
<1>3. remote[r].lost + 1 \in Nat /\ remote[r].late + late \in Nat
  BY <1>1 DEF Remotes
<1>4. [remote[r] EXCEPT !.lost = @ + 1, !.late = @ + late, !.status = "none"] \in Remotes
  BY <1>1, <1>3 DEF Remotes
<1> QED
  BY <1>2, <1>4 DEF Lose, TypeOK

LEMMA EffectsType ==
  ASSUME TypeOK, NEW r \in Request
  PROVE  Effects(r) \in Nat
<1>1. remote[r].effects \in Nat
  BY DEF TypeOK, Remotes
<1> QED
  BY <1>1 DEF Effects

LEMMA TypeStep == TypeOK /\ [Next]_vars => TypeOK'
<1> SUFFICES ASSUME TypeOK, [Next]_vars PROVE TypeOK'
  OBVIOUS
<1>1. ASSUME NEW r \in Request, Begin(r) PROVE TypeOK'
  <2> DEFINE d == IF RespectLimits THEN Check(call[r]) * TicksPerMs ELSE 0
  <2>1. call[r] \in Keys
    BY DEF TypeOK, Keys
  <2>2. d \in Nat
    BY <2>1, CheckLeaves
  <2>3. task' = [task EXCEPT ![r] = Pause(r, d)] /\ UNCHANGED <<call, remote, buckets, clock>>
    BY <1>1 DEF Begin
  <2>4. task' \in [Request -> Tasks]
    BY <2>2, <2>3, PauseType DEF TypeOK
  <2>5. (IF RespectLimits THEN LimitOf(call[r]) ELSE 0) \in 0..MaxClock
    BY <2>1, CheckLeaves, RestConstants
  <2>6. [first[r] EXCEPT !.seen = IF RespectLimits THEN LimitOf(call[r]) ELSE 0]
          \in [seen : 0..MaxClock, sentAt : -1..MaxClock]
    BY <2>5 DEF TypeOK
  <2>7. first' \in [Request -> [seen : 0..MaxClock, sentAt : -1..MaxClock]]
    BY <1>1, <2>6 DEF Begin, TypeOK
  <2> QED
    BY <2>3, <2>4, <2>7 DEF TypeOK
<1>2. ASSUME NEW r \in Request, Send(r) PROVE TypeOK'
  <2>1. [task[r] EXCEPT !.pc = "sent"] \in Tasks
    <3>1. task[r] \in Tasks
      BY DEF TypeOK
    <3> QED
      BY <3>1 DEF Tasks
  <2>2. task' \in [Request -> Tasks]
    BY <1>2, <2>1 DEF Send, TypeOK
  <2>3. clock \in -1..MaxClock
    BY RestConstants DEF TypeOK
  <2>4. [first[r] EXCEPT !.sentAt = IF @ = -1 THEN clock ELSE @]
          \in [seen : 0..MaxClock, sentAt : -1..MaxClock]
    BY <2>3 DEF TypeOK
  <2>5. first' \in [Request -> [seen : 0..MaxClock, sentAt : -1..MaxClock]]
    BY <1>2, <2>4 DEF Send, TypeOK
  <2> QED
    BY <1>2, <2>2, <2>5 DEF Send, TypeOK
<1>3. ASSUME NEW r \in Request, NoResult(r) PROVE TypeOK'
  <2>1. remote' \in [Request -> Remotes] /\ UNCHANGED <<call, first, buckets, clock>>
    BY <1>3, LoseType DEF NoResult
  <2>2. CASE task[r].retries < RetryCount
    <3>1. task[r] \in Tasks /\ Pause(r, RetryDelay) \in Tasks
      BY RestConstants, PauseType DEF TypeOK
    <3>2. Pause(r, RetryDelay).retries = task[r].retries
      BY <3>1 DEF Pause, Tasks
    <3>3. task[r].retries + 1 \in 0..RetryCount
      BY <2>2, <3>1, RestConstants DEF Tasks
    <3>4. [Pause(r, RetryDelay) EXCEPT !.retries = @ + 1] \in Tasks
      BY <3>1, <3>2, <3>3 DEF Tasks
    <3> QED
      BY <1>3, <2>1, <2>2, <3>4 DEF NoResult, TypeOK
  <2>3. CASE ~(task[r].retries < RetryCount)
    BY <1>3, <2>1, <2>3, FailType DEF NoResult, TypeOK
  <2> QED
    BY <2>2, <2>3
<1>4. ASSUME NEW r \in Request, Success(r) PROVE TypeOK'
  BY <1>4, AnsweredType, FailType DEF Success, TypeOK
<1>5. ASSUME NEW r \in Request, Rejection(r) PROVE TypeOK'
  BY <1>5, AnsweredType, FailType DEF Rejection, TypeOK
<1>6. ASSUME NEW r \in Request, Limited(r) PROVE TypeOK'
  <2>1. PICK t \in {Fail(r, "thrown")} \cup {Pause(r, w * TicksPerMs) : w \in Waits} :
          task' = [task EXCEPT ![r] = t]
    BY <1>6 DEF Limited
  <2>2. t \in Tasks
    <3>1. \A w \in Waits : w * TicksPerMs \in Nat
      BY RestConstants, Products
    <3> QED
      BY <3>1, PauseType, FailType
  <2> QED
    BY <1>6, <2>1, <2>2, AnsweredType DEF Limited, TypeOK
<1>7. ASSUME NEW r \in Request, CarryOut(r) \/ CarryOutLate(r) \/ Refuse(r) PROVE TypeOK'
  <2>1. remote[r] \in Remotes /\ Effects(r) \in Nat
    BY EffectsType DEF TypeOK
  <2>2. \A s \in {"ok", "refused"} :
          [remote[r] EXCEPT !.status = s, !.effects = Effects(r)] \in Remotes
    BY <2>1 DEF Remotes
  <2>3. remote[r].late > 0 =>
          [remote[r] EXCEPT !.late = @ - 1, !.effects = Effects(r)] \in Remotes
    <3>1. remote[r].late > 0 => remote[r].late - 1 \in Nat
      BY <2>1 DEF Remotes
    <3> QED
      BY <2>1, <3>1 DEF Remotes
  <2>4. [remote[r] EXCEPT !.status = "refused"] \in Remotes
    BY <2>1 DEF Remotes
  <2>5. remote[r].refusals < MaxRefusals =>
          [remote[r] EXCEPT !.status = "limited", !.refusals = @ + 1] \in Remotes
    <3>1. remote[r].refusals < MaxRefusals => remote[r].refusals + 1 \in 0..MaxRefusals
      BY <2>1, RestConstants DEF Remotes
    <3> QED
      BY <2>1, <3>1 DEF Remotes
  <2>6. remote' \in [Request -> Remotes]
    <3>1. CASE CarryOut(r)
      BY <2>2, <3>1 DEF CarryOut, TypeOK
    <3>2. CASE CarryOutLate(r)
      BY <2>3, <3>2 DEF CarryOutLate, TypeOK
    <3>3. CASE Refuse(r)
      BY <2>4, <2>5, <3>3 DEF Refuse, TypeOK
    <3> QED
      BY <1>7, <3>1, <3>2, <3>3
  <2>7. UNCHANGED <<call, task, first, buckets, clock>>
    BY <1>7 DEF CarryOut, CarryOutLate, Refuse
  <2> QED
    BY <2>6, <2>7 DEF TypeOK
<1>8. CASE Tick
  BY <1>8, RestConstants DEF Tick, TypeOK
<1>9. CASE UNCHANGED vars
  BY <1>9 DEF vars, TypeOK
<1>10. ASSUME NEW r \in Request, Unsent(r) PROVE TypeOK'
  <2>1. Raise(r) \in Tasks
    BY FailType
  <2> QED
    BY <1>10, <2>1 DEF Unsent, TypeOK
<1> QED
  BY <1>1, <1>2, <1>3, <1>4, <1>5, <1>6, <1>7, <1>8, <1>9, <1>10 DEF Next, Result

-----------------------------------------------------------------------------
LEMMA Fields ==
  ASSUME TypeOK, NEW r \in Request
  PROVE  /\ remote[r].effects \in Nat /\ remote[r].lost \in Nat /\ remote[r].late \in Nat
         /\ remote[r].status \in {"none", "ok", "refused", "limited"}
         /\ task[r].retries \in 0..RetryCount /\ task[r].reported \in Nat
         /\ task[r].pc \in {"idle", "waiting", "sent", "done"}
         /\ task[r].outcome \in {"none", "ok", "rejected", "failed", "thrown", "raised"}
         /\ task[r].wakeAt \in 0..MaxClock /\ clock \in 0..MaxClock
         /\ first[r].seen \in 0..MaxClock /\ first[r].sentAt \in -1..MaxClock
<1>1. task[r] \in Tasks /\ remote[r] \in Remotes
  BY DEF TypeOK
<1>2. first[r] \in [seen : 0..MaxClock, sentAt : -1..MaxClock] /\ clock \in 0..MaxClock
  BY DEF TypeOK
<1> QED
  BY <1>1, <1>2 DEF Tasks, Remotes

LEMMA CallInvInit == Init => \A r \in Request : CallInv(r)
<1> SUFFICES ASSUME Init, NEW r \in Request PROVE CallInv(r)
  OBVIOUS
<1>1. /\ task[r] = [pc |-> "idle", retries |-> 0, wakeAt |-> 0,
                    outcome |-> "none", reported |-> 0]
      /\ remote[r] = [status |-> "none", effects |-> 0, lost |-> 0,
                      late |-> 0, refusals |-> 0]
      /\ first[r] = [seen |-> 0, sentAt |-> -1]
  BY DEF Init
<1> QED
  BY <1>1 DEF CallInv, Phased, Tallied, Awaited, Current

(* A step that leaves a call alone. *)
LEMMA Untouched ==
  ASSUME NEW q \in Request, CallInv(q), UNCHANGED call,
         task'[q] = task[q], remote'[q] = remote[q], first'[q] = first[q]
  PROVE  CallInv(q)'
BY DEF CallInv, Phased, Tallied, Awaited, Current, Method

(* The steps of one call, by what they do to the fields of its records. *)
LEMMA BeginKeeps ==
  ASSUME TypeOK, NEW r \in Request, CallInv(r), Begin(r)
  PROVE  CallInv(r)'
<1> DEFINE d == IF RespectLimits THEN Check(call[r]) * TicksPerMs ELSE 0
           s == IF RespectLimits THEN LimitOf(call[r]) ELSE 0
<1>1. call[r] \in Keys /\ task[r] \in Tasks
  BY DEF TypeOK, Keys
<1>2. d \in Nat /\ s \in 0..MaxClock /\ clock + d + TicksPerMs > s
  <2>1. CASE RespectLimits
    BY <1>1, <2>1, CheckLeaves
  <2>2. CASE ~RespectLimits
    BY <2>2, RestConstants DEF TypeOK
  <2> QED
    BY <2>1, <2>2
<1>3. task' = [task EXCEPT ![r] = Pause(r, d)]
  BY DEF Begin
<1>4. Pause(r, d) = [task[r] EXCEPT !.pc = "waiting", !.wakeAt = Later(d)]
  BY <1>2, PauseType
<1>5. first' = [first EXCEPT ![r].seen = s]
  BY DEF Begin
<1> HIDE DEF d, s
<1>6. Later(d) + TicksPerMs > s
  BY <1>2, LaterType, RestConstants DEF TypeOK
<1>7. /\ task'[r].pc = "waiting" /\ task'[r].wakeAt = Later(d)
      /\ task'[r].outcome = task[r].outcome /\ task'[r].retries = task[r].retries
      /\ task'[r].reported = task[r].reported
  BY <1>1, <1>3, <1>4 DEF TypeOK, Tasks
<1>8. first'[r].seen = s /\ first'[r].sentAt = first[r].sentAt
  BY <1>5 DEF TypeOK
<1>9. remote' = remote /\ call' = call /\ task[r].pc = "idle"
  BY DEF Begin
<1>10. Phased(r)'
  BY <1>7, <1>9 DEF CallInv, Phased
<1>11. Tallied(r)'
  BY <1>7, <1>9 DEF CallInv, Tallied, Current, Method
<1>12. Awaited(r)'
  BY <1>6, <1>7, <1>8, <1>9 DEF CallInv, Awaited, Phased
<1> QED
  BY <1>10, <1>11, <1>12 DEF CallInv

LEMMA SendKeeps ==
  ASSUME TypeOK, NEW r \in Request, CallInv(r), Send(r)
  PROVE  CallInv(r)'
<1>1. /\ task[r].pc = "waiting" /\ clock >= task[r].wakeAt
      /\ remote' = remote /\ call' = call
  BY DEF Send
<1>2. /\ task'[r].pc = "sent" /\ task'[r].outcome = task[r].outcome
      /\ task'[r].retries = task[r].retries /\ task'[r].reported = task[r].reported
  <2>1. task[r] \in Tasks
    BY DEF TypeOK
  <2> QED
    BY <2>1 DEF Send, TypeOK, Tasks
<1>3. /\ first'[r].seen = first[r].seen
      /\ first'[r].sentAt = IF first[r].sentAt = -1 THEN clock ELSE first[r].sentAt
  BY DEF Send, TypeOK
<1>4. Phased(r)'
  BY <1>1, <1>2, <1>3, Fields DEF CallInv, Phased
<1>5. Tallied(r)'
  BY <1>1, <1>2 DEF CallInv, Tallied, Current, Method
<1>6. Awaited(r)'
  BY <1>1, <1>2, <1>3, Fields, RestConstants DEF CallInv, Awaited
<1> QED
  BY <1>4, <1>5, <1>6 DEF CallInv

LEMMA UnsentKeeps ==
  ASSUME TypeOK, NEW r \in Request, CallInv(r), Unsent(r)
  PROVE  CallInv(r)'
<1>1. task[r].pc = "waiting" /\ remote' = remote /\ call' = call /\ first' = first
  BY DEF Unsent
<1>2. /\ task'[r].pc = "done" /\ task'[r].outcome = "raised"
      /\ task'[r].retries = task[r].retries /\ task'[r].reported = task[r].reported
  <2>1. task[r] \in Tasks
    BY DEF TypeOK
  <2> QED
    BY <2>1 DEF Unsent, Raise, TypeOK, Tasks
<1>3. Phased(r)'
  BY <1>1, <1>2, Fields DEF CallInv, Phased
<1>4. Tallied(r)'
  BY <1>1, <1>2, Fields DEF CallInv, Phased, Tallied, Current, Method
<1>5. Awaited(r)'
  BY <1>1, <1>2, Fields DEF CallInv, Awaited
<1> QED
  BY <1>3, <1>4, <1>5 DEF CallInv

LEMMA NoResultKeeps ==
  ASSUME TypeOK, NEW r \in Request, CallInv(r), NoResult(r)
  PROVE  CallInv(r)'
<1>1. task[r] \in Tasks /\ remote[r] \in Remotes
  BY DEF TypeOK
<1>2. Lose(r) /\ task[r].pc = "sent" /\ first' = first /\ call' = call
  BY DEF NoResult, Lose
<1>3. PICK late \in IF remote[r].status = "none" THEN {0, 1} ELSE {0} :
        remote' = [remote EXCEPT ![r].lost = @ + 1, ![r].late = @ + late,
                                 ![r].status = "none"]
  BY <1>2 DEF Lose
<1>4. /\ remote'[r].lost = remote[r].lost + 1 /\ remote'[r].late = remote[r].late + late
      /\ remote'[r].status = "none" /\ remote'[r].effects = remote[r].effects
  BY <1>1, <1>3 DEF TypeOK, Remotes
<1>5. CASE task[r].retries < RetryCount
  <2>1. Pause(r, RetryDelay) \in Tasks
        /\ Pause(r, RetryDelay) = [task[r] EXCEPT !.pc = "waiting", !.wakeAt = Later(RetryDelay)]
    BY RestConstants, PauseType
  <2>2. task' = [task EXCEPT ![r] = [Pause(r, RetryDelay) EXCEPT !.retries = @ + 1]]
    BY <1>5 DEF NoResult
  <2>3. /\ task'[r].pc = "waiting" /\ task'[r].outcome = task[r].outcome
        /\ task'[r].retries = task[r].retries + 1 /\ task'[r].reported = task[r].reported
    BY <1>1, <2>1, <2>2 DEF TypeOK, Tasks
  <2>4. Phased(r)'
    BY <1>2, <1>4, <2>3 DEF CallInv, Phased
  <2>5. Tallied(r)'
    BY <1>2, <1>3, <1>4, <2>3, Fields DEF CallInv, Tallied, Current, Method, Phased
  <2>6. Awaited(r)'
    BY <1>2, <2>3 DEF CallInv, Awaited
  <2> QED
    BY <2>4, <2>5, <2>6 DEF CallInv
<1>6. CASE ~(task[r].retries < RetryCount)
  <2>1. task' = [task EXCEPT ![r] = Fail(r, "failed")]
    BY <1>6 DEF NoResult
  <2>2. /\ task'[r].pc = "done" /\ task'[r].outcome = "failed"
        /\ task'[r].retries = task[r].retries /\ task'[r].reported = task[r].reported + 1
    BY <1>1, <2>1 DEF TypeOK, Tasks, Fail
  <2>3. Phased(r)'
    BY <1>4, <2>2 DEF Phased
  <2>4. Tallied(r)'
    BY <1>2, <1>3, <1>4, <2>2, Fields DEF CallInv, Tallied, Current, Method, Phased
  <2>5. Awaited(r)'
    BY <1>2, <2>2 DEF CallInv, Awaited
  <2> QED
    BY <2>3, <2>4, <2>5 DEF CallInv
<1> QED
  BY <1>5, <1>6

LEMMA AnswerKeeps ==
  ASSUME TypeOK, NEW r \in Request, CallInv(r), Success(r) \/ Rejection(r) \/ Limited(r)
  PROVE  CallInv(r)'
<1>1. task[r] \in Tasks /\ remote[r] \in Remotes
  BY DEF TypeOK
<1>2. PICK s \in {"ok", "refused", "limited"} : Answered(r, s)
  BY DEF Success, Rejection, Limited
<1>3. /\ task[r].pc = "sent" /\ remote[r].status = s /\ first' = first /\ call' = call
      /\ remote' = [remote EXCEPT ![r].status = "none"]
  BY <1>2 DEF Answered
<1>4. /\ remote'[r].lost = remote[r].lost /\ remote'[r].late = remote[r].late
      /\ remote'[r].status = "none" /\ remote'[r].effects = remote[r].effects
  BY <1>1, <1>3 DEF TypeOK, Remotes
<1>5. CASE Success(r)
  <2>1. task' = [task EXCEPT ![r] = Succeed(r)] /\ remote[r].status = "ok"
    BY <1>5 DEF Success, Answered
  <2>2. /\ task'[r].pc = "done" /\ task'[r].outcome = "ok"
        /\ task'[r].retries = task[r].retries /\ task'[r].reported = task[r].reported
    BY <1>1, <2>1 DEF TypeOK, Tasks, Succeed
  <2>3. Phased(r)' /\ Awaited(r)'
    BY <1>3, <1>4, <2>2 DEF CallInv, Phased, Awaited
  <2>4. Tallied(r)'
    BY <1>3, <1>4, <2>1, <2>2, Fields DEF CallInv, Tallied, Current, Method, Phased
  <2> QED
    BY <2>3, <2>4 DEF CallInv
<1>6. ASSUME NEW o \in {"rejected", "thrown"}, remote[r].status # "ok",
             task' = [task EXCEPT ![r] = Fail(r, o)]
      PROVE  CallInv(r)'
  <2>1. /\ task'[r].pc = "done" /\ task'[r].outcome = o
        /\ task'[r].retries = task[r].retries /\ task'[r].reported = task[r].reported + 1
    BY <1>1, <1>6 DEF TypeOK, Tasks, Fail
  <2>2. Phased(r)' /\ Awaited(r)'
    BY <1>3, <1>4, <2>1 DEF CallInv, Phased, Awaited
  <2>3. Tallied(r)'
    BY <1>3, <1>4, <1>6, <2>1, Fields DEF CallInv, Tallied, Current, Method, Phased
  <2> QED
    BY <2>2, <2>3 DEF CallInv
<1>7. ASSUME NEW w \in Waits, remote[r].status # "ok",
             task' = [task EXCEPT ![r] = Pause(r, w * TicksPerMs)]
      PROVE  CallInv(r)'
  <2>1. w * TicksPerMs \in Nat
    BY RestConstants, Products
  <2>2. Pause(r, w * TicksPerMs)
          = [task[r] EXCEPT !.pc = "waiting", !.wakeAt = Later(w * TicksPerMs)]
    BY <2>1, PauseType
  <2>3. /\ task'[r].pc = "waiting" /\ task'[r].outcome = task[r].outcome
        /\ task'[r].retries = task[r].retries /\ task'[r].reported = task[r].reported
    BY <1>1, <1>7, <2>2 DEF TypeOK, Tasks
  <2>4. Phased(r)' /\ Awaited(r)'
    BY <1>3, <1>4, <2>3 DEF CallInv, Phased, Awaited
  <2>5. Tallied(r)'
    BY <1>3, <1>4, <1>7, <2>3, Fields DEF CallInv, Tallied, Current, Method, Phased
  <2> QED
    BY <2>4, <2>5 DEF CallInv
<1>8. ASSUME remote[r].status # "ok", task' = [task EXCEPT ![r] = Raise(r)]
       PROVE  CallInv(r)'
  <2>1. /\ task'[r].pc = "done" /\ task'[r].outcome = "raised"
        /\ task'[r].retries = task[r].retries /\ task'[r].reported = task[r].reported
    BY <1>1, <1>8 DEF TypeOK, Tasks, Raise
  <2>2. Phased(r)' /\ Awaited(r)'
    BY <1>3, <1>4, <2>1 DEF CallInv, Phased, Awaited
  <2>3. Tallied(r)'
    BY <1>3, <1>4, <1>8, <2>1, Fields DEF CallInv, Tallied, Current, Method, Phased
  <2> QED
    BY <2>2, <2>3 DEF CallInv
<1>9. CASE Rejection(r)
  BY <1>6, <1>8, <1>9 DEF Rejection, Answered
<1>10. CASE Limited(r)
  BY <1>6, <1>7, <1>10 DEF Limited, Answered
<1> QED
  BY <1>5, <1>9, <1>10

LEMMA PlatformKeeps ==
  ASSUME TypeOK, NEW r \in Request, CallInv(r),
         CarryOut(r) \/ CarryOutLate(r) \/ Refuse(r)
  PROVE  CallInv(r)'
<1>1. remote[r] \in Remotes
  BY DEF TypeOK
<1>2. task' = task /\ first' = first /\ call' = call
  BY DEF CarryOut, CarryOutLate, Refuse
<1>3. Awaited(r)'
  BY <1>2 DEF CallInv, Awaited
<1>4. CASE CarryOut(r)
  <2>1. /\ task[r].pc = "sent" /\ remote[r].status = "none"
        /\ remote'[r].status = (IF Method(r) = "DELETE" /\ remote[r].effects > 0
                                THEN "refused" ELSE "ok")
        /\ remote'[r].effects = Effects(r)
        /\ remote'[r].lost = remote[r].lost /\ remote'[r].late = remote[r].late
    BY <1>1, <1>4 DEF CarryOut, TypeOK, Remotes
  <2>2. Phased(r)'
    BY <1>2, <2>1, Fields DEF CallInv, Phased
  <2>3. Tallied(r)'
    BY <1>2, <2>1, Fields DEF CallInv, Tallied, Current, Method, Phased, Effects
  <2> QED
    BY <1>3, <2>2, <2>3 DEF CallInv
<1>5. CASE CarryOutLate(r)
  <2>1. /\ remote[r].late > 0 /\ remote'[r].late = remote[r].late - 1
        /\ remote'[r].effects = Effects(r)
        /\ remote'[r].lost = remote[r].lost /\ remote'[r].status = remote[r].status
    BY <1>1, <1>5 DEF CarryOutLate, TypeOK, Remotes
  <2>2. Phased(r)'
    BY <1>2, <2>1, Fields DEF CallInv, Phased
  <2>3. Tallied(r)'
    BY <1>2, <2>1, Fields DEF CallInv, Tallied, Current, Method, Phased, Effects
  <2> QED
    BY <1>3, <2>2, <2>3 DEF CallInv
<1>6. CASE Refuse(r)
  <2>1. /\ task[r].pc = "sent" /\ remote[r].status = "none"
        /\ remote'[r].status \in {"refused", "limited"}
        /\ remote'[r].effects = remote[r].effects
        /\ remote'[r].lost = remote[r].lost /\ remote'[r].late = remote[r].late
    BY <1>1, <1>6 DEF Refuse, TypeOK, Remotes
  <2>2. Phased(r)'
    BY <1>2, <2>1, Fields DEF CallInv, Phased
  <2>3. Tallied(r)'
    BY <1>2, <2>1, Fields DEF CallInv, Tallied, Current, Method, Phased
  <2> QED
    BY <1>3, <2>2, <2>3 DEF CallInv
<1> QED
  BY <1>4, <1>5, <1>6

-----------------------------------------------------------------------------
LEMMA AllCallsInit == Init => AllCalls
  BY TypeInit, CallInvInit DEF AllCalls

(* A step of r leaves the other calls alone. *)
LEMMA StepOfOne ==
  ASSUME NEW r \in Request, NEW q \in Request, q # r, TypeOK,
         \/ Begin(r) \/ Unsent(r) \/ Send(r) \/ NoResult(r) \/ Success(r) \/ Rejection(r)
         \/ Limited(r) \/ CarryOut(r) \/ CarryOutLate(r) \/ Refuse(r)
  PROVE  /\ UNCHANGED call
         /\ task'[q] = task[q] /\ remote'[q] = remote[q] /\ first'[q] = first[q]
<1>1. CASE Begin(r) \/ Unsent(r) \/ Send(r)
  BY <1>1 DEF Begin, Unsent, Send, TypeOK
<1>2. CASE NoResult(r)
  BY <1>2 DEF NoResult, Lose, TypeOK
<1>3. CASE Success(r) \/ Rejection(r) \/ Limited(r)
  BY <1>3 DEF Success, Rejection, Limited, Answered, TypeOK
<1>4. CASE CarryOut(r) \/ CarryOutLate(r) \/ Refuse(r)
  BY <1>4 DEF CarryOut, CarryOutLate, Refuse, TypeOK
<1> QED
  BY <1>1, <1>2, <1>3, <1>4

LEMMA AllCallsStep == AllCalls /\ [Next]_vars => AllCalls'
<1> SUFFICES ASSUME AllCalls, [Next]_vars PROVE AllCalls'
  OBVIOUS
<1>1. TypeOK /\ TypeOK' /\ \A q \in Request : CallInv(q)
  BY TypeStep DEF AllCalls
<1>2. ASSUME NEW r \in Request, NEW q \in Request,
             \/ Begin(r) \/ Unsent(r) \/ Send(r) \/ NoResult(r) \/ Success(r) \/ Rejection(r)
             \/ Limited(r) \/ CarryOut(r) \/ CarryOutLate(r) \/ Refuse(r)
      PROVE  CallInv(q)'
  <2>1. CASE q = r
    BY <1>1, <1>2, <2>1, BeginKeeps, UnsentKeeps, SendKeeps, NoResultKeeps, AnswerKeeps, PlatformKeeps
  <2>2. CASE q # r
    BY <1>1, <1>2, <2>2, StepOfOne, Untouched
  <2> QED
    BY <2>1, <2>2
<1>3. CASE Tick \/ UNCHANGED vars
  <2>1. UNCHANGED <<call, task, remote, first>>
    BY <1>3 DEF Tick, vars
  <2>2. ASSUME NEW q \in Request PROVE CallInv(q)'
    BY <1>1, <2>1, Untouched
  <2> QED
    BY <1>1, <2>2 DEF AllCalls
<1>4. CASE \E r \in Request : Begin(r) \/ Unsent(r) \/ Send(r) \/ Result(r)
               \/ CarryOut(r) \/ CarryOutLate(r) \/ Refuse(r)
  BY <1>1, <1>2, <1>4 DEF AllCalls, Result
<1> QED
  BY <1>3, <1>4 DEF Next

LEMMA AlwaysAllCalls == Spec => []AllCalls
<1>1. Init => AllCalls
  BY AllCallsInit
<1>2. AllCalls /\ [Next]_vars => AllCalls'
  BY AllCallsStep
<1> QED
  BY <1>1, <1>2, PTL DEF Spec

(* Every variable of the REST client keeps its type. *)
THEOREM RestTypeCorrect == Spec => []TypeOK
<1>1. AllCalls => TypeOK
  BY DEF AllCalls
<1> QED
  BY <1>1, AlwaysAllCalls, PTL

(* Something is carried out twice only if it creates something and a try   *)
(* was lost, and no oftener than tries were lost.                          *)
THEOREM TwiceOnlyWhenLost == Spec => []TwiceOnlyIfLost
<1>1. AllCalls => TwiceOnlyIfLost
  <2> SUFFICES ASSUME AllCalls, NEW r \in Request
               PROVE  /\ remote[r].effects > 1 => Method(r) = "POST"
                      /\ remote[r].effects
                           <= remote[r].lost + IF task[r].outcome = "failed" THEN 0 ELSE 1
                      /\ remote[r].lost <= RetryCount + 1
    BY DEF TwiceOnlyIfLost
  <2>1. CallInv(r) /\ TypeOK
    BY DEF AllCalls
  <2> QED
    BY <2>1, Fields, RestConstants DEF CallInv, Tallied, Current, Phased
<1> QED
  BY <1>1, AlwaysAllCalls, PTL

(* What is reported of a call agrees with what the platform did, and what  *)
(* is not is a success or an exception raised by a text or a hook.         *)
THEOREM ReportsAgree == Spec => []ReportsAreTrue
<1>1. AllCalls => ReportsAreTrue
  <2> SUFFICES ASSUME AllCalls PROVE ReportsAreTrue
    OBVIOUS
  <2>1. ASSUME NEW r \in Request
        PROVE  /\ task[r].outcome = "ok" => remote[r].effects > 0
               /\ task[r].outcome \notin {"none", "ok"} /\ remote[r].effects > 0
                    => remote[r].lost > 0
               /\ task[r].reported
                    = IF task[r].outcome \in {"none", "ok", "raised"} THEN 0 ELSE 1
    <3>1. Phased(r) /\ Tallied(r) /\ TypeOK
      BY DEF AllCalls, CallInv
    <3>2. Current(r) = 1 => task[r].outcome = "ok" \/ remote[r].status = "ok"
      BY DEF Current
    <3>3. task[r].outcome = "ok" => remote[r].effects > 0
      BY <3>1 DEF Tallied, Current
    <3>4. task[r].outcome \notin {"none", "ok"} => Current(r) # 1
      BY <3>1, <3>2 DEF Phased
    <3> QED
      BY <3>1, <3>3, <3>4, Fields DEF Tallied
  <2> QED
    BY <2>1 DEF ReportsAreTrue
<1> QED
  BY <1>1, AlwaysAllCalls, PTL

(* Callers are told the truth, and nothing more is done than they asked.   *)
THEOREM OutcomesAgree == Spec => []OutcomesAreTrue
  BY TwiceOnlyWhenLost, ReportsAgree, PTL DEF OutcomesAreTrue

(* A limit that is known at the start is waited out, to within the         *)
(* millisecond that check() truncates, at any resolution of the clock.     *)
THEOREM LimitsAreObserved == Spec => []KnownLimitIsObserved
<1>1. AllCalls => KnownLimitIsObserved
  BY DEF AllCalls, CallInv, Awaited, KnownLimitIsObserved
<1> QED
  BY <1>1, AlwaysAllCalls, PTL

-----------------------------------------------------------------------------
(* The state of a call as ReportedCall has it. *)
KindOf(r) ==
  IF task[r].pc = "idle" THEN "none"
  ELSE IF Method(r) = "POST" THEN "creates" ELSE "repeatable"

OutcomeOf(r) ==
  IF task[r].outcome \in {"none", "ok"} THEN task[r].outcome ELSE "failed"

Kinds == [r \in Request |-> KindOf(r)]
AllEffects == [r \in Request |-> remote[r].effects]
Outcomes == [r \in Request |-> OutcomeOf(r)]

LEMMA InitMaps == Init => Reported!Init
<1> SUFFICES ASSUME Init PROVE Reported!Init
  OBVIOUS
<1>1. \A r \in Request :
        task[r].pc = "idle" /\ task[r].outcome = "none" /\ remote[r].effects = 0
  BY DEF Init
<1> QED
  BY <1>1 DEF Reported!Init

(* A step of r is a step of the reported call, or changes nothing of it.   *)
LEMMA StepMaps ==
  ASSUME AllCalls, NEW r \in Request,
         \/ Begin(r) \/ Unsent(r) \/ Send(r) \/ NoResult(r) \/ Success(r) \/ Rejection(r)
         \/ Limited(r) \/ CarryOut(r) \/ CarryOutLate(r) \/ Refuse(r)
  PROVE  [Reported!Next]_(Reported!vars)
<1>1. TypeOK /\ CallInv(r) /\ task[r] \in Tasks /\ remote[r] \in Remotes
  BY DEF AllCalls, TypeOK
<1>2. \A q \in Request \ {r} :
        KindOf(q)' = KindOf(q) /\ remote'[q].effects = remote[q].effects
          /\ OutcomeOf(q)' = OutcomeOf(q)
  <2> SUFFICES ASSUME NEW q \in Request, q # r
               PROVE  KindOf(q)' = KindOf(q) /\ remote'[q].effects = remote[q].effects
                        /\ OutcomeOf(q)' = OutcomeOf(q)
    OBVIOUS
  <2>1. UNCHANGED call /\ task'[q] = task[q] /\ remote'[q] = remote[q]
    BY <1>1, StepOfOne
  <2> QED
    BY <2>1 DEF KindOf, OutcomeOf, Method
<1>3. ASSUME KindOf(r)' = KindOf(r), remote'[r].effects = remote[r].effects,
             OutcomeOf(r)' = OutcomeOf(r)
      PROVE  UNCHANGED Reported!vars
  <2>1. Kinds' = Kinds /\ AllEffects' = AllEffects /\ Outcomes' = Outcomes
    BY <1>2, <1>3 DEF Kinds, AllEffects, Outcomes
  <2> QED
    BY <2>1 DEF Kinds, AllEffects, Outcomes, KindOf, OutcomeOf, Reported!vars
<1>4. ASSUME KindOf(r) = "none", KindOf(r)' \in {"creates", "repeatable"},
             remote'[r].effects = remote[r].effects, OutcomeOf(r)' = OutcomeOf(r)
      PROVE  Reported!Ask(r)
  <2>1. Kinds[r] = "none" /\ AllEffects' = AllEffects /\ Outcomes' = Outcomes
    BY <1>2, <1>4 DEF Kinds, AllEffects, Outcomes
  <2>2. Kinds' = [Kinds EXCEPT ![r] = KindOf(r)']
    BY <1>2 DEF Kinds
  <2> QED
    BY <1>4, <2>1, <2>2 DEF Kinds, AllEffects, Outcomes, KindOf, OutcomeOf, Reported!Ask
<1>5. ASSUME KindOf(r) # "none", KindOf(r)' = KindOf(r), OutcomeOf(r)' = OutcomeOf(r),
             remote'[r].effects = remote[r].effects + 1,
             remote[r].effects < IF KindOf(r) = "creates" THEN RetryCount + 1 ELSE 1
      PROVE  Reported!CarryOut(r)
  <2>1. Kinds' = Kinds /\ Outcomes' = Outcomes /\ Kinds[r] = KindOf(r)
    BY <1>2, <1>5 DEF Kinds, Outcomes
  <2>2. AllEffects' = [AllEffects EXCEPT ![r] = @ + 1]
    BY <1>2, <1>5 DEF AllEffects
  <2>3. AllEffects[r] < IF Kinds[r] = "creates" THEN RetryCount + 1 ELSE 1
    BY <1>5, <2>1 DEF AllEffects
  <2> QED
    BY <1>5, <2>1, <2>2, <2>3
       DEF Kinds, AllEffects, Outcomes, KindOf, OutcomeOf, Reported!CarryOut
<1>6. ASSUME KindOf(r) # "none", KindOf(r)' = KindOf(r), OutcomeOf(r) = "none",
             OutcomeOf(r)' \in {"ok", "failed"},
             OutcomeOf(r)' = "ok" => remote[r].effects > 0,
             remote'[r].effects = remote[r].effects
      PROVE  Reported!Report(r)
  <2>1. Kinds' = Kinds /\ AllEffects' = AllEffects /\ Kinds[r] = KindOf(r)
          /\ AllEffects[r] = remote[r].effects
    BY <1>2, <1>6 DEF Kinds, AllEffects
  <2>2. Outcomes' = [Outcomes EXCEPT ![r] = OutcomeOf(r)'] /\ Outcomes[r] = "none"
    BY <1>2, <1>6 DEF Outcomes
  <2> QED
    BY <1>6, <2>1, <2>2
       DEF Kinds, AllEffects, Outcomes, KindOf, OutcomeOf, Reported!Report
<1>7. CASE Begin(r)
  <2>1. /\ task[r].pc = "idle" /\ task'[r].pc = "waiting"
        /\ task'[r].outcome = task[r].outcome /\ remote' = remote /\ call' = call
    BY <1>1, <1>7 DEF Begin, Pause, TypeOK, Tasks
  <2> QED
    BY <1>4, <2>1 DEF KindOf, OutcomeOf, Method, Reported!Next
<1>8. CASE Send(r)
  <2>1. /\ task[r].pc = "waiting" /\ task'[r].pc = "sent"
        /\ task'[r].outcome = task[r].outcome /\ remote' = remote /\ call' = call
    BY <1>1, <1>8 DEF Send, TypeOK, Tasks
  <2> QED
    BY <1>3, <2>1 DEF KindOf, OutcomeOf, Method
<1>9. CASE NoResult(r)
  <2>1. /\ task[r].pc = "sent" /\ call' = call /\ remote'[r].effects = remote[r].effects
    <3>1. Lose(r) /\ task[r].pc = "sent" /\ call' = call
      BY <1>9 DEF NoResult, Lose
    <3>2. PICK late \in {0, 1} :
            remote' = [remote EXCEPT ![r].lost = @ + 1, ![r].late = @ + late,
                                     ![r].status = "none"]
      BY <3>1 DEF Lose
    <3>3. remote'[r].effects = remote[r].effects
      BY <1>1, <3>2 DEF TypeOK, Remotes
    <3> QED
      BY <3>1, <3>3
  <2>2. OutcomeOf(r) = "none" /\ KindOf(r) # "none"
    BY <1>1, <2>1 DEF CallInv, Phased, OutcomeOf, KindOf
  <2>3. CASE task[r].retries < RetryCount
    <3>1. task'[r].pc = "waiting" /\ task'[r].outcome = task[r].outcome
      BY <1>1, <1>9, <2>3 DEF NoResult, Pause, TypeOK, Tasks
    <3> QED
      BY <1>3, <2>1, <3>1 DEF KindOf, OutcomeOf, Method
  <2>4. CASE ~(task[r].retries < RetryCount)
    <3>1. task'[r].pc = "done" /\ task'[r].outcome = "failed"
      BY <1>1, <1>9, <2>4 DEF NoResult, Fail, TypeOK, Tasks
    <3> QED
      BY <1>6, <2>1, <2>2, <3>1 DEF KindOf, OutcomeOf, Method, Reported!Next
  <2> QED
    BY <2>3, <2>4
<1>10. CASE Success(r) \/ Rejection(r) \/ Limited(r)
  <2>1. /\ task[r].pc = "sent" /\ call' = call /\ remote'[r].effects = remote[r].effects
    BY <1>1, <1>10 DEF Success, Rejection, Limited, Answered, TypeOK, Remotes
  <2>2. OutcomeOf(r) = "none" /\ KindOf(r) # "none"
    BY <1>1, <2>1 DEF CallInv, Phased, OutcomeOf, KindOf
  <2>3. \/ task'[r].pc = "waiting" /\ task'[r].outcome = task[r].outcome
        \/ task'[r].pc = "done" /\ task'[r].outcome \in {"rejected", "thrown", "raised"}
        \/ task'[r].pc = "done" /\ task'[r].outcome = "ok" /\ remote[r].status = "ok"
    <3>1. CASE Success(r)
      BY <1>1, <3>1 DEF Success, Answered, Succeed, TypeOK, Tasks
    <3>2. CASE Rejection(r)
      BY <1>1, <3>2 DEF Rejection, Fail, Raise, TypeOK, Tasks
    <3>3. CASE Limited(r)
      <4>1. CASE task' = [task EXCEPT ![r] = Fail(r, "thrown")]
        BY <1>1, <4>1 DEF Fail, TypeOK, Tasks
      <4>2. ASSUME NEW w \in Waits, task' = [task EXCEPT ![r] = Pause(r, w * TicksPerMs)]
            PROVE  task'[r].pc = "waiting" /\ task'[r].outcome = task[r].outcome
        BY <1>1, <4>2 DEF Pause, TypeOK, Tasks
      <4> QED
        BY <3>3, <4>1, <4>2 DEF Limited
    <3> QED
      BY <1>10, <3>1, <3>2, <3>3
  <2>4. remote[r].status = "ok" => remote[r].effects > 0
    BY <1>1 DEF CallInv, Tallied, Current
  <2>5. CASE task'[r].pc = "waiting" /\ task'[r].outcome = task[r].outcome
    BY <1>3, <2>1, <2>5 DEF KindOf, OutcomeOf, Method
  <2>6. CASE task'[r].pc = "done" /\ task'[r].outcome \in {"rejected", "thrown", "raised"}
    BY <1>6, <2>1, <2>2, <2>6 DEF KindOf, OutcomeOf, Method, Reported!Next
  <2>7. CASE task'[r].pc = "done" /\ task'[r].outcome = "ok" /\ remote[r].status = "ok"
    BY <1>6, <2>1, <2>2, <2>4, <2>7 DEF KindOf, OutcomeOf, Method, Reported!Next
  <2> QED
    BY <2>3, <2>5, <2>6, <2>7
<1>11. CASE CarryOut(r) \/ CarryOutLate(r)
  <2>1. /\ task' = task /\ call' = call /\ remote'[r].effects = Effects(r)
        /\ (task[r].pc = "sent" /\ remote[r].status = "none") \/ remote[r].late > 0
    BY <1>1, <1>11 DEF CarryOut, CarryOutLate, TypeOK, Remotes
  <2>2. KindOf(r) # "none" /\ KindOf(r)' = KindOf(r) /\ OutcomeOf(r)' = OutcomeOf(r)
    BY <1>1, <2>1, Fields DEF CallInv, Phased, KindOf, OutcomeOf, Method
  <2>3. CASE KindOf(r) = "creates"
    <3>1. Method(r) = "POST"
      BY <2>3 DEF KindOf
    <3>2. remote[r].effects < RetryCount + 1
      BY <1>1, <2>1, <3>1, Fields, RestConstants DEF CallInv, Tallied, Phased, Current
    <3>3. remote'[r].effects = remote[r].effects + 1
      BY <2>1, <3>1 DEF Effects
    <3> QED
      BY <1>5, <2>2, <2>3, <3>2, <3>3 DEF Reported!Next
  <2>4. CASE KindOf(r) # "creates"
    <3>1. Method(r) # "POST" /\ remote'[r].effects = 1
      BY <2>1, <2>2, <2>4 DEF KindOf, Effects
    <3>2. remote[r].effects = 0 \/ remote[r].effects = 1
      BY <1>1, <3>1, Fields DEF CallInv, Tallied
    <3>3. CASE remote[r].effects = 0
      BY <1>5, <2>2, <2>4, <3>1, <3>3 DEF Reported!Next
    <3>4. CASE remote[r].effects = 1
      BY <1>3, <2>2, <3>1, <3>4
    <3> QED
      BY <3>2, <3>3, <3>4
  <2> QED
    BY <2>3, <2>4
<1>12. CASE Refuse(r)
  <2>1. task' = task /\ call' = call /\ remote'[r].effects = remote[r].effects
    BY <1>1, <1>12 DEF Refuse, TypeOK, Remotes
  <2> QED
    BY <1>3, <2>1 DEF KindOf, OutcomeOf, Method
<1>13. CASE Unsent(r)
  <2>1. /\ task[r].pc = "waiting" /\ task'[r].pc = "done"
        /\ task'[r].outcome = "raised" /\ remote' = remote /\ call' = call
    BY <1>1, <1>13 DEF Unsent, Raise, TypeOK, Tasks
  <2>2. OutcomeOf(r) = "none" /\ KindOf(r) # "none"
    BY <1>1, <2>1 DEF CallInv, Phased, OutcomeOf, KindOf
  <2> QED
    BY <1>6, <2>1, <2>2 DEF KindOf, OutcomeOf, Method, Reported!Next
<1> QED
  BY <1>7, <1>8, <1>9, <1>10, <1>11, <1>12, <1>13

LEMMA EveryStepMaps == AllCalls /\ [Next]_vars => [Reported!Next]_(Reported!vars)
<1> SUFFICES ASSUME AllCalls, [Next]_vars PROVE [Reported!Next]_(Reported!vars)
  OBVIOUS
<1>1. CASE Tick \/ UNCHANGED vars
  <2>1. UNCHANGED <<call, task, remote>>
    BY <1>1 DEF Tick, vars
  <2> QED
    BY <2>1 DEF Reported!vars, Method
<1>2. CASE \E r \in Request : Begin(r) \/ Unsent(r) \/ Send(r) \/ Result(r)
               \/ CarryOut(r) \/ CarryOutLate(r) \/ Refuse(r)
  BY <1>2, StepMaps DEF Result
<1> QED
  BY <1>1, <1>2 DEF Next

(* perform_request is a reported call, but for the progress of it: each    *)
(* call has one outcome, a success was carried out, and only a call that   *)
(* creates something is carried out again, no oftener than it is tried.    *)
THEOREM RestIsReportedCall == Spec => Reported!Init /\ [][Reported!Next]_(Reported!vars)
<1>1. Init => Reported!Init
  BY InitMaps
<1>2. AllCalls /\ [Next]_vars => [Reported!Next]_(Reported!vars)
  BY EveryStepMaps
<1> QED
  BY <1>1, <1>2, AlwaysAllCalls, PTL DEF Spec
-----------------------------------------------------------------------------
(* Uploads.  What the file server stored beyond the lost answers is due to *)
(* the answer that is under way or that was returned.                      *)
Storing(i) ==
  /\ answer[i] # "none" => step[i] = "sent"
  /\ answer[i] \in {"id", "noId"} \/ result[i] \in {"id", "success"} => stored[i] > 0
  /\ stored[i] <= lost[i] + (IF answer[i] \in {"id", "noId"} \/ step[i] = "done" THEN 1 ELSE 0)
  /\ lost[i] <= retries[i] + (IF step[i] = "done" THEN 1 ELSE 0)
  /\ step[i] # "done" => result[i] = "none"

(* What was fetched is described before it is sent for the first time. *)
Describing(i) ==
  /\ step[i] \in {"idle", "fetching"} => stored[i] = 0
  /\ image[i].from = "url" /\ (step[i] \in {"sending", "sent"} \/ stored[i] > 0) =>
       chosen[i] = Uploads!Described(i)

UploadInv == Uploads!TypeOK /\ \A i \in Image : Storing(i) /\ Describing(i)

(* The type and the extension come from those that are known. *)
LEMMA DescribedType ==
  ASSUME Uploads!TypeOK, NEW i \in Image
  PROVE  Uploads!Described(i) \in Uploads!Descriptions
<1>1. image[i] \in Uploads!Images
  BY DEF Uploads!TypeOK
<1>2. Uploads!EffectiveMime(i) \in Mimes \cup Uploads!Signatures
  BY <1>1 DEF Uploads!EffectiveMime, Uploads!Images
<1>3. ".png" = Uploads!Extension["image/png"] /\ "image/png" \in DOMAIN Uploads!Extension
  BY DEF Uploads!Extension, Uploads!Signatures
<1>4. image[i].extension \in {Uploads!Unknown, ".png"}
  BY <1>1 DEF Uploads!Images
<1> QED
  BY <1>2, <1>3, <1>4 DEF Uploads!Described, Uploads!Descriptions

LEMMA UploadInvInit == Uploads!Init => UploadInv
<1> SUFFICES ASSUME Uploads!Init PROVE UploadInv
  OBVIOUS
<1>1. \A i \in Image : image[i] \in Uploads!Images
  BY DEF Uploads!Init
<1>2. chosen \in [Image -> Uploads!Descriptions]
  <2> SUFFICES ASSUME NEW i \in Image
               PROVE  [mime |-> image[i].given, extension |-> image[i].extension]
                        \in Uploads!Descriptions
    BY DEF Uploads!Init
  <2>1. image[i].given \in Mimes /\ image[i].extension \in {Uploads!Unknown, ".png"}
    BY <1>1 DEF Uploads!Images
  <2>2. ".png" = Uploads!Extension["image/png"] /\ "image/png" \in DOMAIN Uploads!Extension
    BY DEF Uploads!Extension, Uploads!Signatures
  <2> QED
    BY <2>1, <2>2 DEF Uploads!Descriptions
<1>3. Uploads!TypeOK
  BY <1>2, RestConstants DEF Uploads!Init, Uploads!TypeOK
<1> QED
  BY <1>3 DEF Uploads!Init, UploadInv, Storing, Describing

(* The counters of an image. *)
LEMMA UploadCounters ==
  ASSUME Uploads!TypeOK, NEW i \in Image
  PROVE  retries[i] \in Nat /\ lost[i] \in Nat /\ stored[i] \in Nat
<1>1. retries[i] \in 0..RetryCount /\ lost[i] \in Nat /\ stored[i] \in Nat
  BY DEF Uploads!TypeOK
<1> QED
  BY <1>1, RestConstants

LEMMA UploadTypeStep == Uploads!TypeOK /\ [Uploads!Next]_uploadVars => Uploads!TypeOK'
<1> SUFFICES ASSUME Uploads!TypeOK, [Uploads!Next]_uploadVars PROVE Uploads!TypeOK'
  OBVIOUS
<1> USE RestConstants DEF Uploads!TypeOK, Uploads!Finish, Uploads!TryAgain
<1>1. ASSUME NEW i \in Image, Uploads!Call(i) PROVE Uploads!TypeOK'
  BY <1>1 DEF Uploads!Call
<1>2. ASSUME NEW i \in Image, Uploads!FetchFails(i) PROVE Uploads!TypeOK'
  BY <1>2 DEF Uploads!FetchFails
<1>3. ASSUME NEW i \in Image, Uploads!Fetched(i) PROVE Uploads!TypeOK'
  BY <1>3, DescribedType DEF Uploads!Fetched
<1>4. ASSUME NEW i \in Image, Uploads!Send(i) PROVE Uploads!TypeOK'
  BY <1>4 DEF Uploads!Send
<1>5. ASSUME NEW i \in Image, Uploads!Lost(i) PROVE Uploads!TypeOK'
  BY <1>5 DEF Uploads!Lost
<1>6. ASSUME NEW i \in Image, Uploads!Limited(i) PROVE Uploads!TypeOK'
  BY <1>6 DEF Uploads!Limited
<1>7. ASSUME NEW i \in Image, Uploads!Refused(i) PROVE Uploads!TypeOK'
  BY <1>7 DEF Uploads!Refused
<1>8. ASSUME NEW i \in Image, Uploads!Answered(i) PROVE Uploads!TypeOK'
  BY <1>8 DEF Uploads!Answered
<1>9. ASSUME NEW i \in Image, Uploads!Serve(i) PROVE Uploads!TypeOK'
  BY <1>9 DEF Uploads!Serve
<1>10. CASE UNCHANGED uploadVars
  BY <1>10 DEF uploadVars
<1> QED
  BY <1>1, <1>2, <1>3, <1>4, <1>5, <1>6, <1>7, <1>8, <1>9, <1>10
  DEF Uploads!Next, Uploads!Step

(* A step of one image leaves the others alone. *)
LEMMA OtherImages ==
  ASSUME Uploads!TypeOK, NEW i \in Image, NEW j \in Image \ {i},
         Uploads!Call(i) \/ Uploads!Step(i) \/ Uploads!Serve(i)
  PROVE  /\ UNCHANGED <<step[j], retries[j], chosen[j], answer[j], stored[j], lost[j], result[j]>>
         /\ image' = image
BY DEF Uploads!TypeOK, Uploads!Call, Uploads!Step, Uploads!FetchFails, Uploads!Fetched,
       Uploads!Send, Uploads!Lost, Uploads!Limited, Uploads!Refused, Uploads!Answered,
       Uploads!Serve, Uploads!TryAgain, Uploads!Finish

LEMMA StoringStep ==
  ASSUME Uploads!TypeOK, NEW i \in Image, Storing(i),
         Uploads!Call(i) \/ Uploads!Step(i) \/ Uploads!Serve(i)
  PROVE  Storing(i)'
<1> USE UploadCounters DEF Uploads!TypeOK, Uploads!Finish, Uploads!TryAgain, Storing
<1>1. CASE Uploads!Call(i)
  BY <1>1 DEF Uploads!Call
<1>2. CASE Uploads!FetchFails(i)
  BY <1>2 DEF Uploads!FetchFails
<1>3. CASE Uploads!Fetched(i)
  BY <1>3 DEF Uploads!Fetched
<1>4. CASE Uploads!Send(i)
  BY <1>4 DEF Uploads!Send
<1>5. CASE Uploads!Lost(i)
  BY <1>5 DEF Uploads!Lost
<1>6. CASE Uploads!Limited(i)
  BY <1>6 DEF Uploads!Limited
<1>7. CASE Uploads!Refused(i)
  BY <1>7 DEF Uploads!Refused
<1>8. CASE Uploads!Answered(i)
  BY <1>8 DEF Uploads!Answered
<1>9. CASE Uploads!Serve(i)
  BY <1>9 DEF Uploads!Serve
<1> QED
  BY <1>1, <1>2, <1>3, <1>4, <1>5, <1>6, <1>7, <1>8, <1>9 DEF Uploads!Step

LEMMA DescribingStep ==
  ASSUME Uploads!TypeOK, NEW i \in Image, Storing(i), Describing(i),
         Uploads!Call(i) \/ Uploads!Step(i) \/ Uploads!Serve(i)
  PROVE  Describing(i)'
<1>0. image' = image /\ Uploads!Described(i)' = Uploads!Described(i)
  BY DEF Uploads!Call, Uploads!Step, Uploads!FetchFails, Uploads!Fetched,
       Uploads!Send, Uploads!Lost, Uploads!Limited, Uploads!Refused, Uploads!Answered,
       Uploads!Serve, Uploads!Described, Uploads!EffectiveMime
<1>1. CASE Uploads!Call(i)
  BY <1>0, <1>1 DEF Uploads!Call, Uploads!TypeOK, Describing
<1>2. CASE Uploads!Fetched(i)
  BY <1>0, <1>2 DEF Uploads!Fetched, Uploads!TypeOK, Describing
<1>3. CASE Uploads!FetchFails(i)
  BY <1>0, <1>3 DEF Uploads!FetchFails, Uploads!Finish, Uploads!TypeOK, Describing
<1>4. CASE ~(Uploads!Call(i) \/ Uploads!Fetched(i) \/ Uploads!FetchFails(i))
  <2>1. chosen' = chosen /\ step[i] \in {"sending", "sent"}
    BY <1>4 DEF Uploads!Step, Uploads!Send, Uploads!Lost, Uploads!Limited, Uploads!Refused,
                Uploads!Answered, Uploads!Serve, Storing
  <2>2. step'[i] \in {"sending", "sent", "done"}
    BY <1>4 DEF Uploads!TypeOK, Uploads!Step, Uploads!Send, Uploads!Lost, Uploads!Limited,
                Uploads!Refused, Uploads!Answered, Uploads!Serve, Uploads!TryAgain,
                Uploads!Finish
  <2> QED
    BY <1>0, <2>1, <2>2 DEF Describing
<1> QED
  BY <1>1, <1>2, <1>3, <1>4

LEMMA UploadInvStep == UploadInv /\ [Uploads!Next]_uploadVars => UploadInv'
<1> SUFFICES ASSUME UploadInv, [Uploads!Next]_uploadVars, NEW j \in Image
             PROVE  (Storing(j) /\ Describing(j))'
  BY UploadTypeStep DEF UploadInv
<1>1. ASSUME NEW i \in Image, Uploads!Call(i) \/ Uploads!Step(i) \/ Uploads!Serve(i)
      PROVE  (Storing(j) /\ Describing(j))'
  <2>1. CASE j = i
    BY <1>1, <2>1, StoringStep, DescribingStep DEF UploadInv
  <2>2. CASE j # i
    <3>1. /\ UNCHANGED <<step[j], retries[j], chosen[j], answer[j], stored[j], lost[j], result[j]>>
          /\ image' = image
      BY <1>1, <2>2, OtherImages DEF UploadInv
    <3> QED
      BY <3>1 DEF UploadInv, Storing, Describing, Uploads!Described, Uploads!EffectiveMime
  <2> QED
    BY <2>1, <2>2
<1>2. CASE UNCHANGED uploadVars
  BY <1>2 DEF uploadVars, UploadInv, Storing, Describing, Uploads!Described,
              Uploads!EffectiveMime
<1> QED
  BY <1>1, <1>2 DEF Uploads!Next

LEMMA AlwaysUploadInv == MCSpec => []UploadInv
<1>1. MCInit => UploadInv
  BY UploadInvInit DEF MCInit, UploadsIdle
<1>2. [MCNext]_allVars => [Uploads!Next]_uploadVars
  BY DEF MCNext, allVars
<1>3. UploadInv /\ [MCNext]_allVars => UploadInv'
  BY <1>2, UploadInvStep
<1> QED
  BY <1>1, <1>3, PTL DEF MCSpec
-----------------------------------------------------------------------------
(* Asynchronous calls.  What a thread has told its caller when it is at a  *)
(* place, and why it may tell once more.                                   *)
Told(c) ==
  LET n == Len(calls[c]) IN
  /\ thread[c] \in {"idle", "requesting", "hook", "parse", "callback"} => n = 0
  /\ thread[c] = "called" => n = 1
  /\ thread[c] = "catch" => n <= 1
  /\ n <= 2
  /\ n >= 1 /\ thread[c] = "catch" => faults[c] \cap {"callback", "other", "thread"} # {}
  /\ n = 2 => calls[c][2] = FALSE /\ faults[c] \cap {"callback", "other", "thread"} # {}

(* Why the thread is where it is, and what the first answer rests on.      *)
Knows(c) ==
  /\ thread[c] \in {"hook", "parse"} => done[c]
  /\ thread[c] = "callback" => done[c] \/ "request" \in faults[c]
  /\ thread[c] = "catch" /\ calls[c] = <<>> =>
       faults[c] \cap {"request", "parse", "hook", "other"} # {}
  /\ calls[c] # <<>> =>
       /\ calls[c][1] => done[c]
       /\ ~calls[c][1] /\ done[c] => faults[c] \cap {"request", "parse", "hook", "other"} # {}

Hooks(c) ==
  /\ thread[c] = "hook" => Async!Kind(c) = "moderate"
  /\ thread[c] = "parse" => Async!Kind(c) # "moderate"
  /\ thread[c] \in {"idle", "requesting", "hook"} => hooked[c] = 0
  /\ hooked[c] > 0 => Async!Kind(c) = "moderate" /\ done[c]
  /\ thread[c] = "callback" /\ Async!Kind(c) = "moderate" =>
       hooked[c] = 1 \/ "request" \in faults[c]
  /\ Async!Kind(c) = "moderate" /\ calls[c] # <<>> /\ calls[c][1] => hooked[c] = 1

AsyncInv ==
  /\ Async!TypeOK /\ Async!TerminationHasCause
  /\ \A c \in Command : Told(c) /\ Knows(c) /\ Hooks(c)

LEMMA AsyncInvInit == Async!Init => AsyncInv
<1> SUFFICES ASSUME Async!Init PROVE AsyncInv
  OBVIOUS
<1>1. Async!TypeOK
  <2>1. calls \in [Command -> Seq(BOOLEAN)] /\ faults \in [Command -> SUBSET Async!Fault]
    BY DEF Async!Init
  <2>2. done \in [Command -> BOOLEAN] /\ terminated \in BOOLEAN
    BY DEF Async!Init
  <2> QED
    BY <2>1, <2>2 DEF Async!Init, Async!TypeOK
<1>2. \A c \in Command : Told(c) /\ Knows(c) /\ Hooks(c)
  BY DEF Async!Init, Told, Knows, Hooks
<1> QED
  BY <1>1, <1>2 DEF AsyncInv, Async!Init, Async!TerminationHasCause

(* What goes wrong is one of the faults, and is not forgotten. *)
LEMMA NoteType ==
  ASSUME Async!TypeOK, NEW c \in Command, NEW f \in Async!Fault, Async!Note(c, f)
  PROVE  faults' \in [Command -> SUBSET Async!Fault]
<1>1. faults[c] \cup {f} \subseteq Async!Fault
  BY DEF Async!TypeOK
<1> QED
  BY <1>1 DEF Async!Note, Async!TypeOK

LEMMA AsyncTypeStep == AsyncInv /\ [Async!Next]_asyncVars => Async!TypeOK'
<1> SUFFICES ASSUME Async!TypeOK, \A c \in Command : Hooks(c), [Async!Next]_asyncVars
             PROVE  Async!TypeOK'
  BY DEF AsyncInv
<1> DEFINE Places == {"idle", "requesting", "hook", "parse", "callback", "called", "catch", "ended"}
<1>0. {"thread", "request", "parse", "hook", "callback", "other", "deletion"} \subseteq Async!Fault
  BY DEF Async!Fault
<1> USE DEF Async!TypeOK, Async!Go, Async!given
<1>1. ASSUME NEW c \in Command, Async!Begin(c) PROVE Async!TypeOK'
  <2>1. faults' = faults \/ \E f \in Async!Fault : Async!Note(c, f)
    BY <1>0, <1>1 DEF Async!Begin, Async!Throws
  <2>2. faults' \in [Command -> SUBSET Async!Fault]
    BY <2>1, NoteType
  <2>3. \E p \in Places : thread' = [thread EXCEPT ![c] = p]
    BY <1>1 DEF Async!Begin, Async!Throws, Async!AfterAnswer
  <2>4. terminated' \in BOOLEAN
    BY <1>1 DEF Async!Begin, Async!Throws
  <2>5. calls' \in [Command -> Seq(BOOLEAN)] /\ hooked' \in [Command -> 0..1]
        /\ UNCHANGED <<respectLimits, asked, done>>
    BY <1>1 DEF Async!Begin
  <2>6. deletion' \in [Command -> {"none", "sleeping", "deleted", "kept"}]
    BY <1>1 DEF Async!Begin
  <2> QED
    BY <2>2, <2>3, <2>4, <2>5, <2>6, ZenonT(40)
<1>2. ASSUME NEW c \in Command, Async!CarryOut(c) PROVE Async!TypeOK'
  BY <1>2 DEF Async!CarryOut
<1>3. ASSUME NEW c \in Command, Async!Succeeds(c) PROVE Async!TypeOK'
  BY <1>3 DEF Async!Succeeds, Async!AfterAnswer
<1>4. ASSUME NEW c \in Command, Async!Fails(c) PROVE Async!TypeOK'
  <2>1. faults' = faults \/ \E f \in Async!Fault : Async!Note(c, f)
    BY <1>0, <1>4 DEF Async!Fails, Async!Throws
  <2>2. faults' \in [Command -> SUBSET Async!Fault]
    BY <2>1, NoteType
  <2>3. \E p \in Places : thread' = [thread EXCEPT ![c] = p]
    BY <1>4 DEF Async!Fails, Async!Throws, Async!AfterAnswer
  <2>4. terminated' \in BOOLEAN
    BY <1>4 DEF Async!Fails, Async!Throws
  <2>5. calls' \in [Command -> Seq(BOOLEAN)] /\ hooked' \in [Command -> 0..1]
        /\ UNCHANGED <<respectLimits, asked, done>>
    BY <1>4 DEF Async!Fails
  <2>6. deletion' \in [Command -> {"none", "sleeping", "deleted", "kept"}]
    BY <1>4 DEF Async!Fails
  <2> QED
    BY <2>2, <2>3, <2>4, <2>5, <2>6, ZenonT(40)
<1>5. ASSUME NEW c \in Command, Async!RunHook(c) PROVE Async!TypeOK'
  <2>1. faults' = faults \/ \E f \in Async!Fault : Async!Note(c, f)
    BY <1>0, <1>5 DEF Async!RunHook, Async!Throws
  <2>2. faults' \in [Command -> SUBSET Async!Fault]
    BY <2>1, NoteType
  <2>3. \E p \in Places : thread' = [thread EXCEPT ![c] = p]
    BY <1>5 DEF Async!RunHook, Async!Throws, Async!AfterAnswer
  <2>4. terminated' \in BOOLEAN
    BY <1>5 DEF Async!RunHook, Async!Throws
  <2>5. calls' \in [Command -> Seq(BOOLEAN)] /\ hooked' \in [Command -> 0..1]
        /\ UNCHANGED <<respectLimits, asked, done>>
    BY <1>5, Hooks(c) DEF Hooks, Async!RunHook
  <2>6. deletion' \in [Command -> {"none", "sleeping", "deleted", "kept"}]
    BY <1>5 DEF Async!RunHook
  <2> QED
    BY <2>2, <2>3, <2>4, <2>5, <2>6, ZenonT(40)
<1>6. ASSUME NEW c \in Command, Async!Parse(c) PROVE Async!TypeOK'
  <2>1. faults' = faults \/ \E f \in Async!Fault : Async!Note(c, f)
    BY <1>0, <1>6 DEF Async!Parse, Async!Throws
  <2>2. faults' \in [Command -> SUBSET Async!Fault]
    BY <2>1, NoteType
  <2>3. \E p \in Places : thread' = [thread EXCEPT ![c] = p]
    BY <1>6 DEF Async!Parse, Async!Throws, Async!AfterAnswer
  <2>4. terminated' \in BOOLEAN
    BY <1>6 DEF Async!Parse, Async!Throws
  <2>5. calls' \in [Command -> Seq(BOOLEAN)] /\ hooked' \in [Command -> 0..1]
        /\ UNCHANGED <<respectLimits, asked, done>>
    BY <1>6 DEF Async!Parse
  <2>6. deletion' \in [Command -> {"none", "sleeping", "deleted", "kept"}]
    BY <1>6 DEF Async!Parse
  <2> QED
    BY <2>2, <2>3, <2>4, <2>5, <2>6, ZenonT(40)
<1>7. ASSUME NEW c \in Command, Async!CallBack(c) PROVE Async!TypeOK'
  <2>1. faults' = faults \/ \E f \in Async!Fault : Async!Note(c, f)
    BY <1>0, <1>7 DEF Async!CallBack, Async!Throws
  <2>2. faults' \in [Command -> SUBSET Async!Fault]
    BY <2>1, NoteType
  <2>3. \E p \in Places : thread' = [thread EXCEPT ![c] = p]
    BY <1>7 DEF Async!CallBack, Async!Throws, Async!AfterAnswer
  <2>4. terminated' \in BOOLEAN
    BY <1>7 DEF Async!CallBack, Async!Throws
  <2>5. calls' \in [Command -> Seq(BOOLEAN)] /\ hooked' \in [Command -> 0..1]
        /\ UNCHANGED <<respectLimits, asked, done>>
    BY <1>7 DEF Async!CallBack
  <2>6. deletion' \in [Command -> {"none", "sleeping", "deleted", "kept"}]
    BY <1>7 DEF Async!CallBack
  <2> QED
    BY <2>2, <2>3, <2>4, <2>5, <2>6, ZenonT(40)
<1>8. ASSUME NEW c \in Command, Async!AfterCallback(c) PROVE Async!TypeOK'
  <2>1. faults' = faults \/ \E f \in Async!Fault : Async!Note(c, f)
    BY <1>0, <1>8 DEF Async!AfterCallback, Async!Throws
  <2>2. faults' \in [Command -> SUBSET Async!Fault]
    BY <2>1, NoteType
  <2>3. \E p \in Places : thread' = [thread EXCEPT ![c] = p]
    BY <1>8 DEF Async!AfterCallback, Async!Throws, Async!AfterAnswer
  <2>4. terminated' \in BOOLEAN
    BY <1>8 DEF Async!AfterCallback, Async!Throws
  <2>5. calls' \in [Command -> Seq(BOOLEAN)] /\ hooked' \in [Command -> 0..1]
        /\ UNCHANGED <<respectLimits, asked, done>>
    BY <1>8 DEF Async!AfterCallback
  <2>6. deletion' \in [Command -> {"none", "sleeping", "deleted", "kept"}]
    BY <1>8 DEF Async!AfterCallback
  <2> QED
    BY <2>2, <2>3, <2>4, <2>5, <2>6, ZenonT(40)
<1>9. ASSUME NEW c \in Command, Async!Catch(c) PROVE Async!TypeOK'
  <2>1. faults' = faults \/ \E f \in Async!Fault : Async!Note(c, f)
    BY <1>0, <1>9 DEF Async!Catch, Async!Throws
  <2>2. faults' \in [Command -> SUBSET Async!Fault]
    BY <2>1, NoteType
  <2>3. \E p \in Places : thread' = [thread EXCEPT ![c] = p]
    BY <1>9 DEF Async!Catch, Async!Throws, Async!AfterAnswer
  <2>4. terminated' \in BOOLEAN
    BY <1>9 DEF Async!Catch, Async!Throws
  <2>5. calls' \in [Command -> Seq(BOOLEAN)] /\ hooked' \in [Command -> 0..1]
        /\ UNCHANGED <<respectLimits, asked, done>>
    BY <1>9 DEF Async!Catch
  <2>6. deletion' \in [Command -> {"none", "sleeping", "deleted", "kept"}]
    BY <1>9 DEF Async!Catch
  <2> QED
    BY <2>2, <2>3, <2>4, <2>5, <2>6, ZenonT(40)
<1>10. ASSUME NEW c \in Command, Async!DeleteLater(c) PROVE Async!TypeOK'
  <2>1. faults' = faults \/ \E f \in Async!Fault : Async!Note(c, f)
    BY <1>0, <1>10 DEF Async!DeleteLater
  <2>2. faults' \in [Command -> SUBSET Async!Fault]
    BY <2>1, NoteType
  <2>3. terminated' \in BOOLEAN /\ UNCHANGED <<respectLimits, asked, thread, done, calls, hooked>>
    BY <1>10 DEF Async!DeleteLater
  <2>4. deletion' \in [Command -> {"none", "sleeping", "deleted", "kept"}]
    BY <1>10 DEF Async!DeleteLater
  <2> QED
    BY <2>2, <2>3, <2>4, ZenonT(40)
<1>11. CASE UNCHANGED asyncVars
  BY <1>11 DEF asyncVars
<1> QED
  BY <1>1, <1>2, <1>3, <1>4, <1>5, <1>6, <1>7, <1>8, <1>9, <1>10, <1>11
  DEF Async!Next, Async!Work

(* A step of one call leaves the others alone. *)
LEMMA OtherCalls ==
  ASSUME Async!TypeOK, NEW c \in Command, NEW j \in Command \ {c},
         Async!Begin(c) \/ Async!Work(c) \/ Async!CarryOut(c) \/ Async!DeleteLater(c)
  PROVE  UNCHANGED <<asked[j], thread[j], done[j], calls[j], hooked[j], faults[j]>>
BY DEF Async!TypeOK, Async!Begin, Async!Work, Async!CarryOut, Async!DeleteLater,
       Async!Succeeds, Async!Fails, Async!RunHook, Async!Parse, Async!CallBack,
       Async!AfterCallback, Async!Catch, Async!Go, Async!Note, Async!Throws, Async!given

(* One more answer: the earlier ones stay. *)
LEMMA OneMoreAnswer ==
  ASSUME NEW s \in Seq(BOOLEAN), NEW b \in BOOLEAN
  PROVE  /\ Append(s, b) \in Seq(BOOLEAN) /\ Len(s) \in Nat
         /\ Len(Append(s, b)) = Len(s) + 1 /\ Append(s, b) # <<>>
         /\ s = <<>> => Append(s, b)[1] = b
         /\ s # <<>> => Append(s, b)[1] = s[1]
         /\ Len(s) = 1 => Append(s, b)[2] = b
<1>1. Append(s, b) \in Seq(BOOLEAN) /\ Len(s) \in Nat
  OBVIOUS
<1>2. Len(Append(s, b)) = Len(s) + 1 /\ Append(s, b) # <<>>
  OBVIOUS
<1>3. s = <<>> => Append(s, b)[1] = b
  OBVIOUS
<1>4. s # <<>> => Append(s, b)[1] = s[1]
  OBVIOUS
<1>5. Append(s, b)[Len(s) + 1] = b
  OBVIOUS
<1> QED
  BY <1>1, <1>2, <1>3, <1>4, <1>5, SMTT(40)

(* A call's own fields, without those of the others. *)
LEMMA AsyncFields ==
  ASSUME Async!TypeOK, NEW c \in Command
  PROVE  /\ calls[c] \in Seq(BOOLEAN) /\ done[c] \in BOOLEAN
         /\ hooked[c] \in 0..1 /\ faults[c] \subseteq Async!Fault
         /\ Len(calls[c]) \in Nat /\ (Len(calls[c]) = 0 <=> calls[c] = <<>>)
<1>1. /\ calls[c] \in Seq(BOOLEAN) /\ done[c] \in BOOLEAN
      /\ hooked[c] \in 0..1 /\ faults[c] \subseteq Async!Fault
  BY DEF Async!TypeOK
<1> QED
  BY <1>1, EmptySeq

LEMMA ThrowsField ==
  ASSUME Async!TypeOK, NEW c \in Command, NEW f, Async!Throws(c, f)
  PROVE  /\ faults'[c] = faults[c] \cup {f}
         /\ thread'[c] = "catch" \/ (f = "other" /\ thread'[c] = "ended")
<1>1. faults'[c] = faults[c] \cup {f}
  BY DEF Async!Throws, Async!Note, Async!TypeOK
<1>2. \E S : thread \in [Command -> S]
  BY DEF Async!TypeOK
<1>3. thread'[c] = "catch" \/ (f = "other" /\ thread'[c] = "ended")
  BY <1>2 DEF Async!Throws, Async!Go
<1> QED
  BY <1>1, <1>3

LEMMA AsyncCallStep ==
  ASSUME Async!TypeOK, NEW c \in Command, Told(c), Knows(c), Hooks(c),
         Async!Begin(c) \/ Async!Work(c) \/ Async!CarryOut(c) \/ Async!DeleteLater(c)
  PROVE  (Told(c) /\ Knows(c) /\ Hooks(c))'
<1> USE DEF Async!Go, Async!Note, Async!given
<1>0. asked' = asked /\ Async!Kind(c)' = Async!Kind(c)
  BY DEF Async!Begin, Async!Work, Async!CarryOut, Async!DeleteLater,
         Async!Succeeds, Async!Fails, Async!RunHook, Async!Parse, Async!CallBack,
         Async!AfterCallback, Async!Catch, Async!Kind
<1>1. CASE Async!Begin(c)
  <2>1. thread[c] = "idle" /\ thread'[c] \in {"requesting", "ended"}
    BY <1>1, ThrowsField DEF Async!TypeOK, Async!Begin
  <2>2. UNCHANGED <<calls[c], done[c], hooked[c]>> /\ faults[c] \subseteq faults'[c]
    BY <1>1, ThrowsField DEF Async!TypeOK, Async!Begin
  <2> QED
    <3>1. Told(c)'
      BY <2>1, <2>2, AsyncFields DEF Told
    <3>2. Knows(c)'
      BY <2>1, <2>2, AsyncFields DEF Told, Knows
    <3>3. Hooks(c)'
      BY <1>0, <2>1, <2>2, AsyncFields DEF Told, Hooks
    <3> QED
      BY <3>1, <3>2, <3>3
<1>2. CASE Async!CarryOut(c)
  BY <1>0, <1>2 DEF Async!TypeOK, Async!CarryOut, Told, Knows, Hooks
<1>3. CASE Async!Succeeds(c)
  BY <1>0, <1>3 DEF Async!TypeOK, Async!Succeeds, Async!AfterAnswer, Told, Knows, Hooks
<1>4. CASE Async!Fails(c)
  <2>1. thread[c] = "requesting" /\ UNCHANGED <<calls[c], done[c], hooked[c]>>
    BY <1>4 DEF Async!Fails
  <2>2. \/ thread'[c] \in {"callback", "catch"} /\ faults'[c] = faults[c] \cup {"request"}
        \/ thread'[c] \in {"catch", "ended"} /\ faults'[c] = faults[c] \cup {"other"}
    BY <1>4, ThrowsField DEF Async!TypeOK, Async!Fails, Async!AfterAnswer
  <2> QED
    <3>1. Told(c)'
      BY <2>1, <2>2, AsyncFields DEF Told
    <3>2. Knows(c)'
      BY <2>1, <2>2, AsyncFields DEF Told, Knows
    <3>3. Hooks(c)'
      BY <1>0, <2>1, <2>2, AsyncFields DEF Told, Hooks
    <3> QED
      BY <3>1, <3>2, <3>3
<1>5. CASE Async!RunHook(c)
  <2>1. thread[c] = "hook" /\ hooked'[c] = hooked[c] + 1 /\ UNCHANGED <<calls[c], done[c]>>
    BY <1>5, ThrowsField DEF Async!TypeOK, Async!RunHook
  <2>2. \/ thread'[c] = "callback" /\ faults'[c] = faults[c]
        \/ \E f \in {"hook", "other"} : /\ faults'[c] = faults[c] \cup {f}
                                        /\ thread'[c] \in {"catch", "ended"}
    BY <1>5, ThrowsField DEF Async!TypeOK, Async!RunHook
  <2> QED
    <3>1. Told(c)'
      BY <2>1, <2>2, AsyncFields DEF Told
    <3>2. Knows(c)'
      BY <2>1, <2>2, AsyncFields DEF Told, Knows
    <3>3. Hooks(c)'
      BY <1>0, <2>1, <2>2, AsyncFields DEF Told, Knows, Hooks
    <3> QED
      BY <3>1, <3>2, <3>3
<1>6. CASE Async!Parse(c)
  <2>1. thread[c] = "parse" /\ UNCHANGED <<calls[c], done[c], hooked[c]>>
    BY <1>6, ThrowsField DEF Async!TypeOK, Async!Parse
  <2>2. \/ thread'[c] = "callback" /\ faults[c] \subseteq faults'[c]
        \/ thread'[c] = "catch" /\ faults'[c] = faults[c] \cup {"parse"}
    BY <1>6, ThrowsField DEF Async!TypeOK, Async!Parse
  <2> QED
    <3>1. Told(c)'
      BY <2>1, <2>2, AsyncFields DEF Told
    <3>2. Knows(c)'
      BY <2>1, <2>2, AsyncFields DEF Told, Knows
    <3>3. Hooks(c)'
      BY <1>0, <2>1, <2>2, AsyncFields DEF Told, Hooks
    <3> QED
      BY <3>1, <3>2, <3>3
<1>7. CASE Async!CallBack(c)
  <2>1. thread[c] = "callback" /\ UNCHANGED <<done[c], hooked[c]>>
    BY <1>7 DEF Async!CallBack
  <2>2. calls[c] = <<>>
    BY <2>1, AsyncFields DEF Told
  <2> DEFINE b == faults[c] \cap {"request", "parse"} = {}
  <2>3. calls'[c] = Append(calls[c], b)
    BY <1>7 DEF Async!CallBack, Async!TypeOK
  <2>4. b \in BOOLEAN
    OBVIOUS
  <2>5. Len(calls'[c]) = 1 /\ calls'[c] # <<>> /\ calls'[c][1] = b
    <3> HIDE DEF b
    <3> QED
      BY <2>2, <2>3, <2>4, AsyncFields, OneMoreAnswer
  <2>6. \/ thread'[c] = "called" /\ faults'[c] = faults[c]
        \/ \E f \in {"callback", "other"} : /\ faults'[c] = faults[c] \cup {f}
                                            /\ \/ thread'[c] = "catch"
                                               \/ thread'[c] = "ended"
    BY <1>7, ThrowsField DEF Async!TypeOK, Async!CallBack
  <2>7. Told(c)'
    BY <2>5, <2>6, SMTT(40) DEF Told
  <2>8. Knows(c)'
    BY <2>1, <2>5, <2>6 DEF Knows
  <2>9. Hooks(c)'
    BY <1>0, <2>1, <2>5, <2>6 DEF Hooks
  <2> QED
    BY <2>7, <2>8, <2>9
<1>8. CASE Async!AfterCallback(c)
  <2>1. thread[c] = "called" /\ UNCHANGED <<calls[c], done[c], hooked[c]>>
    BY <1>8, ThrowsField DEF Async!TypeOK, Async!AfterCallback
  <2>2. \/ thread'[c] = "ended" /\ faults'[c] = faults[c]
        \/ thread'[c] = "catch" /\ faults'[c] = faults[c] \cup {"thread"}
    BY <1>8, ThrowsField DEF Async!TypeOK, Async!AfterCallback
  <2>3. Len(calls[c]) = 1 /\ calls[c] # <<>>
    <3>1. Len(calls[c]) = 1
      BY <2>1 DEF Told
    <3> QED
      BY <3>1, EmptySeq
  <2>4. Told(c)'
    <3>1. thread'[c] \in {"ended", "catch"} /\ Len(calls'[c]) = 1
      BY <2>1, <2>2, <2>3
    <3>2. thread'[c] = "catch" => "thread" \in faults'[c]
      BY <2>2
    <3> QED
      BY <3>1, <3>2 DEF Told
  <2>5. Knows(c)'
    BY <2>1, <2>2, <2>3 DEF Knows
  <2>6. Hooks(c)'
    BY <1>0, <2>1, <2>2, <2>3 DEF Hooks
  <2> QED
    BY <2>4, <2>5, <2>6
<1>9. CASE Async!Catch(c)
  <2>1. thread[c] = "catch" /\ UNCHANGED <<done[c], hooked[c]>>
    BY <1>9 DEF Async!Catch
  <2>2. thread'[c] = "ended" /\ calls'[c] = Append(calls[c], FALSE)
    BY <1>9 DEF Async!TypeOK, Async!Catch
  <2>3. faults[c] \subseteq faults'[c]
    BY <1>9 DEF Async!TypeOK, Async!Catch
  <2>4. /\ Len(calls'[c]) = Len(calls[c]) + 1 /\ calls'[c] # <<>>
        /\ calls[c] = <<>> => calls'[c][1] = FALSE
        /\ calls[c] # <<>> => calls'[c][1] = calls[c][1]
        /\ Len(calls[c]) = 1 => calls'[c][2] = FALSE
    <3> DEFINE b == FALSE
    <3>1. b \in BOOLEAN /\ calls'[c] = Append(calls[c], b)
      BY <2>2
    <3>2. /\ Len(calls'[c]) = Len(calls[c]) + 1 /\ calls'[c] # <<>>
          /\ calls[c] = <<>> => calls'[c][1] = b
          /\ calls[c] # <<>> => calls'[c][1] = calls[c][1]
          /\ Len(calls[c]) = 1 => calls'[c][2] = b
      <4> HIDE DEF b
      <4> QED
        BY <3>1, AsyncFields, OneMoreAnswer
    <3> QED
      BY <3>2
  <2>5. Told(c)'
    BY <2>1, <2>2, <2>3, <2>4, AsyncFields DEF Told
  <2>6. Knows(c)'
    BY <2>1, <2>2, <2>3, <2>4 DEF Knows
  <2>7. Hooks(c)'
    BY <1>0, <2>1, <2>2, <2>4 DEF Hooks
  <2> QED
    BY <2>5, <2>6, <2>7
<1>10. CASE Async!DeleteLater(c)
  <2>1. /\ UNCHANGED <<thread[c], calls[c], done[c], hooked[c]>>
        /\ faults'[c] \in {faults[c], faults[c] \cup {"deletion"}}
    BY <1>10 DEF Async!TypeOK, Async!DeleteLater
  <2> QED
    BY <1>0, <2>1 DEF Told, Knows, Hooks
<1> QED
  BY <1>1, <1>2, <1>3, <1>4, <1>5, <1>6, <1>7, <1>8, <1>9, <1>10 DEF Async!Work

LEMMA AsyncTerminationStep ==
  AsyncInv /\ [Async!Next]_asyncVars => Async!TerminationHasCause'
<1> SUFFICES ASSUME Async!TypeOK, Async!TerminationHasCause, [Async!Next]_asyncVars
             PROVE  Async!TerminationHasCause'
  BY DEF AsyncInv
<1> DEFINE Cause == \E c \in Command : faults[c] \cap {"callback", "hook", "other", "deletion"} # {}
<1>1. ASSUME NEW c \in Command,
             Async!Begin(c) \/ Async!Work(c) \/ Async!CarryOut(c) \/ Async!DeleteLater(c)
      PROVE  respectLimits' = respectLimits /\ (~respectLimits \/ ~terminated' \/ terminated \/ Cause')
  <2>1. ASSUME NEW f, Async!Throws(c, f)
        PROVE  terminated' = terminated \/ Cause'
    <3>1. f # "other" => terminated' = terminated
      BY <2>1 DEF Async!Throws
    <3>2. f = "other" => "other" \in faults'[c]
      BY <2>1, ThrowsField
    <3> QED
      BY <3>1, <3>2
  <2>2. Async!Catch(c) => terminated' = terminated \/ Cause'
    <3> SUFFICES ASSUME Async!Catch(c), NEW f \in {"callback", "other"}, Async!Note(c, f)
                 PROVE  Cause'
      BY DEF Async!Catch
    <3>1. f \in faults'[c]
      BY DEF Async!Note, Async!TypeOK
    <3> QED
      BY <3>1
  <2>3. respectLimits' = respectLimits
    BY <1>1
    DEF Async!Begin, Async!Work, Async!CarryOut, Async!DeleteLater, Async!Succeeds, Async!Fails,
        Async!RunHook, Async!Parse, Async!CallBack, Async!AfterCallback, Async!given,
        Async!Catch
  <2>4. CASE Async!DeleteLater(c)
    <3>1. ASSUME Async!Note(c, "deletion") PROVE Cause'
      <4>1. "deletion" \in faults'[c]
        BY <3>1 DEF Async!Note, Async!TypeOK
      <4> QED
        BY <4>1
    <3> QED
      BY <2>3, <2>4, <3>1 DEF Async!DeleteLater
  <2>5. CASE Async!Begin(c) \/ Async!CarryOut(c) \/ Async!Succeeds(c)
    <3>1. terminated' = terminated
      BY <2>5 DEF Async!Begin, Async!CarryOut, Async!Succeeds
    <3> QED
      BY <2>3, <3>1
  <2>6. CASE Async!Catch(c)
    BY <2>2, <2>3, <2>6
  <2>7. CASE Async!Fails(c) \/ Async!RunHook(c) \/ Async!Parse(c) \/ Async!CallBack(c)
             \/ Async!AfterCallback(c)
    <3>1. terminated' = terminated \/ \E f : Async!Throws(c, f)
      BY <2>7 DEF Async!Fails, Async!RunHook, Async!Parse, Async!CallBack,
                  Async!AfterCallback
    <3> QED
      BY <2>1, <2>3, <3>1
  <2> QED
    BY <1>1, <2>4, <2>5, <2>6, <2>7 DEF Async!Work
<1>2. terminated => ~Async!Next
  BY DEF Async!Next
<1>3. CASE UNCHANGED asyncVars
  BY <1>3 DEF asyncVars, Async!TerminationHasCause
<1>4. CASE Async!Next
  BY <1>1, <1>2, <1>4 DEF Async!Next, Async!TerminationHasCause
<1> QED
  BY <1>3, <1>4

LEMMA AsyncInvStep == AsyncInv /\ [Async!Next]_asyncVars => AsyncInv'
<1> SUFFICES ASSUME AsyncInv, [Async!Next]_asyncVars, NEW j \in Command
             PROVE  (Told(j) /\ Knows(j) /\ Hooks(j))'
  BY AsyncTypeStep, AsyncTerminationStep DEF AsyncInv
<1>1. ASSUME NEW c \in Command,
             Async!Begin(c) \/ Async!Work(c) \/ Async!CarryOut(c) \/ Async!DeleteLater(c)
      PROVE  (Told(j) /\ Knows(j) /\ Hooks(j))'
  <2>1. CASE j = c
    BY <1>1, <2>1, AsyncCallStep DEF AsyncInv
  <2>2. CASE j # c
    <3>1. UNCHANGED <<asked[j], thread[j], done[j], calls[j], hooked[j], faults[j]>>
      BY <1>1, <2>2, OtherCalls DEF AsyncInv
    <3> QED
      BY <3>1 DEF AsyncInv, Told, Knows, Hooks, Async!Kind
  <2> QED
    BY <2>1, <2>2
<1>2. CASE UNCHANGED asyncVars
  BY <1>2 DEF asyncVars, AsyncInv, Told, Knows, Hooks, Async!Kind
<1> QED
  BY <1>1, <1>2 DEF Async!Next

LEMMA AlwaysAsyncInv == MCSpec => []AsyncInv
<1>1. MCInit => AsyncInv
  BY AsyncInvInit DEF MCInit, AsyncIdle
<1>2. [MCNext]_allVars => [Async!Next]_asyncVars
  BY DEF MCNext, allVars
<1>3. AsyncInv /\ [MCNext]_allVars => AsyncInv'
  BY <1>2, AsyncInvStep
<1> QED
  BY <1>1, <1>3, PTL DEF MCSpec

(* An uploaded image is stored as what it is, once unless an answer was    *)
(* lost or had no id, and success is a stored file.                        *)
THEOREM UploadsStaySound == MCSpec => []Uploads!UploadsAreSound
<1>1. UploadInv => Uploads!UploadsAreSound
  <2> SUFFICES ASSUME UploadInv, NEW i \in Image
               PROVE  /\ image[i].from = "url" /\ stored[i] > 0 =>
                           /\ image[i].bytes # Uploads!Unknown => chosen[i].mime = image[i].bytes
                           /\ chosen[i].mime \in DOMAIN Uploads!Extension =>
                                chosen[i].extension = Uploads!Extension[chosen[i].mime]
                      /\ result[i] \in {"id", "success"} => stored[i] > 0
                      /\ stored[i] <= lost[i] + 1 /\ lost[i] <= retries[i] + 1
    BY DEF UploadInv, Uploads!UploadsAreSound, Uploads!StoredAsWhatItIs,
           Uploads!StoredOnceUnlessLost
  <2>1. Storing(i) /\ Describing(i) /\ Uploads!TypeOK
    BY DEF UploadInv
  <2>2. image[i].from = "url" /\ stored[i] > 0 => chosen[i] = Uploads!Described(i)
    BY <2>1 DEF Describing
  <2>3. stored[i] <= lost[i] + 1 /\ lost[i] <= retries[i] + 1
    BY <2>1, UploadCounters DEF Storing
  <2>4. result[i] \in {"id", "success"} => stored[i] > 0
    BY <2>1 DEF Storing
  <2>5. /\ image[i].bytes # Uploads!Unknown => Uploads!Described(i).mime = image[i].bytes
        /\ Uploads!Described(i).mime \in DOMAIN Uploads!Extension =>
             Uploads!Described(i).extension = Uploads!Extension[Uploads!Described(i).mime]
    BY DEF Uploads!Described, Uploads!EffectiveMime
  <2> QED
    BY <2>2, <2>3, <2>4, <2>5
<1> QED
  BY <1>1, AlwaysUploadInv, PTL

(* A callback is told success only of what was done, at most twice, and the*)
(* second time of failure for a cause; the hook runs once, before it.      *)
THEOREM CallbacksStaySound == MCSpec => []Async!CallbacksAreSound
<1>1. AsyncInv => Async!CallbacksAreSound
  BY DEF AsyncInv, Told, Knows, Hooks, Async!CallbacksAreSound, Async!SecondCallHasCause,
         Async!FirstCallIsTrue, Async!HookBeforeCallback
<1> QED
  BY <1>1, AlwaysAsyncInv, PTL

(* Uploads and detached calls tell their callers the truth, whatever fails,*)
(* is lost or throws on the way.                                           *)
THEOREM AnswersStayTrue == MCSpec => []AnswersAreTrue
BY UploadsStaySound, CallbacksStaySound, PTL DEF AnswersAreTrue
=============================================================================
