------------------------ MODULE MessageWatchersProofs ------------------------
(***************************************************************************)
(* Proofs about MessageWatchers, for any number of watchers and messages.  *)
(* Ownership is the inductive invariant: it says which one thread, if any, *)
(* may still call a watcher's callback.                                    *)
(***************************************************************************)
EXTENDS MessageWatchers, TLAPS

(* A callback's first call makes the one-element history of that answer. *)
LEMMA FirstCall ==
  ASSUME NEW a \in {"message", "timeout"}
  PROVE  Append(<<>>, a) = <<a>> /\ <<a>> \in Seq({"message", "timeout"})
OBVIOUS

(* Nothing is pushed, taken or called at the start. *)
LEMMA OwnershipInit == Init => Ownership
<1> SUFFICES ASSUME Init PROVE Ownership
  OBVIOUS
<1>1. TypeOK
  BY DEF Init, TypeOK, TimerState, PcState
<1>2. WaitingIsUnanswered /\ TakenFromTimer /\ UntakenBeforeSearch /\ TakenForItsMessage
  BY DEF Init, WaitingIsUnanswered, TakenFromTimer, UntakenBeforeSearch, TakenForItsMessage
<1>3. CallsMatchOwner /\ OrderIsPushOrder
  BY DEF Init, CallsMatchOwner, OrderIsPushOrder
<1> QED
  BY <1>1, <1>2, <1>3 DEF Ownership

(* Every step of every thread leaves each watcher with one owner. *)
LEMMA OwnershipNext == Ownership /\ [Next]_vars => Ownership'
<1> USE MarkersAreNew
<1> SUFFICES ASSUME Ownership, [Next]_vars PROVE Ownership'
  OBVIOUS
<1>1. ASSUME NEW w \in Watcher, AwaitMessage(w) PROVE Ownership'
  <2> USE <1>1 DEF AwaitMessage, watcherVars, Ownership, TypeOK
  <2>1. TypeOK'
    BY DEF TimerState, PcState
  <2>2. WaitingIsUnanswered'
    BY DEF WaitingIsUnanswered, CallsMatchOwner
  <2>3. TakenFromTimer'
    BY DEF TakenFromTimer, WaitingIsUnanswered, UntakenBeforeSearch,
           TakenForItsMessage
  <2>4. CallsMatchOwner'
    BY DEF CallsMatchOwner, WaitingIsUnanswered, TakenFromTimer, TakenForItsMessage,
           UntakenBeforeSearch
  <2>5. UntakenBeforeSearch'
    BY DEF UntakenBeforeSearch
  <2>6. OrderIsPushOrder'
    BY DEF OrderIsPushOrder
  <2>7. TakenForItsMessage'
    BY DEF TakenForItsMessage, WaitingIsUnanswered, TakenFromTimer,
           UntakenBeforeSearch, Matches
  <2> QED
    BY <2>1, <2>2, <2>3, <2>4, <2>5, <2>6, <2>7
<1>2. ASSUME NEW w \in Watcher, SpawnTimer(w) PROVE Ownership'
  BY <1>2 DEF Ownership, TypeOK, SpawnTimer, watcherVars, TimerState, PcState, Matches,
         WaitingIsUnanswered, TakenFromTimer, CallsMatchOwner, UntakenBeforeSearch,
         OrderIsPushOrder, TakenForItsMessage
<1>3. ASSUME NEW w \in Watcher, TimeoutExpires(w) PROVE Ownership'
  <2> USE <1>3 DEF TimeoutExpires, watcherVars, Ownership, TypeOK
  <2>1. TypeOK'
    BY DEF TimerState, PcState
  <2>2. WaitingIsUnanswered'
    BY DEF WaitingIsUnanswered, CallsMatchOwner
  <2>3. TakenFromTimer'
    <3>1. \A m \in Message : taken[m] = w => w \notin registry
      BY DEF TakenForItsMessage
    <3>2. \A m \in Message : taken[m] # NoWatcher => taken[m] \in Watcher
      OBVIOUS
    <3> QED
      BY <3>1, <3>2 DEF TakenFromTimer
  <2>4. CallsMatchOwner'
    BY DEF CallsMatchOwner, WaitingIsUnanswered, TakenFromTimer, TakenForItsMessage,
           UntakenBeforeSearch
  <2>5. UntakenBeforeSearch'
    BY DEF UntakenBeforeSearch
  <2>6. OrderIsPushOrder'
    BY DEF OrderIsPushOrder
  <2>7. TakenForItsMessage'
    BY DEF TakenForItsMessage, WaitingIsUnanswered, TakenFromTimer,
           UntakenBeforeSearch, Matches
  <2> QED
    BY <2>1, <2>2, <2>3, <2>4, <2>5, <2>6, <2>7
<1>4. ASSUME NEW w \in Watcher, CallTimeout(w) PROVE Ownership'
  <2> USE DEF Ownership, TypeOK
  <2>1. /\ timer[w] = "triggered" /\ calls[w] = <<>>
        /\ \/ calls' = [calls EXCEPT ![w] = <<"timeout">>]
           \/ calls' = calls
        /\ timer' = [timer EXCEPT ![w] = "fired"]
        /\ UNCHANGED <<registry, order, pushed, request, pc, content, taken>>
    <3>1. calls[w] = <<>>
      BY <1>4 DEF CallTimeout, CallsMatchOwner
    <3>2. Append(calls[w], "timeout") = <<"timeout">>
      BY <3>1, FirstCall, Zenon
    <3> QED
      BY <1>4, <3>1, <3>2, Zenon DEF CallTimeout, watcherVars
  <2>2. \A m \in Message : taken[m] # w
    BY <2>1 DEF TakenFromTimer
  <2>3. TypeOK'
    <3>1. calls' \in [Watcher -> Seq({"message", "timeout"})]
      <4>1. <<"timeout">> \in Seq({"message", "timeout"})
        BY FirstCall
      <4> QED
        BY <2>1, <4>1, Zenon
    <3>2. timer' \in [Watcher -> TimerState]
      BY <2>1 DEF TimerState
    <3> QED
      BY <2>1, <3>1, <3>2, Zenon
  <2>4. WaitingIsUnanswered' /\ TakenFromTimer'
    BY <2>1, <2>2 DEF WaitingIsUnanswered, TakenFromTimer
  <2>5. CallsMatchOwner'
    BY <2>1, <2>2 DEF CallsMatchOwner
  <2>6. UntakenBeforeSearch' /\ OrderIsPushOrder' /\ TakenForItsMessage'
    BY <2>1 DEF UntakenBeforeSearch, OrderIsPushOrder, TakenForItsMessage, Matches
  <2> QED
    BY <2>3, <2>4, <2>5, <2>6
<1>5. ASSUME NEW m \in Message, DispatchMessage(m) PROVE Ownership'
  BY <1>5 DEF Ownership, TypeOK, DispatchMessage, watcherVars, TimerState, PcState, Matches,
         WaitingIsUnanswered, TakenFromTimer, CallsMatchOwner, UntakenBeforeSearch,
         OrderIsPushOrder, TakenForItsMessage
<1>6. ASSUME NEW m \in Message, FindWatcher(m) PROVE Ownership'
  <2> USE <1>6 DEF FindWatcher, watcherVars, Ownership, TypeOK
  <2>1. TypeOK'
    BY DEF TimerState, PcState
  <2>2. WaitingIsUnanswered'
    BY DEF WaitingIsUnanswered, CallsMatchOwner
  <2>3. TakenFromTimer'
    BY DEF TakenFromTimer, WaitingIsUnanswered, UntakenBeforeSearch,
           TakenForItsMessage
  <2>4. CallsMatchOwner'
    BY DEF CallsMatchOwner, WaitingIsUnanswered, TakenFromTimer, TakenForItsMessage,
           UntakenBeforeSearch
  <2>5. UntakenBeforeSearch'
    BY DEF UntakenBeforeSearch
  <2>6. OrderIsPushOrder'
    BY DEF OrderIsPushOrder
  <2>7. TakenForItsMessage'
    BY DEF TakenForItsMessage, WaitingIsUnanswered, TakenFromTimer,
           UntakenBeforeSearch, Matches
  <2> QED
    BY <2>1, <2>2, <2>3, <2>4, <2>5, <2>6, <2>7
<1>7. ASSUME NEW m \in Message, CallWatcher(m) PROVE Ownership'
  <2> USE DEF Ownership, TypeOK
  <2>1. PICK t \in Watcher : t = taken[m]
    BY <1>7 DEF CallWatcher, CallsMatchOwner
  <2>2. /\ calls[t] = <<>> /\ pc[m] = "calling"
        /\ calls' = [calls EXCEPT ![t] = <<"message">>]
        /\ pc' = [pc EXCEPT ![m] = "answered"]
        /\ UNCHANGED <<registry, order, pushed, request, timer, content, taken>>
    <3>1. calls[t] = <<>>
      BY <1>7, <2>1 DEF CallWatcher, CallsMatchOwner
    <3>2. Append(calls[t], "message") = <<"message">>
      BY <3>1, FirstCall, Zenon
    <3> QED
      BY <1>7, <2>1, <3>1, <3>2, Zenon DEF CallWatcher, watcherVars
  <2>3. /\ t \notin registry
        /\ timer[t] \notin {"none", "triggered"}
        /\ \A n \in Message \ {m} : taken[n] # t
    BY <2>1 DEF TakenForItsMessage, TakenFromTimer
  <2>4. TypeOK'
    <3>1. calls' \in [Watcher -> Seq({"message", "timeout"})]
      <4>1. <<"message">> \in Seq({"message", "timeout"})
        BY FirstCall
      <4> QED
        BY <2>1, <2>2, <4>1, Zenon
    <3>2. pc' \in [Message -> PcState]
      BY <2>2 DEF PcState
    <3> QED
      BY <2>2, <3>1, <3>2, Zenon
  <2>5. WaitingIsUnanswered' /\ TakenFromTimer'
    BY <2>2, <2>3 DEF WaitingIsUnanswered, TakenFromTimer
  <2>6. CallsMatchOwner'
    BY <2>2, <2>3 DEF CallsMatchOwner
  <2>7. UntakenBeforeSearch' /\ OrderIsPushOrder' /\ TakenForItsMessage'
    BY <2>2 DEF UntakenBeforeSearch, OrderIsPushOrder, TakenForItsMessage, Matches
  <2> QED
    BY <2>4, <2>5, <2>6, <2>7
<1>8. ASSUME NEW m \in Message, DispatchCommand(m) PROVE Ownership'
  BY <1>8 DEF Ownership, TypeOK, DispatchCommand, watcherVars, TimerState, PcState, Matches,
         WaitingIsUnanswered, TakenFromTimer, CallsMatchOwner, UntakenBeforeSearch,
         OrderIsPushOrder, TakenForItsMessage
<1>9. CASE UNCHANGED vars
  BY <1>9 DEF Ownership, TypeOK, vars, Matches,
         WaitingIsUnanswered, TakenFromTimer, CallsMatchOwner, UntakenBeforeSearch,
         OrderIsPushOrder, TakenForItsMessage
<1> QED
  BY <1>1, <1>2, <1>3, <1>4, <1>5, <1>6, <1>7, <1>8, <1>9 DEF Next, Waiting, Listening

(* For every watcher one thread at most may call its callback: the one     *)
(* that found it in active_watchers_ or took it from there.                *)
THEOREM OwnershipAlways == Spec => []Ownership
BY OwnershipInit, OwnershipNext, PTL DEF Spec

(* The state of the watchers, the threads and the messages keeps its type. *)
THEOREM TypeCorrect == Spec => []TypeOK
<1>1. Ownership => TypeOK
  BY DEF Ownership
<1> QED
  BY <1>1, OwnershipAlways, PTL

(* No callback passed to await_message is invoked twice, however the       *)
(* timeout and the messages race for its watcher.                          *)
THEOREM NoSecondCall == Spec => []AtMostOneCall
<1>1. Ownership => AtMostOneCall
  <2> SUFFICES ASSUME Ownership, NEW w \in Watcher PROVE Len(calls[w]) <= 1
    BY DEF AtMostOneCall
  <2>1. calls[w] = <<>> \/ calls[w] = <<"message">> \/ calls[w] = <<"timeout">>
    BY DEF Ownership, CallsMatchOwner
  <2>2. Len(<<>>) <= 1 /\ Len(<<"message">>) <= 1 /\ Len(<<"timeout">>) <= 1
    OBVIOUS
  <2> QED
    BY <2>1, <2>2, Zenon
<1> QED
  BY <1>1, OwnershipAlways, PTL

(* Each message's thread removes at most one watcher, one that asked for   *)
(* this message and that no other thread removed.                          *)
THEOREM RightWatcher == Spec => []TakenForItsMessage
<1>1. Ownership => TakenForItsMessage
  BY DEF Ownership
<1> QED
  BY <1>1, OwnershipAlways, PTL

(* A callback is invoked once at most, for a message its watcher asked for *)
(* and that no other watcher took.                                         *)
THEOREM RepliesStayOwn == Spec => []RepliesAreOwn
<1>1. AtMostOneCall /\ TakenForItsMessage => RepliesAreOwn
  BY DEF RepliesAreOwn
<1> QED
  BY <1>1, NoSecondCall, RightWatcher, PTL

(* A watcher is not overtaken by one pushed after it.  The order in which  *)
(* find_if searches the list gives this; erasing and pushing preserve it.  *)
THEOREM NoOvertaking == Spec => []FirstComeFirstServed
<1> USE MarkersAreNew
<1>1. Init => FirstComeFirstServed
  BY DEF Init, FirstComeFirstServed
<1>2. FirstComeFirstServed /\ Ownership /\ [Next]_vars => FirstComeFirstServed'
  <2> SUFFICES ASSUME FirstComeFirstServed, Ownership, [Next]_vars
               PROVE  FirstComeFirstServed'
    OBVIOUS
  <2> USE DEF FirstComeFirstServed, Matches
  <2>1. ASSUME NEW w \in Watcher, AwaitMessage(w) PROVE FirstComeFirstServed'
    <3>1. \A v \in Watcher : order[v] < pushed + 1
      BY DEF Ownership, TypeOK, OrderIsPushOrder
    <3>2. \A m \in Message : taken[m] # NoWatcher => taken[m] \in Watcher \ {w}
      BY <2>1 DEF AwaitMessage, Ownership, TypeOK, TakenFromTimer
    <3> QED
      BY <2>1, <3>1, <3>2 DEF AwaitMessage, Ownership, TypeOK
  <2>2. ASSUME NEW w \in Watcher, TimeoutExpires(w) PROVE FirstComeFirstServed'
    BY <2>2 DEF TimeoutExpires, watcherVars
  <2>3. ASSUME NEW m \in Message, FindWatcher(m) PROVE FirstComeFirstServed'
    <3> USE <2>3 DEF FindWatcher, watcherVars
    <3>1. CASE {w \in registry : Matches(w, m)} = {}
      BY <3>1 DEF Ownership, TypeOK
    <3>2. CASE {w \in registry : Matches(w, m)} # {}
      <4>1. PICK w \in registry :
              /\ \A v \in registry : Matches(v, m) => order[w] <= order[v]
              /\ registry' = registry \ {w}
              /\ taken' = [taken EXCEPT ![m] = w]
        BY <3>2
      <4>2. \A v \in registry' : Matches(v, m) => order[w] < order[v]
        BY <4>1 DEF Ownership, TypeOK, OrderIsPushOrder, WaitingIsUnanswered
      <4> QED
        BY <4>1, <4>2 DEF Ownership, TypeOK
    <3> QED
      BY <3>1, <3>2
  <2>4. CASE UNCHANGED <<registry, order, request, content, taken>>
    BY <2>4
  <2> QED
    BY <2>1, <2>2, <2>3, <2>4 DEF Next, Waiting, Listening, vars, watcherVars,
       SpawnTimer, CallTimeout, DispatchMessage, CallWatcher, DispatchCommand
<1> QED
  BY <1>1, <1>2, OwnershipAlways, PTL DEF Spec

(* await_message implements the safety part of OneShotReply: every step    *)
(* asks once, answers an unanswered request once, or changes neither.      *)
THEOREM ImplementsOneShotReply == Spec => OneShot!Init /\ [][OneShot!Next]_OneShot!vars
<1> USE MarkersAreNew
<1>1. Init => OneShot!Init
  BY DEF Init, OneShot!Init, Asked
<1>2. Ownership /\ [Next]_vars => [OneShot!Next]_OneShot!vars
  <2> SUFFICES ASSUME Ownership, [Next]_vars
               PROVE  OneShot!Next \/ UNCHANGED <<Asked, calls>>
    BY DEF OneShot!vars
  <2> USE DEF Asked
  <2>1. ASSUME NEW w \in Watcher, AwaitMessage(w)
        PROVE  OneShot!Ask(w) \/ UNCHANGED <<Asked, calls>>
    <3>1. timer' = [timer EXCEPT ![w] = "unspawned"] /\ timer \in [Watcher -> TimerState]
      BY <2>1 DEF AwaitMessage, Ownership, TypeOK
    <3>2. UNCHANGED <<request, calls>> /\ timer[w] = "none"
      BY <2>1 DEF AwaitMessage
    <3>3. CASE request[w].callback
      BY <3>1, <3>2, <3>3 DEF OneShot!Ask
    <3>4. CASE ~request[w].callback
      BY <3>1, <3>2, <3>4
    <3> QED
      BY <3>3, <3>4
  <2>2. ASSUME NEW w \in Watcher, CallTimeout(w)
        PROVE  OneShot!Reply(w) \/ UNCHANGED <<Asked, calls>>
    <3>1. calls[w] = <<>> /\ timer[w] # "none"
      BY <2>2 DEF CallTimeout, Ownership, CallsMatchOwner
    <3>2. UNCHANGED Asked
      BY <2>2 DEF CallTimeout, watcherVars, Ownership, TypeOK
    <3>3. CASE request[w].callback
      <4>1. w \in Asked
        BY <3>1, <3>3
      <4>2. calls' = [calls EXCEPT ![w] = <<"timeout">>]
        BY <2>2, <3>1, <3>3, FirstCall, Zenon DEF CallTimeout
      <4> QED
        BY <3>1, <3>2, <4>1, <4>2 DEF OneShot!Reply, OneShot!Answer
    <3>4. CASE ~request[w].callback
      BY <2>2, <3>2, <3>4 DEF CallTimeout
    <3> QED
      BY <3>3, <3>4
  <2>3. ASSUME NEW m \in Message, CallWatcher(m) PROVE OneShot!Reply(taken[m])
    <3>1. /\ taken[m] \in Watcher /\ calls[taken[m]] = <<>>
          /\ request[taken[m]].callback /\ timer[taken[m]] # "none"
      BY <2>3 DEF CallWatcher, Ownership, TypeOK, CallsMatchOwner, TakenFromTimer
    <3>2. UNCHANGED Asked
      BY <2>3 DEF CallWatcher, watcherVars
    <3>3. calls' = [calls EXCEPT ![taken[m]] = <<"message">>]
      BY <2>3, <3>1, FirstCall, Zenon DEF CallWatcher
    <3> QED
      BY <3>1, <3>2, <3>3 DEF OneShot!Reply, OneShot!Answer
  <2>4. ASSUME NEW w \in Watcher, SpawnTimer(w) \/ TimeoutExpires(w)
        PROVE  UNCHANGED <<Asked, calls>>
    BY <2>4 DEF SpawnTimer, TimeoutExpires, watcherVars, Ownership, TypeOK
  <2>5. ASSUME NEW m \in Message, DispatchMessage(m) \/ FindWatcher(m) \/ DispatchCommand(m)
        PROVE  UNCHANGED <<Asked, calls>>
    BY <2>5 DEF DispatchMessage, FindWatcher, DispatchCommand, watcherVars
  <2>6. CASE UNCHANGED vars
    BY <2>6 DEF vars
  <2>7. ASSUME NEW m \in Message, CallWatcher(m) PROVE taken[m] \in Watcher
    BY <2>7 DEF CallWatcher, Ownership, TypeOK, CallsMatchOwner
  <2> QED
    BY <2>1, <2>2, <2>3, <2>4, <2>5, <2>6, <2>7 DEF Next, Waiting, Listening, OneShot!Next
<1> QED
  BY <1>1, <1>2, OwnershipAlways, PTL DEF Spec
=============================================================================
