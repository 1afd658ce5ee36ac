------------------------- MODULE EventPipelineProofs -------------------------
(***************************************************************************)
(* Proofs about EventPipeline, for any set of events and any thread limit, *)
(* and about EventRouting, for any payloads, nesting of events, types,     *)
(* users and handlers.                                                     *)
(***************************************************************************)
EXTENDS MCEvents, SequenceTheorems, WellFoundedInduction, TLAPS

(* Pushing at the back of a queue extends what was pushed, ... *)
LEMMA PushExtends ==
  ASSUME NEW S, NEW s \in Seq(S), NEW q \in Seq(S), NEW e \in S
  PROVE  s \o Append(q, e) = Append(s \o q, e)
<1>1. s \o Append(q, e) \in Seq(S) /\ Append(s \o q, e) \in Seq(S)
  BY ConcatProperties
<1>2. Len(s \o Append(q, e)) = Len(Append(s \o q, e))
  BY ConcatProperties
<1>3. ASSUME NEW i \in 1 .. Len(s \o Append(q, e))
      PROVE  (s \o Append(q, e))[i] = Append(s \o q, e)[i]
  <2>1. /\ Append(q, e) \in Seq(S) /\ s \o q \in Seq(S)
        /\ Len(Append(q, e)) = Len(q) + 1 /\ Len(s \o q) = Len(s) + Len(q)
        /\ i \in Nat /\ 1 <= i /\ i <= Len(s) + Len(q) + 1
    BY ConcatProperties
  <2>2. CASE i <= Len(s)
    BY <2>1, <2>2, ConcatProperties
  <2>3. CASE Len(s) < i /\ i <= Len(s) + Len(q)
    BY <2>1, <2>3, ConcatProperties
  <2>4. CASE i = Len(s) + Len(q) + 1
    BY <2>1, <2>4, ConcatProperties
  <2> QED
    BY <2>1, <2>2, <2>3, <2>4
<1> QED
  BY <1>1, <1>2, <1>3, SeqEqual

(* ... and popping its front leaves what was pushed as it is. *)
LEMMA PopKeeps ==
  ASSUME NEW S, NEW s \in Seq(S), NEW q \in Seq(S), q # <<>>
  PROVE  Append(s, Head(q)) \o Tail(q) = s \o q
<1> DEFINE a == Append(s, Head(q)) \o Tail(q)
<1>0. Append(s, Head(q)) \in Seq(S) /\ Tail(q) \in Seq(S) /\ Len(q) > 0
  BY HeadTailProperties
<1>1. a \in Seq(S) /\ s \o q \in Seq(S)
  BY <1>0, ConcatProperties
<1>2. Len(a) = Len(s \o q)
  BY <1>0, ConcatProperties, HeadTailProperties
<1>3. ASSUME NEW i \in 1 .. Len(a) PROVE a[i] = (s \o q)[i]
  BY <1>0, <1>2, ConcatProperties, HeadTailProperties
<1> QED
  BY <1>1, <1>2, <1>3, SeqEqual

(* The queue is empty and the worker holds nothing at the start. *)
LEMMA QueueInvInit == Init => QueueInv
<1> SUFFICES ASSUME Init PROVE QueueInv
  OBVIOUS
<1>1. TypeOK
  BY DEF Init, TypeOK, SocketState, WorkerState, DtorState
<1>2. WorkerHolds /\ NoLostWakeup /\ QueueIsFifo
  BY DEF Init, WorkerHolds, NoLostWakeup, QueueIsFifo
<1> QED
  BY <1>1, <1>2 DEF QueueInv

(* Every step keeps the queue in order and leaves no sleeper behind. *)
LEMMA QueueInvNext == QueueInv /\ [Next]_vars => QueueInv'
<1> USE EventKinds DEF QueueInv, TypeOK, WorkerHolds, NoLostWakeup
<1> SUFFICES ASSUME QueueInv, [Next]_vars PROVE QueueInv'
  OBVIOUS
<1>1. ASSUME NEW e \in Event, PushEvent(e) PROVE QueueInv'
  <2>1. QueueIsFifo'
    <3>1. taken \in Seq(Event) /\ queue \in Seq(Event)
      OBVIOUS
    <3>2. taken \o Append(queue, e) = Append(taken \o queue, e)
      BY <3>1, PushExtends
    <3> QED
      BY <1>1, <3>2 DEF PushEvent, history, QueueIsFifo
  <2> QED
    BY <1>1, <2>1 DEF PushEvent, SocketState
<1>2. CASE NotifyOne
  BY <1>2 DEF NotifyOne, history, SocketState, WorkerState, QueueIsFifo
<1>3. CASE WorkerCheck \/ WorkerBreak \/ WorkerWait \/ WorkerPark \/ SpuriousWakeup
  BY <1>3 DEF WorkerCheck, WorkerBreak, WorkerWait, WorkerPark, SpuriousWakeup,
     history, WorkerState, QueueIsFifo
<1>4. CASE WorkerPop
  <2>1. Head(queue) \in Event /\ Tail(queue) \in Seq(Event)
    BY <1>4, HeadTailProperties DEF WorkerPop
  <2>2. QueueIsFifo'
    BY <1>4, PopKeeps DEF WorkerPop, QueueIsFifo
  <2> QED
    BY <1>4, <2>1, <2>2 DEF WorkerPop, WorkerState
<1>5. CASE WorkerDiscard
  BY <1>5 DEF WorkerDiscard, WorkerState, QueueIsFifo
<1>6. CASE WorkerDetach
  BY <1>6 DEF WorkerDetach, history, WorkerState, QueueIsFifo
<1>7. CASE WorkerHandle
  BY <1>7 DEF WorkerHandle, history, WorkerState, QueueIsFifo
<1>8. CASE WorkerHandled
  BY <1>8 DEF WorkerHandled, WorkerState, QueueIsFifo
<1>9. ASSUME NEW e \in Event, FinishHandler(e) PROVE QueueInv'
  BY <1>9 DEF FinishHandler, QueueIsFifo
<1>10. CASE DtorDisconnect \/ DtorClear \/ DtorNotify \/ DtorJoin
  BY <1>10 DEF DtorDisconnect, DtorClear, DtorNotify, DtorJoin, history, SocketState,
     WorkerState, DtorState, QueueIsFifo
<1>11. CASE UNCHANGED vars
  BY <1>11 DEF vars, QueueIsFifo
<1> QED
  BY <1>1, <1>2, <1>3, <1>4, <1>5, <1>6, <1>7, <1>8, <1>9, <1>10, <1>11
     DEF Next, Worker, Destructor

(* The queue's invariant holds throughout every behaviour. *)
LEMMA QueueInvAlways == Spec => []QueueInv
BY QueueInvInit, QueueInvNext, PTL DEF Spec

(* The queue, the threads and the histories keep their types. *)
THEOREM PipelineTypeCorrect == Spec => []TypeOK
<1>1. QueueInv => TypeOK
  BY DEF QueueInv
<1> QED
  BY <1>1, QueueInvAlways, PTL

(* The worker is never left asleep on a queue that has an event: holding   *)
(* queue_mutex from the predicate to the block is what makes it so.        *)
THEOREM WorkerIsWoken == Spec => []NoLostWakeup
<1>1. QueueInv => NoLostWakeup
  BY DEF QueueInv
<1> QED
  BY <1>1, QueueInvAlways, PTL

(* Payloads are taken in the order they were pushed, none skipped.         *)
THEOREM TakenInOrder == Spec => []QueueIsFifo
<1>1. QueueInv => QueueIsFifo
  BY DEF QueueInv
<1> QED
  BY <1>1, QueueInvAlways, PTL

(* The destructor can hang in one way only: the worker had tested          *)
(* worker_running and not blocked yet when the flag was cleared and the    *)
(* condition notified.                                                     *)
THEOREM HangHasOneCause == Spec => HangsOnlyByMissedNotify
<1>1. QueueInv /\ [Next]_vars => [~Hang /\ Hang' => wpc = "parking"]_vars
  <2> SUFFICES ASSUME QueueInv, Next, ~Hang, Hang' PROVE wpc = "parking"
    BY DEF vars
  <2> USE DEF Hang
  <2>1. CASE wpc = "blocked"
    BY <2>1 DEF Next, Worker, Destructor, PushEvent, FinishHandler, NotifyOne,
       WorkerCheck, WorkerBreak, WorkerPop, WorkerWait, WorkerPark, WorkerDiscard,
       WorkerDetach, WorkerHandle, WorkerHandled, SpuriousWakeup, DtorDisconnect,
       DtorClear, DtorNotify, DtorJoin, history
  <2>2. CASE wpc # "blocked"
    BY <2>2 DEF Next, Worker, Destructor, PushEvent, FinishHandler, NotifyOne,
       WorkerCheck, WorkerBreak, WorkerPop, WorkerWait, WorkerPark, WorkerDiscard,
       WorkerDetach, WorkerHandle, WorkerHandled, SpuriousWakeup, DtorDisconnect,
       DtorClear, DtorNotify, DtorJoin, history
  <2> QED
    BY <2>1, <2>2
<1> QED
  BY <1>1, QueueInvAlways, PTL DEF Spec, HangsOnlyByMissedNotify
-----------------------------------------------------------------------------
(* The elements of a sequence that grows at its end. *)
LEMMA ElementsOfAppend ==
  ASSUME NEW S, NEW s \in Seq(S), NEW e \in S
  PROVE  Elements(Append(s, e)) = Elements(s) \cup {e}
<1> DEFINE t == Append(s, e)
<1>1. /\ DOMAIN t = 1 .. Len(s) + 1 /\ DOMAIN s = 1 .. Len(s)
      /\ t[Len(s) + 1] = e /\ \A i \in 1 .. Len(s) : t[i] = s[i]
  OBVIOUS
<1> QED
  BY <1>1 DEF Elements

(* What the worker took is a prefix of what was received. *)
LEMMA TakenIsPrefix ==
  ASSUME QueueInv
  PROVE  /\ DOMAIN taken = 1 .. Len(taken) /\ DOMAIN received = 1 .. Len(received)
         /\ Len(received) = Len(taken) + Len(queue)
         /\ \A i \in 1 .. Len(taken) : received[i] = taken[i]
         /\ \A i \in 1 .. Len(queue) : received[Len(taken) + i] = queue[i]
BY ConcatProperties DEF QueueInv, TypeOK, QueueIsFifo

(* A received payload was taken exactly if its place is within what was    *)
(* taken, and the payload the worker has is the last one taken.            *)
LEMMA Places ==
  ASSUME QueueInv, ReceivedOnce, NEW j \in DOMAIN received
  PROVE  /\ j \in Nat /\ Len(taken) \in Nat
         /\ received[j] \in Elements(taken) <=> j <= Len(taken)
         /\ LastTaken /\ received[j] = current /\ current # NoEvent => j = Len(taken)
<1>1. /\ DOMAIN taken = 1 .. Len(taken) /\ DOMAIN received = 1 .. Len(received)
      /\ Len(taken) \in Nat /\ Len(received) \in Nat /\ Len(taken) <= Len(received)
      /\ \A i \in 1 .. Len(taken) : received[i] = taken[i]
  BY TakenIsPrefix DEF QueueInv, TypeOK
<1>2. ASSUME NEW i \in 1 .. Len(taken), received[j] = taken[i] PROVE j = i
  BY <1>1, <1>2 DEF ReceivedOnce
<1>3. received[j] \in Elements(taken) <=> j <= Len(taken)
  BY <1>1, <1>2 DEF Elements
<1>4. ASSUME LastTaken, received[j] = current, current # NoEvent PROVE j = Len(taken)
  <2>1. received[j] = taken[Len(taken)] /\ taken # <<>>
    BY <1>4 DEF LastTaken
  <2>2. Len(taken) \in 1 .. Len(taken)
    BY <2>1, EmptySeq DEF QueueInv, TypeOK
  <2> QED
    BY <1>2, <2>1, <2>2
<1> QED
  BY <1>1, <1>3, <1>4

(* The order of the queue and the accounting give the completeness of the  *)
(* control events: they have no history of their own.                      *)
LEMMA OrderGivesCompleteness == OrderInv => ControlComplete
<1> SUFFICES ASSUME OrderInv, NEW i \in DOMAIN received, NEW j \in DOMAIN received,
                    i < j, received[i] \in Control,
                    received[j] \in Elements(handled) \cup active \cup discarded
             PROVE  received[i] \in Elements(handled)
  BY DEF ControlComplete
<1>1. QueueInv /\ ReceivedOnce /\ LastTaken
  BY DEF OrderInv
<1>2. received[j] \in Elements(taken)
  BY DEF OrderInv, NothingLost
<1>3. j <= Len(taken) /\ i < Len(taken) /\ received[i] \in Elements(taken)
  BY <1>1, <1>2, Places
<1>4. received[i] \in Busy \cup active \cup Elements(handled) \cup discarded
  BY <1>3 DEF OrderInv, NothingLost
<1>5. received[i] \notin active \cup discarded
  BY DEF OrderInv, QueueInv, TypeOK
<1>6. received[i] \notin Busy
  BY <1>1, <1>3, Places DEF Busy
<1> QED
  BY <1>4, <1>5, <1>6

(* No event was received, so none is out of place. *)
LEMMA OrderInvInit == Init => OrderInv
<1> SUFFICES ASSUME Init PROVE OrderInv
  OBVIOUS
<1>1. QueueInv
  BY QueueInvInit
<1>2. Elements(taken) = {} /\ Elements(handled) = {}
  BY DEF Init, Elements
<1>3. ReceivedOnce /\ LastTaken /\ NothingLost /\ ControlInOrder
  BY <1>2 DEF Init, ReceivedOnce, LastTaken, NothingLost, ControlInOrder, Busy
<1> QED
  BY <1>1, <1>3 DEF OrderInv

(* A step that ends the handling of e appends e, which was not handled     *)
(* before, to the history of handled events.                               *)
LEMMA HandledGrows ==
  ASSUME OrderInv, NEW e \in Event \ Elements(handled),
         handled' = Append(handled, e), UNCHANGED received,
         e \in Control => e = current /\ current # NoEvent
  PROVE  /\ ControlInOrder'
         /\ \A k, l \in DOMAIN handled' : handled'[k] = handled'[l] => k = l
<1>1. /\ DOMAIN handled = 1 .. Len(handled) /\ Len(handled) \in Nat
      /\ DOMAIN handled' = 1 .. Len(handled) + 1
      /\ handled'[Len(handled) + 1] = e
      /\ \A k \in 1 .. Len(handled) : handled'[k] = handled[k] /\ handled'[k] # e
  BY DEF Elements, OrderInv, QueueInv, TypeOK
<1>2. Elements(handled') = Elements(handled) \cup {e}
  BY ElementsOfAppend DEF OrderInv, QueueInv, TypeOK
<1>3. ASSUME NEW a \in Elements(handled) \cup {e}, NEW b \in Elements(handled) \cup {e},
             a \in Control, b \in Control,
             NEW i \in DOMAIN received, NEW j \in DOMAIN received,
             a = received[i], b = received[j], i < j
      PROVE  \E k, l \in DOMAIN handled' : handled'[k] = a /\ handled'[l] = b /\ k < l
  <2>0. QueueInv /\ ReceivedOnce /\ LastTaken
    BY DEF OrderInv
  <2>1. CASE a \in Elements(handled) /\ b \in Elements(handled)
    <3>1. PICK k, l \in DOMAIN handled : handled[k] = a /\ handled[l] = b /\ k < l
      BY <1>3, <2>1 DEF ControlInOrder, OrderInv
    <3> QED
      BY <3>1, <1>1
  <2>2. CASE a \in Elements(handled) /\ b = e
    <3>1. PICK k \in 1 .. Len(handled) : handled[k] = a
      BY <2>2, <1>1 DEF Elements
    <3>2. handled'[k] = a /\ handled'[Len(handled) + 1] = b /\ k < Len(handled) + 1
      BY <2>2, <3>1, <1>1
    <3> QED
      BY <3>1, <3>2, <1>1
  <2>3. CASE a = e
    <3>1. i = Len(taken) /\ j \in Nat /\ i \in Nat
      BY <1>3, <2>0, <2>3, Places
    <3>2. b \in Elements(taken)
      <4>1. CASE b = e
        <5>1. i = j
          BY <1>3, <2>0, <2>3, <4>1, Zenon DEF ReceivedOnce
        <5> QED
          BY <1>3, <3>1, <5>1
      <4>2. CASE b \in Elements(handled)
        BY <4>2 DEF OrderInv, NothingLost
      <4> QED
        BY <4>1, <4>2
    <3>3. j <= Len(taken)
      BY <1>3, <2>0, <3>2, Places
    <3> QED
      BY <1>3, <3>1, <3>3
  <2> QED
    BY <1>3, <2>1, <2>2, <2>3
<1>4. ControlInOrder'
  BY <1>2, <1>3 DEF ControlInOrder
<1>5. \A k, l \in DOMAIN handled' : handled'[k] = handled'[l] => k = l
  <2>1. \A k, l \in 1 .. Len(handled) : handled[k] = handled[l] => k = l
    BY <1>1 DEF OrderInv, NothingLost
  <2> QED
    BY <1>1, <2>1
<1> QED
  BY <1>4, <1>5

(* Every step moves an event from one place to the next, in order. *)
LEMMA OrderInvNext == OrderInv /\ [Next]_vars => OrderInv'
<1> USE EventKinds
<1> SUFFICES ASSUME OrderInv, [Next]_vars PROVE OrderInv'
  OBVIOUS
<1>0. QueueInv /\ QueueInv'
  BY QueueInvNext DEF OrderInv
<1> DEFINE Rest == ReceivedOnce /\ LastTaken /\ NothingLost /\ ControlInOrder
<1>1. ASSUME NEW e \in Event, PushEvent(e) PROVE Rest'
  <2>1. /\ DOMAIN received = 1 .. Len(received)
        /\ DOMAIN received' = 1 .. Len(received) + 1
        /\ received'[Len(received) + 1] = e
        /\ \A i \in 1 .. Len(received) : received'[i] = received[i] /\ received[i] # e
    BY <1>0, <1>1 DEF PushEvent, QueueInv, TypeOK, Elements
  <2>2. ReceivedOnce'
    BY <2>1 DEF OrderInv, ReceivedOnce
  <2>3. UNCHANGED <<current, active, taken, handled, discarded>>
    BY <1>1 DEF PushEvent
  <2>4. e \notin Elements(handled)
    <3>1. Elements(handled) \subseteq Elements(taken)
      BY DEF OrderInv, NothingLost
    <3>2. Elements(taken) \subseteq Elements(received)
      <4>1. ASSUME NEW i \in DOMAIN taken PROVE taken[i] \in Elements(received)
        <5>1. Len(taken) \in Nat /\ Len(queue) \in Nat
          BY <1>0, LenProperties DEF QueueInv, TypeOK
        <5>2. i \in DOMAIN received /\ taken[i] = received[i]
          BY <1>0, <5>1, TakenIsPrefix
        <5> QED
          BY <5>2 DEF Elements
      <4> QED
        BY <4>1 DEF Elements
    <3> QED
      BY <1>1, <3>1, <3>2 DEF PushEvent
  <2>5. ControlInOrder'
    BY <2>1, <2>3, <2>4 DEF OrderInv, ControlInOrder
  <2> QED
    BY <2>2, <2>3, <2>5 DEF OrderInv, LastTaken, NothingLost, Busy
<1>2. ASSUME WorkerPop PROVE Rest'
  <2> DEFINE h == Head(queue)
  <2>1. h \in Event /\ h = queue[1] /\ Len(queue) > 0
    BY <1>0, <1>2, HeadTailProperties DEF WorkerPop, QueueInv, TypeOK
  <2>2. h \notin Elements(taken)
    <3>1. h = received[Len(taken) + 1] /\ Len(taken) + 1 \in DOMAIN received
      BY <1>0, <2>1, TakenIsPrefix
    <3>2. \A i \in 1 .. Len(taken) : taken[i] = received[i] /\ i \in DOMAIN received
      BY <1>0, TakenIsPrefix DEF QueueInv, TypeOK
    <3> QED
      BY <3>1, <3>2, <1>0, TakenIsPrefix DEF OrderInv, ReceivedOnce, Elements
  <2>3. Elements(taken') = Elements(taken) \cup {h}
    BY <1>0, <1>2, <2>1, ElementsOfAppend DEF WorkerPop, QueueInv, TypeOK
  <2>4. current = NoEvent /\ current' = h /\ UNCHANGED <<active, handled, discarded, received>>
    BY <1>0, <1>2 DEF WorkerPop, QueueInv, WorkerHolds
  <2>5. LastTaken'
    BY <1>0, <1>2, <2>1, SMTT(20) DEF WorkerPop, LastTaken, QueueInv, TypeOK
  <2>6. NothingLost'
    BY <2>1, <2>2, <2>3, <2>4 DEF OrderInv, NothingLost, Busy
  <2> QED
    BY <2>4, <2>5, <2>6 DEF OrderInv, ReceivedOnce, ControlInOrder
<1>3. ASSUME WorkerDiscard \/ WorkerDetach PROVE Rest'
  <2>1. /\ current \in Event /\ current' = NoEvent /\ UNCHANGED <<taken, handled, received>>
        /\ \/ active' = active \cup {current} /\ UNCHANGED discarded
           \/ discarded' = discarded \cup {current} /\ UNCHANGED active
    BY <1>0, <1>3 DEF WorkerDiscard, WorkerDetach, history, QueueInv, TypeOK, WorkerHolds
  <2> QED
    BY <2>1 DEF OrderInv, ReceivedOnce, LastTaken, NothingLost, ControlInOrder, Busy
<1>4. ASSUME WorkerHandled PROVE Rest'
  <2>1. /\ current \in Event /\ current' = NoEvent
        /\ handled' = Append(handled, current)
        /\ UNCHANGED <<taken, received, active, discarded>>
    BY <1>0, <1>4 DEF WorkerHandled, QueueInv, TypeOK, WorkerHolds
  <2>2. current \notin Elements(handled) /\ current \in Busy
    BY <2>1 DEF OrderInv, NothingLost, Busy
  <2>4. /\ ControlInOrder'
        /\ \A k, l \in DOMAIN handled' : handled'[k] = handled'[l] => k = l
    BY <2>1, <2>2, HandledGrows
  <2>5. Elements(handled') = Elements(handled) \cup {current}
    BY <1>0, <2>1, ElementsOfAppend DEF QueueInv, TypeOK
  <2>6. NothingLost'
    BY <2>1, <2>2, <2>4, <2>5 DEF OrderInv, NothingLost, Busy
  <2> QED
    BY <2>1, <2>4, <2>6 DEF OrderInv, ReceivedOnce, LastTaken
<1>5. ASSUME NEW e \in Event, FinishHandler(e) PROVE Rest'
  <2>1. /\ e \in active /\ e \notin Control /\ active' = active \ {e}
        /\ handled' = Append(handled, e)
        /\ UNCHANGED <<taken, received, current, discarded>>
    BY <1>0, <1>5 DEF FinishHandler, QueueInv, TypeOK
  <2>2. e \notin Elements(handled) \cup Busy \cup discarded
    BY <2>1 DEF OrderInv, NothingLost
  <2>3. /\ ControlInOrder'
        /\ \A k, l \in DOMAIN handled' : handled'[k] = handled'[l] => k = l
    BY <2>1, <2>2, HandledGrows
  <2>4. Elements(handled') = Elements(handled) \cup {e}
    BY <1>0, <2>1, ElementsOfAppend DEF QueueInv, TypeOK
  <2>5. NothingLost'
    BY <2>1, <2>2, <2>3, <2>4 DEF OrderInv, NothingLost, Busy
  <2> QED
    BY <2>1, <2>3, <2>5 DEF OrderInv, ReceivedOnce, LastTaken
<1>6. ASSUME UNCHANGED <<current, active, received, taken, handled, discarded>> PROVE Rest'
  BY <1>6 DEF OrderInv, ReceivedOnce, LastTaken, NothingLost, ControlInOrder, Busy
<1> QED
  <2> HIDE DEF Rest
  <2>1. Rest'
    BY <1>1, <1>2, <1>3, <1>4, <1>5, <1>6 DEF Next, Worker, Destructor, NotifyOne,
       WorkerCheck, WorkerBreak, WorkerWait, WorkerPark, SpuriousWakeup, WorkerHandle,
       DtorDisconnect, DtorClear, DtorNotify, DtorJoin, history, vars
  <2> QED
    BY <1>0, <2>1 DEF OrderInv, Rest

(* The order of the events holds throughout every behaviour. *)
LEMMA OrderInvAlways == Spec => []OrderInv
BY OrderInvInit, OrderInvNext, PTL DEF Spec

(* Every payload the worker took is with it, with one thread, handled once *)
(* or discarded; nothing disappears between the queue and the handlers.    *)
THEOREM EachEventOnce == Spec => []NothingLost
<1>1. OrderInv => NothingLost
  BY DEF OrderInv
<1> QED
  BY <1>1, OrderInvAlways, PTL

(* Ping, Pong, Authenticated and Ready are handled in the server's order.  *)
THEOREM ControlHandledInOrder == Spec => []ControlInOrder
<1>1. OrderInv => ControlInOrder
  BY DEF OrderInv
<1> QED
  BY <1>1, OrderInvAlways, PTL

(* When any event is handled, is being handled or was discarded, every     *)
(* control event the server sent before it has been handled.               *)
THEOREM ControlHandledFirst == Spec => []ControlComplete
BY OrderGivesCompleteness, OrderInvAlways, PTL

(* What the socket pushed reaches the handlers once each, and the control  *)
(* events in order and before what the server sent after them.             *)
THEOREM StreamStaysKept == Spec => []StreamIsKept
<1>1. NothingLost /\ ControlInOrder /\ ControlComplete => StreamIsKept
  BY DEF StreamIsKept
<1> QED
  BY <1>1, EachEventOnce, ControlHandledInOrder, ControlHandledFirst, PTL
-----------------------------------------------------------------------------
(* The events the abstract stream still holds: the worker's, and the queue. *)
Inbox == (IF current = NoEvent THEN <<>> ELSE <<current>>) \o queue

(* A sequence with one element before it, as the refinement's inbox is. *)
LEMMA SingletonConcat ==
  ASSUME NEW S, NEW e \in S, NEW q \in Seq(S)
  PROVE  /\ <<e>> \o q # <<>> /\ Head(<<e>> \o q) = e /\ Tail(<<e>> \o q) = q
         /\ <<>> \o q = q
         /\ q # <<>> => <<Head(q)>> \o Tail(q) = q
<1>1. <<e>> \o q \in Seq(S) /\ Len(<<e>> \o q) = Len(q) + 1
      /\ (<<e>> \o q)[1] = e /\ \A i \in 1 .. Len(q) : (<<e>> \o q)[i + 1] = q[i]
  BY ConcatProperties
<1>2. <<e>> \o q # <<>> /\ Head(<<e>> \o q) = e
  BY <1>1
<1>3. Tail(<<e>> \o q) = q
  <2> DEFINE t == Tail(<<e>> \o q)
  <2>1. t \in Seq(S) /\ Len(t) = Len(q) /\ \A i \in 1 .. Len(t) : t[i] = q[i]
    BY <1>1, <1>2, HeadTailProperties
  <2> HIDE DEF t
  <2> QED
    BY <2>1, SeqEqual
<1>4. <<>> \o q = q
  BY ConcatEmptySeq
<1>5. q # <<>> => <<Head(q)>> \o Tail(q) = q
  <2>1. SUFFICES ASSUME q # <<>> PROVE Append(<<>>, Head(q)) \o Tail(q) = <<>> \o q
    BY <1>4
  <2> QED
    BY <2>1, PopKeeps
<1> QED
  BY <1>2, <1>3, <1>4, <1>5

(* The gateway's queue, worker and threads implement the safety part of    *)
(* EventStream: control events leave in order and are handled before any   *)
(* later event leaves, others once and concurrently.                       *)
THEOREM ImplementsEventStream == Spec => Stream!Init /\ [][Stream!Next]_Stream!vars
<1> USE EventKinds
<1>1. Init => Stream!Init
  BY DEF Init, Stream!Init
<1>2. QueueInv /\ [Next]_vars => [Stream!Next]_Stream!vars
  <2> SUFFICES ASSUME QueueInv, [Next]_vars
               PROVE  Stream!Next \/ UNCHANGED <<received, Inbox, active, handled, dpc = "alive">>
    BY DEF Stream!vars, Inbox
  <2>0. queue \in Seq(Event)
    BY DEF QueueInv, TypeOK
  <2>1. ASSUME NEW e \in Event, PushEvent(e) PROVE Stream!Receive(e)
    <3>1. Inbox' = Append(Inbox, e)
      <4> DEFINE b == IF current = NoEvent THEN <<>> ELSE <<current>>
      <4>1. b \in Seq(Event)
        BY DEF QueueInv, TypeOK
      <4>2. b' = b /\ queue' = Append(queue, e)
        BY <2>1 DEF PushEvent
      <4>3. b \o Append(queue, e) = Append(b \o queue, e)
        BY <2>0, <4>1, PushExtends
      <4> QED
        BY <4>2, <4>3 DEF Inbox
    <3> QED
      BY <2>1, <3>1 DEF PushEvent, Stream!Receive, Stream!Elements, Elements, Inbox
  <2>2. ASSUME WorkerPop PROVE UNCHANGED <<received, Inbox, active, handled, dpc = "alive">>
    <3>1. Head(queue) \in Event /\ current = NoEvent
      BY <2>0, <2>2, HeadTailProperties DEF WorkerPop, QueueInv, WorkerHolds
    <3>2. <<Head(queue)>> \o Tail(queue) = queue /\ <<>> \o queue = queue
      BY <2>0, <2>2, <3>1, SingletonConcat DEF WorkerPop
    <3> QED
      BY <2>2, <3>1, <3>2 DEF WorkerPop, Inbox
  <2>3. ASSUME WorkerDiscard \/ WorkerDetach \/ WorkerHandled PROVE Stream!Leave
    <3>1. /\ current \in Event /\ current' = NoEvent /\ UNCHANGED <<queue, received, dpc>>
          /\ \/ current \in Control /\ handled' = Append(handled, current) /\ UNCHANGED active
             \/ /\ current \notin Control /\ UNCHANGED handled
                /\ active' \in {active, active \cup {current}}
      BY <2>3 DEF WorkerDiscard, WorkerDetach, WorkerHandled, history, QueueInv, TypeOK, WorkerHolds
    <3>2. /\ Inbox = <<current>> \o queue /\ Inbox' = <<>> \o queue
      BY <3>1 DEF Inbox
    <3>3. Inbox # <<>> /\ Head(Inbox) = current /\ Tail(Inbox) = Inbox'
      BY <2>0, <3>1, <3>2, SingletonConcat
    <3> QED
      BY <3>1, <3>3 DEF Stream!Leave, Inbox
  <2>4. ASSUME NEW e \in Event, FinishHandler(e) PROVE Stream!Finish(e)
    BY <2>4 DEF FinishHandler, Stream!Finish
  <2>5. ASSUME DtorDisconnect PROVE Stream!Close
    BY <2>5 DEF DtorDisconnect, history, Stream!Close
  <2>6. CASE /\ UNCHANGED <<received, current, queue, active, handled>>
             /\ (dpc = "alive") = (dpc' = "alive")
    BY <2>6 DEF Inbox
  <2> QED
    BY <2>1, <2>2, <2>3, <2>4, <2>5, <2>6 DEF Next, Worker, Destructor, NotifyOne,
       WorkerCheck, WorkerBreak, WorkerWait, WorkerPark, SpuriousWakeup, WorkerHandle,
       DtorClear, DtorNotify, DtorJoin, history, vars, Stream!Next
<1> QED
  BY <1>1, <1>2, QueueInvAlways, PTL DEF Spec
-----------------------------------------------------------------------------
(* EventRouting, in the instance Routing of MCEvents. First what           *)
(* FlattenSeq returns, by induction on the number of sequences.            *)

(* Induction on a number, for a set of numbers. *)
LEMMA NumbersFromZero ==
  ASSUME NEW S, 0 \in S, \A n \in Nat : n \in S => n + 1 \in S
  PROVE  \A n \in Nat : n \in S
<1> SUFFICES ASSUME Nat \ S # {} PROVE FALSE
  OBVIOUS
<1>1. PICK i \in Nat \ S : \A j \in Nat \ S : <<j, i>> \notin OpToRel(<, Nat)
  BY WFMin, NatLessThanWellFounded, Zenon
<1>2. \A j \in Nat \ S : ~(j < i)
  BY <1>1, Zenon DEF OpToRel
<1>3. i # 0 /\ i - 1 \in Nat /\ i - 1 \in S
  BY <1>2
<1> QED
  BY <1>3

(* The first n sequences of s, one after the other, as FlattenSeq builds them. *)
Joins(f, s, n) ==
  f = [i \in 1..n |-> IF i = 1 THEN s[i] ELSE f[i - 1] \o s[i]]

(* Each value by the one before it. *)
LEMMA JoinsAt ==
  ASSUME NEW f, NEW s, NEW n \in Nat, Joins(f, s, n), NEW k \in 1..n
  PROVE  /\ k = 1 => f[k] = s[k]
         /\ k # 1 => f[k] = f[k - 1] \o s[k]
BY Zenon DEF Joins

(* There are such functions, by induction on n. *)
LEMMA JoinsExist ==
  ASSUME NEW s, NEW n \in Nat
  PROVE  \E f : Joins(f, s, n)
<1> DEFINE S == {k \in Nat : \E f : Joins(f, s, k)}
<1>1. 0 \in S
  <2>1. Joins([i \in 1..0 |-> s[i]], s, 0)
    BY DEF Joins
  <2> QED
    BY <2>1
<1>2. ASSUME NEW k \in Nat, k \in S PROVE k + 1 \in S
  <2>1. PICK f : Joins(f, s, k)
    BY <1>2
  <2> DEFINE last == IF k = 0 THEN s[1] ELSE f[k] \o s[k + 1]
             g == [i \in 1..(k + 1) |-> IF i = k + 1 THEN last ELSE f[i]]
  <2>2. ASSUME NEW i \in 1..(k + 1)
        PROVE  g[i] = IF i = 1 THEN s[i] ELSE g[i - 1] \o s[i]
    <3>1. CASE i = k + 1
      BY <3>1
    <3>2. CASE i # k + 1
      <4>1. i \in 1..k
        BY <3>2
      <4>2. f[i] = IF i = 1 THEN s[i] ELSE f[i - 1] \o s[i]
        BY <2>1, <4>1 DEF Joins
      <4>3. g[i] = f[i] /\ (i # 1 => g[i - 1] = f[i - 1])
        BY <4>1
      <4> QED
        BY <4>2, <4>3
    <3> QED
      BY <3>1, <3>2
  <2> HIDE DEF last
  <2>3. Joins(g, s, k + 1)
    BY <2>2 DEF Joins
  <2> QED
    BY <2>3
<1> HIDE DEF S
<1>3. n \in S
  BY <1>1, <1>2, NumbersFromZero
<1> QED
  BY <1>3 DEF S

(* They depend on those sequences only. *)
LEMMA JoinsAgree ==
  ASSUME NEW f, NEW g, NEW s, NEW t, NEW m \in Nat, NEW n \in Nat, m <= n,
         Joins(f, s, m), Joins(g, t, n), \A i \in 1..m : s[i] = t[i],
         NEW k \in 1..m
  PROVE  f[k] = g[k]
<1> DEFINE S == {i \in Nat : i \in 1..m => f[i] = g[i]}
<1>1. 0 \in S
  OBVIOUS
<1>2. ASSUME NEW i \in Nat, i \in S PROVE i + 1 \in S
  <2> SUFFICES ASSUME i + 1 \in 1..m PROVE f[i + 1] = g[i + 1]
    OBVIOUS
  <2> DEFINE j == i + 1
  <2>0. j \in 1..m /\ j \in 1..n /\ j - 1 = i /\ (j = 1 <=> i = 0) /\ s[j] = t[j]
    OBVIOUS
  <2> HIDE DEF j
  <2>1. (j = 1 => f[j] = s[j]) /\ (j # 1 => f[j] = f[j - 1] \o s[j])
    BY <2>0, Zenon DEF Joins
  <2>2. (j = 1 => g[j] = t[j]) /\ (j # 1 => g[j] = g[j - 1] \o t[j])
    BY <2>0, Zenon DEF Joins
  <2>3. i # 0 => f[i] = g[i]
    BY <1>2
  <2>4. f[j] = g[j]
    BY <2>0, <2>1, <2>2, <2>3, Zenon
  <2> QED
    BY <2>4 DEF j
<1> HIDE DEF S
<1>3. k \in S
  BY <1>1, <1>2, NumbersFromZero
<1> QED
  BY <1>3 DEF S

(* What FlattenSeq returns is the last of them. *)
LEMMA FlattenJoins ==
  ASSUME NEW s, Len(s) \in Nat \ {0}
  PROVE  \E f : Joins(f, s, Len(s)) /\ Routing!FlattenSeq(s) = f[Len(s)]
<1> DEFINE f == CHOOSE f : f = [i \in 1..Len(s) |-> IF i = 1 THEN s[i] ELSE f[i - 1] \o s[i]]
<1>1. Routing!FlattenSeq(s) = f[Len(s)]
  BY DEF Routing!FlattenSeq
<1>2. \E g : g = [i \in 1..Len(s) |-> IF i = 1 THEN s[i] ELSE g[i - 1] \o s[i]]
  BY JoinsExist DEF Joins
<1>3. Joins(f, s, Len(s))
  BY <1>2, Zenon DEF Joins
<1> QED
  BY <1>1, <1>3

(* FlattenSeq of no sequence. *)
LEMMA FlattenEmpty == Routing!FlattenSeq(<<>>) = <<>>
BY DEF Routing!FlattenSeq

(* FlattenSeq of one sequence more ... *)
LEMMA FlattenAppend ==
  ASSUME NEW S, NEW s \in Seq(Seq(S)), NEW x \in Seq(S)
  PROVE  Routing!FlattenSeq(Append(s, x)) = Routing!FlattenSeq(s) \o x
<1> DEFINE t == Append(s, x)
           n == Len(s)
<1>1. /\ n \in Nat /\ Len(t) = n + 1 /\ t[n + 1] = x
      /\ \A i \in 1..n : t[i] = s[i]
  BY AppendProperties
<1>2. PICK g : Joins(g, t, n + 1) /\ Routing!FlattenSeq(t) = g[n + 1]
  <2>1. Len(t) \in Nat \ {0}
    BY <1>1
  <2>2. \E g : Joins(g, t, Len(t)) /\ Routing!FlattenSeq(t) = g[Len(t)]
    BY <2>1, FlattenJoins
  <2>3. Len(t) = n + 1
    BY <1>1
  <2> HIDE DEF t, n
  <2> QED
    BY <2>2, <2>3, Zenon
<1>3. CASE n = 0
  <2>1. s = <<>>
    BY <1>3
  <2>2. g[1] = t[1]
    <3>1. 1 \in 1..(n + 1) /\ n + 1 \in Nat
      BY <1>1
    <3> HIDE DEF n, t
    <3>2. \A k \in 1..(n + 1) : k = 1 => g[k] = t[k]
      BY <1>2, <3>1, JoinsAt
    <3> QED
      BY <3>1, <3>2
  <2>3. Routing!FlattenSeq(t) = x
    BY <1>1, <1>2, <1>3, <2>2
  <2>4. <<>> \o x = x
    BY ConcatEmptySeq
  <2> QED
    BY <2>1, <2>3, <2>4, FlattenEmpty
<1>4. CASE n # 0
  <2>1. PICK f : Joins(f, s, n) /\ Routing!FlattenSeq(s) = f[n]
    BY <1>1, <1>4, FlattenJoins
  <2>2. f[n] = g[n]
    <3> HIDE DEF n, t
    <3>1. n \in 1..n /\ n <= n + 1 /\ n + 1 \in Nat /\ \A i \in 1..n : s[i] = t[i]
      BY <1>1, <1>4
    <3> QED
      BY <1>1, <1>2, <2>1, <3>1, JoinsAgree
  <2>3. g[n + 1] = g[n] \o x
    <3> DEFINE k == n + 1
    <3>1. k \in 1..(n + 1) /\ k # 1 /\ k - 1 = n /\ t[k] = x /\ n + 1 \in Nat
      BY <1>1, <1>4
    <3> HIDE DEF k, t
    <3>2. g[k] = g[k - 1] \o t[k]
      BY <1>2, <3>1, JoinsAt
    <3>3. g[k] = g[n] \o x
      BY <3>1, <3>2, Zenon
    <3> QED
      BY <3>3 DEF k
  <2> QED
    BY <1>2, <2>1, <2>2, <2>3
<1> QED
  BY <1>3, <1>4

(* ... which is a sequence of their elements, ... *)
LEMMA FlattenType ==
  ASSUME NEW S, NEW s \in Seq(Seq(S))
  PROVE  Routing!FlattenSeq(s) \in Seq(S)
<1> DEFINE N == {n \in Nat : \A t \in Seq(Seq(S)) : Len(t) = n => Routing!FlattenSeq(t) \in Seq(S)}
<1>1. 0 \in N
  <2>1. \A t \in Seq(Seq(S)) : Len(t) = 0 => t = <<>>
    BY EmptySeq
  <2> QED
    BY <2>1, FlattenEmpty
<1>2. ASSUME NEW n \in Nat, n \in N PROVE n + 1 \in N
  <2> SUFFICES ASSUME NEW t \in Seq(Seq(S)), Len(t) = n + 1
               PROVE  Routing!FlattenSeq(t) \in Seq(S)
    OBVIOUS
  <2>1. t # <<>>
    OBVIOUS
  <2>2. PICK u \in Seq(Seq(S)), x \in Seq(S) : t = Append(u, x)
    BY <2>1, SequenceEmptyOrAppend
  <2>3. Len(u) = n
    BY <2>2, AppendProperties
  <2> QED
    BY <1>2, <2>2, <2>3, FlattenAppend, ConcatProperties
<1> HIDE DEF N
<1>3. Len(s) \in N
  BY <1>1, <1>2, NumbersFromZero
<1> QED
  BY <1>3 DEF N

(* FlattenSeq of s and t is what it is of s, followed by what it is of t. *)
Splits(s, t) ==
  Routing!FlattenSeq(s \o t) = Routing!FlattenSeq(s) \o Routing!FlattenSeq(t)

(* ... so that it splits where the sequences do, one sequence at a time    *)
(* ...                                                                     *)
LEMMA FlattenConcatOne ==
  ASSUME NEW S, NEW s \in Seq(Seq(S)), NEW v \in Seq(Seq(S)), NEW x \in Seq(S)
  PROVE  Splits(s, v) => Splits(s, Append(v, x))
<1>1. \A a, b \in Seq(S) : (a \o b) \o x = a \o (b \o x)
  <2> SUFFICES ASSUME NEW a \in Seq(S), NEW b \in Seq(S)
               PROVE  (a \o b) \o x = a \o (b \o x)
    OBVIOUS
  <2> QED
    BY ConcatAssociative, SMTT(30)
<1>2. s \o Append(v, x) = Append(s \o v, x) /\ s \o v \in Seq(Seq(S))
  BY PushExtends, ConcatProperties
<1>3. Routing!FlattenSeq(s \o Append(v, x)) = Routing!FlattenSeq(s \o v) \o x
  BY <1>2, FlattenAppend
<1>4. Routing!FlattenSeq(Append(v, x)) = Routing!FlattenSeq(v) \o x
  BY FlattenAppend
<1>5. Routing!FlattenSeq(s) \in Seq(S) /\ Routing!FlattenSeq(v) \in Seq(S)
  BY FlattenType
<1> QED
  BY <1>1, <1>3, <1>4, <1>5 DEF Splits

(* ... and for any two sequences of sequences. *)
LEMMA FlattenConcat ==
  ASSUME NEW S, NEW s \in Seq(Seq(S)), NEW t \in Seq(Seq(S))
  PROVE  Routing!FlattenSeq(s \o t) = Routing!FlattenSeq(s) \o Routing!FlattenSeq(t)
<1> DEFINE N == {n \in Nat : \A u \in Seq(Seq(S)) : Len(u) = n => Splits(s, u)}
<1>1. 0 \in N
  <2>1. \A u \in Seq(Seq(S)) : Len(u) = 0 => u = <<>>
    BY EmptySeq
  <2>2. s \o <<>> = s /\ Routing!FlattenSeq(s) \o <<>> = Routing!FlattenSeq(s)
    BY FlattenType, ConcatEmptySeq
  <2>3. Splits(s, <<>>)
    BY <2>2, FlattenEmpty DEF Splits
  <2> QED
    BY <2>1, <2>3
<1>2. ASSUME NEW n \in Nat, n \in N PROVE n + 1 \in N
  <2> SUFFICES ASSUME NEW u \in Seq(Seq(S)), Len(u) = n + 1
               PROVE  Splits(s, u)
    OBVIOUS
  <2>1. u # <<>>
    OBVIOUS
  <2>2. PICK v \in Seq(Seq(S)), x \in Seq(S) : u = Append(v, x)
    BY <2>1, SequenceEmptyOrAppend
  <2>3. Len(v) = n
    BY <2>2, AppendProperties
  <2>4. Splits(s, v)
    BY <1>2, <2>3
  <2> QED
    BY <2>2, <2>4, FlattenConcatOne
<1>3. Len(t) \in Nat
  BY LenProperties
<1> HIDE DEF N
<1>4. Len(t) \in N
  BY <1>1, <1>2, <1>3, NumbersFromZero, Zenon
<1> QED
  BY <1>4 DEF N, Splits

(* The law of Flat, for a function g. *)
Reads(g, e) == <<e>> \o Routing!FlattenSeq([i \in DOMAIN Inside[e] |-> g[Inside[e][i]]])

(* Sets of events that hold what is inside their events. *)
Closed(D) ==
  D \subseteq Item /\ \A e \in D : \A i \in DOMAIN Inside[e] : Inside[e][i] \in D

(* g obeys the law of Flat on D. *)
IsFlat(D, g) == g = [e \in D |-> Reads(g, e)]

(* Of any events one holds none of the others, as EventAssumption has it. *)
LEMMA Innermost ==
  ASSUME NEW S, S \subseteq Item, S # {}
  PROVE  \E e \in S : \A i \in DOMAIN Inside[e] : Inside[e][i] \notin S
BY Items DEF Routing!EventAssumption

(* The law depends on the events inside only. *)
LEMMA ReadsAgree ==
  ASSUME NEW g, NEW h, NEW e, \A i \in DOMAIN Inside[e] : g[Inside[e][i]] = h[Inside[e][i]]
  PROVE  Reads(g, e) = Reads(h, e)
<1>1. [i \in DOMAIN Inside[e] |-> g[Inside[e][i]]] = [i \in DOMAIN Inside[e] |-> h[Inside[e][i]]]
  OBVIOUS
<1> QED
  BY <1>1, Zenon DEF Reads

(* Two functions that obey it agree where both do. *)
LEMMA FlatAgrees ==
  ASSUME NEW D, NEW E, NEW g, NEW h, Closed(D), Closed(E), IsFlat(D, g), IsFlat(E, h),
         NEW x \in D, x \in E
  PROVE  g[x] = h[x]
<1> DEFINE X == {e \in D \cap E : g[e] # h[e]}
<1> SUFFICES ASSUME X # {} PROVE FALSE
  OBVIOUS
<1>1. X \subseteq Item
  BY DEF Closed
<1>2. PICK e \in X : \A i \in DOMAIN Inside[e] : Inside[e][i] \notin X
  BY <1>1, Innermost
<1>3. \A i \in DOMAIN Inside[e] : Inside[e][i] \in D \cap E
  BY DEF Closed
<1>4. \A i \in DOMAIN Inside[e] : g[Inside[e][i]] = h[Inside[e][i]]
  BY <1>2, <1>3
<1>5. Reads(g, e) = Reads(h, e)
  BY <1>4, ReadsAgree
<1>6. g[e] = Reads(g, e) /\ h[e] = Reads(h, e)
  BY Zenon DEF IsFlat
<1> QED
  BY <1>5, <1>6

(* One function obeys it at every event. *)
LEMMA FlatExists == \E g : IsFlat(Item, g)
<1> DEFINE Good == {D \in SUBSET Item : Closed(D) /\ \E g : IsFlat(D, g)}
           G(D) == CHOOSE g : IsFlat(D, g)
           U == UNION Good
           Home(e) == CHOOSE D \in Good : e \in D
           h == [e \in U |-> G(Home(e))[e]]
<1>1. ASSUME NEW D \in Good
      PROVE  Closed(D) /\ IsFlat(D, G(D))
  BY Zenon
<1>2. ASSUME NEW e \in U
      PROVE  Home(e) \in Good /\ e \in Home(e)
  <2>1. \E D \in Good : e \in D
    OBVIOUS
  <2> QED
    BY <2>1, Zenon
<1>3. Closed(U)
  BY <1>1 DEF Closed
<1>4. ASSUME NEW D \in Good, NEW e \in D
      PROVE  h[e] = G(D)[e]
  <2>1. e \in U
    OBVIOUS
  <2>2. h[e] = G(Home(e))[e]
    BY <2>1, Zenon
  <2>3. Home(e) \in Good /\ e \in Home(e)
    BY <1>2, <2>1
  <2> HIDE DEF Good, G, Home, U, h
  <2>4. G(Home(e))[e] = G(D)[e]
    <3>1. Closed(Home(e)) /\ Closed(D) /\ IsFlat(Home(e), G(Home(e))) /\ IsFlat(D, G(D))
      BY <1>1, <2>3, Zenon
    <3>2. \A E, g, k : Closed(D) /\ Closed(E) /\ IsFlat(E, g) /\ IsFlat(D, k) /\ e \in E
                      => g[e] = k[e]
      BY FlatAgrees
    <3> QED
      BY <2>3, <3>1, <3>2, Zenon
  <2> QED
    BY <2>2, <2>4, Zenon
<1>5. ASSUME NEW e \in U
      PROVE  h[e] = Reads(h, e)
  <2>1. Home(e) \in Good /\ e \in Home(e)
    BY <1>2
  <2> DEFINE D == Home(e)
  <2> HIDE DEF Good, G, Home, U, h
  <2>2. Closed(D) /\ IsFlat(D, G(D))
    BY <1>1, <2>1, Zenon
  <2>3. h[e] = G(D)[e]
    BY <1>4, <2>1, Zenon
  <2>4. G(D)[e] = Reads(G(D), e)
    BY <2>1, <2>2, Zenon DEF IsFlat
  <2>5. \A i \in DOMAIN Inside[e] : Inside[e][i] \in D
    BY <2>1, <2>2, Zenon DEF Closed
  <2>6. \A i \in DOMAIN Inside[e] : G(D)[Inside[e][i]] = h[Inside[e][i]]
    BY <1>4, <2>1, <2>5, Zenon
  <2>7. Reads(G(D), e) = Reads(h, e)
    BY <2>6, ReadsAgree, Zenon
  <2> QED
    BY <2>3, <2>4, <2>7, Zenon
<1>6. IsFlat(U, h)
  <2>1. h = [e \in U |-> h[e]]
    <3> HIDE DEF Good, G, Home, U
    <3> QED
      OBVIOUS
  <2> HIDE DEF Good, G, Home, U, h
  <2>2. [e \in U |-> h[e]] = [e \in U |-> Reads(h, e)]
    BY <1>5
  <2> QED
    BY <2>1, <2>2, Zenon DEF IsFlat
<1>7. U = Item
  <2> SUFFICES ASSUME Item \ U # {} PROVE FALSE
    BY <1>3 DEF Closed
  <2>1. PICK e \in Item \ U : \A i \in DOMAIN Inside[e] : Inside[e][i] \notin Item \ U
    BY Innermost
  <2>2. \A x \in Item : \A i \in DOMAIN Inside[x] : Inside[x][i] \in Item
    <3>1. \A x \in Item : Inside[x] \in Seq(Item)
      BY Items DEF Routing!EventAssumption
    <3> QED
      BY <3>1
  <2>3. \A i \in DOMAIN Inside[e] : Inside[e][i] \in U
    BY <2>1, <2>2
  <2> DEFINE D == U \cup {e}
             k == [x \in D |-> IF x = e THEN Reads(h, e) ELSE h[x]]
  <2>4. Closed(D)
    BY <1>3, <2>3 DEF Closed
  <2>5. ASSUME NEW x \in D PROVE k[x] = Reads(h, x)
    <3>1. CASE x = e
      BY <3>1, Zenon
    <3>2. CASE x # e
      <4>1. x \in U /\ k[x] = h[x]
        BY <3>2, Zenon
      <4> QED
        BY <1>5, <4>1, Zenon
    <3> QED
      BY <3>1, <3>2
  <2>6. ASSUME NEW x \in D PROVE Reads(h, x) = Reads(k, x)
    <3>1. \A i \in DOMAIN Inside[x] : Inside[x][i] \in U
      BY <1>3, <2>3 DEF Closed
    <3>2. \A y \in U : h[y] = k[y]
      <4>1. SUFFICES ASSUME NEW y \in U PROVE h[y] = k[y]
        OBVIOUS
      <4>2. y \in D /\ y # e
        BY <2>1
      <4> HIDE DEF h, U
      <4> QED
        BY <4>2
    <3> HIDE DEF h, k, U
    <3> QED
      BY <3>1, <3>2, ReadsAgree, Zenon
  <2> HIDE DEF h, U
  <2>7. k = [x \in D |-> k[x]]
    OBVIOUS
  <2> HIDE DEF k
  <2>8. [x \in D |-> k[x]] = [x \in D |-> Reads(k, x)]
    BY <2>5, <2>6
  <2>9. IsFlat(D, k)
    BY <2>7, <2>8, Zenon DEF IsFlat
  <2>10. D \in Good
    BY <2>4, <2>9 DEF Closed
  <2> QED
    BY <2>1, <2>10 DEF U
<1> HIDE DEF U, h
<1> QED
  BY <1>6, <1>7, Zenon

(* The events of some events, in the order of Flat. *)
Listing(s) == Routing!FlattenSeq([i \in DOMAIN s |-> Routing!Flat[s[i]]])

(* What is inside an event are events. *)
LEMMA InsideType ==
  ASSUME NEW e \in Item
  PROVE  Inside[e] \in Seq(Item)
BY Items DEF Routing!EventAssumption

(* The list of the events of a payload is its first, followed by those of  *)
(* the events inside it: the recursive definition of Flat has a value for  *)
(* any nesting in which no event is inside itself.                         *)
THEOREM FlatUnfolds ==
  ASSUME NEW e \in Item
  PROVE  Routing!Flat[e] = <<e>> \o Listing(Inside[e])
<1> DEFINE F == CHOOSE g : g = [x \in Item |->
             <<x>> \o Routing!FlattenSeq([i \in DOMAIN Inside[x] |-> g[Inside[x][i]]])]
<1>1. Routing!Flat = F
  BY DEF Routing!Flat
<1>2. \E g : g = [x \in Item |->
             <<x>> \o Routing!FlattenSeq([i \in DOMAIN Inside[x] |-> g[Inside[x][i]]])]
  BY FlatExists, Zenon DEF IsFlat, Reads
<1>3. F = [x \in Item |->
             <<x>> \o Routing!FlattenSeq([i \in DOMAIN Inside[x] |-> F[Inside[x][i]]])]
  BY <1>2, Zenon
<1> HIDE DEF F
<1>4. F[e] = <<e>> \o Routing!FlattenSeq([i \in DOMAIN Inside[e] |-> F[Inside[e][i]]])
  BY <1>3, Zenon
<1> QED
  BY <1>1, <1>4, Zenon DEF Listing

(* A sequence of events has one of their lists for each. *)
LEMMA ListsType ==
  ASSUME NEW s \in Seq(Item), \A i \in DOMAIN s : Routing!Flat[s[i]] \in Seq(Item)
  PROVE  [i \in DOMAIN s |-> Routing!Flat[s[i]]] \in Seq(Seq(Item))
<1>1. DOMAIN s = 1..Len(s) /\ Len(s) \in Nat
  BY LenProperties
<1>2. [i \in 1..Len(s) |-> Routing!Flat[s[i]]] \in [1..Len(s) -> Seq(Item)]
  BY <1>1
<1> QED
  BY <1>1, <1>2, SeqDef

(* What is read of an event are events. *)
LEMMA FlatType ==
  ASSUME NEW e \in Item
  PROVE  Routing!Flat[e] \in Seq(Item)
<1> DEFINE X == {x \in Item : Routing!Flat[x] \notin Seq(Item)}
<1> SUFFICES ASSUME X # {} PROVE FALSE
  OBVIOUS
<1>1. PICK x \in X : \A i \in DOMAIN Inside[x] : Inside[x][i] \notin X
  BY Innermost
<1>2. \A i \in DOMAIN Inside[x] : Inside[x][i] \in Item
  BY InsideType
<1>3. \A i \in DOMAIN Inside[x] : Routing!Flat[Inside[x][i]] \in Seq(Item)
  BY <1>1, <1>2
<1>4. Listing(Inside[x]) \in Seq(Item)
  BY <1>1, <1>3, InsideType, ListsType, FlattenType DEF Listing
<1>5. <<x>> \in Seq(Item)
  OBVIOUS
<1>6. Routing!Flat[x] \in Seq(Item)
  BY <1>4, <1>5, FlatUnfolds, ConcatProperties
<1> QED
  BY <1>6

(* Nothing is read of no events. *)
LEMMA ListingEmpty == Listing(<<>>) = <<>>
<1>1. [i \in DOMAIN <<>> |-> Routing!Flat[<<>>[i]]] = <<>>
  OBVIOUS
<1> QED
  BY <1>1, FlattenEmpty DEF Listing

(* What is read of events are events. *)
LEMMA ListingType ==
  ASSUME NEW s \in Seq(Item)
  PROVE  Listing(s) \in Seq(Item)
BY ElementOfSeq, FlatType, ListsType, FlattenType DEF Listing

(* What is read of two lists is read one after the other. *)
LEMMA ListingConcat ==
  ASSUME NEW s \in Seq(Item), NEW t \in Seq(Item)
  PROVE  Listing(s \o t) = Listing(s) \o Listing(t)
<1> DEFINE L(u) == [i \in DOMAIN u |-> Routing!Flat[u[i]]]
<1>1. s \o t \in Seq(Item)
  BY ConcatProperties
<1>2. ASSUME NEW u \in Seq(Item)
      PROVE  L(u) \in Seq(Seq(Item)) /\ Len(L(u)) = Len(u) /\ \A i \in 1..Len(u) : L(u)[i] = Routing!Flat[u[i]]
  <2>1. DOMAIN u = 1..Len(u) /\ Len(u) \in Nat
    BY LenProperties
  <2>2. L(u) \in Seq(Seq(Item))
    BY ElementOfSeq, FlatType, ListsType
  <2>3. Len(L(u)) = Len(u)
    <3>1. DOMAIN L(u) = 1..Len(L(u)) /\ Len(L(u)) \in Nat
      BY <2>2, LenProperties
    <3>2. DOMAIN L(u) = DOMAIN u
      BY Zenon
    <3> QED
      BY <2>1, <3>1, <3>2
  <2> QED
    BY <2>1, <2>2, <2>3
<1> HIDE DEF L
<1>3. L(s \o t) = L(s) \o L(t)
  <2>1. L(s) \o L(t) \in Seq(Seq(Item)) /\ L(s \o t) \in Seq(Seq(Item))
    BY <1>1, <1>2, ConcatProperties
  <2>2. Len(L(s \o t)) = Len(L(s) \o L(t))
    <3>1. Len(L(s \o t)) = Len(s) + Len(t)
      BY <1>1, <1>2, ConcatProperties
    <3>2. Len(L(s) \o L(t)) = Len(L(s)) + Len(L(t))
      BY <1>2, ConcatProperties
    <3> QED
      BY <1>2, <3>1, <3>2
  <2>3. ASSUME NEW i \in 1..Len(L(s \o t)) PROVE L(s \o t)[i] = (L(s) \o L(t))[i]
    <3>1. i \in 1..(Len(s) + Len(t)) /\ Len(s) \in Nat /\ Len(t) \in Nat
      <4>1. Len(L(s \o t)) = Len(s \o t)
        BY <1>1, <1>2
      <4>2. Len(s \o t) = Len(s) + Len(t) /\ Len(s) \in Nat /\ Len(t) \in Nat
        BY ConcatProperties, LenProperties
      <4> QED
        BY <4>1, <4>2
    <3>2. L(s \o t)[i] = Routing!Flat[(s \o t)[i]]
      BY <1>1, <1>2, <3>1, ConcatProperties
    <3>3. CASE i <= Len(s)
      <4>1. (s \o t)[i] = s[i]
        BY <3>1, <3>3, ConcatProperties
      <4>2. (L(s) \o L(t))[i] = L(s)[i]
        BY <1>2, <3>1, <3>3, ConcatProperties
      <4>3. L(s)[i] = Routing!Flat[s[i]]
        BY <1>2, <3>1, <3>3
      <4> QED
        BY <3>2, <4>1, <4>2, <4>3
    <3>4. CASE i > Len(s)
      <4>1. (s \o t)[i] = t[i - Len(s)]
        BY <3>1, <3>4, ConcatProperties
      <4>2. (L(s) \o L(t))[i] = L(t)[i - Len(s)]
        BY <1>2, <3>1, <3>4, ConcatProperties
      <4>3. L(t)[i - Len(s)] = Routing!Flat[t[i - Len(s)]]
        BY <1>2, <3>1, <3>4
      <4> QED
        BY <3>2, <4>1, <4>2, <4>3
    <3>5. i <= Len(s) \/ i > Len(s)
      BY <3>1
    <3> QED
      BY <3>3, <3>4, <3>5, Zenon
  <2> QED
    BY <2>1, <2>2, <2>3, SeqEqual
<1>4. Routing!FlattenSeq(L(s \o t)) = Routing!FlattenSeq(L(s)) \o Routing!FlattenSeq(L(t))
  BY <1>2, <1>3, FlattenConcat
<1> QED
  BY <1>4 DEF Listing, L

(* Of a list of one event, that event is read. *)
LEMMA ListingOne ==
  ASSUME NEW e \in Item
  PROVE  Listing(<<e>>) = Routing!Flat[e]
<1>1. [i \in DOMAIN <<e>> |-> Routing!Flat[<<e>>[i]]] = <<Routing!Flat[e]>>
  OBVIOUS
<1>2. Append(<<>>, Routing!Flat[e]) = <<Routing!Flat[e]>>
  OBVIOUS
<1>3. Routing!FlattenSeq(Append(<<>>, Routing!Flat[e])) = <<>> \o Routing!Flat[e]
  BY FlatType, FlattenAppend, FlattenEmpty, EmptySeq
<1>4. <<>> \o Routing!Flat[e] = Routing!Flat[e]
  BY FlatType, ConcatEmptySeq
<1> QED
  BY <1>1, <1>2, <1>3, <1>4 DEF Listing

(* What is read of a list is its first event, those inside it, the others. *)
LEMMA ListingHead ==
  ASSUME NEW s \in Seq(Item), s # <<>>
  PROVE  Listing(s) = <<Head(s)>> \o Listing(Inside[Head(s)] \o Tail(s))
<1> DEFINE e == Head(s)
<1>1. e \in Item /\ Tail(s) \in Seq(Item) /\ Inside[e] \in Seq(Item) /\ <<e>> \in Seq(Item)
  BY HeadTailProperties, InsideType
<1>2. s = <<e>> \o Tail(s)
  OBVIOUS
<1> HIDE DEF e
<1>3. Listing(s) = Listing(<<e>>) \o Listing(Tail(s))
  BY <1>1, <1>2, ListingConcat
<1>4. Listing(<<e>>) = <<e>> \o Listing(Inside[e])
  BY <1>1, ListingOne, FlatUnfolds
<1>5. Listing(Inside[e] \o Tail(s)) = Listing(Inside[e]) \o Listing(Tail(s))
  BY <1>1, ListingConcat
<1>6. Listing(Inside[e]) \in Seq(Item) /\ Listing(Tail(s)) \in Seq(Item)
  BY <1>1, ListingType
<1>7. \A a, b \in Seq(Item) : (<<e>> \o a) \o b = <<e>> \o (a \o b)
  <2> SUFFICES ASSUME NEW a \in Seq(Item), NEW b \in Seq(Item)
               PROVE  (<<e>> \o a) \o b = <<e>> \o (a \o b)
    OBVIOUS
  <2> QED
    BY <1>1, ConcatAssociative, SMTT(30)
<1> QED
  BY <1>3, <1>4, <1>5, <1>6, <1>7 DEF e

-----------------------------------------------------------------------------
(* The payloads and the entries of the log. *)
Payloads == Alone \cup Together

Entry == Nat \X Item \X {"raw", "typed", "own"} \X Routing!Did

(* The end of F after its first n elements is L. *)
Suffix(F, n, L) ==
  n \in Nat /\ Len(F) = n + Len(L) /\ \A i \in 1..Len(L) : F[n + i] = L[i]

(* The log has the entry x. *)
Holds(lg, x) == \E i \in 1..Len(lg) : lg[i] = x

(* The entry before the i-th, and the last. *)
Before(p, lg, i) == IF i = 1 THEN <<0, p, "own", "own">> ELSE lg[i - 1]
LastOf(p, lg) == Before(p, lg, Len(lg) + 1)

(* h is the i-th handler of the list k. *)
At(hs, k, h, i) == k \in Key /\ i \in 1..Len(hs[k]) /\ hs[k][i] = h

(* An entry of event n at a stage is the first of them after b. *)
First(b, n, stage) == b[1] < n \/ (b[3] = "raw" /\ stage # "raw")

(* The entry x may follow b, the handlers being hs. *)
Follows(hs, b, x) ==
  /\ b[1] <= x[1]
  /\ x[3] = "own" => First(b, x[1], x[3])
  /\ x[3] # "own" =>
       \/ First(b, x[1], x[3]) /\ At(hs, Routing!KeyOf(x), x[4], 1)
       \/ /\ b[1] = x[1] /\ b[2] = x[2] /\ b[3] = x[3]
          /\ \E j \in Nat : /\ At(hs, Routing!KeyOf(x), b[4], j)
                            /\ At(hs, Routing!KeyOf(x), x[4], j + 1)

(* Every entry may follow the one before it, and is of the event with its  *)
(* number.                                                                 *)
Ordered(p, hs, lg, n) ==
  \A i \in 1..Len(lg) :
    /\ Follows(hs, Before(p, lg, i), lg[i])
    /\ lg[i][1] \in 1..n /\ Routing!Flat[p][lg[i][1]] = lg[i][2]

(* What is left of a thread's list is what is left of the message: without *)
(* the event it is at, unless it is at one.                                *)
Reading(p, c, td, n) ==
  /\ n <= Len(Routing!Flat[p])
  /\ c \in {"waiting", "next", "done"} => Suffix(Routing!Flat[p], n, Listing(td))
  /\ c \in {"raw", "route", "typed"} =>
       td # <<>> /\ n >= 1 /\ Suffix(Routing!Flat[p], n - 1, Listing(td))
  /\ c = "done" => td = <<>>

(* cl is what is left of a copy of hs[k], of which j handlers were called. *)
Copied(hs, k, cl, st, j) ==
  /\ j + Len(cl) <= Len(hs[k]) /\ Len(st[k]) <= j + Len(cl)
  /\ \A i \in 1..Len(cl) : cl[i] = hs[k][j + i]

(* The list a thread calls. *)
CallKey(c, td) == IF c = "raw" THEN "raw" ELSE Type[Head(td)]

(* Of the list it calls, the first j were called, the j-th last. *)
Progress(p, hs, c, td, cl, lg, n, st, j) ==
  LET k == CallKey(c, td) IN
  /\ Copied(hs, k, cl, st, j)
  /\ \A i \in 1..j : Holds(lg, <<n, Head(td), c, hs[k][i]>>)
  /\ IF j = 0 THEN First(LastOf(p, lg), n, c) ELSE LastOf(p, lg) = <<n, Head(td), c, hs[k][j]>>

(* The raw handlers that were there at the start heard of the event e. *)
RawHeard(e, lg, n, st) ==
  "raw" \in Key => \A i \in 1..Len(st["raw"]) : Holds(lg, <<n, e, "raw", st["raw"][i]>>)

(* A thread that calls handlers has called some of the list; one that      *)
(* routes or calls those of a type has called the raw handlers.            *)
Calls(p, hs, c, td, cl, lg, n, st) ==
  /\ c \in {"raw", "typed"} =>
       IF CallKey(c, td) \in Key
       THEN \E j \in Nat : Progress(p, hs, c, td, cl, lg, n, st, j)
       ELSE cl = <<>> /\ First(LastOf(p, lg), n, c)
  /\ c = "typed" => Type[Head(td)] \in Key /\ Type[Head(td)] \in Routing!DispatchedTypes
  /\ c \in {"route", "typed"} => RawHeard(Head(td), lg, n, st)
  /\ c = "route" => First(LastOf(p, lg), n, c)

(* The event e, the n-th of the payload, has set off what Heard asks for. *)
HeardBy(lg, st, sh, e, n) ==
  Type[e] # "none" =>
    /\ RawHeard(e, lg, n, st)
    /\ Type[e] \in Routing!OwnTypes => Holds(lg, <<n, e, "own", "own">>)
    /\ Type[e] \in Key \ {"raw"} /\ (Type[e] \in Routing!TestedTypes => About[e] \notin sh) =>
         \A i \in 1..Len(st[Type[e]]) : Holds(lg, <<n, e, "typed", st[Type[e]][i]>>)

(* So have all events but the one the thread is at. *)
Complete(p, c, lg, n, st, sh) ==
  \A m \in 1..Len(Routing!Flat[p]) :
    m < n \/ (m = n /\ c \in {"next", "done"}) => HeardBy(lg, st, sh, Routing!Flat[p][m], m)

(* Who hears of a user was not to ignore the user at some moment, also who *)
(* is called next.                                                         *)
Unheard(c, td, lg, fr) ==
  /\ \A i \in 1..Len(lg) :
       lg[i][3] = "typed" /\ Type[lg[i][2]] \in Routing!TestedTypes => About[lg[i][2]] \in fr
  /\ c = "typed" /\ Type[Head(td)] \in Routing!TestedTypes => About[Head(td)] \in fr

(* The histories of ignored users have the present. *)
Watched(c, ig, fr, sh) ==
  c \notin {"waiting", "done", "threw"} => ig \subseteq sh /\ User \ ig \subseteq fr

(* The handlers at the start are the first of those there are. *)
Began(hs, c, lg, n, st) ==
  /\ c = "waiting" => n = 0 /\ lg = <<>>
  /\ \A k \in Key : Len(st[k]) <= Len(hs[k]) /\ \A i \in 1..Len(st[k]) : st[k][i] = hs[k][i]

(* No handler is twice in a list. *)
Once(hs) == \A k \in Key : \A i, j \in 1..Len(hs[k]) : hs[k][i] = hs[k][j] => i = j

(* What holds of a thread ... *)
ThreadInv(p, hs, ig, c, td, cl, lg, n, st, fr, sh) ==
  /\ Ordered(p, hs, lg, n) /\ Reading(p, c, td, n)
  /\ Calls(p, hs, c, td, cl, lg, n, st) /\ Complete(p, c, lg, n, st, sh)
  /\ Unheard(c, td, lg, fr) /\ Watched(c, ig, fr, sh) /\ Began(hs, c, lg, n, st)

(* ... and of the handlers: the inductive invariant. *)
RoutingInv ==
  /\ Routing!TypeOK /\ Once(handlers)
  /\ \A p \in Payloads :
       ThreadInv(p, handlers, ignored, pc[p], todo[p], calling[p], log[p], number[p],
                 atStart[p], free[p], shut[p])

(* The types of a thread's part of the variables. *)
ThreadType(c, td, cl, lg, n, st, fr, sh) ==
  /\ c \in {"waiting", "next", "raw", "route", "typed", "done", "threw"}
  /\ td \in Seq(Item) /\ cl \in Seq(Handler) /\ lg \in Seq(Entry) /\ n \in Nat
  /\ st \in [Key -> Seq(Handler)] /\ fr \in SUBSET User /\ sh \in SUBSET User

(* The next event of the list is the next of the message; those inside it  *)
(* come before the others of the list.                                     *)
LEMMA ReadsNext ==
  ASSUME NEW F, NEW n \in Nat, NEW td \in Seq(Item), td # <<>>, Suffix(F, n, Listing(td))
  PROVE  /\ Head(td) \in Item /\ F[n + 1] = Head(td) /\ n + 1 <= Len(F)
         /\ Suffix(F, n + 1, Listing(Inside[Head(td)] \o Tail(td)))
<1> DEFINE e == Head(td)
           L == Listing(td)
           M == Listing(Inside[e] \o Tail(td))
<1>1. e \in Item /\ Inside[e] \in Seq(Item) /\ Tail(td) \in Seq(Item)
  BY HeadTailProperties, InsideType
<1>2. Inside[e] \o Tail(td) \in Seq(Item)
  BY <1>1, ConcatProperties
<1>3. M \in Seq(Item) /\ L = <<e>> \o M
  BY <1>2, ListingType, ListingHead
<1> HIDE DEF e, L, M
<1>4. <<e>> \in Seq(Item) /\ Len(<<e>>) = 1 /\ <<e>>[1] = e
  BY <1>1
<1>5. Len(L) = 1 + Len(M) /\ Len(M) \in Nat
  BY <1>3, <1>4, ConcatProperties, LenProperties
<1>6. \A i \in 1..(1 + Len(M)) : L[i] = IF i <= 1 THEN <<e>>[i] ELSE M[i - 1]
  BY <1>3, <1>4, ConcatProperties
<1>7. L[1] = e /\ \A i \in 1..Len(M) : L[i + 1] = M[i]
  BY <1>4, <1>5, <1>6
<1>8. Len(F) = n + Len(L) /\ \A i \in 1..Len(L) : F[n + i] = L[i]
  BY DEF Suffix, L
<1>9. F[n + 1] = e /\ n + 1 <= Len(F)
  BY <1>5, <1>7, <1>8
<1>10. Suffix(F, n + 1, M)
  <2>1. Len(F) = (n + 1) + Len(M)
    BY <1>5, <1>8
  <2>2. ASSUME NEW i \in 1..Len(M) PROVE F[(n + 1) + i] = M[i]
    <3>1. i + 1 \in 1..Len(L) /\ (n + 1) + i = n + (i + 1)
      BY <1>5
    <3> QED
      BY <1>7, <1>8, <3>1
  <2> QED
    BY <2>1, <2>2 DEF Suffix
<1> QED
  BY <1>1, <1>9, <1>10 DEF e, M

(* An event with nothing inside it is taken off the list. *)
LEMMA NothingInside ==
  ASSUME NEW e \in Item, NEW s \in Seq(Item), Type[e] # "Bulk"
  PROVE  Inside[e] \o s = s
<1>1. Inside[e] = <<>>
  BY Items DEF Routing!EventAssumption
<1> QED
  BY <1>1, ConcatEmptySeq

(* The log. *)
LEMMA LogGrows ==
  ASSUME NEW lg \in Seq(Entry), NEW x \in Entry, NEW p
  PROVE  /\ Append(lg, x) \in Seq(Entry)
         /\ Len(Append(lg, x)) = Len(lg) + 1 /\ Len(lg) \in Nat
         /\ \A i \in 1..Len(lg) : Append(lg, x)[i] = lg[i]
         /\ Append(lg, x)[Len(lg) + 1] = x
         /\ \A y : Holds(lg, y) => Holds(Append(lg, x), y)
         /\ Holds(Append(lg, x), x)
         /\ LastOf(p, Append(lg, x)) = x
         /\ \A i \in 1..(Len(lg) + 1) : Before(p, Append(lg, x), i) = Before(p, lg, i)
<1>1. /\ Append(lg, x) \in Seq(Entry)
      /\ Len(Append(lg, x)) = Len(lg) + 1 /\ Len(lg) \in Nat
      /\ \A i \in 1..Len(lg) : Append(lg, x)[i] = lg[i]
      /\ Append(lg, x)[Len(lg) + 1] = x
  BY AppendProperties, LenProperties
<1>2. \A y : Holds(lg, y) => Holds(Append(lg, x), y)
  BY <1>1 DEF Holds
<1>3. Holds(Append(lg, x), x)
  BY <1>1 DEF Holds
<1>4. LastOf(p, Append(lg, x)) = x
  BY <1>1 DEF LastOf, Before
<1>5. ASSUME NEW i \in 1..(Len(lg) + 1)
      PROVE  Before(p, Append(lg, x), i) = Before(p, lg, i)
  <2>1. i # 1 => i - 1 \in 1..Len(lg)
    BY <1>1
  <2> QED
    BY <1>1, <2>1 DEF Before
<1> QED
  BY <1>1, <1>2, <1>3, <1>4, <1>5

(* The fields of an entry. *)
LEMMA EntryFields ==
  ASSUME NEW x \in Entry
  PROVE  /\ x[1] \in Nat /\ x[2] \in Item /\ x[3] \in {"raw", "typed", "own"}
         /\ x[4] \in Routing!Did
BY DEF Entry

(* The last entry is of the event the thread is at or an earlier one. *)
LEMMA LastIsOld ==
  ASSUME NEW p, NEW hs, NEW lg \in Seq(Entry), NEW n \in Nat, Ordered(p, hs, lg, n)
  PROVE  LastOf(p, lg)[1] \in 0..n
<1>1. CASE Len(lg) = 0
  BY <1>1 DEF LastOf, Before
<1>2. CASE Len(lg) # 0
  <2>1. Len(lg) \in 1..Len(lg) /\ LastOf(p, lg) = lg[Len(lg)]
    BY <1>2 DEF LastOf, Before
  <2> QED
    BY <2>1 DEF Ordered
<1> QED
  BY <1>1, <1>2

(* An entry that may follow the last one is in order. *)
LEMMA OrderedGrows ==
  ASSUME NEW p, NEW hs, NEW lg \in Seq(Entry), NEW n \in Nat, NEW x \in Entry,
         Ordered(p, hs, lg, n), Follows(hs, LastOf(p, lg), x),
         x[1] \in 1..n, Routing!Flat[p][x[1]] = x[2]
  PROVE  Ordered(p, hs, Append(lg, x), n)
<1> SUFFICES ASSUME NEW i \in 1..Len(Append(lg, x))
             PROVE  /\ Follows(hs, Before(p, Append(lg, x), i), Append(lg, x)[i])
                    /\ Append(lg, x)[i][1] \in 1..n
                    /\ Routing!Flat[p][Append(lg, x)[i][1]] = Append(lg, x)[i][2]
  BY DEF Ordered
<1>1. i \in 1..(Len(lg) + 1) /\ Len(lg) \in Nat
  BY LogGrows
<1>2. Before(p, Append(lg, x), i) = Before(p, lg, i)
  <2>1. \A k \in 1..(Len(lg) + 1) : Before(p, Append(lg, x), k) = Before(p, lg, k)
    BY LogGrows, SMTT(30)
  <2> QED
    BY <1>1, <2>1, Zenon
<1>3. CASE i = Len(lg) + 1
  <2>1. Append(lg, x)[i] = x /\ Before(p, lg, i) = LastOf(p, lg)
    BY <1>3, LogGrows DEF LastOf
  <2> QED
    BY <1>2, <2>1
<1>4. CASE i # Len(lg) + 1
  <2>1. i \in 1..Len(lg)
    BY <1>1, <1>4
  <2>2. Append(lg, x)[i] = lg[i]
    BY <2>1, LogGrows
  <2>3. Follows(hs, Before(p, lg, i), lg[i]) /\ lg[i][1] \in 1..n /\ Routing!Flat[p][lg[i][1]] = lg[i][2]
    BY <2>1 DEF Ordered
  <2> QED
    BY <1>2, <2>2, <2>3
<1> QED
  BY <1>3, <1>4

(* The log stays in order when the thread goes to the next event. *)
LEMMA OrderedLater ==
  ASSUME NEW p, NEW hs, NEW lg \in Seq(Entry), NEW n \in Nat, Ordered(p, hs, lg, n)
  PROVE  Ordered(p, hs, lg, n + 1)
<1>1. \A m : m \in 1..n => m \in 1..(n + 1)
  OBVIOUS
<1> QED
  BY <1>1 DEF Ordered

(* What was heard stays heard as the log grows ... *)
LEMMA RawHeardGrows ==
  ASSUME NEW lg \in Seq(Entry), NEW x \in Entry, NEW e, NEW n, NEW st, RawHeard(e, lg, n, st)
  PROVE  RawHeard(e, Append(lg, x), n, st)
BY LogGrows DEF RawHeard

(* ... also by the handlers of a type, ... *)
LEMMA HeardGrows ==
  ASSUME NEW lg \in Seq(Entry), NEW x \in Entry, NEW e, NEW n, NEW st, NEW sh,
         HeardBy(lg, st, sh, e, n)
  PROVE  HeardBy(Append(lg, x), st, sh, e, n)
BY LogGrows, RawHeardGrows DEF HeardBy

(* ... and as more users are ignored. *)
LEMMA HeardWidens ==
  ASSUME NEW lg, NEW e, NEW n, NEW st, NEW sh, NEW wide, sh \subseteq wide,
         HeardBy(lg, st, sh, e, n)
  PROVE  HeardBy(lg, st, wide, e, n)
<1> SUFFICES ASSUME Type[e] # "none" PROVE HeardBy(lg, st, wide, e, n)
  BY DEF HeardBy
<1>1. RawHeard(e, lg, n, st) /\ (Type[e] \in Routing!OwnTypes => Holds(lg, <<n, e, "own", "own">>))
  BY DEF HeardBy
<1>2. ASSUME Type[e] \in Key \ {"raw"}, Type[e] \in Routing!TestedTypes => About[e] \notin wide
      PROVE  \A i \in 1..Len(st[Type[e]]) : Holds(lg, <<n, e, "typed", st[Type[e]][i]>>)
  <2>1. Type[e] \in Routing!TestedTypes => About[e] \notin sh
    BY <1>2
  <2> QED
    BY <1>2, <2>1, Zenon DEF HeardBy
<1> QED
  BY <1>1, <1>2, Zenon DEF HeardBy

-----------------------------------------------------------------------------
(* The event a thread is at. *)
LEMMA CurrentEvent ==
  ASSUME NEW p, NEW c \in {"raw", "route", "typed"}, NEW td \in Seq(Item), NEW n \in Nat,
         Reading(p, c, td, n)
  PROVE  /\ td # <<>> /\ n >= 1 /\ n <= Len(Routing!Flat[p]) /\ Len(Routing!Flat[p]) \in Nat
         /\ Head(td) \in Item /\ Routing!Flat[p][n] = Head(td)
         /\ Suffix(Routing!Flat[p], n, Listing(Inside[Head(td)] \o Tail(td)))
<1> DEFINE k == n - 1
<1>1. td # <<>> /\ n >= 1 /\ k \in Nat /\ k + 1 = n /\ Suffix(Routing!Flat[p], k, Listing(td))
  BY DEF Reading
<1> HIDE DEF k
<1>2. /\ Head(td) \in Item /\ Routing!Flat[p][k + 1] = Head(td) /\ k + 1 <= Len(Routing!Flat[p])
      /\ Suffix(Routing!Flat[p], k + 1, Listing(Inside[Head(td)] \o Tail(td)))
  BY <1>1, ReadsNext
<1>3. Len(Routing!Flat[p]) \in Nat
  <2>1. Listing(td) \in Seq(Item)
    BY ListingType
  <2>2. Len(Listing(td)) \in Nat
    BY <2>1, LenProperties
  <2> QED
    BY <1>1, <2>2 DEF Suffix
<1> QED
  BY <1>1, <1>2, <1>3

(* What is read of a payload has a length. *)
LEMMA FlatLength ==
  ASSUME NEW p \in Payloads
  PROVE  p \in Item /\ Routing!Flat[p] \in Seq(Item) /\ Len(Routing!Flat[p]) \in Nat
<1>1. p \in Item
  BY Items DEF Routing!EventAssumption, Payloads
<1>2. Routing!Flat[p] \in Seq(Item)
  BY <1>1, FlatType
<1> QED
  BY <1>1, <1>2, LenProperties

(* A thread starts. *)
LEMMA StartKeeps ==
  ASSUME NEW p \in Payloads, NEW hs \in [Key -> Seq(Handler)], NEW ig \in SUBSET User,
         NEW c, NEW td, NEW cl, NEW lg, NEW n, NEW st, NEW fr, NEW sh,
         ThreadType(c, td, cl, lg, n, st, fr, sh),
         ThreadInv(p, hs, ig, c, td, cl, lg, n, st, fr, sh),
         c = "waiting"
  PROVE  ThreadInv(p, hs, ig, "next", td, cl, lg, n, hs, User \ ig, ig)
<1>1. n = 0 /\ lg = <<>>
  BY DEF ThreadInv, Began
<1>2. Ordered(p, hs, lg, n) /\ Reading(p, "next", td, n)
  BY DEF ThreadInv, Reading
<1>3. Calls(p, hs, "next", td, cl, lg, n, hs)
  BY DEF Calls
<1>4. Complete(p, "next", lg, n, hs, ig)
  BY <1>1, FlatLength DEF Complete
<1>5. Unheard("next", td, lg, User \ ig)
  BY <1>1 DEF Unheard
<1>6. Watched("next", ig, User \ ig, ig)
  BY DEF Watched
<1>7. Began(hs, "next", lg, n, hs)
  <2>1. \A k \in Key : Len(hs[k]) \in Nat
    BY LenProperties
  <2> QED
    BY <2>1 DEF Began
<1> QED
  BY <1>2, <1>3, <1>4, <1>5, <1>6, <1>7, Zenon DEF ThreadInv

(* An event without a type is passed over. *)
LEMMA PassKeeps ==
  ASSUME NEW p \in Payloads, NEW hs \in [Key -> Seq(Handler)], NEW ig \in SUBSET User,
         NEW c, NEW td, NEW cl, NEW lg, NEW n, NEW st, NEW fr, NEW sh,
         ThreadType(c, td, cl, lg, n, st, fr, sh),
         ThreadInv(p, hs, ig, c, td, cl, lg, n, st, fr, sh),
         c = "next", td # <<>>, Type[Head(td)] = "none"
  PROVE  ThreadInv(p, hs, ig, "next", Tail(td), cl, lg, n + 1, st, fr, sh)
<1>0. td \in Seq(Item) /\ lg \in Seq(Entry) /\ n \in Nat
  BY DEF ThreadType
<1>1. Tail(td) \in Seq(Item) /\ Head(td) \in Item
  BY <1>0, HeadTailProperties
<1>2. Inside[Head(td)] \o Tail(td) = Tail(td)
  BY <1>1, NothingInside
<1>3. Suffix(Routing!Flat[p], n, Listing(td))
  BY DEF ThreadInv, Reading
<1>4. /\ Routing!Flat[p][n + 1] = Head(td) /\ n + 1 <= Len(Routing!Flat[p])
      /\ Suffix(Routing!Flat[p], n + 1, Listing(Tail(td)))
  <2>1. Suffix(Routing!Flat[p], n + 1, Listing(Inside[Head(td)] \o Tail(td)))
    BY <1>0, <1>3, ReadsNext
  <2> QED
    BY <1>0, <1>2, <1>3, <2>1, ReadsNext
<1>5. Ordered(p, hs, lg, n + 1)
  BY <1>0, OrderedLater DEF ThreadInv
<1>6. Reading(p, "next", Tail(td), n + 1)
  BY <1>4 DEF Reading
<1>7. Calls(p, hs, "next", Tail(td), cl, lg, n + 1, st)
  BY DEF Calls
<1>8. Complete(p, "next", lg, n + 1, st, sh)
  <2> SUFFICES ASSUME NEW m \in 1..Len(Routing!Flat[p]), m < n + 1 \/ m = n + 1
               PROVE  HeardBy(lg, st, sh, Routing!Flat[p][m], m)
    BY DEF Complete
  <2>1. CASE m = n + 1
    BY <1>4, <2>1 DEF HeardBy
  <2>2. CASE m # n + 1
    <3>1. m < n \/ m = n
      BY <1>0, <2>2
    <3> QED
      BY <3>1 DEF ThreadInv, Complete
  <2> QED
    BY <2>1, <2>2
<1>9. Unheard("next", Tail(td), lg, fr) /\ Watched("next", ig, fr, sh) /\ Began(hs, "next", lg, n + 1, st)
  BY DEF ThreadInv, Unheard, Watched, Began
<1> QED
  BY <1>5, <1>6, <1>7, <1>8, <1>9, Zenon DEF ThreadInv

(* A thread enters the next event and copies the raw handlers. *)
LEMMA EnterKeeps ==
  ASSUME NEW p \in Payloads, NEW hs \in [Key -> Seq(Handler)], NEW ig \in SUBSET User,
         NEW c, NEW td, NEW cl, NEW lg, NEW n, NEW st, NEW fr, NEW sh, NEW copy,
         ThreadType(c, td, cl, lg, n, st, fr, sh),
         ThreadInv(p, hs, ig, c, td, cl, lg, n, st, fr, sh),
         c = "next", td # <<>>,
         "raw" \in Key => copy = hs["raw"], "raw" \notin Key => copy = <<>>
  PROVE  ThreadInv(p, hs, ig, "raw", td, copy, lg, n + 1, st, fr, sh)
<1>0. td \in Seq(Item) /\ lg \in Seq(Entry) /\ n \in Nat
  BY DEF ThreadType
<1>1. Suffix(Routing!Flat[p], n, Listing(td))
  BY DEF ThreadInv, Reading
<1>2. n + 1 <= Len(Routing!Flat[p]) /\ (n + 1) - 1 = n /\ n + 1 >= 1
  <2>1. n + 1 <= Len(Routing!Flat[p])
    BY <1>0, <1>1, ReadsNext
  <2> QED
    BY <1>0, <2>1
<1>3. Ordered(p, hs, lg, n + 1)
  BY <1>0, OrderedLater DEF ThreadInv
<1>4. Reading(p, "raw", td, n + 1)
  BY <1>1, <1>2 DEF Reading
<1>5. LastOf(p, lg)[1] < n + 1
  <2>1. LastOf(p, lg)[1] \in 0..n
    BY <1>0, LastIsOld DEF ThreadInv
  <2> QED
    BY <1>0, <2>1
<1>6. First(LastOf(p, lg), n + 1, "raw")
  BY <1>5 DEF First
<1>7. Calls(p, hs, "raw", td, copy, lg, n + 1, st)
  <2>1. CASE "raw" \in Key
    <3>1. /\ Len(hs["raw"]) \in Nat /\ Len(st["raw"]) <= Len(hs["raw"])
      BY <2>1, LenProperties DEF ThreadInv, Began
    <3>2. Copied(hs, "raw", copy, st, 0)
      BY <2>1, <3>1 DEF Copied
    <3>3. CallKey("raw", td) = "raw"
      BY DEF CallKey
    <3>4. Progress(p, hs, "raw", td, copy, lg, n + 1, st, 0)
      BY <1>6, <3>2, <3>3 DEF Progress
    <3> QED
      BY <2>1, <3>3, <3>4 DEF Calls
  <2>2. CASE "raw" \notin Key
    BY <1>6, <2>2 DEF Calls, CallKey
  <2> QED
    BY <2>1, <2>2
<1>8. Complete(p, "raw", lg, n + 1, st, sh)
  <2> SUFFICES ASSUME NEW m \in 1..Len(Routing!Flat[p]), m < n + 1
               PROVE  HeardBy(lg, st, sh, Routing!Flat[p][m], m)
    BY DEF Complete
  <2>1. m < n \/ m = n
    BY <1>0
  <2> QED
    BY <2>1 DEF ThreadInv, Complete
<1>9. Unheard("raw", td, lg, fr) /\ Watched("raw", ig, fr, sh) /\ Began(hs, "raw", lg, n + 1, st)
  BY DEF ThreadInv, Unheard, Watched, Began
<1> QED
  BY <1>3, <1>4, <1>7, <1>8, <1>9, Zenon DEF ThreadInv

(* A thread that has read its list is done. *)
LEMMA EndKeeps ==
  ASSUME NEW p \in Payloads, NEW hs \in [Key -> Seq(Handler)], NEW ig \in SUBSET User,
         NEW c, NEW td, NEW cl, NEW lg, NEW n, NEW st, NEW fr, NEW sh,
         ThreadInv(p, hs, ig, c, td, cl, lg, n, st, fr, sh),
         c = "next", td = <<>>
  PROVE  ThreadInv(p, hs, ig, "done", td, cl, lg, n, st, fr, sh)
<1>1. Ordered(p, hs, lg, n) /\ Reading(p, "done", td, n)
  BY DEF ThreadInv, Reading
<1>2. Calls(p, hs, "done", td, cl, lg, n, st)
  BY DEF Calls
<1>3. Complete(p, "done", lg, n, st, sh)
  BY DEF ThreadInv, Complete
<1>4. Unheard("done", td, lg, fr) /\ Watched("done", ig, fr, sh) /\ Began(hs, "done", lg, n, st)
  BY DEF ThreadInv, Unheard, Watched, Began
<1> QED
  BY <1>1, <1>2, <1>3, <1>4, Zenon DEF ThreadInv

(* The first handler of a list follows what was called before ... *)
LEMMA FollowsFirst ==
  ASSUME NEW hs, NEW b, NEW x, x[3] # "own", b[1] <= x[1], First(b, x[1], x[3]),
         At(hs, Routing!KeyOf(x), x[4], 1)
  PROVE  Follows(hs, b, x)
BY Zenon DEF Follows

(* ... and each other one the handler before it. *)
LEMMA FollowsNext ==
  ASSUME NEW hs, NEW b, NEW x, NEW j \in Nat, x[3] # "own", b[1] <= x[1],
         b[1] = x[1], b[2] = x[2], b[3] = x[3],
         At(hs, Routing!KeyOf(x), b[4], j), At(hs, Routing!KeyOf(x), x[4], j + 1)
  PROVE  Follows(hs, b, x)
BY Zenon DEF Follows

(* What a call adds to the log follows what was there. *)
LEMMA CallFollows ==
  ASSUME NEW p \in Payloads, NEW hs \in [Key -> Seq(Handler)],
         NEW c \in {"raw", "typed"}, NEW td \in Seq(Item), NEW cl \in Seq(Handler),
         NEW lg \in Seq(Entry), NEW n \in Nat, NEW st,
         Ordered(p, hs, lg, n), Reading(p, c, td, n), Calls(p, hs, c, td, cl, lg, n, st),
         cl # <<>>
  PROVE  /\ <<n, Head(td), c, Head(cl)>> \in Entry
         /\ Ordered(p, hs, Append(lg, <<n, Head(td), c, Head(cl)>>), n)
<1> DEFINE k == CallKey(c, td)
           x == <<n, Head(td), c, Head(cl)>>
<1>1. /\ n >= 1 /\ Head(td) \in Item /\ Routing!Flat[p][n] = Head(td)
  BY CurrentEvent
<1>2. Head(cl) \in Handler /\ Head(cl) = cl[1] /\ Len(cl) \in Nat /\ Len(cl) >= 1
  BY HeadTailProperties
<1>3. x \in Entry
  BY <1>1, <1>2 DEF Entry, Routing!Did
<1>4. k \in Key
  BY DEF Calls
<1>5. Routing!KeyOf(x) = k
  BY DEF Routing!KeyOf, CallKey
<1>6. PICK j \in Nat : Progress(p, hs, c, td, cl, lg, n, st, j)
  BY <1>4 DEF Calls
<1> HIDE DEF k
<1>7. Copied(hs, k, cl, st, j)
  BY <1>6 DEF Progress, k
<1>8. At(hs, k, Head(cl), j + 1)
  <2>1. Len(hs[k]) \in Nat
    BY <1>4, LenProperties
  <2>2. j + Len(cl) <= Len(hs[k]) /\ cl[1] = hs[k][j + 1]
    BY <1>2, <1>7 DEF Copied
  <2> QED
    BY <1>2, <1>4, <2>1, <2>2 DEF At
<1>9. LastOf(p, lg)[1] \in 0..n
  BY LastIsOld
<1>10. Follows(hs, LastOf(p, lg), x)
  <2>1. x[1] = n /\ x[2] = Head(td) /\ x[3] = c /\ x[4] = Head(cl) /\ c # "own"
    OBVIOUS
  <2>2. LastOf(p, lg)[1] <= n
    BY <1>9
  <2> HIDE DEF x
  <2>3. CASE j = 0
    <3>1. First(LastOf(p, lg), n, c)
      BY <1>6, <2>3 DEF Progress
    <3>2. At(hs, k, Head(cl), 1)
      BY <1>8, <2>3
    <3> QED
      BY <1>5, <2>1, <2>2, <3>1, <3>2, FollowsFirst, Zenon
  <2>4. CASE j # 0
    <3>1. LastOf(p, lg) = <<n, Head(td), c, hs[k][j]>>
      BY <1>6, <2>4 DEF Progress, k
    <3>2. /\ LastOf(p, lg)[1] = n /\ LastOf(p, lg)[2] = Head(td) /\ LastOf(p, lg)[3] = c
          /\ LastOf(p, lg)[4] = hs[k][j]
      BY <3>1
    <3>3. At(hs, k, LastOf(p, lg)[4], j)
      <4>1. j \in 1..Len(hs[k])
        BY <1>8, <2>4 DEF At
      <4> QED
        BY <1>4, <3>2, <4>1 DEF At
    <3>4. /\ LastOf(p, lg)[1] = x[1] /\ LastOf(p, lg)[2] = x[2] /\ LastOf(p, lg)[3] = x[3]
          /\ x[3] # "own"
      BY <2>1, <3>2
    <3> QED
      BY <1>5, <1>8, <2>1, <2>2, <3>3, <3>4, FollowsNext, Zenon
  <2> QED
    BY <2>3, <2>4
<1>11. x[1] \in 1..n /\ Routing!Flat[p][x[1]] = x[2]
  BY <1>1
<1> HIDE DEF x
<1>12. Ordered(p, hs, Append(lg, x), n)
  BY <1>3, <1>10, <1>11, OrderedGrows
<1> QED
  BY <1>3, <1>12 DEF x

(* What a call leaves as it was. *)
LEMMA LogKeeps ==
  ASSUME NEW p \in Payloads, NEW c, NEW td, NEW d, NEW l, NEW lg \in Seq(Entry), NEW n \in Nat,
         NEW st, NEW sh, NEW fr, NEW x \in Entry,
         Complete(p, c, lg, n, st, sh), Unheard(c, td, lg, fr),
         d \in {"next", "done"} => FALSE,
         d = "typed" => c = "typed" /\ l = td,
         x[3] = "typed" /\ Type[x[2]] \in Routing!TestedTypes => About[x[2]] \in fr
  PROVE  Complete(p, d, Append(lg, x), n, st, sh) /\ Unheard(d, l, Append(lg, x), fr)
<1>1. Complete(p, d, Append(lg, x), n, st, sh)
  BY HeardGrows DEF Complete
<1>2. ASSUME NEW i \in 1..Len(Append(lg, x)),
             Append(lg, x)[i][3] = "typed", Type[Append(lg, x)[i][2]] \in Routing!TestedTypes
      PROVE  About[Append(lg, x)[i][2]] \in fr
  <2>1. Len(Append(lg, x)) = Len(lg) + 1 /\ Len(lg) \in Nat
    BY LogGrows
  <2>2. CASE i = Len(lg) + 1
    BY <1>2, <2>2, LogGrows
  <2>3. CASE i # Len(lg) + 1
    <3>1. i \in 1..Len(lg)
      BY <2>1, <2>3
    <3>2. Append(lg, x)[i] = lg[i]
      BY <3>1, LogGrows
    <3> QED
      BY <1>2, <3>1, <3>2 DEF Unheard
  <2> QED
    BY <2>2, <2>3
<1>3. d = "typed" /\ Type[Head(l)] \in Routing!TestedTypes => About[Head(l)] \in fr
  BY DEF Unheard
<1> QED
  BY <1>1, <1>2, <1>3 DEF Unheard

(* A thread calls a handler, which returns or throws. *)
LEMMA CallKeeps ==
  ASSUME NEW p \in Payloads, NEW hs \in [Key -> Seq(Handler)], NEW ig \in SUBSET User,
         NEW c, NEW td, NEW cl, NEW lg, NEW n, NEW st, NEW fr, NEW sh,
         ThreadType(c, td, cl, lg, n, st, fr, sh),
         ThreadInv(p, hs, ig, c, td, cl, lg, n, st, fr, sh),
         c \in {"raw", "typed"}, cl # <<>>
  PROVE  /\ <<n, Head(td), c, Head(cl)>> \in Entry
         /\ ThreadInv(p, hs, ig, c, td, Tail(cl), Append(lg, <<n, Head(td), c, Head(cl)>>),
                      n, st, fr, sh)
         /\ ThreadInv(p, hs, ig, "threw", <<>>, <<>>, Append(lg, <<n, Head(td), c, Head(cl)>>),
                      n, st, fr, sh)
<1> DEFINE k == CallKey(c, td)
           x == <<n, Head(td), c, Head(cl)>>
           grown == Append(lg, x)
<1>0. td \in Seq(Item) /\ cl \in Seq(Handler) /\ lg \in Seq(Entry) /\ n \in Nat
  BY DEF ThreadType
<1>1. x \in Entry /\ Ordered(p, hs, grown, n)
  BY <1>0, CallFollows DEF ThreadInv
<1>2. x[2] = Head(td) /\ x[3] = c
  OBVIOUS
<1>3. x[3] = "typed" /\ Type[x[2]] \in Routing!TestedTypes => About[x[2]] \in fr
  BY <1>2 DEF ThreadInv, Unheard
<1>4. Complete(p, c, lg, n, st, sh) /\ Unheard(c, td, lg, fr)
  BY DEF ThreadInv
<1> HIDE DEF x
<1>5. Complete(p, c, grown, n, st, sh) /\ Unheard(c, td, grown, fr)
  <2>1. c \in {"next", "done"} => FALSE
    OBVIOUS
  <2> QED
    BY <1>0, <1>1, <1>3, <1>4, <2>1, LogKeeps
<1>6. Complete(p, "threw", grown, n, st, sh) /\ Unheard("threw", <<>>, grown, fr)
  <2> DEFINE d == "threw"
  <2>1. (d \in {"next", "done"} => FALSE) /\ d # "typed"
    OBVIOUS
  <2> HIDE DEF d
  <2>2. \A l : Complete(p, d, grown, n, st, sh) /\ Unheard(d, l, grown, fr)
    BY <1>0, <1>1, <1>3, <1>4, <2>1, LogKeeps
  <2> QED
    BY <2>2 DEF d
<1>7. Reading(p, c, td, n) /\ Reading(p, "threw", <<>>, n)
  BY DEF ThreadInv, Reading
<1>8. Began(hs, c, grown, n, st) /\ Began(hs, "threw", grown, n, st)
  BY DEF ThreadInv, Began
<1>9. Watched(c, ig, fr, sh) /\ Watched("threw", ig, fr, sh)
  BY DEF ThreadInv, Watched
<1>10. Calls(p, hs, "threw", <<>>, <<>>, grown, n, st)
  BY DEF Calls
<1>11. Calls(p, hs, c, td, Tail(cl), grown, n, st)
  <2>1. k \in Key
    BY DEF ThreadInv, Calls
  <2>2. PICK j \in Nat : Progress(p, hs, c, td, cl, lg, n, st, j)
    BY <2>1 DEF ThreadInv, Calls
  <2> HIDE DEF k
  <2>3. Copied(hs, k, cl, st, j)
    BY <2>2 DEF Progress, k
  <2>4. /\ Len(cl) \in Nat /\ Len(Tail(cl)) \in Nat /\ Len(cl) = Len(Tail(cl)) + 1
        /\ Head(cl) = cl[1] /\ \A i \in 1..Len(Tail(cl)) : Tail(cl)[i] = cl[i + 1]
    BY <1>0, HeadTailProperties, LenProperties
  <2>5. Len(hs[k]) \in Nat /\ Len(st[k]) \in Nat
    BY <2>1, LenProperties DEF ThreadType
  <2>6. Copied(hs, k, Tail(cl), st, j + 1)
    <3>1. (j + 1) + Len(Tail(cl)) <= Len(hs[k]) /\ Len(st[k]) <= (j + 1) + Len(Tail(cl))
      BY <2>3, <2>4, <2>5 DEF Copied
    <3>2. ASSUME NEW i \in 1..Len(Tail(cl)) PROVE Tail(cl)[i] = hs[k][(j + 1) + i]
      <4>1. i + 1 \in 1..Len(cl) /\ j + (i + 1) = (j + 1) + i
        BY <2>4
      <4> QED
        BY <2>3, <2>4, <4>1 DEF Copied
    <3> QED
      BY <3>1, <3>2 DEF Copied
  <2>7. hs[k][j + 1] = Head(cl)
    <3>1. 1 \in 1..Len(cl)
      BY <2>4
    <3> QED
      BY <2>3, <2>4, <3>1 DEF Copied
  <2>8. ASSUME NEW i \in 1..(j + 1) PROVE Holds(grown, <<n, Head(td), c, hs[k][i]>>)
    <3>1. CASE i = j + 1
      <4>1. <<n, Head(td), c, hs[k][i]>> = x
        BY <2>7, <3>1 DEF x
      <4> QED
        BY <1>0, <1>1, <4>1, LogGrows
    <3>2. CASE i # j + 1
      <4>1. i \in 1..j
        BY <3>2
      <4>2. Holds(lg, <<n, Head(td), c, hs[k][i]>>)
        BY <2>2, <4>1 DEF Progress, k
      <4>3. \A y : Holds(lg, y) => Holds(grown, y)
        BY <1>0, <1>1, LogGrows
      <4> QED
        BY <4>2, <4>3, Zenon
    <3> QED
      BY <3>1, <3>2
  <2>9. LastOf(p, grown) = <<n, Head(td), c, hs[k][j + 1]>>
    <3>1. LastOf(p, grown) = x
      BY <1>0, <1>1, LogGrows
    <3> QED
      BY <2>7, <3>1 DEF x
  <2>10. Progress(p, hs, c, td, Tail(cl), grown, n, st, j + 1)
    <3>1. j + 1 # 0
      OBVIOUS
    <3> HIDE DEF grown
    <3> QED
      BY <2>6, <2>8, <2>9, <3>1 DEF Progress, k
  <2>11. c \in {"route", "typed"} => RawHeard(Head(td), grown, n, st)
    <3>1. c \in {"route", "typed"} => RawHeard(Head(td), lg, n, st)
      BY DEF ThreadInv, Calls
    <3> QED
      BY <1>0, <1>1, <3>1, RawHeardGrows
  <2>12. c = "typed" => Type[Head(td)] \in Key /\ Type[Head(td)] \in Routing!DispatchedTypes
    BY DEF ThreadInv, Calls
  <2>13. c # "route" /\ j + 1 \in Nat
    OBVIOUS
  <2> HIDE DEF grown
  <2> QED
    BY <2>1, <2>10, <2>11, <2>12, <2>13, Zenon DEF Calls, k
<1>12. ThreadInv(p, hs, ig, c, td, Tail(cl), grown, n, st, fr, sh)
  BY <1>1, <1>5, <1>7, <1>8, <1>9, <1>11, Zenon DEF ThreadInv
<1>13. Ordered(p, hs, grown, n)
  BY <1>1
<1>14. ThreadInv(p, hs, ig, "threw", <<>>, <<>>, grown, n, st, fr, sh)
  BY <1>6, <1>7, <1>8, <1>9, <1>10, <1>13, Zenon DEF ThreadInv
<1> QED
  BY <1>1, <1>12, <1>14 DEF x, grown

(* The raw handlers have been called: the event's type decides. *)
LEMMA RouteKeeps ==
  ASSUME NEW p \in Payloads, NEW hs \in [Key -> Seq(Handler)], NEW ig \in SUBSET User,
         NEW c, NEW td, NEW cl, NEW lg, NEW n, NEW st, NEW fr, NEW sh,
         ThreadType(c, td, cl, lg, n, st, fr, sh),
         ThreadInv(p, hs, ig, c, td, cl, lg, n, st, fr, sh),
         c = "raw", cl = <<>>
  PROVE  ThreadInv(p, hs, ig, "route", td, cl, lg, n, st, fr, sh)
<1>0. td \in Seq(Item) /\ lg \in Seq(Entry) /\ n \in Nat
  BY DEF ThreadType
<1>1. LastOf(p, lg)[1] \in 0..n
  BY <1>0, LastIsOld DEF ThreadInv
<1>2. CallKey(c, td) = "raw"
  BY DEF CallKey
<1>3. First(LastOf(p, lg), n, "route") /\ RawHeard(Head(td), lg, n, st)
  <2>1. CASE "raw" \in Key
    <3>1. PICK j \in Nat : Progress(p, hs, c, td, cl, lg, n, st, j)
      BY <1>2, <2>1 DEF ThreadInv, Calls
    <3>2. Copied(hs, "raw", cl, st, j) /\ \A i \in 1..j : Holds(lg, <<n, Head(td), "raw", hs["raw"][i]>>)
      BY <1>2, <3>1 DEF Progress
    <3>3. Len(st["raw"]) \in Nat /\ Len(hs["raw"]) \in Nat /\ Len(cl) = 0
      BY <2>1, LenProperties DEF ThreadType
    <3>4. Len(st["raw"]) <= j
      BY <3>2, <3>3 DEF Copied
    <3>5. ASSUME NEW i \in 1..Len(st["raw"]) PROVE Holds(lg, <<n, Head(td), "raw", st["raw"][i]>>)
      <4>1. i \in 1..j
        BY <3>3, <3>4
      <4>2. st["raw"][i] = hs["raw"][i]
        BY <2>1 DEF ThreadInv, Began
      <4> QED
        BY <3>2, <4>1, <4>2
    <3>6. CASE j = 0
      <4>1. First(LastOf(p, lg), n, "raw")
        BY <3>1, <3>6 DEF Progress
      <4>2. LastOf(p, lg)[1] < n
        BY <4>1 DEF First
      <4> QED
        BY <3>5, <4>2 DEF First, RawHeard
    <3>7. CASE j # 0
      <4>1. LastOf(p, lg) = <<n, Head(td), c, hs["raw"][j]>>
        BY <1>2, <3>1, <3>7 DEF Progress
      <4>2. LastOf(p, lg)[3] = "raw"
        BY <4>1
      <4> QED
        BY <3>5, <4>2 DEF First, RawHeard
    <3> QED
      BY <3>6, <3>7
  <2>2. CASE "raw" \notin Key
    <3>1. First(LastOf(p, lg), n, "raw")
      BY <1>2, <2>2 DEF ThreadInv, Calls
    <3>2. LastOf(p, lg)[1] < n
      BY <3>1 DEF First
    <3> QED
      BY <2>2, <3>2 DEF First, RawHeard
  <2> QED
    BY <2>1, <2>2
<1>4. Ordered(p, hs, lg, n) /\ Reading(p, "route", td, n)
  BY DEF ThreadInv, Reading
<1>5. Calls(p, hs, "route", td, cl, lg, n, st)
  BY <1>3 DEF Calls
<1>6. Complete(p, "route", lg, n, st, sh)
  BY DEF ThreadInv, Complete
<1>7. Unheard("route", td, lg, fr) /\ Watched("route", ig, fr, sh) /\ Began(hs, "route", lg, n, st)
  BY DEF ThreadInv, Unheard, Watched, Began
<1> QED
  BY <1>4, <1>5, <1>6, <1>7, Zenon DEF ThreadInv

(* handle_event returns for an event that has set off all it had to. *)
LEMMA LeaveKeeps ==
  ASSUME NEW p \in Payloads, NEW hs, NEW ig,
         NEW c \in {"raw", "route", "typed"}, NEW td \in Seq(Item), NEW cl, NEW lg, NEW n \in Nat,
         NEW st, NEW fr, NEW sh, NEW rest,
         Ordered(p, hs, lg, n), Reading(p, c, td, n), Complete(p, c, lg, n, st, sh),
         Unheard(c, td, lg, fr), Watched(c, ig, fr, sh), Began(hs, c, lg, n, st),
         HeardBy(lg, st, sh, Head(td), n), rest = Inside[Head(td)] \o Tail(td)
  PROVE  ThreadInv(p, hs, ig, "next", rest, cl, lg, n, st, fr, sh)
<1>1. /\ n <= Len(Routing!Flat[p]) /\ Routing!Flat[p][n] = Head(td)
      /\ Suffix(Routing!Flat[p], n, Listing(rest))
  BY CurrentEvent
<1>2. Reading(p, "next", rest, n)
  BY <1>1 DEF Reading
<1>3. Calls(p, hs, "next", rest, cl, lg, n, st)
  BY DEF Calls
<1>4. Complete(p, "next", lg, n, st, sh)
  BY <1>1 DEF Complete
<1>5. Unheard("next", rest, lg, fr) /\ Watched("next", ig, fr, sh) /\ Began(hs, "next", lg, n, st)
  BY DEF Unheard, Watched, Began
<1> QED
  BY <1>2, <1>3, <1>4, <1>5, Zenon DEF ThreadInv

(* The types. *)
LEMMA TypesApart ==
  /\ \A type \in Routing!OwnTypes : type # "none" /\ type # "Bulk" /\ type \notin Key \ {"raw"}
  /\ \A type \in Routing!DispatchedTypes :
       type # "none" /\ type # "Bulk" /\ type # "raw" /\ type \notin Routing!OwnTypes
  /\ "Bulk" \notin Key /\ "Bulk" \notin Routing!OwnTypes
  /\ Key \subseteq Routing!DispatchedTypes \cup {"raw"}
<1>1. Key \subseteq Routing!DispatchedTypes \cup {"raw"}
  BY Items DEF Routing!EventAssumption
<1>2. \A type \in Routing!DispatchedTypes :
       type # "none" /\ type # "Bulk" /\ type # "raw" /\ type \notin Routing!OwnTypes
  BY DEF Routing!DispatchedTypes, Routing!OwnTypes, Routing!MessageTypes, Routing!ChannelTypes,
         Routing!ServerTypes, Routing!MemberTypes, Routing!TypingTypes, Routing!RoleTypes,
         Routing!UncheckedTypes
<1>3. "Bulk" \notin Routing!OwnTypes /\ "Bulk" # "raw" /\ "none" \notin Routing!OwnTypes
  BY DEF Routing!OwnTypes
<1> HIDE DEF Routing!DispatchedTypes, Routing!OwnTypes
<1> QED
  BY <1>1, <1>2, <1>3, Zenon

(* The copy of the type's handlers is called to its end. *)
LEMMA TypedHeard ==
  ASSUME NEW p \in Payloads, NEW hs \in [Key -> Seq(Handler)], NEW ig \in SUBSET User,
         NEW c, NEW td, NEW cl, NEW lg, NEW n, NEW st, NEW fr, NEW sh,
         ThreadType(c, td, cl, lg, n, st, fr, sh),
         ThreadInv(p, hs, ig, c, td, cl, lg, n, st, fr, sh),
         c = "typed", cl = <<>>
  PROVE  HeardBy(lg, st, sh, Head(td), n)
<1> DEFINE k == Type[Head(td)]
<1>1. k \in Key /\ k \in Routing!DispatchedTypes
  BY DEF ThreadInv, Calls
<1>2. k \notin Routing!OwnTypes /\ CallKey(c, td) = k
  BY <1>1, TypesApart DEF CallKey
<1>3. RawHeard(Head(td), lg, n, st)
  BY DEF ThreadInv, Calls
<1>4. PICK j \in Nat : Progress(p, hs, c, td, cl, lg, n, st, j)
  BY <1>1, <1>2 DEF ThreadInv, Calls
<1> HIDE DEF k
<1>5. Copied(hs, k, cl, st, j) /\ \A i \in 1..j : Holds(lg, <<n, Head(td), "typed", hs[k][i]>>)
  BY <1>2, <1>4 DEF Progress
<1>6. Len(st[k]) \in Nat /\ Len(hs[k]) \in Nat /\ Len(cl) = 0
  BY <1>1, LenProperties DEF ThreadType
<1>7. Len(st[k]) <= j
  BY <1>5, <1>6 DEF Copied
<1>8. ASSUME NEW i \in 1..Len(st[k]) PROVE Holds(lg, <<n, Head(td), "typed", st[k][i]>>)
  <2>1. i \in 1..j
    BY <1>6, <1>7
  <2>2. st[k][i] = hs[k][i]
    BY <1>1 DEF ThreadInv, Began
  <2> QED
    BY <1>5, <2>1, <2>2
<1> QED
  BY <1>2, <1>3, <1>8, Zenon DEF HeardBy, k

(* An event that is handled by no list of its type. *)
LEMMA PassedHeard ==
  ASSUME NEW lg, NEW st, NEW sh, NEW e, NEW n, RawHeard(e, lg, n, st),
         Type[e] \notin Routing!OwnTypes,
         Type[e] \notin Key \ {"raw"} \/ (Type[e] \in Routing!TestedTypes /\ About[e] \in sh)
  PROVE  HeardBy(lg, st, sh, e, n)
BY Zenon DEF HeardBy

(* handle_event returns for an event without handlers of its type, or of   *)
(* an ignored user, ...                                                    *)
LEMMA RouteLeaves ==
  ASSUME NEW p \in Payloads, NEW hs \in [Key -> Seq(Handler)], NEW ig \in SUBSET User,
         NEW c, NEW td, NEW cl, NEW lg, NEW n, NEW st, NEW fr, NEW sh,
         ThreadType(c, td, cl, lg, n, st, fr, sh),
         ThreadInv(p, hs, ig, c, td, cl, lg, n, st, fr, sh),
         c = "route", Type[Head(td)] \notin Routing!OwnTypes,
         \/ Type[Head(td)] \notin Key \ {"raw"}
         \/ Type[Head(td)] \in Routing!TestedTypes /\ About[Head(td)] \in sh
  PROVE  /\ ThreadInv(p, hs, ig, "next", Inside[Head(td)] \o Tail(td), cl, lg, n, st, fr, sh)
         /\ Type[Head(td)] # "Bulk" =>
              ThreadInv(p, hs, ig, "next", Tail(td), cl, lg, n, st, fr, sh)
<1>0. td \in Seq(Item) /\ n \in Nat
  BY DEF ThreadType
<1>1. td # <<>>
  BY DEF ThreadInv, Reading
<1>2. Head(td) \in Item /\ Tail(td) \in Seq(Item)
  BY <1>0, <1>1, HeadTailProperties
<1>3. RawHeard(Head(td), lg, n, st)
  BY DEF ThreadInv, Calls
<1>4. HeardBy(lg, st, sh, Head(td), n)
  BY <1>3, PassedHeard, Zenon
<1>5. /\ Ordered(p, hs, lg, n) /\ Reading(p, c, td, n) /\ Complete(p, c, lg, n, st, sh)
      /\ Unheard(c, td, lg, fr) /\ Watched(c, ig, fr, sh) /\ Began(hs, c, lg, n, st)
  BY DEF ThreadInv
<1>6. c \in {"raw", "route", "typed"}
  OBVIOUS
<1>7. ThreadInv(p, hs, ig, "next", Inside[Head(td)] \o Tail(td), cl, lg, n, st, fr, sh)
  BY <1>0, <1>4, <1>5, <1>6, LeaveKeeps
<1>8. Type[Head(td)] # "Bulk" => Inside[Head(td)] \o Tail(td) = Tail(td)
  BY <1>2, NothingInside
<1> QED
  BY <1>7, <1>8, Zenon

(* ... or when the handlers of the type have been called. *)
LEMMA TypedLeaves ==
  ASSUME NEW p \in Payloads, NEW hs \in [Key -> Seq(Handler)], NEW ig \in SUBSET User,
         NEW c, NEW td, NEW cl, NEW lg, NEW n, NEW st, NEW fr, NEW sh,
         ThreadType(c, td, cl, lg, n, st, fr, sh),
         ThreadInv(p, hs, ig, c, td, cl, lg, n, st, fr, sh),
         c = "typed", HeardBy(lg, st, sh, Head(td), n)
  PROVE  ThreadInv(p, hs, ig, "next", Tail(td), cl, lg, n, st, fr, sh)
<1>0. td \in Seq(Item) /\ n \in Nat
  BY DEF ThreadType
<1>1. td # <<>> /\ Type[Head(td)] \in Routing!DispatchedTypes
  BY DEF ThreadInv, Reading, Calls
<1>2. Head(td) \in Item /\ Tail(td) \in Seq(Item)
  BY <1>0, <1>1, HeadTailProperties
<1>3. /\ Ordered(p, hs, lg, n) /\ Reading(p, c, td, n) /\ Complete(p, c, lg, n, st, sh)
      /\ Unheard(c, td, lg, fr) /\ Watched(c, ig, fr, sh) /\ Began(hs, c, lg, n, st)
  BY DEF ThreadInv
<1>4. c \in {"raw", "route", "typed"}
  OBVIOUS
<1>5. ThreadInv(p, hs, ig, "next", Inside[Head(td)] \o Tail(td), cl, lg, n, st, fr, sh)
  BY <1>0, <1>3, <1>4, LeaveKeeps
<1>6. Type[Head(td)] # "Bulk"
  BY <1>1, TypesApart
<1>7. Inside[Head(td)] \o Tail(td) = Tail(td)
  BY <1>2, <1>6, NothingInside
<1> QED
  BY <1>5, <1>7

(* A thread meets a malformed event. *)
LEMMA RejectKeeps ==
  ASSUME NEW p \in Payloads, NEW hs \in [Key -> Seq(Handler)], NEW ig \in SUBSET User,
         NEW c, NEW td, NEW cl, NEW lg, NEW n, NEW st, NEW fr, NEW sh,
         ThreadInv(p, hs, ig, c, td, cl, lg, n, st, fr, sh),
         c = "route"
  PROVE  ThreadInv(p, hs, ig, "threw", <<>>, cl, lg, n, st, fr, sh)
<1>1. Ordered(p, hs, lg, n) /\ Reading(p, "threw", <<>>, n)
  BY DEF ThreadInv, Reading
<1>2. Calls(p, hs, "threw", <<>>, cl, lg, n, st)
  BY DEF Calls
<1>3. Complete(p, "threw", lg, n, st, sh)
  BY DEF ThreadInv, Complete
<1>4. Unheard("threw", <<>>, lg, fr) /\ Watched("threw", ig, fr, sh) /\ Began(hs, "threw", lg, n, st)
  BY DEF ThreadInv, Unheard, Watched, Began
<1> QED
  BY <1>1, <1>2, <1>3, <1>4, Zenon DEF ThreadInv

(* A thread copies the handlers of the event's type. *)
LEMMA DispatchKeeps ==
  ASSUME NEW p \in Payloads, NEW hs \in [Key -> Seq(Handler)], NEW ig \in SUBSET User,
         NEW c, NEW td, NEW cl, NEW lg, NEW n, NEW st, NEW fr, NEW sh,
         ThreadType(c, td, cl, lg, n, st, fr, sh),
         ThreadInv(p, hs, ig, c, td, cl, lg, n, st, fr, sh),
         c = "route", Type[Head(td)] \in Routing!DispatchedTypes, Type[Head(td)] \in Key,
         ~(Type[Head(td)] \in Routing!TestedTypes /\ About[Head(td)] \in ig)
  PROVE  ThreadInv(p, hs, ig, "typed", td, hs[Type[Head(td)]], lg, n, st, fr, sh)
<1> DEFINE e == Head(td)
           k == Type[Head(td)]
<1>0. td \in Seq(Item) /\ lg \in Seq(Entry) /\ n \in Nat
  BY DEF ThreadType
<1>1. e \in Item
  BY <1>0, CurrentEvent DEF ThreadInv
<1>2. About[e] \in User
  BY <1>1, Items DEF Routing!EventAssumption
<1>3. k \in Routing!TestedTypes => About[e] \in fr
  BY <1>2 DEF ThreadInv, Watched
<1>4. Ordered(p, hs, lg, n) /\ Reading(p, "typed", td, n)
  BY DEF ThreadInv, Reading
<1>5. First(LastOf(p, lg), n, "typed")
  BY DEF ThreadInv, Calls, First
<1>6. CallKey("typed", td) = k
  BY DEF CallKey
<1>7. RawHeard(e, lg, n, st)
  BY DEF ThreadInv, Calls
<1>8. Copied(hs, k, hs[k], st, 0)
  <2>1. Len(hs[k]) \in Nat /\ Len(st[k]) <= Len(hs[k])
    BY LenProperties DEF ThreadInv, Began
  <2> QED
    BY <2>1 DEF Copied
<1>9. Progress(p, hs, "typed", td, hs[k], lg, n, st, 0)
  BY <1>5, <1>6, <1>8 DEF Progress
<1>10. Calls(p, hs, "typed", td, hs[k], lg, n, st)
  BY <1>6, <1>7, <1>9 DEF Calls
<1>11. Complete(p, "typed", lg, n, st, sh)
  BY DEF ThreadInv, Complete
<1>12. Unheard("typed", td, lg, fr) /\ Watched("typed", ig, fr, sh) /\ Began(hs, "typed", lg, n, st)
  BY <1>3 DEF ThreadInv, Unheard, Watched, Began
<1> QED
  BY <1>4, <1>10, <1>11, <1>12, Zenon DEF ThreadInv

(* handle_event acts itself and returns. *)
LEMMA OwnKeeps ==
  ASSUME NEW p \in Payloads, NEW hs \in [Key -> Seq(Handler)], NEW ig \in SUBSET User,
         NEW c, NEW td, NEW cl, NEW lg, NEW n, NEW st, NEW fr, NEW sh,
         ThreadType(c, td, cl, lg, n, st, fr, sh),
         ThreadInv(p, hs, ig, c, td, cl, lg, n, st, fr, sh),
         c = "route", Type[Head(td)] \in Routing!OwnTypes
  PROVE  /\ <<n, Head(td), "own", "own">> \in Entry
         /\ ThreadInv(p, hs, ig, "next", Tail(td), cl, Append(lg, <<n, Head(td), "own", "own">>),
                      n, st, fr, sh)
<1> DEFINE x == <<n, Head(td), "own", "own">>
           grown == Append(lg, x)
<1>0. td \in Seq(Item) /\ lg \in Seq(Entry) /\ n \in Nat
  BY DEF ThreadType
<1>1. /\ n >= 1 /\ Head(td) \in Item /\ Routing!Flat[p][n] = Head(td) /\ td # <<>>
  BY <1>0, CurrentEvent DEF ThreadInv
<1>2. x \in Entry
  BY <1>0, <1>1 DEF Entry, Routing!Did
<1>3. x[1] = n /\ x[2] = Head(td) /\ x[3] = "own"
  OBVIOUS
<1>4. First(LastOf(p, lg), n, "own")
  BY DEF ThreadInv, Calls, First
<1>5. LastOf(p, lg)[1] <= n
  <2>1. LastOf(p, lg)[1] \in 0..n
    BY <1>0, LastIsOld DEF ThreadInv
  <2> QED
    BY <2>1
<1> HIDE DEF x
<1>6. Follows(hs, LastOf(p, lg), x)
  BY <1>3, <1>4, <1>5, Zenon DEF Follows
<1>7. x[1] \in 1..n /\ Routing!Flat[p][x[1]] = x[2]
  BY <1>0, <1>1, <1>3
<1>8. Ordered(p, hs, grown, n)
  BY <1>0, <1>2, <1>6, <1>7, OrderedGrows DEF ThreadInv
<1>9. Complete(p, c, grown, n, st, sh) /\ Unheard(c, td, grown, fr)
  <2>1. x[3] = "typed" /\ Type[x[2]] \in Routing!TestedTypes => About[x[2]] \in fr
    BY <1>3
  <2>2. Complete(p, c, lg, n, st, sh) /\ Unheard(c, td, lg, fr)
    BY DEF ThreadInv
  <2>3. c \in {"next", "done"} => FALSE
    OBVIOUS
  <2> QED
    BY <1>0, <1>2, <2>1, <2>2, <2>3, LogKeeps
<1>10. RawHeard(Head(td), grown, n, st)
  <2>1. RawHeard(Head(td), lg, n, st)
    BY DEF ThreadInv, Calls
  <2> QED
    BY <1>0, <1>2, <2>1, RawHeardGrows
<1>11. Holds(grown, <<n, Head(td), "own", "own">>)
  BY <1>0, <1>2, LogGrows DEF x
<1>12. Type[Head(td)] # "none" /\ Type[Head(td)] # "Bulk" /\ Type[Head(td)] \notin Key \ {"raw"}
  BY TypesApart
<1>13. HeardBy(grown, st, sh, Head(td), n)
  BY <1>10, <1>11, <1>12, Zenon DEF HeardBy
<1>14. Tail(td) = Inside[Head(td)] \o Tail(td)
  <2>1. Tail(td) \in Seq(Item)
    BY <1>0, <1>1, HeadTailProperties
  <2> QED
    BY <1>1, <1>12, <2>1, NothingInside
<1>15. Reading(p, c, td, n) /\ Watched(c, ig, fr, sh)
  BY DEF ThreadInv
<1>16. Began(hs, c, grown, n, st)
  BY DEF ThreadInv, Began
<1>17. c \in {"raw", "route", "typed"}
  OBVIOUS
<1> HIDE DEF grown
<1>18. ThreadInv(p, hs, ig, "next", Tail(td), cl, grown, n, st, fr, sh)
  BY <1>0, <1>8, <1>9, <1>13, <1>14, <1>15, <1>16, <1>17, LeaveKeeps
<1> QED
  BY <1>2, <1>18 DEF x, grown

(* Lists of handlers that grow at their ends. *)
Wider(hs, more) ==
  \A k \in Key : Len(hs[k]) <= Len(more[k]) /\ \A i \in 1..Len(hs[k]) : more[k][i] = hs[k][i]

(* An entry may follow another also when more handlers are there. *)
LEMMA FollowsWider ==
  ASSUME NEW hs \in [Key -> Seq(Handler)], NEW more \in [Key -> Seq(Handler)], Wider(hs, more),
         NEW b, NEW x, Follows(hs, b, x)
  PROVE  Follows(more, b, x)
<1>1. ASSUME NEW k, NEW h, NEW i, At(hs, k, h, i) PROVE At(more, k, h, i)
  <2>1. k \in Key /\ Len(hs[k]) \in Nat /\ Len(more[k]) \in Nat /\ i \in 1..Len(hs[k])
    BY <1>1, LenProperties DEF At
  <2>2. i \in 1..Len(more[k]) /\ more[k][i] = hs[k][i]
    BY <2>1 DEF Wider
  <2> QED
    BY <1>1, <2>1, <2>2 DEF At
<1> QED
  BY <1>1, Zenon DEF Follows

(* A handler is registered while the thread runs. *)
LEMMA RegisterKeeps ==
  ASSUME NEW p \in Payloads, NEW hs \in [Key -> Seq(Handler)], NEW ig \in SUBSET User,
         NEW c, NEW td, NEW cl, NEW lg, NEW n, NEW st, NEW fr, NEW sh,
         NEW more \in [Key -> Seq(Handler)], Wider(hs, more),
         ThreadType(c, td, cl, lg, n, st, fr, sh),
         ThreadInv(p, hs, ig, c, td, cl, lg, n, st, fr, sh)
  PROVE  ThreadInv(p, more, ig, c, td, cl, lg, n, st, fr, sh)
<1>1. Ordered(p, more, lg, n)
  <2>1. ASSUME NEW i \in 1..Len(lg) PROVE Follows(more, Before(p, lg, i), lg[i])
    <3>1. Follows(hs, Before(p, lg, i), lg[i])
      BY DEF ThreadInv, Ordered
    <3> QED
      BY <3>1, FollowsWider, Zenon
  <2> QED
    BY <2>1 DEF ThreadInv, Ordered
<1>2. Calls(p, more, c, td, cl, lg, n, st)
  <2> DEFINE k == CallKey(c, td)
  <2>1. ASSUME NEW j \in Nat, k \in Key, Progress(p, hs, c, td, cl, lg, n, st, j)
        PROVE  Progress(p, more, c, td, cl, lg, n, st, j)
    <3> HIDE DEF k
    <3>1. Len(hs[k]) \in Nat /\ Len(more[k]) \in Nat /\ Len(hs[k]) <= Len(more[k])
          /\ \A i \in 1..Len(hs[k]) : more[k][i] = hs[k][i]
      BY <2>1, LenProperties DEF Wider
    <3>2. Copied(hs, k, cl, st, j)
      BY <2>1 DEF Progress, k
    <3>3. Len(cl) \in Nat
      BY LenProperties DEF ThreadType
    <3>4. j + Len(cl) <= Len(hs[k]) /\ Len(st[k]) <= j + Len(cl)
          /\ \A i \in 1..Len(cl) : cl[i] = hs[k][j + i]
      BY <3>2 DEF Copied
    <3>5. Copied(more, k, cl, st, j)
      <4>1. ASSUME NEW i \in 1..Len(cl) PROVE cl[i] = more[k][j + i]
        <5>1. j + i \in 1..Len(hs[k])
          BY <3>1, <3>3, <3>4
        <5> QED
          BY <3>1, <3>4, <5>1
      <4> QED
        BY <3>1, <3>3, <3>4, <4>1 DEF Copied
    <3>6. \A i \in 1..j : more[k][i] = hs[k][i]
      <4>1. \A i \in 1..j : i \in 1..Len(hs[k])
        BY <3>1, <3>3, <3>4
      <4> QED
        BY <3>1, <4>1
    <3>7. \A i \in 1..j : Holds(lg, <<n, Head(td), c, more[k][i]>>)
      BY <2>1, <3>6 DEF Progress, k
    <3>8. CASE j = 0
      BY <2>1, <3>5, <3>7, <3>8 DEF Progress, k
    <3>9. CASE j # 0
      <4>1. more[k][j] = hs[k][j]
        BY <3>6, <3>9
      <4> QED
        BY <2>1, <3>5, <3>7, <3>9, <4>1 DEF Progress, k
    <3> QED
      BY <3>8, <3>9
  <2>2. Calls(p, hs, c, td, cl, lg, n, st)
    BY DEF ThreadInv
  <2> QED
    BY <2>1, <2>2, Zenon DEF Calls
<1>3. Began(more, c, lg, n, st)
  <2>1. ASSUME NEW k \in Key
        PROVE  Len(st[k]) <= Len(more[k]) /\ \A i \in 1..Len(st[k]) : st[k][i] = more[k][i]
    <3>1. Len(hs[k]) \in Nat /\ Len(more[k]) \in Nat /\ Len(st[k]) \in Nat
      BY LenProperties DEF ThreadType
    <3>2. Len(st[k]) <= Len(hs[k]) /\ \A i \in 1..Len(st[k]) : st[k][i] = hs[k][i]
      BY DEF ThreadInv, Began
    <3>3. Len(hs[k]) <= Len(more[k]) /\ \A i \in 1..Len(hs[k]) : more[k][i] = hs[k][i]
      BY DEF Wider
    <3>4. \A i \in 1..Len(st[k]) : i \in 1..Len(hs[k])
      BY <3>1, <3>2
    <3> QED
      BY <3>1, <3>2, <3>3, <3>4
  <2> QED
    BY <2>1 DEF ThreadInv, Began
<1>4. Reading(p, c, td, n) /\ Complete(p, c, lg, n, st, sh) /\ Unheard(c, td, lg, fr) /\ Watched(c, ig, fr, sh)
  BY DEF ThreadInv
<1> QED
  BY <1>1, <1>2, <1>3, <1>4, Zenon DEF ThreadInv

(* Registering a handler adds to the end of its list ... *)
LEMMA PushWidens ==
  ASSUME NEW hs \in [Key -> Seq(Handler)], NEW k \in Key, NEW h \in Handler
  PROVE  /\ [hs EXCEPT ![k] = Append(@, h)] \in [Key -> Seq(Handler)]
         /\ Wider(hs, [hs EXCEPT ![k] = Append(@, h)])
<1> DEFINE more == [hs EXCEPT ![k] = Append(@, h)]
<1>1. hs[k] \in Seq(Handler) /\ Append(hs[k], h) \in Seq(Handler)
  BY AppendProperties
<1>2. more \in [Key -> Seq(Handler)]
  BY <1>1
<1>3. ASSUME NEW l \in Key
      PROVE  Len(hs[l]) <= Len(more[l]) /\ \A i \in 1..Len(hs[l]) : more[l][i] = hs[l][i]
  <2>1. CASE l = k
    <3>1. more[l] = Append(hs[k], h)
      BY <2>1
    <3>2. Len(Append(hs[k], h)) = Len(hs[k]) + 1 /\ Len(hs[k]) \in Nat
          /\ \A i \in 1..Len(hs[k]) : Append(hs[k], h)[i] = hs[k][i]
      BY <1>1, AppendProperties, LenProperties
    <3> HIDE DEF more
    <3> QED
      BY <2>1, <3>1, <3>2
  <2>2. CASE l # k
    <3>1. more[l] = hs[l] /\ Len(hs[l]) \in Nat
      BY <2>2, LenProperties
    <3> HIDE DEF more
    <3> QED
      BY <3>1
  <2> QED
    BY <2>1, <2>2
<1> HIDE DEF more
<1>4. Wider(hs, more)
  BY <1>3 DEF Wider
<1> QED
  BY <1>2, <1>4 DEF more

(* ... and the lists still have no handler twice. *)
LEMMA PushOnce ==
  ASSUME NEW hs \in [Key -> Seq(Handler)], NEW k \in Key, NEW h \in Handler, Once(hs),
         \A i \in 1..Len(hs[k]) : hs[k][i] # h
  PROVE  Once([hs EXCEPT ![k] = Append(@, h)])
<1> DEFINE more == [hs EXCEPT ![k] = Append(@, h)]
<1>1. SUFFICES ASSUME NEW l \in Key, NEW i \in 1..Len(more[l]), NEW j \in 1..Len(more[l]),
                      more[l][i] = more[l][j]
               PROVE  i = j
  BY DEF Once
<1>2. CASE l = k
  <2>1. more[l] = Append(hs[k], h)
    BY <1>2
  <2>2. Len(more[l]) = Len(hs[k]) + 1 /\ Len(hs[k]) \in Nat /\ more[l][Len(hs[k]) + 1] = h
        /\ \A m \in 1..Len(hs[k]) : more[l][m] = hs[k][m]
    BY <2>1, AppendProperties, LenProperties
  <2>3. \A a, b \in 1..Len(hs[k]) : hs[k][a] = hs[k][b] => a = b
    BY DEF Once
  <2> HIDE DEF more
  <2> QED
    BY <1>1, <2>2, <2>3
<1>3. CASE l # k
  <2>1. more[l] = hs[l]
    BY <1>3
  <2> HIDE DEF more
  <2> QED
    BY <1>1, <2>1 DEF Once
<1> QED
  BY <1>2, <1>3

(* A user becomes ignored or ceases to be. *)
LEMMA IgnoringKeeps ==
  ASSUME NEW p \in Payloads, NEW hs, NEW ig,
         NEW c, NEW td, NEW cl, NEW lg, NEW n, NEW st, NEW fr, NEW sh,
         NEW some, NEW freed, NEW hidden,
         ThreadInv(p, hs, ig, c, td, cl, lg, n, st, fr, sh),
         fr \subseteq freed, sh \subseteq hidden, Watched(c, some, freed, hidden)
  PROVE  ThreadInv(p, hs, some, c, td, cl, lg, n, st, freed, hidden)
<1>1. Complete(p, c, lg, n, st, hidden)
  <2>1. Complete(p, c, lg, n, st, sh)
    BY DEF ThreadInv
  <2> QED
    BY <2>1, HeardWidens, Zenon DEF Complete
<1>2. Unheard(c, td, lg, freed)
  BY DEF ThreadInv, Unheard
<1> QED
  BY <1>1, <1>2, Zenon DEF ThreadInv

-----------------------------------------------------------------------------
(* TypeOK, for one thread. *)
LEMMA TypedThread ==
  ASSUME Routing!TypeOK, NEW p \in Payloads
  PROVE  /\ ThreadType(pc[p], todo[p], calling[p], log[p], number[p], atStart[p], free[p], shut[p])
         /\ handlers \in [Key -> Seq(Handler)] /\ ignored \in SUBSET User
BY DEF Routing!TypeOK, ThreadType, Payloads, Entry

(* Initially no handler is there and no payload was begun. *)
LEMMA RoutingInit ==
  ASSUME Routing!Init
  PROVE  RoutingInv
<1>1. Routing!TypeOK
  <2>1. <<>> \in Seq(Handler) /\ <<>> \in Seq(Nat \X Item \X {"raw", "typed", "own"} \X Routing!Did)
    OBVIOUS
  <2>2. \A p \in Payloads : <<p>> \in Seq(Item)
    BY FlatLength
  <2> QED
    BY <2>1, <2>2 DEF Routing!Init, Routing!TypeOK, Routing!NoHandlers, Payloads
<1>2. Once(handlers)
  BY DEF Routing!Init, Routing!NoHandlers, Once
<1>3. ASSUME NEW p \in Payloads
      PROVE  ThreadInv(p, handlers, ignored, pc[p], todo[p], calling[p], log[p], number[p],
                       atStart[p], free[p], shut[p])
  <2>1. /\ pc[p] = "waiting" /\ todo[p] = <<p>> /\ log[p] = <<>> /\ number[p] = 0
        /\ atStart[p] = handlers /\ \A k \in Key : Len(handlers[k]) = 0
    BY DEF Routing!Init, Routing!NoHandlers, Payloads
  <2>2. Ordered(p, handlers, log[p], number[p])
    BY <2>1 DEF Ordered
  <2>3. Listing(<<p>>) = Routing!Flat[p]
    BY FlatLength, ListingOne
  <2>4. Len(Routing!Flat[p]) \in Nat
    BY FlatLength
  <2>5. Suffix(Routing!Flat[p], 0, Listing(<<p>>))
    <3> DEFINE F == Routing!Flat[p]
    <3>1. Len(F) \in Nat
      BY <2>4
    <3> HIDE DEF F
    <3>2. Suffix(F, 0, F)
      BY <3>1 DEF Suffix
    <3> QED
      BY <2>3, <3>2 DEF F
  <2>6. Reading(p, pc[p], todo[p], number[p])
    BY <2>1, <2>4, <2>5 DEF Reading
  <2>7. Calls(p, handlers, pc[p], todo[p], calling[p], log[p], number[p], atStart[p])
    BY <2>1 DEF Calls
  <2>8. Complete(p, pc[p], log[p], number[p], atStart[p], shut[p])
    BY <2>1, <2>4 DEF Complete
  <2>9. Unheard(pc[p], todo[p], log[p], free[p]) /\ Watched(pc[p], ignored, free[p], shut[p])
    BY <2>1 DEF Unheard, Watched
  <2>10. Began(handlers, pc[p], log[p], number[p], atStart[p])
    BY <2>1 DEF Began
  <2> QED
    BY <2>2, <2>6, <2>7, <2>8, <2>9, <2>10, Zenon DEF ThreadInv
<1> QED
  BY <1>1, <1>2, <1>3 DEF RoutingInv

(* g is f but for its value at p. *)
Sets(g, f, p, v) == g = [f EXCEPT ![p] = v]

(* A step of one thread. *)
LEMMA ThreadStep ==
  ASSUME RoutingInv, NEW p \in Payloads,
         NEW c, NEW td, NEW cl, NEW lg, NEW n, NEW st, NEW fr, NEW sh,
         ThreadType(c, td, cl, lg, n, st, fr, sh),
         ThreadInv(p, handlers, ignored, c, td, cl, lg, n, st, fr, sh),
         handlers' = handlers, ignored' = ignored,
         Sets(pc', pc, p, c), Sets(todo', todo, p, td),
         Sets(calling', calling, p, cl), Sets(log', log, p, lg),
         Sets(number', number, p, n), Sets(atStart', atStart, p, st),
         Sets(free', free, p, fr), Sets(shut', shut, p, sh)
  PROVE  RoutingInv'
<1>0. Routing!TypeOK /\ Once(handlers) /\ handlers \in [Key -> Seq(Handler)] /\ ignored \in SUBSET User
  BY DEF RoutingInv, Routing!TypeOK
<1>1. /\ pc \in [Payloads -> {"waiting", "next", "raw", "route", "typed", "done", "threw"}]
      /\ todo \in [Payloads -> Seq(Item)] /\ calling \in [Payloads -> Seq(Handler)]
      /\ log \in [Payloads -> Seq(Entry)] /\ number \in [Payloads -> Nat]
      /\ atStart \in [Payloads -> [Key -> Seq(Handler)]]
      /\ free \in [Payloads -> SUBSET User] /\ shut \in [Payloads -> SUBSET User]
  BY <1>0, Zenon DEF Routing!TypeOK, Payloads, Entry
<1>2. /\ pc' \in [Payloads -> {"waiting", "next", "raw", "route", "typed", "done", "threw"}]
      /\ todo' \in [Payloads -> Seq(Item)] /\ calling' \in [Payloads -> Seq(Handler)]
      /\ log' \in [Payloads -> Seq(Entry)] /\ number' \in [Payloads -> Nat]
      /\ atStart' \in [Payloads -> [Key -> Seq(Handler)]]
      /\ free' \in [Payloads -> SUBSET User] /\ shut' \in [Payloads -> SUBSET User]
  BY <1>1 DEF ThreadType, Sets
<1>3. Routing!TypeOK'
  BY <1>0, <1>2 DEF Routing!TypeOK, Payloads, Entry
<1>4. ASSUME NEW q \in Payloads
      PROVE  ThreadInv(q, handlers', ignored', pc'[q], todo'[q], calling'[q], log'[q], number'[q],
                       atStart'[q], free'[q], shut'[q])
  <2>1. CASE q = p
    <3>1. /\ pc'[q] = c /\ todo'[q] = td /\ calling'[q] = cl /\ log'[q] = lg /\ number'[q] = n
          /\ atStart'[q] = st /\ free'[q] = fr /\ shut'[q] = sh
      BY <1>1, <2>1 DEF Sets
    <3> QED
      BY <2>1, <3>1, Zenon
  <2>2. CASE q # p
    <3>1. /\ pc'[q] = pc[q] /\ todo'[q] = todo[q] /\ calling'[q] = calling[q] /\ log'[q] = log[q]
          /\ number'[q] = number[q] /\ atStart'[q] = atStart[q] /\ free'[q] = free[q]
          /\ shut'[q] = shut[q]
      BY <1>1, <2>2 DEF Sets
    <3>2. ThreadInv(q, handlers, ignored, pc[q], todo[q], calling[q], log[q], number[q],
                    atStart[q], free[q], shut[q])
      BY Zenon DEF RoutingInv
    <3> QED
      BY <3>1, <3>2, Zenon
  <2> QED
    BY <2>1, <2>2
<1>5. Once(handlers)'
  BY <1>0 DEF Once
<1> QED
  BY <1>3, <1>4, <1>5 DEF RoutingInv

(* What a step leaves as it is, in the form of Sets. *)
LEMMA ThreadFrame ==
  ASSUME Routing!TypeOK, NEW p \in Payloads
  PROVE  /\ pc = [pc EXCEPT ![p] = pc[p]] /\ todo = [todo EXCEPT ![p] = todo[p]]
         /\ calling = [calling EXCEPT ![p] = calling[p]] /\ log = [log EXCEPT ![p] = log[p]]
         /\ number = [number EXCEPT ![p] = number[p]]
         /\ atStart = [atStart EXCEPT ![p] = atStart[p]]
         /\ free = [free EXCEPT ![p] = free[p]] /\ shut = [shut EXCEPT ![p] = shut[p]]
BY DEF Routing!TypeOK, Payloads

(* Every step of a thread keeps the invariant. *)
LEMMA ThreadStepKeeps ==
  ASSUME RoutingInv, NEW p \in Payloads, Routing!Thread(p)
  PROVE  RoutingInv'
<1> DEFINE c == pc[p]
           td == todo[p]
           cl == calling[p]
           lg == log[p]
           n == number[p]
           st == atStart[p]
           fr == free[p]
           sh == shut[p]
           e == Head(todo[p])
<1>1. /\ Routing!TypeOK
      /\ ThreadInv(p, handlers, ignored, c, td, cl, lg, n, st, fr, sh)
  BY DEF RoutingInv
<1>2. /\ ThreadType(c, td, cl, lg, n, st, fr, sh)
      /\ handlers \in [Key -> Seq(Handler)] /\ ignored \in SUBSET User
  BY <1>1, TypedThread
<1>3. /\ td \in Seq(Item) /\ cl \in Seq(Handler) /\ lg \in Seq(Entry) /\ n \in Nat
      /\ st \in [Key -> Seq(Handler)] /\ fr \in SUBSET User /\ sh \in SUBSET User
  BY <1>2 DEF ThreadType
<1>4. /\ pc = [pc EXCEPT ![p] = c] /\ todo = [todo EXCEPT ![p] = td]
      /\ calling = [calling EXCEPT ![p] = cl] /\ log = [log EXCEPT ![p] = lg]
      /\ number = [number EXCEPT ![p] = n] /\ atStart = [atStart EXCEPT ![p] = st]
      /\ free = [free EXCEPT ![p] = fr] /\ shut = [shut EXCEPT ![p] = sh]
  BY <1>1, ThreadFrame
<1>5. <<>> \in Seq(Item) /\ <<>> \in Seq(Handler)
  OBVIOUS
<1>6. td # <<>> => e \in Item /\ Tail(td) \in Seq(Item) /\ Inside[e] \o Tail(td) \in Seq(Item)
  <2> SUFFICES ASSUME td # <<>>
               PROVE  e \in Item /\ Tail(td) \in Seq(Item) /\ Inside[e] \o Tail(td) \in Seq(Item)
    OBVIOUS
  <2>1. e \in Item /\ Tail(td) \in Seq(Item)
    BY <1>3, HeadTailProperties
  <2> QED
    BY <2>1, InsideType, ConcatProperties
<1>7. CASE Routing!Start(p)
  <2> DEFINE fresh == User \ ignored
  <2>1. /\ c = "waiting" /\ handlers' = handlers /\ ignored' = ignored
        /\ Sets(pc', pc, p, "next") /\ Sets(todo', todo, p, td) /\ Sets(calling', calling, p, cl) /\ Sets(log', log, p, lg)
        /\ Sets(number', number, p, n) /\ Sets(atStart', atStart, p, handlers)
        /\ Sets(free', free, p, fresh) /\ Sets(shut', shut, p, ignored)
    BY <1>4, <1>7 DEF Routing!Start, Sets
  <2>2. ThreadInv(p, handlers, ignored, "next", td, cl, lg, n, handlers, fresh, ignored)
    BY <1>1, <1>2, <2>1, StartKeeps
  <2>3. ThreadType("next", td, cl, lg, n, handlers, fresh, ignored)
    BY <1>2, <1>3 DEF ThreadType
  <2> HIDE DEF c, td, cl, lg, n, st, fr, sh, fresh
  <2> QED
    BY <1>4, <2>1, <2>2, <2>3, ThreadStep
<1>8. CASE Routing!Enter(p)
  <2>1. /\ c = "next" /\ td # <<>> /\ handlers' = handlers /\ ignored' = ignored
        /\ Sets(log', log, p, lg) /\ Sets(number', number, p, n + 1) /\ Sets(atStart', atStart, p, st)
        /\ Sets(free', free, p, fr) /\ Sets(shut', shut, p, sh)
    BY <1>4, <1>1, <1>8 DEF Routing!Enter, Routing!TypeOK, Sets
  <2>2. CASE Type[e] = "none"
    <3>1. Sets(pc', pc, p, c) /\ Sets(todo', todo, p, Tail(td)) /\ Sets(calling', calling, p, cl)
      BY <1>4, <1>1, <1>8, <2>2 DEF Routing!Enter, Routing!TypeOK, Sets
    <3>2. ThreadInv(p, handlers, ignored, c, Tail(td), cl, lg, n + 1, st, fr, sh)
      BY <1>1, <1>2, <2>1, <2>2, PassKeeps
    <3>3. ThreadType(c, Tail(td), cl, lg, n + 1, st, fr, sh)
      BY <1>2, <1>3, <1>6, <2>1 DEF ThreadType
    <3> HIDE DEF c, td, cl, lg, n, st, fr, sh
    <3> QED
      BY <1>4, <2>1, <3>1, <3>2, <3>3, ThreadStep
  <2>3. CASE Type[e] # "none"
    <3> DEFINE copy == Routing!Known("raw")
    <3>1. Sets(pc', pc, p, "raw") /\ Sets(todo', todo, p, td) /\ Sets(calling', calling, p, copy)
      BY <1>4, <1>8, <2>3 DEF Routing!Enter, Sets
    <3>2. ("raw" \in Key => copy = handlers["raw"]) /\ ("raw" \notin Key => copy = <<>>)
      BY DEF Routing!Known
    <3> HIDE DEF copy
    <3>3. copy \in Seq(Handler)
      <4>1. \A k \in Key : handlers[k] \in Seq(Handler)
        BY <1>2
      <4> QED
        BY <1>5, <3>2, <4>1, Zenon
    <3>4. ThreadInv(p, handlers, ignored, "raw", td, copy, lg, n + 1, st, fr, sh)
      BY <1>1, <1>2, <2>1, <3>2, EnterKeeps
    <3>5. ThreadType("raw", td, copy, lg, n + 1, st, fr, sh)
      BY <1>2, <1>3, <3>3 DEF ThreadType
    <3> HIDE DEF c, td, cl, lg, n, st, fr, sh
    <3> QED
      BY <1>4, <2>1, <3>1, <3>4, <3>5, ThreadStep
  <2> QED
    BY <2>2, <2>3
<1>9. CASE Routing!End(p)
  <2>1. /\ c = "next" /\ td = <<>> /\ handlers' = handlers /\ ignored' = ignored
        /\ Sets(pc', pc, p, "done") /\ Sets(todo', todo, p, td) /\ Sets(calling', calling, p, cl) /\ Sets(log', log, p, lg)
        /\ Sets(number', number, p, n) /\ Sets(atStart', atStart, p, st) /\ Sets(free', free, p, fr) /\ Sets(shut', shut, p, sh)
    BY <1>4, <1>9 DEF Routing!End, Sets
  <2>2. ThreadInv(p, handlers, ignored, "done", td, cl, lg, n, st, fr, sh)
    BY <1>1, <1>2, <2>1, EndKeeps
  <2>3. ThreadType("done", td, cl, lg, n, st, fr, sh)
    BY <1>2, <1>3 DEF ThreadType
  <2> HIDE DEF c, td, cl, lg, n, st, fr, sh
  <2> QED
    BY <1>4, <2>1, <2>2, <2>3, ThreadStep
<1>10. CASE Routing!Call(p)
  <2> DEFINE grown == Append(lg, <<n, e, c, Head(cl)>>)
  <2>1. /\ c \in {"raw", "typed"} /\ cl # <<>> /\ handlers' = handlers /\ ignored' = ignored
        /\ Sets(log', log, p, grown)
        /\ Sets(number', number, p, n) /\ Sets(atStart', atStart, p, st) /\ Sets(free', free, p, fr) /\ Sets(shut', shut, p, sh)
    BY <1>4, <1>10 DEF Routing!Call, Routing!Note, Sets
  <2>2. /\ <<n, e, c, Head(cl)>> \in Entry
        /\ ThreadInv(p, handlers, ignored, c, td, Tail(cl), grown, n, st, fr, sh)
        /\ ThreadInv(p, handlers, ignored, "threw", <<>>, <<>>, grown, n, st, fr, sh)
    BY <1>1, <1>2, <2>1, CallKeeps
  <2>3. grown \in Seq(Entry)
    BY <1>3, <2>2, AppendProperties
  <2>4. Tail(cl) \in Seq(Handler)
    BY <1>3, <2>1, HeadTailProperties
  <2>5. /\ ThreadType(c, td, Tail(cl), grown, n, st, fr, sh)
        /\ ThreadType("threw", <<>>, <<>>, grown, n, st, fr, sh)
    BY <1>2, <1>3, <1>5, <2>3, <2>4 DEF ThreadType
  <2>6. CASE calling' = [calling EXCEPT ![p] = Tail(@)] /\ UNCHANGED <<pc, todo>>
    <3>1. Sets(calling', calling, p, Tail(cl)) /\ Sets(pc', pc, p, c) /\ Sets(todo', todo, p, td)
      BY <1>4, <2>6 DEF Sets
    <3> HIDE DEF c, td, cl, lg, n, st, fr, sh, grown
    <3> QED
      BY <1>4, <2>1, <2>2, <2>5, <3>1, ThreadStep
  <2>7. CASE /\ pc' = [pc EXCEPT ![p] = "threw"] /\ todo' = [todo EXCEPT ![p] = <<>>]
             /\ calling' = [calling EXCEPT ![p] = <<>>]
    <3>1. Sets(pc', pc, p, "threw") /\ Sets(todo', todo, p, <<>>) /\ Sets(calling', calling, p, <<>>)
      BY <2>7 DEF Sets
    <3> HIDE DEF c, td, cl, lg, n, st, fr, sh, grown
    <3> QED
      BY <1>4, <2>1, <2>2, <2>5, <3>1, ThreadStep
  <2> QED
    BY <1>10, <2>6, <2>7 DEF Routing!Call
<1>11. CASE Routing!Called(p)
  <2>1. /\ c \in {"raw", "typed"} /\ cl = <<>> /\ handlers' = handlers /\ ignored' = ignored
        /\ Sets(calling', calling, p, cl) /\ Sets(log', log, p, lg)
        /\ Sets(number', number, p, n) /\ Sets(atStart', atStart, p, st) /\ Sets(free', free, p, fr) /\ Sets(shut', shut, p, sh)
    BY <1>4, <1>11 DEF Routing!Called, Sets
  <2>2. CASE c = "raw"
    <3>1. Sets(pc', pc, p, "route") /\ Sets(todo', todo, p, td)
      BY <1>4, <1>1, <1>11, <2>2 DEF Routing!Called, Routing!TypeOK, Payloads, Sets
    <3>2. ThreadInv(p, handlers, ignored, "route", td, cl, lg, n, st, fr, sh)
      BY <1>1, <1>2, <2>1, <2>2, RouteKeeps
    <3>3. ThreadType("route", td, cl, lg, n, st, fr, sh)
      BY <1>2, <1>3 DEF ThreadType
    <3> HIDE DEF c, td, cl, lg, n, st, fr, sh
    <3> QED
      BY <1>4, <2>1, <3>1, <3>2, <3>3, ThreadStep
  <2>3. CASE c = "typed"
    <3>1. Sets(pc', pc, p, "next") /\ Sets(todo', todo, p, Tail(td))
      BY <1>4, <1>1, <1>11, <2>3 DEF Routing!Called, Routing!TypeOK, Payloads, Sets
    <3>2. HeardBy(lg, st, sh, e, n)
      BY <1>1, <1>2, <2>1, <2>3, TypedHeard
    <3>3. ThreadInv(p, handlers, ignored, "next", Tail(td), cl, lg, n, st, fr, sh)
      BY <1>1, <1>2, <2>3, <3>2, TypedLeaves
    <3>4. ThreadType("next", Tail(td), cl, lg, n, st, fr, sh)
      BY <1>1, <1>2, <1>3, <1>6, <2>3 DEF ThreadType, ThreadInv, Reading
    <3> HIDE DEF c, td, cl, lg, n, st, fr, sh
    <3> QED
      BY <1>4, <2>1, <3>1, <3>3, <3>4, ThreadStep
  <2> QED
    BY <2>1, <2>2, <2>3
<1>12. ASSUME NEW rest, NEW grown, rest \in Seq(Item), grown \in Seq(Entry), Routing!Return(p, rest),
              Sets(log', log, p, grown),
              ThreadInv(p, handlers, ignored, "next", rest, cl, grown, n, st, fr, sh)
       PROVE  RoutingInv'
  <2>1. /\ handlers' = handlers /\ ignored' = ignored
        /\ Sets(pc', pc, p, "next") /\ Sets(todo', todo, p, rest)
        /\ Sets(calling', calling, p, cl) /\ Sets(number', number, p, n) /\ Sets(atStart', atStart, p, st) /\ Sets(free', free, p, fr) /\ Sets(shut', shut, p, sh)
    BY <1>4, <1>12 DEF Routing!Return, Sets
  <2>2. ThreadType("next", rest, cl, grown, n, st, fr, sh)
    BY <1>3, <1>12 DEF ThreadType
  <2> HIDE DEF c, td, cl, lg, n, st, fr, sh
  <2> QED
    BY <1>4, <1>12, <2>1, <2>2, ThreadStep
<1>13. CASE Routing!OpenBulk(p)
  <2>1. c = "route" /\ Type[e] = "Bulk" /\ Sets(log', log, p, lg) /\ Routing!Return(p, Inside[e] \o Tail(td))
    BY <1>4, <1>13 DEF Routing!OpenBulk, Routing!Routing, Sets
  <2>2. td # <<>>
    BY <1>1, <2>1 DEF ThreadInv, Reading
  <2>3. Type[e] \notin Key /\ Type[e] \notin Routing!OwnTypes
    BY <2>1, TypesApart
  <2>4. ThreadInv(p, handlers, ignored, "next", Inside[e] \o Tail(td), cl, lg, n, st, fr, sh)
    BY <1>1, <1>2, <2>1, <2>3, RouteLeaves
  <2> QED
    BY <1>3, <1>4, <1>6, <1>12, <2>1, <2>2, <2>4
<1>14. CASE Routing!ActItself(p)
  <2> DEFINE grown == Append(lg, <<n, e, "own", "own">>)
  <2>1. /\ c = "route" /\ Type[e] \in Routing!OwnTypes /\ Sets(log', log, p, grown)
        /\ Routing!Return(p, Tail(td))
    BY <1>4, <1>14 DEF Routing!ActItself, Routing!Routing, Routing!Note, Sets
  <2>2. td # <<>>
    BY <1>1, <2>1 DEF ThreadInv, Reading
  <2>3. /\ <<n, e, "own", "own">> \in Entry
        /\ ThreadInv(p, handlers, ignored, "next", Tail(td), cl, grown, n, st, fr, sh)
    BY <1>1, <1>2, <2>1, OwnKeeps
  <2>4. grown \in Seq(Entry)
    BY <1>3, <2>3, AppendProperties
  <2> HIDE DEF grown
  <2> QED
    BY <1>6, <1>12, <2>1, <2>2, <2>3, <2>4
<1>15. CASE Routing!DropUnknown(p)
  <2>1. /\ c = "route" /\ Type[e] \notin Routing!DispatchedTypes \cup Routing!OwnTypes \cup {"Bulk"}
        /\ Sets(log', log, p, lg) /\ Routing!Return(p, Tail(td))
    BY <1>4, <1>15 DEF Routing!DropUnknown, Sets
  <2>2. td # <<>>
    BY <1>1, <2>1 DEF ThreadInv, Reading
  <2>3. Type[e] \notin Key \ {"raw"} /\ Type[e] \notin Routing!OwnTypes /\ Type[e] # "Bulk"
    BY <2>1, TypesApart
  <2>4. ThreadInv(p, handlers, ignored, "next", Tail(td), cl, lg, n, st, fr, sh)
    BY <1>1, <1>2, <2>1, <2>3, RouteLeaves
  <2> QED
    BY <1>3, <1>4, <1>6, <1>12, <2>1, <2>2, <2>4
<1>16. CASE Routing!Reject(p)
  <2>1. /\ c = "route" /\ handlers' = handlers /\ ignored' = ignored
        /\ Sets(pc', pc, p, "threw") /\ Sets(todo', todo, p, <<>>)
        /\ Sets(calling', calling, p, cl) /\ Sets(log', log, p, lg)
        /\ Sets(number', number, p, n) /\ Sets(atStart', atStart, p, st) /\ Sets(free', free, p, fr) /\ Sets(shut', shut, p, sh)
    BY <1>4, <1>16 DEF Routing!Reject, Sets
  <2>2. ThreadInv(p, handlers, ignored, "threw", <<>>, cl, lg, n, st, fr, sh)
    BY <1>1, <1>2, <2>1, RejectKeeps
  <2>3. ThreadType("threw", <<>>, cl, lg, n, st, fr, sh)
    BY <1>2, <1>3, <1>5 DEF ThreadType
  <2> HIDE DEF c, td, cl, lg, n, st, fr, sh
  <2> QED
    BY <1>4, <2>1, <2>2, <2>3, ThreadStep
<1>17. CASE Routing!Ignore(p)
  <2>1. /\ c = "route" /\ Type[e] \in Routing!DispatchedTypes /\ Type[e] \in Routing!TestedTypes
        /\ About[e] \in ignored /\ Sets(log', log, p, lg) /\ Routing!Return(p, Tail(td))
    BY <1>4, <1>17 DEF Routing!Ignore, Routing!Ignored, Sets
  <2>2. td # <<>>
    BY <1>1, <2>1 DEF ThreadInv, Reading
  <2>3. Type[e] \notin Routing!OwnTypes /\ Type[e] # "Bulk"
    BY <2>1, TypesApart
  <2>4. About[e] \in sh
    BY <1>1, <2>1 DEF ThreadInv, Watched
  <2>5. ThreadInv(p, handlers, ignored, "next", Tail(td), cl, lg, n, st, fr, sh)
    BY <1>1, <1>2, <2>1, <2>3, <2>4, RouteLeaves
  <2> QED
    BY <1>3, <1>4, <1>6, <1>12, <2>1, <2>2, <2>5
<1>18. CASE Routing!Dispatch(p)
  <2> DEFINE type == Type[e]
  <2>1. /\ c = "route" /\ type \in Routing!DispatchedTypes
        /\ ~(type \in Routing!TestedTypes /\ About[e] \in ignored)
        /\ handlers' = handlers /\ ignored' = ignored /\ Sets(log', log, p, lg)
        /\ Sets(number', number, p, n) /\ Sets(atStart', atStart, p, st) /\ Sets(free', free, p, fr) /\ Sets(shut', shut, p, sh)
    BY <1>4, <1>18 DEF Routing!Dispatch, Routing!Ignored, Sets
  <2>2. CASE type \in Key
    <3>1. Sets(pc', pc, p, "typed") /\ Sets(calling', calling, p, handlers[type]) /\ Sets(todo', todo, p, td)
      BY <1>4, <1>18, <2>2 DEF Routing!Dispatch, Sets
    <3>2. ThreadInv(p, handlers, ignored, "typed", td, handlers[type], lg, n, st, fr, sh)
      BY <1>1, <1>2, <2>1, <2>2, DispatchKeeps
    <3>3. ThreadType("typed", td, handlers[type], lg, n, st, fr, sh)
      BY <1>2, <1>3, <2>2 DEF ThreadType
    <3> HIDE DEF c, td, cl, lg, n, st, fr, sh, type
    <3> QED
      BY <1>4, <2>1, <3>1, <3>2, <3>3, ThreadStep
  <2>3. CASE type \notin Key
    <3>1. Sets(pc', pc, p, "next") /\ Sets(calling', calling, p, cl) /\ Sets(todo', todo, p, Tail(td))
      BY <1>4, <1>18, <2>3 DEF Routing!Dispatch, Sets
    <3>2. type \notin Routing!OwnTypes /\ type # "Bulk"
      BY <2>1, TypesApart
    <3>3. ThreadInv(p, handlers, ignored, "next", Tail(td), cl, lg, n, st, fr, sh)
      BY <1>1, <1>2, <2>1, <2>3, <3>2, RouteLeaves
    <3>4. td # <<>>
      BY <1>1, <2>1 DEF ThreadInv, Reading
    <3>5. ThreadType("next", Tail(td), cl, lg, n, st, fr, sh)
      BY <1>3, <1>6, <3>4 DEF ThreadType
    <3> HIDE DEF c, td, cl, lg, n, st, fr, sh
    <3> QED
      BY <1>4, <2>1, <3>1, <3>3, <3>5, ThreadStep
  <2> QED
    BY <2>2, <2>3
<1> QED
  BY <1>7, <1>8, <1>9, <1>10, <1>11, <1>13, <1>14, <1>15, <1>16, <1>17, <1>18 DEF Routing!Thread

(* So does a bot that adds a handler ... *)
LEMMA RegisterStepKeeps ==
  ASSUME RoutingInv, NEW k \in Key, NEW h \in Handler, Routing!Register(k, h)
  PROVE  RoutingInv'
<1> DEFINE more == [handlers EXCEPT ![k] = Append(@, h)]
<1>1. Routing!TypeOK /\ Once(handlers) /\ handlers \in [Key -> Seq(Handler)] /\ ignored \in SUBSET User
  BY DEF RoutingInv, Routing!TypeOK
<1>2. /\ handlers' = more /\ ignored' = ignored /\ pc' = pc /\ todo' = todo /\ calling' = calling
      /\ log' = log /\ number' = number /\ atStart' = atStart /\ free' = free /\ shut' = shut
  BY DEF Routing!Register, Routing!PushBack
<1>3. more \in [Key -> Seq(Handler)] /\ Wider(handlers, more)
  BY <1>1, PushWidens
<1>4. Once(more)
  <2>1. h \notin Routing!ToSet(handlers[k])
    BY DEF Routing!Register
  <2>2. DOMAIN handlers[k] = 1..Len(handlers[k])
    BY <1>1
  <2>3. \A i \in 1..Len(handlers[k]) : handlers[k][i] # h
    BY <2>1, <2>2 DEF Routing!ToSet
  <2> QED
    BY <1>1, <2>3, PushOnce
<1> HIDE DEF more
<1>5. Routing!TypeOK'
  BY <1>1, <1>2, <1>3 DEF Routing!TypeOK
<1>6. ASSUME NEW p \in Payloads
      PROVE  ThreadInv(p, handlers', ignored', pc'[p], todo'[p], calling'[p], log'[p], number'[p],
                       atStart'[p], free'[p], shut'[p])
  <2>1. ThreadInv(p, handlers, ignored, pc[p], todo[p], calling[p], log[p], number[p],
                  atStart[p], free[p], shut[p])
    BY Zenon DEF RoutingInv
  <2>2. ThreadType(pc[p], todo[p], calling[p], log[p], number[p], atStart[p], free[p], shut[p])
    BY <1>1, TypedThread
  <2>3. ThreadInv(p, more, ignored, pc[p], todo[p], calling[p], log[p], number[p],
                  atStart[p], free[p], shut[p])
    BY <1>1, <1>3, <2>1, <2>2, RegisterKeeps
  <2> QED
    BY <1>2, <2>3, Zenon
<1>7. Once(handlers')
  BY <1>2, <1>4
<1> QED
  BY <1>5, <1>6, <1>7 DEF RoutingInv

(* ... and one that changes whom it ignores. *)
LEMMA IgnoredStepKeeps ==
  ASSUME RoutingInv, NEW u \in User, Routing!ChangeIgnored(u)
  PROVE  RoutingInv'
<1>1. Routing!TypeOK /\ Once(handlers)
  BY DEF RoutingInv
<1>2. /\ handlers' = handlers /\ pc' = pc /\ todo' = todo /\ calling' = calling
      /\ log' = log /\ number' = number /\ atStart' = atStart
      /\ ignored' = IF u \in ignored THEN ignored \ {u} ELSE ignored \cup {u}
  BY DEF Routing!ChangeIgnored
<1>3. ignored \in SUBSET User /\ ignored' \in SUBSET User
  BY <1>1, <1>2 DEF Routing!TypeOK
<1>4. ASSUME NEW p \in Payloads
      PROVE  /\ free'[p] = IF Routing!Running(p) /\ u \in ignored THEN free[p] \cup {u} ELSE free[p]
             /\ shut'[p] = IF Routing!Running(p) /\ u \notin ignored THEN shut[p] \cup {u} ELSE shut[p]
             /\ free[p] \subseteq User /\ shut[p] \subseteq User
  BY <1>1 DEF Routing!ChangeIgnored, Routing!TypeOK, Payloads
<1>5. free' \in [Payloads -> SUBSET User] /\ shut' \in [Payloads -> SUBSET User]
  <2>1. /\ free' = [p \in Payloads |-> free'[p]] /\ shut' = [p \in Payloads |-> shut'[p]]
    BY DEF Routing!ChangeIgnored, Payloads
  <2>2. \A p \in Payloads : free'[p] \in SUBSET User /\ shut'[p] \in SUBSET User
    BY <1>4
  <2> QED
    BY <2>1, <2>2
<1>6. Routing!TypeOK'
  BY <1>1, <1>2, <1>3, <1>5 DEF Routing!TypeOK, Payloads
<1>7. ASSUME NEW p \in Payloads
      PROVE  ThreadInv(p, handlers', ignored', pc'[p], todo'[p], calling'[p], log'[p], number'[p],
                       atStart'[p], free'[p], shut'[p])
  <2>1. ThreadInv(p, handlers, ignored, pc[p], todo[p], calling[p], log[p], number[p],
                  atStart[p], free[p], shut[p])
    BY Zenon DEF RoutingInv
  <2>2. free[p] \subseteq free'[p] /\ shut[p] \subseteq shut'[p]
    BY <1>4
  <2>3. Watched(pc[p], ignored', free'[p], shut'[p])
    <3>1. Watched(pc[p], ignored, free[p], shut[p])
      BY <2>1 DEF ThreadInv
    <3> SUFFICES ASSUME pc[p] \notin {"waiting", "done", "threw"}
                 PROVE  ignored' \subseteq shut'[p] /\ User \ ignored' \subseteq free'[p]
      BY DEF Watched
    <3>2. Routing!Running(p)
      BY DEF Routing!Running
    <3>3. ignored \subseteq shut[p] /\ User \ ignored \subseteq free[p]
      BY <3>1 DEF Watched
    <3>4. CASE u \in ignored
      <4>1. ignored' = ignored \ {u} /\ free'[p] = free[p] \cup {u} /\ shut'[p] = shut[p]
        BY <1>2, <1>4, <3>2, <3>4
      <4> QED
        BY <3>3, <4>1
    <3>5. CASE u \notin ignored
      <4>1. ignored' = ignored \cup {u} /\ free'[p] = free[p] /\ shut'[p] = shut[p] \cup {u}
        BY <1>2, <1>4, <3>2, <3>5
      <4> QED
        BY <3>3, <4>1
    <3> QED
      BY <3>4, <3>5
  <2>4. ThreadInv(p, handlers, ignored', pc[p], todo[p], calling[p], log[p], number[p],
                  atStart[p], free'[p], shut'[p])
    BY <2>1, <2>2, <2>3, IgnoringKeeps
  <2> QED
    BY <1>2, <2>4, Zenon
<1>8. Once(handlers')
  BY <1>1, <1>2
<1> QED
  BY <1>6, <1>7, <1>8 DEF RoutingInv

(* Every step keeps the invariant. *)
LEMMA RoutingStep ==
  ASSUME RoutingInv, [Routing!Next]_routingVars
  PROVE  RoutingInv'
<1>1. CASE UNCHANGED routingVars
  <2>1. /\ handlers' = handlers /\ ignored' = ignored /\ pc' = pc /\ todo' = todo
        /\ calling' = calling /\ log' = log /\ number' = number /\ atStart' = atStart
        /\ free' = free /\ shut' = shut
    BY <1>1 DEF routingVars
  <2>2. Routing!TypeOK' /\ Once(handlers')
    BY <2>1 DEF RoutingInv, Routing!TypeOK
  <2>3. ASSUME NEW p \in Payloads
        PROVE  ThreadInv(p, handlers', ignored', pc'[p], todo'[p], calling'[p], log'[p], number'[p],
                         atStart'[p], free'[p], shut'[p])
    <3>1. ThreadInv(p, handlers, ignored, pc[p], todo[p], calling[p], log[p], number[p],
                    atStart[p], free[p], shut[p])
      BY Zenon DEF RoutingInv
    <3> QED
      BY <2>1, <3>1, Zenon
  <2> QED
    BY <2>2, <2>3 DEF RoutingInv
<1>2. CASE Routing!Next
  BY <1>2, RegisterStepKeeps, IgnoredStepKeeps, ThreadStepKeeps DEF Routing!Next, Payloads
<1> QED
  BY <1>1, <1>2

(* Each part of RoutingIsSound follows. *)
LEMMA LoggedHolds ==
  ASSUME NEW lg \in Seq(Entry), NEW x
  PROVE  (x \in Routing!ToSet(lg)) <=> Holds(lg, x)
<1>1. DOMAIN lg = 1..Len(lg)
  BY LenProperties
<1> QED
  BY <1>1 DEF Routing!ToSet, Holds

(* The place of a handler that is in its list once. *)
LEMMA Placed ==
  ASSUME Once(handlers), NEW x, NEW i, At(handlers, Routing!KeyOf(x), x[4], i),
         handlers \in [Key -> Seq(Handler)]
  PROVE  Routing!IndexOf(x) = i
<1> DEFINE k == Routing!KeyOf(x)
<1> HIDE DEF k
<1>1. k \in Key /\ i \in 1..Len(handlers[k]) /\ handlers[k][i] = x[4]
  BY DEF At, k
<1>2. DOMAIN handlers[k] = 1..Len(handlers[k])
  BY <1>1
<1>3. \A a, b \in DOMAIN handlers[k] : handlers[k][a] = handlers[k][b] => a = b
  BY <1>1, <1>2 DEF Once
<1>4. i \in DOMAIN handlers[k]
  BY <1>1, <1>2
<1>5. (CHOOSE a \in DOMAIN handlers[k] : handlers[k][a] = x[4]) = i
  BY <1>1, <1>3, <1>4
<1> QED
  BY <1>5 DEF Routing!IndexOf, k

(* The order of the log is that of the message and of registration. *)
LEMMA CallsAreInOrder ==
  ASSUME RoutingInv
  PROVE  Routing!CallsInOrder
<1>1. handlers \in [Key -> Seq(Handler)] /\ Once(handlers)
  BY DEF RoutingInv, Routing!TypeOK
<1> SUFFICES ASSUME NEW p \in Payloads, NEW i \in DOMAIN log[p]
             PROVE  LET entry == log[p][i]
                        before == IF i = 1 THEN <<0, p, "own", "own">> ELSE log[p][i - 1]
                        first == before[1] < entry[1] \/ (before[3] = "raw" /\ entry[3] # "raw")
                    IN /\ before[1] <= entry[1] /\ Routing!Flat[p][entry[1]] = entry[2]
                       /\ entry[3] = "own" => first
                       /\ entry[3] # "own" =>
                            \/ first /\ Routing!IndexOf(entry) = 1
                            \/ /\ before[1] = entry[1] /\ before[3] = entry[3]
                               /\ Routing!IndexOf(entry) = Routing!IndexOf(before) + 1
  BY DEF Routing!CallsInOrder, Payloads
<1> DEFINE x == log[p][i]
           b == Before(p, log[p], i)
<1>2. log[p] \in Seq(Entry)
  BY TypedThread DEF RoutingInv, ThreadType
<1>3. i \in 1..Len(log[p])
  BY <1>2, LenProperties
<1>4. Ordered(p, handlers, log[p], number[p])
  BY DEF RoutingInv, ThreadInv
<1>5. Follows(handlers, b, x) /\ Routing!Flat[p][x[1]] = x[2]
  BY <1>3, <1>4 DEF Ordered
<1>6. b = IF i = 1 THEN <<0, p, "own", "own">> ELSE log[p][i - 1]
  BY DEF Before
<1> HIDE DEF x, b
<1>7. b[1] <= x[1] /\ (x[3] = "own" => First(b, x[1], x[3]))
  BY <1>5 DEF Follows
<1>8. ASSUME x[3] # "own"
      PROVE  \/ First(b, x[1], x[3]) /\ Routing!IndexOf(x) = 1
             \/ /\ b[1] = x[1] /\ b[3] = x[3]
                /\ Routing!IndexOf(x) = Routing!IndexOf(b) + 1
  <2>1. CASE First(b, x[1], x[3]) /\ At(handlers, Routing!KeyOf(x), x[4], 1)
    BY <1>1, <2>1, Placed
  <2>2. CASE /\ b[1] = x[1] /\ b[2] = x[2] /\ b[3] = x[3]
             /\ \E j \in Nat : /\ At(handlers, Routing!KeyOf(x), b[4], j)
                               /\ At(handlers, Routing!KeyOf(x), x[4], j + 1)
    <3>1. PICK j \in Nat : /\ At(handlers, Routing!KeyOf(x), b[4], j)
                           /\ At(handlers, Routing!KeyOf(x), x[4], j + 1)
      BY <2>2
    <3>2. Routing!KeyOf(b) = Routing!KeyOf(x)
      BY <2>2 DEF Routing!KeyOf
    <3>3. Routing!IndexOf(x) = j + 1 /\ Routing!IndexOf(b) = j
      BY <1>1, <3>1, <3>2, Placed
    <3> QED
      BY <2>2, <3>3
  <2> QED
    BY <1>5, <1>8, <2>1, <2>2 DEF Follows
<1> QED
  BY <1>5, <1>6, <1>7, <1>8 DEF First, x

(* Heard, by HeardBy. *)
LEMMA HeardIsHeard ==
  ASSUME RoutingInv, NEW p \in Payloads, NEW n,
         HeardBy(log[p], atStart[p], shut[p], Routing!Flat[p][n], n)
  PROVE  Routing!Heard(p, n)
<1> DEFINE e == Routing!Flat[p][n]
<1>1. log[p] \in Seq(Entry) /\ atStart[p] \in [Key -> Seq(Handler)]
  BY TypedThread DEF RoutingInv, ThreadType
<1>2. \A x : (x \in Routing!ToSet(log[p])) <=> Holds(log[p], x)
  BY <1>1, LoggedHolds
<1>3. \A k \in Key : \A h \in Routing!ToSet(atStart[p][k]) : \E i \in 1..Len(atStart[p][k]) : atStart[p][k][i] = h
  <2>1. \A k \in Key : DOMAIN atStart[p][k] = 1..Len(atStart[p][k])
    BY <1>1
  <2> QED
    BY <2>1 DEF Routing!ToSet
<1> SUFFICES ASSUME Type[e] # "none"
             PROVE  /\ "raw" \in Key =>
                         \A h \in Routing!ToSet(atStart[p]["raw"]) : <<n, e, "raw", h>> \in Routing!ToSet(log[p])
                    /\ Type[e] \in Routing!OwnTypes => <<n, e, "own", "own">> \in Routing!ToSet(log[p])
                    /\ Type[e] \in Key \ {"raw"} /\ (Type[e] \in Routing!TestedTypes => About[e] \notin shut[p]) =>
                         \A h \in Routing!ToSet(atStart[p][Type[e]]) : <<n, e, "typed", h>> \in Routing!ToSet(log[p])
  BY DEF Routing!Heard
<1>4. HeardBy(log[p], atStart[p], shut[p], e, n)
  OBVIOUS
<1> HIDE DEF e
<1>5. "raw" \in Key =>
        \A h \in Routing!ToSet(atStart[p]["raw"]) : <<n, e, "raw", h>> \in Routing!ToSet(log[p])
  BY <1>2, <1>3, <1>4 DEF HeardBy, RawHeard
<1>6. Type[e] \in Routing!OwnTypes => <<n, e, "own", "own">> \in Routing!ToSet(log[p])
  BY <1>2, <1>4 DEF HeardBy
<1>7. Type[e] \in Key \ {"raw"} /\ (Type[e] \in Routing!TestedTypes => About[e] \notin shut[p]) =>
        \A h \in Routing!ToSet(atStart[p][Type[e]]) : <<n, e, "typed", h>> \in Routing!ToSet(log[p])
  BY <1>2, <1>3, <1>4 DEF HeardBy
<1> QED
  BY <1>5, <1>6, <1>7

(* What a thread has left behind was heard, and a thread that is done has  *)
(* left all.                                                               *)
LEMMA LossesHaveCauses ==
  ASSUME RoutingInv
  PROVE  Routing!LossHasCause
<1> SUFFICES ASSUME NEW p \in Payloads, NEW m \in 1..Len(Routing!Flat[p]),
                    m < number[p] \/ pc[p] = "done"
             PROVE  Routing!Heard(p, m)
  BY DEF Routing!LossHasCause, Payloads
<1>1. /\ Complete(p, pc[p], log[p], number[p], atStart[p], shut[p])
      /\ Reading(p, pc[p], todo[p], number[p])
  BY DEF RoutingInv, ThreadInv
<1>2. m < number[p] \/ (m = number[p] /\ pc[p] = "done")
  <2> SUFFICES ASSUME pc[p] = "done" PROVE m <= number[p]
    BY DEF RoutingInv, Routing!TypeOK, Payloads
  <2>1. todo[p] = <<>> /\ Suffix(Routing!Flat[p], number[p], Listing(todo[p]))
    BY <1>1 DEF Reading
  <2>2. Suffix(Routing!Flat[p], number[p], <<>>)
    BY <2>1, ListingEmpty
  <2>3. Len(Routing!Flat[p]) = number[p] /\ number[p] \in Nat
    BY <2>2 DEF Suffix
  <2> QED
    BY <2>3
<1>3. HeardBy(log[p], atStart[p], shut[p], Routing!Flat[p][m], m)
  BY <1>1, <1>2 DEF Complete
<1> QED
  BY <1>3, HeardIsHeard

(* Whoever was called for a user was not to ignore the user at some        *)
(* moment.                                                                 *)
LEMMA IgnoredStayUnheard ==
  ASSUME RoutingInv
  PROVE  Routing!IgnoredAreUnheard
<1> SUFFICES ASSUME NEW p \in Payloads, NEW x \in Routing!ToSet(log[p]),
                    x[3] = "typed", Type[x[2]] \in Routing!TestedTypes
             PROVE  About[x[2]] \in free[p]
  BY DEF Routing!IgnoredAreUnheard, Payloads
<1>1. log[p] \in Seq(Entry) /\ Unheard(pc[p], todo[p], log[p], free[p])
  BY TypedThread DEF RoutingInv, ThreadType, ThreadInv
<1>2. PICK i \in 1..Len(log[p]) : log[p][i] = x
  BY <1>1, LoggedHolds DEF Holds
<1> QED
  BY <1>1, <1>2 DEF Unheard

(* The invariant gives what handlers rely on. *)
LEMMA RoutingInvSound ==
  ASSUME RoutingInv
  PROVE  RoutingIsSound
BY CallsAreInOrder, LossesHaveCauses, IgnoredStayUnheard
   DEF RoutingIsSound, Routing!RoutingIsSound, RoutingInv

(* Through any nesting of Bulks, the handlers of a payload are called in    *)
(* the order of the message and, of a list, in that of registration, none  *)
(* is left out but for an exception or a user who was ignored, and none    *)
(* hears of a user who was ignored all the time: for any payloads at once, *)
(* any handlers, and users ignored and handlers added while threads run.   *)
THEOREM RoutingHolds == Routing!Spec => []RoutingIsSound
<1>1. ASSUME Routing!Init PROVE RoutingInv
  BY <1>1, RoutingInit
<1>2. ASSUME RoutingInv, [Routing!Next]_(Routing!vars) PROVE RoutingInv'
  BY <1>2, RoutingStep DEF Routing!vars, routingVars
<1>3. ASSUME RoutingInv PROVE RoutingIsSound
  BY <1>3, RoutingInvSound
<1> QED
  BY <1>1, <1>2, <1>3, PTL DEF Routing!Spec
=============================================================================
