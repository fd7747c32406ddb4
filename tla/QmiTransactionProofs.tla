------------------------ MODULE QmiTransactionProofs --------------------------
(* Theorems about QmiTransaction, for every set of senders, every wrap-around     *)
(* value, every set of faults and every bound on requests.                        *)
EXTENDS QmiTransaction, TLAPS

(* The events and the services an enumeration by CASE can yield.                  *)
LEMMA EventType ==
  ASSUME NEW m \in Message
  PROVE  EventOf(m) \in {"none", "NETWORK_STATE_CHANGED", "DATA_CALL_LIST_CHANGED"}
  BY DEF EventOf

(* The outcome of a call is well typed when its parts are.                        *)
LEMMA FinishType ==
  ASSUME pc \in [Senders -> {"idle", "numbering", "composed", "waiting",
                             "signaled", "expired", "returned"}],
         result \in [Senders -> Result],
         handed \subseteq 0..MaxRequests, failed \subseteq 0..MaxRequests,
         NEW s \in Senders,
         NEW ret \in {"0", "EINVAL", "ENODEV", "EIO", "ETIMEDOUT"},
         NEW resp \in Message \cup {None}, NEW id \in 0..MaxRequests,
         Finish(s, ret, resp, id)
  PROVE  /\ pc' \in [Senders -> {"idle", "numbering", "composed", "waiting",
                                 "signaled", "expired", "returned"}]
         /\ result' \in [Senders -> Result]
         /\ handed' \subseteq 0..MaxRequests
         /\ failed' \subseteq 0..MaxRequests
         /\ \A t \in Senders : pc'[t] = IF t = s THEN "returned" ELSE pc[t]
<1>1. /\ pc' \in [Senders -> {"idle", "numbering", "composed", "waiting",
                              "signaled", "expired", "returned"}]
      /\ \A t \in Senders : pc'[t] = IF t = s THEN "returned" ELSE pc[t]
  BY DEF Finish
<1>2. result' \in [Senders -> Result]
  BY DEF Finish, Result
<1>3. resp # None => resp.id \in 0..MaxRequests
  BY DEF Message
<1>4. /\ handed' \subseteq 0..MaxRequests
      /\ failed' \subseteq 0..MaxRequests
  BY <1>3 DEF Finish
<1>5. QED
  BY <1>1, <1>2, <1>4

(* A signal changes nothing but one waiter, if there is one.                      *)
LEMMA SignalType ==
  ASSUME pc \in [Senders -> {"idle", "numbering", "composed", "waiting",
                             "signaled", "expired", "returned"}],
         Signal
  PROVE  /\ pc' \in [Senders -> {"idle", "numbering", "composed", "waiting",
                                 "signaled", "expired", "returned"}]
         /\ \A t \in Senders : pc'[t] # pc[t] => pc[t] = "waiting" /\ pc'[t] = "signaled"
         /\ Waiters # {} => \E t \in Waiters : pc'[t] = "signaled"
<1>1. CASE Waiters = {}
  BY <1>1 DEF Signal
<1>2. CASE Waiters # {}
  <2>1. PICK t \in Waiters : pc' = [pc EXCEPT ![t] = "signaled"]
    BY <1>2 DEF Signal
  <2>2. t \in Senders /\ pc[t] = "waiting"
    BY DEF Waiters
  <2>3. QED
    BY <2>1, <2>2
<1>3. QED
  BY <1>1, <1>2

(* What RecvQMI leaves well typed.                                                *)
LEMMA RecvType ==
  ASSUME TypeOK, NEW m \in Message, RecvQMI(m)
  PROVE  /\ pc' \in [Senders -> {"idle", "numbering", "composed", "waiting",
                                 "signaled", "expired", "returned"}]
         /\ s_pRequest' \in Message \cup {None}
         /\ s_pResponse' \in Message \cup {None}
         /\ posted' \in [event : {"none", "NETWORK_STATE_CHANGED",
                                  "DATA_CALL_LIST_CHANGED"},
                         msg : Message \cup {None}]
         /\ \A t \in Senders : pc'[t] # pc[t] => pc[t] = "waiting" /\ pc'[t] = "signaled"
<1>1. CASE Awaited(m) /\ s_pRequest' = None /\ Signal
           /\ s_pResponse' \in {m, None} /\ posted' = NoEvent
  BY <1>1, SignalType DEF TypeOK, NoEvent
<1>2. CASE posted' = [event |-> EventOf(m), msg |-> m]
           /\ UNCHANGED <<slotVars, pc>>
  BY <1>2, EventType DEF TypeOK, slotVars
<1>3. QED
  BY <1>1, <1>2 DEF RecvQMI

LEMMA TypeInit == Init => TypeOK
<1> SUFFICES ASSUME Init PROVE TypeOK
  OBVIOUS
<1>1. toOpen \in Seq(Services)
  BY DEF Init, Services
<1>2. /\ result \in [Senders -> Result]
      /\ posted \in [event : {"none", "NETWORK_STATE_CHANGED",
                              "DATA_CALL_LIST_CHANGED"},
                     msg : Message \cup {None}]
  BY DEF Init, NoResult, NoEvent, Result
<1>3. /\ clientId \in [Services -> {"open", "failed", "none"}]
      /\ request \in [Senders -> Message \cup {None}]
      /\ overlapped \in [Senders -> BOOLEAN]
      /\ pc \in [Senders -> {"idle", "numbering", "composed", "waiting",
                             "signaled", "expired", "returned"}]
      /\ \A s \in Senders : pc[s] = "idle"
  BY DEF Init
<1>4. /\ TransactionId \in 0..MaxTid
      /\ reg \in [Senders -> 0..(MaxTid + 1)]
      /\ nextId \in 1..(MaxRequests + 1)
  BY ConstantsAssumption DEF Init
<1>5. QED
  BY <1>1, <1>2, <1>3, <1>4 DEF Init, TypeOK

LEMMA TypeNext == TypeOK /\ [Next]_vars => TypeOK'
<1> SUFFICES ASSUME TypeOK, [Next]_vars
             PROVE  TypeOK'
  OBVIOUS
<1> USE ConstantsAssumption
<1>1. ASSUME NEW s \in Senders, ComposeWithoutClient(s)
      PROVE  TypeOK'
  <2>1. /\ pc' \in [Senders -> {"idle", "numbering", "composed", "waiting",
                                "signaled", "expired", "returned"}]
        /\ result' \in [Senders -> Result]
        /\ handed' \subseteq 0..MaxRequests
        /\ failed' \subseteq 0..MaxRequests
        /\ \A t \in Senders : pc'[t] = IF t = s THEN "returned" ELSE pc[t]
    BY <1>1, FinishType DEF ComposeWithoutClient, TypeOK
  <2>2. QED
    BY <1>1, <2>1 DEF ComposeWithoutClient, TypeOK, readerVars, slotVars
<1>2. ASSUME NEW s \in Senders, NEW k \in Kinds, LoadTransactionId(s, k)
      PROVE  TypeOK'
  <2>1. [kind |-> k, tid |-> 0, id |-> nextId, ind |-> FALSE] \in Message
    BY <1>2 DEF LoadTransactionId, TypeOK, Message
  <2>2. reg' \in [Senders -> 0..(MaxTid + 1)] /\ reg'[s] >= 1
    BY <1>2 DEF LoadTransactionId, TypeOK
  <2>3. /\ request' \in [Senders -> Message \cup {None}]
        /\ request'[s] \in Message
        /\ pc' \in [Senders -> {"idle", "numbering", "composed", "waiting",
                                "signaled", "expired", "returned"}]
        /\ \A t \in Senders : t # s => /\ request'[t] = request[t]
                                      /\ reg'[t] = reg[t]
                                      /\ pc'[t] = pc[t]
    BY <1>2, <2>1 DEF LoadTransactionId, TypeOK
  <2>4. nextId' \in 1..(MaxRequests + 1)
    BY <1>2 DEF LoadTransactionId, TypeOK
  <2>5. raced' \in BOOLEAN
    BY <1>2 DEF LoadTransactionId, TypeOK
  <2>6. UNCHANGED <<phase, clientId, toOpen, TransactionId, result, s_pRequest,
                    s_pResponse, pending, posted, overlapped, handed, replaced, failed>>
    BY <1>2 DEF LoadTransactionId, readerVars, slotVars
  <2>7. \A t \in Senders :
          /\ pc'[t] \in {"numbering", "composed", "waiting", "signaled", "expired"}
               => request'[t] \in Message
          /\ pc'[t] = "numbering" => reg'[t] >= 1
    BY <2>2, <2>3 DEF TypeOK
  <2>8. QED
    BY <2>2, <2>3, <2>4, <2>5, <2>6, <2>7 DEF TypeOK
<1>3. ASSUME NEW s \in Senders, StoreTransactionId(s)
      PROVE  TypeOK'
  <2>1. request[s] \in Message /\ request[s].id \in 0..MaxRequests
    BY <1>3 DEF StoreTransactionId, TypeOK, Message
  <2>2. Wrap(reg[s]) \in 0..MaxTid
    BY <1>3 DEF StoreTransactionId, TypeOK, Wrap
  <2>3. [request[s] EXCEPT !.tid = Wrap(reg[s])] \in Message
    BY <2>1, <2>2 DEF Message
  <2>4. request' = [request EXCEPT ![s] = [request[s] EXCEPT !.tid = Wrap(reg[s])]]
    BY <1>3 DEF StoreTransactionId
  <2>5. /\ TransactionId' \in 0..MaxTid
        /\ request' \in [Senders -> Message \cup {None}]
        /\ request'[s] \in Message
        /\ reg' \in [Senders -> 0..(MaxTid + 1)]
        /\ \A t \in Senders : t # s => request'[t] = request[t] /\ reg'[t] = reg[t]
    BY <1>3, <2>2, <2>3, <2>4 DEF StoreTransactionId, TypeOK
  <2>6. CASE /\ pc' = [pc EXCEPT ![s] = "composed"]
             /\ UNCHANGED <<result, handed, failed>>
    BY <1>3, <2>5, <2>6 DEF StoreTransactionId, TypeOK, readerVars, slotVars
  <2>7. CASE Finish(s, "EINVAL", None, request[s].id)
    <3>1. /\ pc' \in [Senders -> {"idle", "numbering", "composed", "waiting",
                                  "signaled", "expired", "returned"}]
          /\ result' \in [Senders -> Result]
          /\ handed' \subseteq 0..MaxRequests
          /\ failed' \subseteq 0..MaxRequests
          /\ \A t \in Senders : pc'[t] = IF t = s THEN "returned" ELSE pc[t]
      BY <2>1, <2>7, FinishType DEF TypeOK
    <3>2. QED
      BY <1>3, <2>5, <3>1 DEF StoreTransactionId, TypeOK, readerVars, slotVars
  <2>8. QED
    BY <1>3, <2>6, <2>7 DEF StoreTransactionId
<1>4. ASSUME NEW s \in Senders, Send(s)
      PROVE  TypeOK'
  <2>1. request[s] \in Message /\ request[s].id \in 0..MaxRequests
    BY <1>4 DEF Send, TypeOK, Message
  <2>2. overlapped' \in [Senders -> BOOLEAN]
    BY <1>4 DEF Send, TypeOK, InWait
  <2>3. pending' \in SUBSET Message
    BY <1>4, <2>1 DEF Send, TypeOK
  <2>r. replaced' \subseteq 0..MaxRequests
    <3>1. replaced' = IF s_pRequest = None THEN replaced
                      ELSE replaced \cup {s_pRequest.id}
      BY <1>4 DEF Send
    <3>2. QED
      BY <3>1 DEF TypeOK, Message
  <2>4. CASE pc' = [pc EXCEPT ![s] = "waiting"] /\ UNCHANGED <<result, handed, failed>>
    BY <1>4, <2>1, <2>2, <2>3, <2>r, <2>4 DEF Send, FillSlot, TypeOK, readerVars
  <2>5. CASE \E e \in {"ENODEV", "EIO"} : Finish(s, e, None, request[s].id)
    <3>1. /\ pc' \in [Senders -> {"idle", "numbering", "composed", "waiting",
                                  "signaled", "expired", "returned"}]
          /\ result' \in [Senders -> Result]
          /\ handed' \subseteq 0..MaxRequests
          /\ failed' \subseteq 0..MaxRequests
          /\ \A t \in Senders : pc'[t] = IF t = s THEN "returned" ELSE pc[t]
      BY <2>1, <2>5, FinishType DEF TypeOK
    <3>2. QED
      BY <1>4, <2>1, <2>2, <2>3, <2>r, <3>1 DEF Send, FillSlot, TypeOK, readerVars
  <2>6. QED
    BY <1>4, <2>4, <2>5 DEF Send
<1>5. ASSUME NEW s \in Senders, Wake(s) \/ ReturnTimeout(s)
      PROVE  TypeOK'
  <2>1. request[s] \in Message /\ request[s].id \in 0..MaxRequests
    BY <1>5 DEF Wake, ReturnTimeout, TypeOK, Message
  <2>2. \E e \in {"0", "ETIMEDOUT"}, r \in Message \cup {None} :
          Finish(s, e, r, request[s].id)
    BY <1>5 DEF Wake, ReturnTimeout, TypeOK
  <2>3. /\ pc' \in [Senders -> {"idle", "numbering", "composed", "waiting",
                                "signaled", "expired", "returned"}]
        /\ result' \in [Senders -> Result]
        /\ handed' \subseteq 0..MaxRequests
        /\ failed' \subseteq 0..MaxRequests
        /\ \A t \in Senders : pc'[t] = IF t = s THEN "returned" ELSE pc[t]
    BY <2>1, <2>2, FinishType DEF TypeOK
  <2>4. UNCHANGED <<phase, clientId, toOpen, TransactionId, reg, request, s_pRequest,
                    s_pResponse, pending, posted, nextId, overlapped, raced, replaced>>
    BY <1>5 DEF Wake, ReturnTimeout, readerVars, slotVars
  <2>5. QED
    BY <2>3, <2>4 DEF TypeOK
<1>6. ASSUME NEW s \in Senders, SpuriousWakeup(s) \/ TimerFires(s)
      PROVE  TypeOK'
  BY <1>6 DEF SpuriousWakeup, TimerFires, TypeOK, readerVars, slotVars, historyVars
<1>7. ASSUME NEW s \in Senders, Return(s)
      PROVE  TypeOK'
  BY <1>7 DEF Return, TypeOK, readerVars, slotVars, historyVars, NoResult, Result
<1>8. ASSUME OpenClient
      PROVE  TypeOK'
  <2>1. toOpen # <<>> /\ toOpen \in Seq(Services)
    BY <1>8 DEF OpenClient, TypeOK
  <2>2. Head(toOpen) \in Services /\ Tail(toOpen) \in Seq(Services)
    BY <2>1
  <2>3. QED
    BY <1>8, <2>2 DEF OpenClient, TypeOK, slotVars, historyVars
<1>9. ASSUME StartPolling \/ StopReader \/ GobiNetDeInit
      PROVE  TypeOK'
  BY <1>9 DEF StartPolling, StopReader, GobiNetDeInit, TypeOK, slotVars, historyVars
<1>10. ASSUME ReadResponse \/ ReadIndication
       PROVE  TypeOK'
  <2>1. \E m \in Message : RecvQMI(m)
    <3>1. CASE ReadResponse
      BY <3>1 DEF ReadResponse, TypeOK
    <3>2. CASE ReadIndication
      <4>1. PICK k \in IndKinds, t \in IndTids :
              RecvQMI([kind |-> k, tid |-> t, id |-> 0, ind |-> TRUE])
        BY <3>2 DEF ReadIndication
      <4>2. [kind |-> k, tid |-> t, id |-> 0, ind |-> TRUE] \in Message
        BY DEF Message, AllKinds
      <4>3. QED
        BY <4>1, <4>2
    <3>3. QED
      BY <1>10, <3>1, <3>2
  <2>2. pending' \in SUBSET Message
    BY <1>10 DEF ReadResponse, ReadIndication, TypeOK
  <2>3. UNCHANGED <<phase, clientId, toOpen, TransactionId, reg, request, result,
                    nextId, overlapped, raced, handed, replaced, failed>>
    BY <1>10 DEF ReadResponse, ReadIndication, readerVars
  <2>4. QED
    BY <2>1, <2>2, <2>3, RecvType DEF TypeOK
<1>11. ASSUME AbortRequest
       PROVE  TypeOK'
  <2>1. CASE s_pRequest = None /\ UNCHANGED <<slotVars, pc>>
    BY <1>11, <2>1 DEF AbortRequest, TypeOK, slotVars
  <2>2. CASE s_pRequest # None /\ Signal /\ s_pRequest' = None /\ s_pResponse' = None
    BY <1>11, <2>2, SignalType DEF AbortRequest, TypeOK
  <2>3. QED
    BY <1>11, <2>1, <2>2 DEF AbortRequest
<1>12. ASSUME UNCHANGED vars
       PROVE  TypeOK'
  BY <1>12 DEF TypeOK, vars, historyVars
<1>13. QED
  BY <1>1, <1>2, <1>3, <1>4, <1>5, <1>6, <1>7, <1>8, <1>9, <1>10, <1>11, <1>12
     DEF Next, Reader, Sender

(* Type correctness, for every instance.                                          *)
THEOREM TypeCorrect == Spec => []TypeOK
  BY TypeInit, TypeNext, PTL DEF Spec

-------------------------------------------------------------------------------
(* The quiet calls.  QuietAnswerMatches speaks of a call that has returned; what  *)
(* makes it inductive is what holds before: a quiet call is alone on the          *)
(* condition variable, so that a signal can only be its own, and until it is      *)
(* signalled the slot is its request and no answer is stored.                     *)
QuietIsAlone ==
  \A s, u \in Senders : InWait(s) /\ ~overlapped[s] /\ InWait(u) => u = s

QuietSignaled ==
  \A s \in Senders : pc[s] = "signaled" /\ ~overlapped[s] =>
    /\ s_pRequest \in {None, request[s]}
    /\ s_pResponse # None => IsResponse(request[s], s_pResponse)
    /\ Faults \cap {"alloc", "spurious"} = {} /\ phase # "aborted"
         => s_pResponse # None

QuietInv ==
  /\ TypeOK
  /\ QuietIsAlone
  /\ NoLostWakeup
  /\ QuietSignaled
  /\ QuietAnswerMatches
  /\ QuietSuccessHasAnswer

LEMMA QuietInit == Init => QuietInv
  BY TypeInit DEF Init, QuietInv, QuietIsAlone, NoLostWakeup, QuietSignaled,
     QuietAnswerMatches, QuietSuccessHasAnswer, InWait, Answered

(* Steps of a call that enter or leave neither the wait set nor the slot.         *)
LEMMA QuietElsewhere ==
  ASSUME QuietInv, TypeOK', NEW s \in Senders,
         UNCHANGED <<phase, slotVars, overlapped>>,
         \A t \in Senders : t # s => /\ pc'[t] = pc[t]
                                     /\ request'[t] = request[t]
                                     /\ result'[t] = result[t],
         \/ pc'[s] \in {"idle", "numbering", "composed", "expired"}
         \/ pc'[s] = "returned" /\ result'[s].ret # "0"
  PROVE  QuietInv'
  BY DEF QuietInv, QuietIsAlone, NoLostWakeup, QuietSignaled, QuietAnswerMatches,
     QuietSuccessHasAnswer, InWait, Answered, slotVars

LEMMA QuietNext == QuietInv /\ [Next]_vars => QuietInv'
<1> SUFFICES ASSUME QuietInv, [Next]_vars
             PROVE  QuietInv'
  OBVIOUS
<1> TypeOK /\ TypeOK'
  BY TypeNext DEF QuietInv
<1>1. ASSUME NEW s \in Senders, ComposeWithoutClient(s)
      PROVE  QuietInv'
  <2>1. /\ pc'[s] = "returned" /\ result'[s].ret = "EINVAL"
        /\ \A t \in Senders : t # s => pc'[t] = pc[t] /\ result'[t] = result[t]
    BY <1>1 DEF ComposeWithoutClient, Finish, TypeOK
  <2>2. UNCHANGED <<phase, slotVars, overlapped, request>>
    BY <1>1 DEF ComposeWithoutClient, readerVars
  <2>3. QED
    BY <2>1, <2>2, QuietElsewhere
<1>2. ASSUME NEW s \in Senders, NEW k \in Kinds, LoadTransactionId(s, k)
      PROVE  QuietInv'
  <2>1. /\ pc'[s] = "numbering"
        /\ \A t \in Senders : t # s => /\ pc'[t] = pc[t]
                                       /\ request'[t] = request[t]
                                       /\ result'[t] = result[t]
        /\ UNCHANGED <<phase, slotVars, overlapped>>
    BY <1>2 DEF LoadTransactionId, TypeOK, readerVars
  <2>2. QED
    BY <2>1, QuietElsewhere
<1>3. ASSUME NEW s \in Senders, StoreTransactionId(s)
      PROVE  QuietInv'
  <2>1. /\ \A t \in Senders : t # s => request'[t] = request[t]
        /\ UNCHANGED <<phase, slotVars, overlapped>>
    BY <1>3 DEF StoreTransactionId, TypeOK, readerVars
  <2>2. CASE pc' = [pc EXCEPT ![s] = "composed"] /\ UNCHANGED result
    <3>1. /\ pc'[s] = "composed"
          /\ \A t \in Senders : t # s => pc'[t] = pc[t] /\ result'[t] = result[t]
      BY <2>2 DEF TypeOK
    <3>2. QED
      BY <2>1, <3>1, QuietElsewhere
  <2>3. CASE Finish(s, "EINVAL", None, request[s].id)
    <3>1. /\ pc'[s] = "returned" /\ result'[s].ret = "EINVAL"
          /\ \A t \in Senders : t # s => pc'[t] = pc[t] /\ result'[t] = result[t]
      BY <2>3 DEF Finish, TypeOK
    <3>2. QED
      BY <2>1, <3>1, QuietElsewhere
  <2>4. QED
    BY <1>3, <2>2, <2>3 DEF StoreTransactionId
<1>4. ASSUME NEW s \in Senders, Send(s)
      PROVE  QuietInv'
  <2>1. /\ s_pRequest' = request[s] /\ s_pResponse' = None
        /\ overlapped'[s] = \E u \in Senders \ {s} : InWait(u)
        /\ \A t \in Senders : t # s => overlapped'[t] = (overlapped[t] \/ InWait(t))
        /\ UNCHANGED <<phase, request>>
    BY <1>4 DEF Send, FillSlot, readerVars
  <2>2. /\ \A t \in Senders : t # s => pc'[t] = pc[t] /\ result'[t] = result[t]
        /\ \/ pc'[s] = "waiting"
           \/ pc'[s] = "returned" /\ result'[s].ret # "0"
    <3>1. CASE pc' = [pc EXCEPT ![s] = "waiting"] /\ UNCHANGED result
      BY <3>1 DEF TypeOK
    <3>2. CASE \E e \in {"ENODEV", "EIO"} : Finish(s, e, None, request[s].id)
      BY <3>2 DEF Finish, TypeOK
    <3>3. QED
      BY <1>4, <3>1, <3>2 DEF Send
  <2>3. \A t \in Senders : t # s /\ InWait(t)' => overlapped'[t]
    <3>1. \A t \in Senders : t # s /\ InWait(t)' => InWait(t)
      BY <2>2 DEF InWait
    <3>2. QED
      BY <2>1, <3>1, Zenon
  <2>4. InWait(s)' /\ ~overlapped'[s] => \A u \in Senders : InWait(u)' => u = s
    <3>1. \A u \in Senders : u # s => (InWait(u)' <=> InWait(u))
      BY <2>2 DEF InWait
    <3>2. QED
      BY <2>1, <3>1
  <2>5. QuietIsAlone'
    BY <2>3, <2>4 DEF QuietIsAlone
  <2>6. NoLostWakeup'
    BY <2>1, <2>3 DEF NoLostWakeup, InWait
  <2>7. QuietSignaled'
    BY <2>2, <2>3 DEF QuietSignaled, InWait
  <2>8. \A t \in Senders : pc'[t] = "returned" /\ result'[t].ret = "0" =>
          /\ pc[t] = "returned" /\ result'[t] = result[t]
          /\ ~overlapped'[t] => ~overlapped[t]
    <3>1. \A t \in Senders : t # s /\ ~overlapped'[t] => ~overlapped[t]
      BY <2>1, Zenon
    <3>2. QED
      BY <2>2, <3>1
  <2>9. QuietAnswerMatches'
    BY <2>1, <2>8 DEF QuietInv, QuietAnswerMatches, Answered
  <2>10. QuietSuccessHasAnswer'
    BY <2>1, <2>8 DEF QuietInv, QuietSuccessHasAnswer
  <2>11. QED
    BY <2>5, <2>6, <2>7, <2>9, <2>10 DEF QuietInv
<1>5. ASSUME NEW s \in Senders, Wake(s)
      PROVE  QuietInv'
  <2>1. /\ pc'[s] = "returned"
        /\ result'[s] = [ret |-> "0", resp |-> s_pResponse]
        /\ \A t \in Senders : t # s => pc'[t] = pc[t] /\ result'[t] = result[t]
        /\ UNCHANGED <<phase, request, s_pRequest, s_pResponse, overlapped>>
        /\ pc[s] = "signaled"
    BY <1>5 DEF Wake, Finish, TypeOK, readerVars, slotVars
  <2>2. QED
    BY <2>1 DEF QuietInv, QuietIsAlone, NoLostWakeup, QuietSignaled, IsResponse,
       QuietAnswerMatches, QuietSuccessHasAnswer, InWait, Answered
<1>6. ASSUME NEW s \in Senders, SpuriousWakeup(s)
      PROVE  QuietInv'
  <2>1. /\ pc[s] = "waiting" /\ pc'[s] = "signaled" /\ "spurious" \in Faults
        /\ \A t \in Senders : t # s => pc'[t] = pc[t]
        /\ UNCHANGED <<phase, request, result, s_pRequest, s_pResponse, overlapped>>
    BY <1>6 DEF SpuriousWakeup, readerVars, slotVars, historyVars, TypeOK
  <2>2. QED
    BY <2>1 DEF QuietInv, QuietIsAlone, NoLostWakeup, QuietSignaled,
       QuietAnswerMatches, QuietSuccessHasAnswer, InWait, Answered
<1>7. ASSUME NEW s \in Senders, TimerFires(s)
      PROVE  QuietInv'
  <2>1. /\ pc'[s] = "expired"
        /\ \A t \in Senders : t # s => /\ pc'[t] = pc[t]
                                       /\ request'[t] = request[t]
                                       /\ result'[t] = result[t]
        /\ UNCHANGED <<phase, slotVars, overlapped>>
    BY <1>7 DEF TimerFires, TypeOK, readerVars, historyVars
  <2>2. QED
    BY <2>1, QuietElsewhere
<1>8. ASSUME NEW s \in Senders, ReturnTimeout(s)
      PROVE  QuietInv'
  <2>1. /\ pc'[s] = "returned" /\ result'[s].ret = "ETIMEDOUT"
        /\ \A t \in Senders : t # s => pc'[t] = pc[t] /\ result'[t] = result[t]
    BY <1>8 DEF ReturnTimeout, Finish, TypeOK
  <2>2. UNCHANGED <<phase, slotVars, overlapped, request>>
    BY <1>8 DEF ReturnTimeout, readerVars
  <2>3. QED
    BY <2>1, <2>2, QuietElsewhere
<1>9. ASSUME NEW s \in Senders, Return(s)
      PROVE  QuietInv'
  <2>1. /\ pc'[s] = "idle"
        /\ \A t \in Senders : t # s => /\ pc'[t] = pc[t]
                                       /\ request'[t] = request[t]
                                       /\ result'[t] = result[t]
        /\ UNCHANGED <<phase, slotVars, overlapped>>
    BY <1>9 DEF Return, TypeOK, readerVars, historyVars
  <2>2. QED
    BY <2>1, QuietElsewhere
<1>10. ASSUME OpenClient \/ StartPolling \/ StopReader \/ GobiNetDeInit
       PROVE  QuietInv'
  <2>1. /\ UNCHANGED <<request, pc, result, s_pRequest, s_pResponse, overlapped>>
        /\ phase' # "aborted"
    BY <1>10 DEF OpenClient, StartPolling, StopReader, GobiNetDeInit, slotVars,
       historyVars
  <2>2. phase # "aborted"
    BY <1>10 DEF OpenClient, StartPolling, StopReader, GobiNetDeInit
  <2>3. QED
    BY <2>1, <2>2 DEF QuietInv, QuietIsAlone, NoLostWakeup, QuietSignaled,
       QuietAnswerMatches, QuietSuccessHasAnswer, InWait, Answered
<1>11. ASSUME NEW m \in Message, RecvQMI(m), phase = "polling",
              UNCHANGED <<phase, request, result, overlapped>>
       PROVE  QuietInv'
  <2>1. CASE /\ Awaited(m) /\ s_pRequest' = None /\ Signal
             /\ (s_pResponse' = m \/ ("alloc" \in Faults /\ s_pResponse' = None))
    <3>1. /\ \A t \in Senders : pc'[t] # pc[t] =>
               pc[t] = "waiting" /\ pc'[t] = "signaled"
          /\ Waiters # {} => \E t \in Waiters : pc'[t] = "signaled"
      BY <2>1, SignalType DEF TypeOK
    <3>2. \A t \in Senders : InWait(t)' <=> InWait(t)
      BY <3>1 DEF InWait
    <3>3. QuietIsAlone'
      BY <1>11, <3>2 DEF QuietInv, QuietIsAlone
    <3>4. NoLostWakeup'
      <4>1. SUFFICES ASSUME NEW t \in Senders, pc'[t] = "waiting", ~overlapped'[t]
                     PROVE  FALSE
        BY DEF NoLostWakeup
      <4>2. pc[t] = "waiting" /\ ~overlapped[t]
        BY <1>11, <3>1, <4>1
      <4>3. PICK u \in Waiters : pc'[u] = "signaled"
        BY <3>1, <4>2 DEF Waiters
      <4>4. u = t
        BY <4>2, <4>3 DEF Waiters, QuietInv, QuietIsAlone, InWait
      <4>5. QED
        BY <4>1, <4>3, <4>4
    <3>5. QuietSignaled'
      <4>1. SUFFICES ASSUME NEW t \in Senders, pc'[t] = "signaled", ~overlapped'[t]
                     PROVE  /\ IsResponse(request[t], m)
                            /\ Faults \cap {"alloc", "spurious"} = {}
                                 => s_pResponse' # None
        BY <1>11, <2>1 DEF QuietSignaled
      <4>2. pc[t] \in {"waiting", "signaled"} /\ ~overlapped[t]
        BY <1>11, <3>1, <4>1
      <4>3. s_pRequest = request[t]
        BY <2>1, <4>2 DEF QuietInv, NoLostWakeup, QuietSignaled, Awaited
      <4>4. IsResponse(request[t], m)
        BY <2>1, <4>3 DEF Awaited
      <4>5. QED
        BY <2>1, <4>4, ConstantsAssumption
    <3>6. QuietAnswerMatches' /\ QuietSuccessHasAnswer'
      <4>1. \A t \in Senders : pc'[t] = "returned" => pc[t] = "returned"
        BY <3>1
      <4>2. QED
        BY <1>11, <4>1 DEF QuietInv, QuietAnswerMatches, QuietSuccessHasAnswer, Answered
    <3>7. QED
      BY <3>3, <3>4, <3>5, <3>6 DEF QuietInv
  <2>2. CASE UNCHANGED <<s_pRequest, s_pResponse, pc>>
    BY <1>11, <2>2 DEF QuietInv, QuietIsAlone, NoLostWakeup, QuietSignaled,
       QuietAnswerMatches, QuietSuccessHasAnswer, InWait, Answered
  <2>3. \/ /\ Awaited(m) /\ s_pRequest' = None /\ Signal
           /\ (s_pResponse' = m \/ ("alloc" \in Faults /\ s_pResponse' = None))
        \/ UNCHANGED <<slotVars, pc>>
    BY <1>11, Zenon DEF RecvQMI, Awaited
  <2>4. QED
    BY <2>1, <2>2, <2>3 DEF slotVars
<1>12. ASSUME ReadResponse
       PROVE  QuietInv'
  <2>1. \E m \in Message : RecvQMI(m)
    BY <1>12 DEF ReadResponse, TypeOK
  <2>2. phase = "polling" /\ UNCHANGED <<phase, request, result, overlapped>>
    BY <1>12 DEF ReadResponse, readerVars
  <2>3. QED
    BY <1>11, <2>1, <2>2
<1>13. ASSUME ReadIndication
       PROVE  QuietInv'
  <2>1. PICK k \in IndKinds, t \in IndTids :
          RecvQMI([kind |-> k, tid |-> t, id |-> 0, ind |-> TRUE])
    BY <1>13 DEF ReadIndication
  <2>2. [kind |-> k, tid |-> t, id |-> 0, ind |-> TRUE] \in Message
    BY ConstantsAssumption DEF Message, AllKinds
  <2>3. phase = "polling" /\ UNCHANGED <<phase, request, result, overlapped>>
    BY <1>13 DEF ReadIndication, readerVars
  <2>4. QED
    BY <1>11, <2>1, <2>2, <2>3
<1>14. ASSUME AbortRequest
       PROVE  QuietInv'
  <2>1. phase' = "aborted" /\ UNCHANGED <<request, result, overlapped>>
    BY <1>14 DEF AbortRequest
  <2>2. CASE UNCHANGED <<s_pRequest, s_pResponse, pc>>
    BY <2>1, <2>2 DEF QuietInv, QuietIsAlone, NoLostWakeup, QuietSignaled,
       QuietAnswerMatches, QuietSuccessHasAnswer, InWait, Answered
  <2>3. CASE s_pRequest' = None /\ s_pResponse' = None /\ Signal
    <3>1. /\ \A t \in Senders : pc'[t] # pc[t] =>
               pc[t] = "waiting" /\ pc'[t] = "signaled"
          /\ Waiters # {} => \E t \in Waiters : pc'[t] = "signaled"
      BY <2>3, SignalType DEF TypeOK
    <3>2. QuietIsAlone'
      BY <2>1, <3>1 DEF QuietInv, QuietIsAlone, InWait
    <3>3. NoLostWakeup'
      <4>1. SUFFICES ASSUME NEW t \in Senders, pc'[t] = "waiting", ~overlapped'[t]
                     PROVE  FALSE
        BY DEF NoLostWakeup
      <4>2. pc[t] = "waiting" /\ ~overlapped[t]
        BY <2>1, <3>1, <4>1
      <4>3. PICK u \in Waiters : pc'[u] = "signaled"
        BY <3>1, <4>2 DEF Waiters
      <4>4. u = t
        BY <4>2, <4>3 DEF Waiters, QuietInv, QuietIsAlone, InWait
      <4>5. QED
        BY <4>1, <4>3, <4>4
    <3>4. QuietSignaled'
      BY <2>1, <2>3 DEF QuietSignaled
    <3>5. QuietAnswerMatches' /\ QuietSuccessHasAnswer'
      <4>1. \A t \in Senders : pc'[t] = "returned" => pc[t] = "returned"
        BY <3>1
      <4>2. QED
        BY <2>1, <4>1 DEF QuietInv, QuietAnswerMatches, QuietSuccessHasAnswer, Answered
    <3>6. QED
      BY <3>2, <3>3, <3>4, <3>5 DEF QuietInv
  <2>4. QED
    BY <1>14, <2>2, <2>3 DEF AbortRequest, slotVars
<1>15. ASSUME UNCHANGED vars
       PROVE  QuietInv'
  BY <1>15 DEF vars, historyVars, QuietInv, QuietIsAlone, NoLostWakeup,
     QuietSignaled, QuietAnswerMatches, QuietSuccessHasAnswer, InWait, Answered
<1>16. QED
  BY <1>1, <1>2, <1>3, <1>4, <1>5, <1>6, <1>7, <1>8, <1>9, <1>10, <1>12, <1>13,
     <1>14, <1>15 DEF Next, Reader, Sender

(* A call that no other call overlapped returns only a message that answers its   *)
(* request, however late, duplicated or unsolicited the modem's messages are and  *)
(* whoever else times out or fails.                                               *)
THEOREM QuietCallsGetMatchingAnswers == Spec => []QuietAnswerMatches
<1>1. QuietInv => QuietAnswerMatches
  BY DEF QuietInv
<1>2. QED
  BY <1>1, QuietInit, QuietNext, PTL DEF Spec

(* And when it returns 0 there is such a message, unless memory ran out, the      *)
(* wakeup was spurious or the reader's destructor ran.                            *)
THEOREM QuietSuccessIsReal == Spec => []QuietSuccessHasAnswer
<1>1. QuietInv => QuietSuccessHasAnswer
  BY DEF QuietInv
<1>2. QED
  BY <1>1, QuietInit, QuietNext, PTL DEF Spec

(* No wakeup of such a call is lost.                                              *)
THEOREM QuietWakeupsArrive == Spec => []NoLostWakeup
<1>1. QuietInv => NoLostWakeup
  BY DEF QuietInv
<1>2. QED
  BY <1>1, QuietInit, QuietNext, PTL DEF Spec

-------------------------------------------------------------------------------
(* Which message a call takes: never an indication, never one that was taken before, *)
(* and only its own if the ids are drawn in turn.                                    *)

(* No message with the id 0 is on its way to a call: an indication would have to     *)
(* carry the id of a request.                                                        *)
IndicationInv ==
  /\ \A s \in Senders : request[s] # None => ~request[s].ind
  /\ \A m \in pending : ~m.ind
  /\ IndTids \subseteq {0} =>
       /\ \A s \in Senders : pc[s] = "composed" => request[s].tid >= 1
       /\ s_pRequest # None => s_pRequest.tid >= 1
       /\ s_pResponse # None => ~s_pResponse.ind
       /\ \A s \in Senders : result[s].resp # None => ~result[s].resp.ind

(* Who carries the id of a request: its caller until the call ended, then the modem,  *)
(* the slot or a caller that took the answer, one of them at a time.                  *)
Unsent(s) == pc[s] \in {"numbering", "composed"}

RequestIds ==
  /\ \A s \in Senders : request[s] # None => request[s].id \in 1..(nextId - 1)
  /\ \A s, t \in Senders :
       request[s] # None /\ request[t] # None /\ request[s].id = request[t].id => s = t

MessageIds ==
  /\ handed \subseteq 0..(nextId - 1)
  /\ \A m \in pending : m.id \in 1..(nextId - 1) /\ m.id \notin handed
  /\ \A m, n \in pending : m.id = n.id => m = n
  /\ s_pResponse # None => /\ s_pResponse.id \in 0..(nextId - 1)
                           /\ \A m \in pending : m.id # s_pResponse.id

UnsentIds ==
  \A s \in Senders : Unsent(s) =>
    /\ request[s].id \notin handed
    /\ \A m \in pending : m.id # request[s].id
    /\ s_pResponse # None => s_pResponse.id # request[s].id

NotTaken ==
  \A s \in Senders :
    InWait(s) /\ ~overlapped[s] /\ s_pResponse # None /\ ~s_pResponse.ind
      => s_pResponse.id \notin handed

IdsInv == RequestIds /\ MessageIds /\ UnsentIds /\ NotTaken

(* Ids drawn one after the other are the numbers of the requests, and a message with   *)
(* the number of a request is its response.                                            *)
Sent(s) == pc[s] \in {"waiting", "signaled", "expired"}

DrawnInTurn ==
  /\ \A s, t \in Senders : pc[s] = "numbering" /\ pc[t] = "numbering" => s = t
  /\ \A s \in Senders : pc[s] = "numbering" =>
       /\ reg[s] = nextId - 1 /\ request[s].id = nextId - 1
  /\ (\A s \in Senders : pc[s] # "numbering") => TransactionId = nextId - 1

NumberedById ==
  /\ \A s \in Senders : pc[s] = "composed" \/ Sent(s) => request[s].tid = request[s].id
  /\ \A m \in pending : m.tid = m.id
  /\ s_pResponse # None /\ ~s_pResponse.ind => s_pResponse.tid = s_pResponse.id

SameIdSameMessage ==
  \A s \in Senders : Sent(s) =>
    /\ \A m \in pending : m.id = request[s].id => m = request[s]
    /\ s_pResponse # None /\ ~s_pResponse.ind /\ s_pResponse.id = request[s].id
         => s_pResponse = request[s]

OwnAnswers ==
  \A s \in Senders : Answered(s) /\ ~overlapped[s] => result[s].resp = request[s]

OwnPremise == MaxRequests <= MaxTid /\ IndTids \subseteq {0} /\ ~raced

OwnParts == DrawnInTurn /\ NumberedById /\ SameIdSameMessage /\ OwnAnswers

OwnInv == OwnPremise => OwnParts

-------------------------------------------------------------------------------
(* What the steps of a call do to the variables the invariants speak of.              *)
Elsewhere(s) ==
  \A t \in Senders : t # s => /\ pc'[t] = pc[t] /\ request'[t] = request[t]
                              /\ result'[t] = result[t] /\ reg'[t] = reg[t]

(* A call that ends leaves nothing behind but the answer it took.                      *)
LEMMA FinishEffect ==
  ASSUME TypeOK, NEW s \in Senders, NEW ret, NEW resp, NEW id, Finish(s, ret, resp, id)
  PROVE  /\ pc'[s] = "returned" /\ result'[s].ret = ret /\ result'[s].resp = resp
         /\ \A t \in Senders : t # s => pc'[t] = pc[t] /\ result'[t] = result[t]
         /\ handed' = IF resp = None THEN handed ELSE handed \cup {resp.id}
BY DEF Finish, TypeOK

(* An id is loaded for a new request.                                                 *)
LEMMA LoadEffect ==
  ASSUME TypeOK, NEW s \in Senders, NEW k \in Kinds, LoadTransactionId(s, k)
  PROVE  /\ pc[s] = "idle" /\ pc'[s] = "numbering"
         /\ request'[s] # None /\ request'[s].id = nextId /\ request'[s].ind = FALSE
         /\ reg'[s] = TransactionId + 1 /\ result'[s] = result[s]
         /\ Elsewhere(s)
         /\ nextId <= MaxRequests /\ nextId' = nextId + 1
         /\ raced' = (raced \/ \E t \in Senders : pc[t] = "numbering")
         /\ UNCHANGED <<TransactionId, s_pRequest, s_pResponse, pending, overlapped,
                        handed>>
<1>1. [kind |-> k, tid |-> 0, id |-> nextId, ind |-> FALSE] \in Message
  BY ConstantsAssumption DEF LoadTransactionId, TypeOK, Message
<1>2. /\ request'[s] # None
      /\ request'[s].id = nextId /\ request'[s].ind = FALSE
  BY <1>1, ConstantsAssumption DEF LoadTransactionId, TypeOK
<1>3. raced' = (raced \/ \E t \in Senders : pc[t] = "numbering")
  BY Zenon DEF LoadTransactionId
<1>4. QED
  BY <1>2, <1>3 DEF LoadTransactionId, TypeOK, Elsewhere, slotVars

(* The id becomes that of the request, which is sent next or given up.                *)
LEMMA StoreEffect ==
  ASSUME TypeOK, NEW s \in Senders, StoreTransactionId(s)
  PROVE  /\ pc[s] = "numbering" /\ pc'[s] \in {"composed", "returned"}
         /\ TransactionId' = Wrap(reg[s])
         /\ request[s] \in Message /\ request'[s] # None
         /\ request'[s].tid = Wrap(reg[s])
         /\ request'[s].id = request[s].id /\ request'[s].ind = request[s].ind
         /\ \/ result'[s] = result[s]
            \/ result'[s].ret = "EINVAL" /\ result'[s].resp = None
         /\ pc'[s] = "returned" => result'[s].ret = "EINVAL"
         /\ Elsewhere(s)
         /\ UNCHANGED <<nextId, raced, s_pRequest, s_pResponse, pending, overlapped,
                        handed>>
<1>1. request[s] \in Message /\ pc[s] = "numbering"
  BY DEF StoreTransactionId, TypeOK
<1>2. Wrap(reg[s]) \in 0..MaxTid
  BY ConstantsAssumption DEF StoreTransactionId, TypeOK, Wrap
<1>3. request'[s] = [request[s] EXCEPT !.tid = Wrap(reg[s])]
  BY DEF StoreTransactionId, TypeOK
<1>4. [request[s] EXCEPT !.tid = Wrap(reg[s])] \in Message
  BY <1>1, <1>2, ConstantsAssumption DEF Message
<1>5. /\ request'[s] # None
      /\ request'[s].tid = Wrap(reg[s])
      /\ request'[s].id = request[s].id /\ request'[s].ind = request[s].ind
  BY <1>1, <1>3, <1>4, ConstantsAssumption DEF Message
<1>6. /\ TransactionId' = Wrap(reg[s])
      /\ UNCHANGED <<nextId, raced, s_pRequest, s_pResponse, pending, overlapped>>
      /\ \A t \in Senders : t # s => request'[t] = request[t] /\ reg'[t] = reg[t]
  BY DEF StoreTransactionId, TypeOK, slotVars
<1>7. CASE pc' = [pc EXCEPT ![s] = "composed"] /\ UNCHANGED <<result, handed, failed>>
  BY <1>1, <1>5, <1>6, <1>7 DEF TypeOK, Elsewhere
<1>8. CASE Finish(s, "EINVAL", None, request[s].id)
  BY <1>1, <1>5, <1>6, <1>8, FinishEffect DEF Elsewhere
<1>9. QED
  BY <1>7, <1>8 DEF StoreTransactionId

(* The request gets into the slot; unless the write fails the modem may have it.        *)
LEMMA SendEffect ==
  ASSUME TypeOK, NEW s \in Senders, Send(s)
  PROVE  /\ pc[s] = "composed" /\ request[s] \in Message
         /\ pc'[s] \in {"waiting", "returned"}
         /\ s_pRequest' = request[s] /\ s_pResponse' = None
         /\ pending' = pending \/ (pending' = pending \cup {request[s]})
         /\ \/ result'[s] = result[s]
            \/ result'[s].ret \in {"ENODEV", "EIO"} /\ result'[s].resp = None
         /\ pc'[s] = "returned" => result'[s].ret \in {"ENODEV", "EIO"}
         /\ request'[s] = request[s] /\ reg'[s] = reg[s] /\ Elsewhere(s)
         /\ \A t \in Senders : t # s /\ ~overlapped'[t] => ~overlapped[t]
         /\ UNCHANGED <<TransactionId, nextId, raced, handed>>
<1>1. /\ pc[s] = "composed" /\ request[s] \in Message
      /\ s_pRequest' = request[s] /\ s_pResponse' = None
      /\ UNCHANGED <<TransactionId, nextId, raced, request, reg>>
  BY DEF Send, FillSlot, TypeOK
<1>2. pending' = pending \/ (pending' = pending \cup {request[s]})
  BY Zenon DEF Send
<1>3. \A t \in Senders : t # s /\ ~overlapped'[t] => ~overlapped[t]
  BY Zenon DEF Send
<1>4. CASE pc' = [pc EXCEPT ![s] = "waiting"] /\ UNCHANGED <<result, handed, failed>>
  BY <1>1, <1>2, <1>3, <1>4 DEF TypeOK, Elsewhere
<1>5. ASSUME NEW e \in {"ENODEV", "EIO"}, Finish(s, e, None, request[s].id)
      PROVE  /\ pc'[s] = "returned" /\ result'[s].ret = e /\ result'[s].resp = None
             /\ Elsewhere(s) /\ handed' = handed
  <2>1. /\ pc'[s] = "returned" /\ result'[s].ret = e /\ result'[s].resp = None
        /\ \A t \in Senders : t # s => pc'[t] = pc[t] /\ result'[t] = result[t]
        /\ handed' = handed
    BY <1>5, FinishEffect
  <2>2. QED
    BY <1>1, <2>1 DEF Elsewhere
<1>6. \/ pc' = [pc EXCEPT ![s] = "waiting"] /\ UNCHANGED <<result, handed, failed>>
      \/ \E e \in {"ENODEV", "EIO"} : Finish(s, e, None, request[s].id)
  BY DEF Send
<1>7. QED
  BY <1>1, <1>2, <1>3, <1>4, <1>5, <1>6

(* A message that is read goes to the slot and its waiter, or is posted.                *)
LEMMA RecvEffect ==
  ASSUME TypeOK, NEW m \in Message, RecvQMI(m)
  PROVE  /\ s_pRequest' \in {s_pRequest, None}
         /\ \A t \in Senders : pc'[t] # pc[t] => pc[t] = "waiting" /\ pc'[t] = "signaled"
         /\ \/ Awaited(m) /\ s_pResponse' \in {m, None}
            \/ s_pResponse' = s_pResponse
<1>1. CASE Awaited(m) /\ s_pRequest' = None /\ Signal /\ s_pResponse' \in {m, None}
  BY <1>1, SignalType DEF TypeOK
<1>2. CASE UNCHANGED <<slotVars, pc>>
  BY <1>2 DEF slotVars
<1>3. \/ Awaited(m) /\ s_pRequest' = None /\ Signal /\ s_pResponse' \in {m, None}
      \/ UNCHANGED <<slotVars, pc>>
  BY DEF RecvQMI
<1>4. QED
  BY <1>1, <1>2, <1>3

(* The steps of the reader: what they read, and what they leave alone.                  *)
Untouched ==
  UNCHANGED <<TransactionId, reg, request, result, nextId, overlapped, raced, handed>>

LEMMA ReadResponseEffect ==
  ASSUME TypeOK, ReadResponse
  PROVE  Untouched /\ \E m \in pending : RecvQMI(m) /\ pending' = pending \ {m}
BY DEF ReadResponse, Untouched

LEMMA ReadIndicationEffect ==
  ASSUME TypeOK, ReadIndication
  PROVE  /\ Untouched /\ pending' = pending
         /\ \E m \in Message : /\ RecvQMI(m)
                               /\ m.ind = TRUE /\ m.id = 0 /\ m.tid \in IndTids
<1>1. PICK k \in IndKinds, t \in IndTids :
        RecvQMI([kind |-> k, tid |-> t, id |-> 0, ind |-> TRUE])
  BY DEF ReadIndication
<1> DEFINE m == [kind |-> k, tid |-> t, id |-> 0, ind |-> TRUE]
<1>2. m \in Message /\ m.ind = TRUE /\ m.id = 0 /\ m.tid \in IndTids
  BY ConstantsAssumption DEF Message, AllKinds
<1>3. Untouched /\ pending' = pending
  BY DEF ReadIndication, Untouched
<1>4. QED
  BY <1>1, <1>2, <1>3

LEMMA AbortEffect ==
  ASSUME TypeOK, AbortRequest
  PROVE  /\ Untouched /\ pending' = pending
         /\ s_pRequest' \in {s_pRequest, None} /\ s_pResponse' \in {s_pResponse, None}
         /\ \A t \in Senders : pc'[t] # pc[t] => pc[t] = "waiting" /\ pc'[t] = "signaled"
<1>1. Untouched /\ pending' = pending
  BY DEF AbortRequest, Untouched
<1>2. CASE s_pRequest' = None /\ s_pResponse' = None /\ Signal
  BY <1>1, <1>2, SignalType DEF TypeOK
<1>3. CASE UNCHANGED <<slotVars, pc>>
  BY <1>1, <1>3 DEF slotVars
<1>4. QED
  BY <1>2, <1>3 DEF AbortRequest

-------------------------------------------------------------------------------
(* Steps that leave the requests, the messages and the results alone.                 *)
LEMMA IndicationElsewhere ==
  ASSUME IndicationInv, UNCHANGED <<request, pending, s_pRequest, s_pResponse, result>>,
         \A t \in Senders : pc'[t] = "composed" => pc[t] = "composed"
  PROVE  IndicationInv'
BY DEF IndicationInv

(* Nothing was sent or read at first.                                                  *)
LEMMA IndicationInit == Init => IndicationInv
BY DEF Init, IndicationInv, NoResult

(* An indication would need the id of a request, and ids are drawn from 1 on.           *)
LEMMA IndicationNext == TypeOK /\ IndicationInv /\ [Next]_vars => IndicationInv'
<1> SUFFICES ASSUME TypeOK, IndicationInv, [Next]_vars PROVE IndicationInv'
  OBVIOUS
<1>1. ASSUME NEW s \in Senders, ComposeWithoutClient(s) \/ ReturnTimeout(s)
      PROVE  IndicationInv'
  <2>1. /\ pc'[s] = "returned" /\ result'[s].resp = None
        /\ \A t \in Senders : t # s => pc'[t] = pc[t] /\ result'[t] = result[t]
    BY <1>1, FinishEffect DEF ComposeWithoutClient, ReturnTimeout
  <2>2. UNCHANGED <<request, pending, s_pRequest, s_pResponse>>
    BY <1>1 DEF ComposeWithoutClient, ReturnTimeout, slotVars
  <2>3. QED
    BY <2>1, <2>2 DEF IndicationInv
<1>2. ASSUME NEW s \in Senders, NEW k \in Kinds, LoadTransactionId(s, k)
      PROVE  IndicationInv'
  <2>1. request'[s].ind = FALSE
    BY <1>2, LoadEffect
  <2>2. QED
    BY <1>2, <2>1, LoadEffect DEF IndicationInv, Elsewhere
<1>3. ASSUME NEW s \in Senders, StoreTransactionId(s)
      PROVE  IndicationInv'
  <2>1. Wrap(reg[s]) >= 1
    BY <1>3, StoreEffect, ConstantsAssumption DEF TypeOK, Wrap
  <2>2. result'[s].resp = result[s].resp \/ result'[s].resp = None
    BY <1>3, StoreEffect
  <2>3. request[s] # None
    BY <1>3, StoreEffect, ConstantsAssumption
  <2>4. QED
    BY <1>3, <2>1, <2>2, <2>3, StoreEffect DEF IndicationInv, Elsewhere
<1>4. ASSUME NEW s \in Senders, Send(s)
      PROVE  IndicationInv'
  <2>1. request[s] # None
    BY <1>4, SendEffect, ConstantsAssumption
  <2>2. QED
    BY <1>4, <2>1, SendEffect DEF IndicationInv, Elsewhere
<1>5. ASSUME NEW s \in Senders, Wake(s)
      PROVE  IndicationInv'
  <2>1. /\ pc'[s] = "returned" /\ result'[s].resp = s_pResponse
        /\ \A t \in Senders : t # s => pc'[t] = pc[t] /\ result'[t] = result[t]
    BY <1>5, FinishEffect DEF Wake
  <2>2. UNCHANGED <<request, pending, s_pRequest, s_pResponse>>
    BY <1>5 DEF Wake, slotVars
  <2>3. QED
    BY <2>1, <2>2 DEF IndicationInv
<1>6. ASSUME NEW s \in Senders, SpuriousWakeup(s) \/ TimerFires(s)
      PROVE  IndicationInv'
  BY <1>6, IndicationElsewhere DEF SpuriousWakeup, TimerFires, TypeOK, slotVars
<1>7. ASSUME NEW s \in Senders, Return(s)
      PROVE  IndicationInv'
  BY <1>7 DEF Return, IndicationInv, TypeOK, slotVars, NoResult
<1>8. ASSUME OpenClient \/ StartPolling \/ StopReader \/ GobiNetDeInit
      PROVE  IndicationInv'
  BY <1>8, IndicationElsewhere
     DEF OpenClient, StartPolling, StopReader, GobiNetDeInit, slotVars
<1>9. CASE ReadResponse
  <2>1. PICK m \in pending : RecvQMI(m) /\ pending' = pending \ {m}
    BY <1>9, ReadResponseEffect
  <2>2. m \in Message /\ UNCHANGED <<request, result>>
    BY <1>9, ReadResponseEffect DEF TypeOK, Untouched
  <2>3. /\ s_pRequest' \in {s_pRequest, None}
        /\ s_pResponse' \in {s_pResponse, m, None}
        /\ \A t \in Senders : pc'[t] = "composed" => pc[t] = "composed"
    BY <2>1, <2>2, RecvEffect
  <2>4. QED
    BY <2>1, <2>2, <2>3 DEF IndicationInv
<1>10. CASE ReadIndication
  <2>1. PICK m \in Message : /\ RecvQMI(m)
                             /\ m.ind = TRUE /\ m.id = 0 /\ m.tid \in IndTids
    BY <1>10, ReadIndicationEffect
  <2>2. UNCHANGED <<request, result, pending>>
    BY <1>10, ReadIndicationEffect DEF Untouched
  <2>3. /\ s_pRequest' \in {s_pRequest, None}
        /\ \A t \in Senders : pc'[t] = "composed" => pc[t] = "composed"
        /\ \/ Awaited(m) /\ s_pResponse' \in {m, None}
           \/ s_pResponse' = s_pResponse
    BY <2>1, RecvEffect
  <2>4. IndTids \subseteq {0} => s_pResponse' \in {s_pResponse, None}
    <3> SUFFICES ASSUME IndTids \subseteq {0}, Awaited(m) PROVE FALSE
      BY <2>3
    <3>1. s_pRequest.tid >= 1
      BY DEF IndicationInv, Awaited
    <3>2. s_pRequest.tid = 0
      BY <2>1 DEF Awaited, IsResponse
    <3>3. QED
      BY <3>1, <3>2
  <2>5. QED
    BY <2>2, <2>3, <2>4 DEF IndicationInv
<1>11. CASE AbortRequest
  BY <1>11, AbortEffect DEF IndicationInv, Untouched
<1>12. CASE UNCHANGED vars
  BY <1>12, IndicationElsewhere DEF vars
<1>13. QED
  BY <1>1, <1>2, <1>3, <1>4, <1>5, <1>6, <1>7, <1>8, <1>9, <1>10, <1>11, <1>12
     DEF Next, Reader, Sender

(* No call returns an indication that carries the id 0, whoever overlapped it and      *)
(* whatever fails: GetQMUXTransactionId never draws 0.                                 *)
THEOREM IndicationsAnswerNothing == Spec => []IndicationNeverAnswers
<1>1. IndicationInv => IndicationNeverAnswers
  BY DEF IndicationInv, IndicationNeverAnswers, Answered
<1>2. QED
  BY <1>1, TypeInit, TypeNext, IndicationInit, IndicationNext, PTL DEF Spec

-------------------------------------------------------------------------------
(* The id of a request in use is a number below the next one.                         *)
LEMMA IdsInit == Init => IdsInv
BY DEF Init, IdsInv, RequestIds, MessageIds, UnsentIds, NotTaken, Unsent

(* Steps that leave requests, messages and answers alone, and give the mutex to no      *)
(* new waiter.                                                                          *)
LEMMA IdsElsewhere ==
  ASSUME IdsInv,
         UNCHANGED <<request, nextId, pending, s_pResponse, handed, overlapped>>,
         \A t \in Senders : (Unsent(t)' => Unsent(t)) /\ (InWait(t)' => InWait(t))
  PROVE  IdsInv'
BY DEF IdsInv, RequestIds, MessageIds, UnsentIds, NotTaken

(* Each step moves an id on: drawn, written, read, taken.                                *)
LEMMA IdsNext == QuietInv /\ IdsInv /\ [Next]_vars => IdsInv'
<1> SUFFICES ASSUME QuietInv, IdsInv, [Next]_vars PROVE IdsInv'
  OBVIOUS
<1> TypeOK
  BY DEF QuietInv
<1>n. nextId \in Nat /\ nextId >= 1
  BY DEF TypeOK
<1>1. ASSUME NEW s \in Senders, ComposeWithoutClient(s) \/ ReturnTimeout(s)
      PROVE  IdsInv'
  <2>1. /\ pc'[s] = "returned" /\ handed' = handed
        /\ \A t \in Senders : t # s => pc'[t] = pc[t]
    BY <1>1, FinishEffect DEF ComposeWithoutClient, ReturnTimeout
  <2>2. UNCHANGED <<request, nextId, pending, s_pResponse, overlapped>>
    BY <1>1 DEF ComposeWithoutClient, ReturnTimeout, slotVars
  <2>3. QED
    BY <2>1, <2>2, IdsElsewhere DEF Unsent, InWait
<1>2. ASSUME NEW s \in Senders, NEW k \in Kinds, LoadTransactionId(s, k)
      PROVE  IdsInv'
  <2>1. /\ pc'[s] = "numbering"
        /\ request'[s].id = nextId /\ nextId' = nextId + 1
        /\ \A t \in Senders : t # s => pc'[t] = pc[t] /\ request'[t] = request[t]
        /\ UNCHANGED <<s_pResponse, pending, overlapped, handed>>
    BY <1>2, LoadEffect DEF Elsewhere
  <2>2. RequestIds'
    BY <1>n, <2>1 DEF IdsInv, RequestIds
  <2>3. MessageIds'
    BY <1>n, <2>1 DEF IdsInv, MessageIds
  <2>4. UnsentIds'
    BY <1>n, <2>1 DEF IdsInv, UnsentIds, MessageIds, Unsent
  <2>5. NotTaken'
    BY <2>1 DEF IdsInv, NotTaken, InWait
  <2>6. QED
    BY <2>2, <2>3, <2>4, <2>5 DEF IdsInv
<1>3. ASSUME NEW s \in Senders, StoreTransactionId(s)
      PROVE  IdsInv'
  <2>1. /\ pc[s] = "numbering" /\ pc'[s] \in {"composed", "returned"}
        /\ request[s] # None /\ request'[s].id = request[s].id
        /\ \A t \in Senders : t # s => pc'[t] = pc[t] /\ request'[t] = request[t]
        /\ UNCHANGED <<nextId, s_pResponse, pending, overlapped, handed>>
    BY <1>3, StoreEffect, ConstantsAssumption DEF Elsewhere
  <2>2. RequestIds'
    BY <2>1 DEF IdsInv, RequestIds
  <2>3. MessageIds'
    BY <2>1 DEF IdsInv, MessageIds
  <2>4. UnsentIds'
    BY <2>1 DEF IdsInv, UnsentIds, Unsent
  <2>5. NotTaken'
    BY <2>1 DEF IdsInv, NotTaken, InWait
  <2>6. QED
    BY <2>2, <2>3, <2>4, <2>5 DEF IdsInv
<1>4. ASSUME NEW s \in Senders, Send(s)
      PROVE  IdsInv'
  <2>1. /\ pc[s] = "composed" /\ pc'[s] \in {"waiting", "returned"}
        /\ request[s] # None /\ s_pResponse' = None
        /\ pending' = pending \/ (pending' = pending \cup {request[s]})
        /\ \A t \in Senders : request'[t] = request[t]
        /\ \A t \in Senders : t # s => pc'[t] = pc[t]
        /\ UNCHANGED <<nextId, handed>>
    BY <1>4, SendEffect, ConstantsAssumption DEF Elsewhere
  <2>2. RequestIds'
    BY <2>1 DEF IdsInv, RequestIds
  <2>3. /\ request[s].id \in 1..(nextId - 1) /\ request[s].id \notin handed
        /\ \A m \in pending : m.id # request[s].id
    BY <2>1 DEF IdsInv, RequestIds, UnsentIds, Unsent
  <2>4. MessageIds'
    BY <2>1, <2>3 DEF IdsInv, MessageIds
  <2>5. UnsentIds'
    <3> SUFFICES ASSUME NEW t \in Senders, Unsent(t)'
                 PROVE  /\ request[t].id \notin handed
                        /\ \A m \in pending' : m.id # request[t].id
      BY <2>1 DEF UnsentIds
    <3>1. t # s /\ Unsent(t) /\ request[t] # None
      BY <2>1, ConstantsAssumption DEF Unsent, TypeOK
    <3>2. request[t].id # request[s].id
      BY <2>1, <3>1 DEF IdsInv, RequestIds
    <3>3. QED
      BY <2>1, <3>1, <3>2 DEF IdsInv, UnsentIds
  <2>6. NotTaken'
    BY <2>1 DEF NotTaken
  <2>7. QED
    BY <2>2, <2>4, <2>5, <2>6 DEF IdsInv
<1>5. ASSUME NEW s \in Senders, Wake(s)
      PROVE  IdsInv'
  <2>1. /\ pc[s] = "signaled" /\ pc'[s] = "returned"
        /\ handed' = IF s_pResponse = None THEN handed ELSE handed \cup {s_pResponse.id}
        /\ \A t \in Senders : t # s => pc'[t] = pc[t]
        /\ UNCHANGED <<request, nextId, pending, s_pResponse, overlapped>>
    BY <1>5, FinishEffect DEF Wake, slotVars
  <2>2. RequestIds'
    BY <2>1 DEF IdsInv, RequestIds
  <2>3. MessageIds'
    BY <2>1 DEF IdsInv, MessageIds
  <2>4. UnsentIds'
    BY <2>1 DEF IdsInv, UnsentIds, Unsent
  <2>5. NotTaken'
    <3>1. \A t \in Senders : InWait(t)' => t # s /\ InWait(t)
      BY <2>1 DEF InWait
    <3>2. \A t \in Senders : InWait(t) /\ ~overlapped[t] => t = s
      BY <2>1 DEF QuietInv, QuietIsAlone, InWait
    <3>3. QED
      BY <2>1, <3>1, <3>2 DEF NotTaken
  <2>6. QED
    BY <2>2, <2>3, <2>4, <2>5 DEF IdsInv
<1>6. ASSUME NEW s \in Senders, SpuriousWakeup(s) \/ TimerFires(s)
      PROVE  IdsInv'
  BY <1>6, IdsElsewhere
     DEF SpuriousWakeup, TimerFires, TypeOK, slotVars, historyVars, Unsent, InWait
<1>7. ASSUME NEW s \in Senders, Return(s)
      PROVE  IdsInv'
  <2>1. /\ pc'[s] = "idle" /\ request'[s] = None
        /\ \A t \in Senders : t # s => pc'[t] = pc[t] /\ request'[t] = request[t]
        /\ UNCHANGED <<nextId, pending, s_pResponse, overlapped, handed>>
    BY <1>7 DEF Return, TypeOK, slotVars, historyVars
  <2>2. QED
    BY <2>1 DEF IdsInv, RequestIds, MessageIds, UnsentIds, NotTaken, Unsent, InWait
<1>8. ASSUME OpenClient \/ StartPolling \/ StopReader \/ GobiNetDeInit
      PROVE  IdsInv'
  BY <1>8, IdsElsewhere
     DEF OpenClient, StartPolling, StopReader, GobiNetDeInit, slotVars, historyVars,
         Unsent, InWait
<1>9. ASSUME Untouched,
             \A t \in Senders : pc'[t] # pc[t] => pc[t] = "waiting" /\ pc'[t] = "signaled"
      PROVE  /\ RequestIds'
             /\ \A t \in Senders : /\ Unsent(t)' => Unsent(t)
                                   /\ InWait(t)' => InWait(t)
  BY <1>9 DEF Untouched, IdsInv, RequestIds, Unsent, InWait
<1>10. CASE ReadResponse
  <2>1. PICK m \in pending : RecvQMI(m) /\ pending' = pending \ {m}
    BY <1>10, ReadResponseEffect
  <2>2. m \in Message /\ Untouched
    BY <1>10, ReadResponseEffect DEF TypeOK
  <2>3. s_pResponse' \in {s_pResponse, m, None}
    BY <2>1, <2>2, RecvEffect
  <2>4. /\ RequestIds'
        /\ \A t \in Senders : (Unsent(t)' => Unsent(t)) /\ (InWait(t)' => InWait(t))
    BY <1>9, <2>1, <2>2, RecvEffect
  <2>5. MessageIds'
    <3>1. \A n \in pending' : n \in pending /\ n.id # m.id
      BY <2>1 DEF IdsInv, MessageIds
    <3>2. QED
      BY <1>n, <2>1, <2>2, <2>3, <3>1 DEF IdsInv, MessageIds, Untouched
  <2>6. UnsentIds'
    BY <2>1, <2>2, <2>3, <2>4 DEF IdsInv, UnsentIds, Untouched
  <2>7. NotTaken'
    BY <2>1, <2>2, <2>3, <2>4 DEF IdsInv, NotTaken, MessageIds, Untouched
  <2>8. QED
    BY <2>4, <2>5, <2>6, <2>7 DEF IdsInv
<1>11. CASE ReadIndication
  <2>1. PICK m \in Message : RecvQMI(m) /\ m.ind = TRUE /\ m.id = 0
    BY <1>11, ReadIndicationEffect
  <2>2. pending' = pending /\ Untouched
    BY <1>11, ReadIndicationEffect
  <2>3. s_pResponse' \in {s_pResponse, m, None}
    BY <2>1, RecvEffect
  <2>4. /\ RequestIds'
        /\ \A t \in Senders : (Unsent(t)' => Unsent(t)) /\ (InWait(t)' => InWait(t))
    BY <1>9, <2>1, <2>2, RecvEffect
  <2>5. MessageIds'
    BY <1>n, <2>1, <2>2, <2>3 DEF IdsInv, MessageIds, Untouched
  <2>6. UnsentIds'
    <3>1. \A t \in Senders : Unsent(t) => request[t].id # 0
      BY ConstantsAssumption DEF Unsent, TypeOK, IdsInv, RequestIds
    <3>2. QED
      BY <2>1, <2>2, <2>3, <2>4, <3>1 DEF IdsInv, UnsentIds, Untouched
  <2>7. NotTaken'
    BY <2>1, <2>2, <2>3, <2>4 DEF IdsInv, NotTaken, Untouched
  <2>8. QED
    BY <2>4, <2>5, <2>6, <2>7 DEF IdsInv
<1>12. CASE AbortRequest
  <2>1. pending' = pending /\ Untouched /\ s_pResponse' \in {s_pResponse, None}
    BY <1>12, AbortEffect
  <2>2. /\ RequestIds'
        /\ \A t \in Senders : (Unsent(t)' => Unsent(t)) /\ (InWait(t)' => InWait(t))
    BY <1>9, <1>12, AbortEffect
  <2>3. QED
    BY <2>1, <2>2 DEF IdsInv, MessageIds, UnsentIds, NotTaken, Untouched
<1>13. CASE UNCHANGED vars
  BY <1>13, IdsElsewhere DEF vars, historyVars, Unsent, InWait
<1>14. QED
  BY <1>1, <1>2, <1>3, <1>4, <1>5, <1>6, <1>7, <1>8, <1>10, <1>11, <1>12, <1>13
     DEF Next, Reader, Sender

(* A quiet call that is signalled never finds a response that a call took before it,     *)
(* also after failed writes, lost copies and spurious wakeups.                            *)
THEOREM QuietAnswersAreTakenOnce == Spec => []QuietAnswerTakenOnce
<1>1. IdsInv => QuietAnswerTakenOnce
  BY DEF IdsInv, NotTaken, QuietAnswerTakenOnce, InWait
<1>2. QED
  BY <1>1, QuietInit, QuietNext, IdsInit, IdsNext, PTL
     DEF Spec, QuietInv

-------------------------------------------------------------------------------
(* The parts of OwnInv hold before the first request.                                  *)
LEMMA OwnInit == Init => OwnInv
BY DEF Init, OwnInv, OwnParts, DrawnInTurn, NumberedById, SameIdSameMessage, OwnAnswers,
       Sent, Answered

(* Steps that draw no id, send nothing and leave messages, answers and results alone.  *)
LEMMA OwnElsewhere ==
  ASSUME OwnParts,
         UNCHANGED <<TransactionId, reg, request, result, nextId, overlapped>>,
         pending' \subseteq pending,
         s_pResponse' \in {s_pResponse, None} \cup pending
           \/ (s_pResponse' # None /\ s_pResponse'.ind),
         \A t \in Senders :
           /\ pc'[t] = "numbering" <=> pc[t] = "numbering"
           /\ pc'[t] = "composed" => pc[t] = "composed"
           /\ Sent(t)' => Sent(t)
           /\ pc'[t] = "returned" => pc[t] = "returned"
  PROVE  OwnParts'
<1>1. DrawnInTurn'
  BY DEF OwnParts, DrawnInTurn
<1>2. NumberedById'
  BY DEF OwnParts, NumberedById
<1>3. SameIdSameMessage'
  BY DEF OwnParts, SameIdSameMessage
<1>4. OwnAnswers'
  BY DEF OwnParts, OwnAnswers, Answered
<1>5. QED
  BY <1>1, <1>2, <1>3, <1>4 DEF OwnParts

(* What a quiet call finds when it was signalled is the response to its own request.    *)
LEMMA TakesOwn ==
  ASSUME QuietInv, IndicationInv, OwnInv, OwnPremise,
         NEW s \in Senders, pc[s] = "signaled", ~overlapped[s], s_pResponse # None
  PROVE  s_pResponse = request[s]
<1>1. s_pResponse.tid = request[s].tid
  BY DEF QuietInv, QuietSignaled, IsResponse
<1>2. ~s_pResponse.ind
  BY DEF IndicationInv, OwnPremise
<1>3. s_pResponse.id = request[s].id
  BY <1>1, <1>2 DEF OwnInv, OwnParts, NumberedById, Sent
<1>4. QED
  BY <1>2, <1>3 DEF OwnInv, OwnParts, SameIdSameMessage, Sent

(* Nobody else draws an id in between, so that ids are drawn in the order of requests;  *)
(* what a call is signalled for then has its number, and is its own.                    *)
LEMMA OwnNext ==
  QuietInv /\ IndicationInv /\ IdsInv /\ OwnInv /\ [Next]_vars => OwnInv'
<1> SUFFICES ASSUME QuietInv, IndicationInv, IdsInv, OwnInv, [Next]_vars, OwnPremise'
             PROVE  OwnParts'
  BY DEF OwnInv
<1> TypeOK
  BY DEF QuietInv
<1>r. raced => raced'
  BY Zenon DEF Next, Reader, Sender, ComposeWithoutClient, LoadTransactionId,
       StoreTransactionId, Send, Wake, SpuriousWakeup, TimerFires, ReturnTimeout,
       Return, OpenClient, StartPolling, ReadResponse, ReadIndication, StopReader,
       GobiNetDeInit, AbortRequest, historyVars, vars
<1>p. OwnPremise /\ OwnParts
  BY <1>r DEF OwnInv, OwnPremise
<1>n. nextId \in Nat /\ nextId >= 1 /\ nextId - 1 <= MaxTid
  BY <1>p, ConstantsAssumption DEF TypeOK, OwnPremise
<1>1. ASSUME NEW s \in Senders, ComposeWithoutClient(s) \/ ReturnTimeout(s)
      PROVE  OwnParts'
  <2>1. /\ pc[s] \in {"idle", "expired"} /\ pc'[s] = "returned"
        /\ result'[s].resp = None
        /\ \A t \in Senders : t # s => pc'[t] = pc[t] /\ result'[t] = result[t]
    BY <1>1, FinishEffect DEF ComposeWithoutClient, ReturnTimeout
  <2>2. UNCHANGED <<TransactionId, reg, request, nextId, pending, s_pResponse, overlapped>>
    BY <1>1 DEF ComposeWithoutClient, ReturnTimeout, slotVars
  <2>3. DrawnInTurn'
    BY <1>p, <2>1, <2>2 DEF OwnParts, DrawnInTurn
  <2>4. NumberedById' /\ SameIdSameMessage'
    BY <1>p, <2>1, <2>2 DEF OwnParts, NumberedById, SameIdSameMessage, Sent
  <2>5. OwnAnswers'
    BY <1>p, <2>1, <2>2 DEF OwnParts, OwnAnswers, Answered
  <2>6. QED
    BY <2>3, <2>4, <2>5 DEF OwnParts
<1>2. ASSUME NEW s \in Senders, NEW k \in Kinds, LoadTransactionId(s, k)
      PROVE  OwnParts'
  <2>1. /\ pc'[s] = "numbering"
        /\ request'[s].id = nextId /\ nextId' = nextId + 1
        /\ reg'[s] = TransactionId + 1
        /\ \A t \in Senders : t # s => /\ pc'[t] = pc[t] /\ request'[t] = request[t]
                                      /\ result'[t] = result[t] /\ reg'[t] = reg[t]
        /\ UNCHANGED <<TransactionId, s_pResponse, pending, overlapped>>
    BY <1>2, LoadEffect DEF Elsewhere
  <2>2. \A t \in Senders : pc[t] # "numbering"
    BY <1>2, LoadEffect DEF OwnPremise
  <2>3. DrawnInTurn'
    BY <1>n, <1>p, <2>1, <2>2 DEF OwnParts, DrawnInTurn
  <2>4. NumberedById' /\ SameIdSameMessage'
    BY <1>p, <2>1 DEF OwnParts, NumberedById, SameIdSameMessage, Sent
  <2>5. OwnAnswers'
    BY <1>p, <2>1 DEF OwnParts, OwnAnswers, Answered
  <2>6. QED
    BY <2>3, <2>4, <2>5 DEF OwnParts
<1>3. ASSUME NEW s \in Senders, StoreTransactionId(s)
      PROVE  OwnParts'
  <2>1. /\ pc[s] = "numbering" /\ pc'[s] \in {"composed", "returned"}
        /\ pc'[s] = "returned" => result'[s].ret = "EINVAL"
        /\ TransactionId' = Wrap(reg[s])
        /\ request'[s].tid = Wrap(reg[s]) /\ request'[s].id = request[s].id
        /\ \A t \in Senders : t # s => /\ pc'[t] = pc[t] /\ request'[t] = request[t]
                                      /\ result'[t] = result[t] /\ reg'[t] = reg[t]
        /\ UNCHANGED <<nextId, s_pResponse, pending, overlapped>>
    BY <1>3, StoreEffect DEF Elsewhere
  <2>2. /\ reg[s] = nextId - 1 /\ request[s].id = nextId - 1
        /\ \A t \in Senders : pc[t] = "numbering" => t = s
    BY <1>p, <2>1 DEF OwnParts, DrawnInTurn
  <2>3. Wrap(reg[s]) = nextId - 1
    BY <1>n, <2>2, ConstantsAssumption DEF Wrap
  <2>4. DrawnInTurn'
    BY <2>1, <2>2, <2>3 DEF DrawnInTurn
  <2>5. NumberedById'
    BY <1>p, <2>1, <2>2, <2>3 DEF OwnParts, NumberedById, Sent
  <2>6. SameIdSameMessage'
    BY <1>p, <2>1 DEF OwnParts, SameIdSameMessage, Sent
  <2>7. OwnAnswers'
    BY <1>p, <2>1 DEF OwnParts, OwnAnswers, Answered
  <2>8. QED
    BY <2>4, <2>5, <2>6, <2>7 DEF OwnParts
<1>4. ASSUME NEW s \in Senders, Send(s)
      PROVE  OwnParts'
  <2>1. /\ pc[s] = "composed" /\ pc'[s] \in {"waiting", "returned"}
        /\ pc'[s] = "returned" => result'[s].ret \in {"ENODEV", "EIO"}
        /\ request[s] \in Message /\ request[s] # None /\ s_pResponse' = None
        /\ pending' = pending \/ (pending' = pending \cup {request[s]})
        /\ request'[s] = request[s] /\ reg'[s] = reg[s]
        /\ \A t \in Senders : t # s => /\ pc'[t] = pc[t] /\ request'[t] = request[t]
                                      /\ result'[t] = result[t] /\ reg'[t] = reg[t]
        /\ \A t \in Senders : t # s /\ ~overlapped'[t] => ~overlapped[t]
        /\ UNCHANGED <<TransactionId, nextId>>
    BY <1>4, SendEffect, ConstantsAssumption DEF Elsewhere
  <2>2. \A m \in pending' : m \in pending \/ m = request[s]
    BY <2>1
  <2>3. request[s].tid = request[s].id
    BY <1>p, <2>1 DEF OwnParts, NumberedById
  <2>4. DrawnInTurn'
    BY <1>p, <2>1 DEF OwnParts, DrawnInTurn
  <2>5. NumberedById'
    BY <1>p, <2>1, <2>2, <2>3 DEF OwnParts, NumberedById, Sent
  <2>6. SameIdSameMessage'
    <3> SUFFICES ASSUME NEW t \in Senders, Sent(t)', NEW m \in pending',
                        m.id = request'[t].id
                 PROVE  m = request'[t]
      BY <2>1 DEF SameIdSameMessage
    <3>1. CASE t = s
      <4>1. \A n \in pending : n.id # request[s].id
        BY <2>1 DEF IdsInv, UnsentIds, Unsent
      <4>2. QED
        BY <2>1, <2>2, <3>1, <4>1
    <3>2. CASE t # s
      <4>1. Sent(t) /\ request'[t] = request[t]
        BY <2>1, <3>2 DEF Sent
      <4>2. request[t] # None
        BY <4>1, ConstantsAssumption DEF Sent, TypeOK
      <4>3. request[t].id # request[s].id
        BY <2>1, <3>2, <4>2 DEF IdsInv, RequestIds
      <4>4. QED
        BY <1>p, <2>2, <4>1, <4>3 DEF OwnParts, SameIdSameMessage
    <3>3. QED
      BY <3>1, <3>2
  <2>7. OwnAnswers'
    BY <1>p, <2>1 DEF OwnParts, OwnAnswers, Answered
  <2>8. QED
    BY <2>4, <2>5, <2>6, <2>7 DEF OwnParts
<1>5. ASSUME NEW s \in Senders, Wake(s)
      PROVE  OwnParts'
  <2>1. /\ pc[s] = "signaled" /\ pc'[s] = "returned" /\ result'[s].resp = s_pResponse
        /\ \A t \in Senders : t # s => pc'[t] = pc[t] /\ result'[t] = result[t]
        /\ UNCHANGED <<TransactionId, reg, request, nextId, pending, s_pResponse,
                       overlapped>>
    BY <1>5, FinishEffect DEF Wake, slotVars
  <2>2. DrawnInTurn'
    BY <1>p, <2>1 DEF OwnParts, DrawnInTurn
  <2>3. NumberedById' /\ SameIdSameMessage'
    BY <1>p, <2>1 DEF OwnParts, NumberedById, SameIdSameMessage, Sent
  <2>4. ~overlapped[s] /\ s_pResponse # None => s_pResponse = request[s]
    BY <1>p, <2>1, TakesOwn DEF OwnInv
  <2>5. OwnAnswers'
    BY <1>p, <2>1, <2>4 DEF OwnParts, OwnAnswers, Answered
  <2>6. QED
    BY <2>2, <2>3, <2>5 DEF OwnParts
<1>6. ASSUME NEW s \in Senders, SpuriousWakeup(s) \/ TimerFires(s)
      PROVE  OwnParts'
  <2>1. /\ pc[s] = "waiting" /\ pc'[s] \in {"signaled", "expired"}
        /\ \A t \in Senders : t # s => pc'[t] = pc[t]
        /\ UNCHANGED <<TransactionId, reg, request, result, nextId, pending, s_pResponse,
                       overlapped>>
    BY <1>6 DEF SpuriousWakeup, TimerFires, TypeOK, slotVars, historyVars
  <2>2. QED
    BY <1>p, <2>1, OwnElsewhere DEF Sent
<1>7. ASSUME NEW s \in Senders, Return(s)
      PROVE  OwnParts'
  <2>1. /\ pc[s] = "returned" /\ pc'[s] = "idle"
        /\ \A t \in Senders : t # s => /\ pc'[t] = pc[t] /\ request'[t] = request[t]
                                      /\ result'[t] = result[t]
        /\ UNCHANGED <<TransactionId, reg, nextId, pending, s_pResponse, overlapped>>
    BY <1>7 DEF Return, TypeOK, slotVars, historyVars
  <2>2. DrawnInTurn'
    BY <1>p, <2>1 DEF OwnParts, DrawnInTurn
  <2>3. NumberedById' /\ SameIdSameMessage'
    BY <1>p, <2>1 DEF OwnParts, NumberedById, SameIdSameMessage, Sent
  <2>4. OwnAnswers'
    BY <1>p, <2>1 DEF OwnParts, OwnAnswers, Answered
  <2>5. QED
    BY <2>2, <2>3, <2>4 DEF OwnParts
<1>8. ASSUME OpenClient \/ StartPolling \/ StopReader \/ GobiNetDeInit
      PROVE  OwnParts'
  BY <1>8, <1>p, OwnElsewhere
     DEF OpenClient, StartPolling, StopReader, GobiNetDeInit, slotVars, historyVars, Sent
<1>9. ASSUME Untouched, pending' \subseteq pending,
             s_pResponse' \in {s_pResponse, None} \cup pending
               \/ (s_pResponse' # None /\ s_pResponse'.ind),
             \A t \in Senders : pc'[t] # pc[t] => pc[t] = "waiting" /\ pc'[t] = "signaled"
      PROVE  OwnParts'
  BY <1>9, <1>p, OwnElsewhere DEF Untouched, Sent
<1>10. CASE ReadResponse
  <2>1. PICK m \in pending : RecvQMI(m) /\ pending' = pending \ {m}
    BY <1>10, ReadResponseEffect
  <2>2. m \in Message /\ Untouched
    BY <1>10, ReadResponseEffect DEF TypeOK
  <2>3. QED
    BY <1>9, <2>1, <2>2, RecvEffect
<1>11. CASE ReadIndication
  <2>1. PICK m \in Message : RecvQMI(m) /\ m.ind = TRUE
    BY <1>11, ReadIndicationEffect
  <2>2. pending' = pending /\ Untouched /\ m # None
    BY <1>11, ReadIndicationEffect, ConstantsAssumption
  <2>3. QED
    BY <1>9, <2>1, <2>2, RecvEffect
<1>12. CASE AbortRequest
  BY <1>9, <1>12, AbortEffect
<1>13. CASE UNCHANGED vars
  BY <1>13, <1>p, OwnElsewhere DEF vars, historyVars, Sent
<1>14. QED
  BY <1>1, <1>2, <1>3, <1>4, <1>5, <1>6, <1>7, <1>8, <1>10, <1>11, <1>12, <1>13
     DEF Next, Reader, Sender

(* A quiet call gets the response to its very own request, as long as no two ids were   *)
(* drawn at the same time and the counter did not wrap: an answer to a call that timed  *)
(* out is not taken for the next one's.                                                  *)
THEOREM QuietAnswersAreOwn == Spec => []QuietAnswerIsOwn
<1>1. OwnInv => QuietAnswerIsOwn
  BY DEF OwnInv, OwnPremise, OwnParts, OwnAnswers, QuietAnswerIsOwn
<1>2. QED
  BY <1>1, QuietInit, QuietNext, TypeInit, IndicationInit, IndicationNext, IdsInit,
     IdsNext, OwnInit, OwnNext, PTL DEF Spec, QuietInv

-------------------------------------------------------------------------------
(* Where the request of a response that may still come is: in the slot, unless another *)
(* one pushed it out.                                                                  *)
WhereRequestsAre ==
  /\ phase # "aborted" => \A m \in pending : s_pRequest = m \/ m.id \in replaced
  /\ posted.event # "none" /\ ~posted.msg.ind => posted.msg.id \in replaced

SlotInv == OwnPremise => WhereRequestsAre

LEMMA SlotInit == Init => SlotInv
BY DEF Init, SlotInv, WhereRequestsAre, NoEvent

LEMMA SlotElsewhere ==
  ASSUME WhereRequestsAre, UNCHANGED <<s_pRequest, pending, posted, replaced>>,
         phase' # "aborted" => phase # "aborted"
  PROVE  WhereRequestsAre'
BY DEF WhereRequestsAre

(* A response that is read leaves the slot to no other one that may still come.        *)
LEMMA SlotNext ==
  QuietInv /\ IndicationInv /\ IdsInv /\ OwnInv /\ SlotInv /\ [Next]_vars => SlotInv'
<1> SUFFICES ASSUME QuietInv, IndicationInv, IdsInv, OwnInv, SlotInv, [Next]_vars,
                    OwnPremise'
             PROVE  WhereRequestsAre'
  BY DEF SlotInv
<1> TypeOK
  BY DEF QuietInv
<1>r. raced => raced'
  BY Zenon DEF Next, Reader, Sender, ComposeWithoutClient, LoadTransactionId,
     StoreTransactionId, Send, Wake, SpuriousWakeup, TimerFires, ReturnTimeout, Return,
     OpenClient, StartPolling, ReadResponse, ReadIndication, StopReader, GobiNetDeInit,
     AbortRequest, historyVars, vars
<1>p. OwnPremise /\ OwnParts /\ WhereRequestsAre
  BY <1>r DEF OwnPremise, OwnInv, SlotInv
<1>1. ASSUME NEW s \in Senders,
             \/ ComposeWithoutClient(s) \/ StoreTransactionId(s) \/ Wake(s)
             \/ SpuriousWakeup(s) \/ TimerFires(s) \/ ReturnTimeout(s) \/ Return(s)
             \/ \E k \in Kinds : LoadTransactionId(s, k)
      PROVE  WhereRequestsAre'
  <2>1. UNCHANGED <<s_pRequest, pending, posted, replaced, phase>>
    BY <1>1, Zenon DEF ComposeWithoutClient, StoreTransactionId, Wake, SpuriousWakeup,
       TimerFires, ReturnTimeout, Return, LoadTransactionId, historyVars, slotVars,
       readerVars
  <2>2. QED
    BY <1>p, <2>1, SlotElsewhere
<1>2. ASSUME NEW s \in Senders, Send(s)
      PROVE  WhereRequestsAre'
  <2>1. /\ s_pRequest' = request[s]
        /\ pending' = pending \/ pending' = pending \cup {request[s]}
    BY <1>2, SendEffect
  <2>2. /\ UNCHANGED <<phase, posted>>
        /\ replaced' = IF s_pRequest = None THEN replaced
                       ELSE replaced \cup {s_pRequest.id}
    BY <1>2 DEF Send, readerVars
  <2>3. \A m \in pending : m # None
    BY ConstantsAssumption DEF TypeOK
  <2>4. QED
    BY <1>p, <2>1, <2>2, <2>3 DEF WhereRequestsAre
<1>3. CASE OpenClient \/ StartPolling \/ StopReader \/ GobiNetDeInit
  <2>1. /\ UNCHANGED <<s_pRequest, pending, posted, replaced>>
        /\ phase' # "aborted" => phase # "aborted"
    BY <1>3 DEF OpenClient, StartPolling, StopReader, GobiNetDeInit, slotVars, historyVars
  <2>2. QED
    BY <1>p, <2>1, SlotElsewhere
<1>4. CASE ReadResponse
  <2>1. PICK m \in pending : RecvQMI(m) /\ pending' = pending \ {m}
    BY <1>4, ReadResponseEffect
  <2>2. phase = "polling" /\ UNCHANGED <<phase, replaced>>
    BY <1>4 DEF ReadResponse, readerVars
  <2>3. CASE ~Awaited(m) /\ posted' = [event |-> EventOf(m), msg |-> m]
             /\ UNCHANGED slotVars
    <3>1. m.id \in replaced
      BY <1>p, <2>2, <2>3, ConstantsAssumption
         DEF WhereRequestsAre, Awaited, IsResponse, TypeOK
    <3>2. posted'.msg = m
      BY <2>3
    <3>3. QED
      BY <1>p, <2>1, <2>2, <2>3, <3>1, <3>2 DEF WhereRequestsAre, slotVars
  <2>4. CASE Awaited(m) /\ posted' = NoEvent
    <3>1. ASSUME NEW n \in pending, n # m
          PROVE  n.id \in replaced
      <4>1. s_pRequest # n
        <5> SUFFICES ASSUME s_pRequest = n PROVE FALSE
          OBVIOUS
        <5>1. n.tid = m.tid
          BY <2>4 DEF Awaited, IsResponse
        <5>2. n.tid = n.id /\ m.tid = m.id
          BY <1>p DEF OwnParts, NumberedById
        <5>3. QED
          BY <3>1, <5>1, <5>2 DEF IdsInv, MessageIds
      <4>2. QED
        BY <1>p, <2>2, <4>1 DEF WhereRequestsAre
    <3>2. QED
      BY <2>1, <2>2, <2>4, <3>1 DEF WhereRequestsAre, NoEvent
  <2>5. QED
    BY <2>1, <2>3, <2>4 DEF RecvQMI
<1>5. CASE ReadIndication
  <2>1. PICK m \in Message : /\ RecvQMI(m)
                             /\ m.ind = TRUE /\ m.id = 0 /\ m.tid \in IndTids
    BY <1>5, ReadIndicationEffect
  <2>2. UNCHANGED <<phase, pending, replaced>>
    BY <1>5 DEF ReadIndication, readerVars
  <2>3. ~Awaited(m)
    <3> SUFFICES ASSUME Awaited(m) PROVE FALSE
      OBVIOUS
    <3>1. s_pRequest # None /\ s_pRequest.tid = m.tid
      BY DEF Awaited, IsResponse
    <3>2. m.tid = 0 /\ s_pRequest.tid >= 1
      BY <1>p, <2>1, <3>1 DEF OwnPremise, IndicationInv
    <3>3. QED
      BY <3>1, <3>2
  <2>4. posted' = [event |-> EventOf(m), msg |-> m] /\ UNCHANGED slotVars
    BY <2>1, <2>3 DEF RecvQMI
  <2>5. posted'.msg.ind
    BY <2>1, <2>4
  <2>6. QED
    BY <1>p, <2>2, <2>4, <2>5 DEF WhereRequestsAre, slotVars
<1>6. CASE AbortRequest
  <2>1. phase' = "aborted" /\ UNCHANGED <<posted, replaced>>
    BY <1>6 DEF AbortRequest
  <2>2. QED
    BY <1>p, <2>1 DEF WhereRequestsAre
<1>7. CASE UNCHANGED vars
  BY <1>p, <1>7, SlotElsewhere DEF vars, historyVars
<1>8. QED
  BY <1>1, <1>2, <1>3, <1>4, <1>5, <1>6, <1>7 DEF Next, Reader, Sender

(* A response is posted as an event only if another request has pushed its own out of  *)
(* the slot: one that is late, or whose call failed, is still matched and absorbed.    *)
THEOREM LateResponsesAreAbsorbed == Spec => []OnlyReplacedAreEvents
<1>1. SlotInv => OnlyReplacedAreEvents
  BY DEF SlotInv, OwnPremise, WhereRequestsAre, OnlyReplacedAreEvents
<1>2. QED
  BY <1>1, QuietInit, QuietNext, TypeInit, IndicationInit, IndicationNext, IdsInit,
     IdsNext, OwnInit, OwnNext, SlotInit, SlotNext, PTL DEF Spec, QuietInv

-------------------------------------------------------------------------------
(* A thread that is alone: the safety half of ImplementsQmiCall.                       *)
Lone(me) == Senders = {me} /\ MaxRequests <= MaxTid /\ IndTids \subseteq {0}

InCall(s) == pc[s] = "numbering" \/ pc[s] = "composed" \/ Sent(s)

Ended(i) == i \in handed \/ i \in failed

(* Only the last request may be open, and only while its call runs.                    *)
LoneInv(me) ==
  /\ ~raced
  /\ ~overlapped[me]
  /\ \A i \in failed : i < nextId
  /\ InCall(me) =>
       /\ request[me].id = nextId - 1
       /\ nextId > 1
       /\ ~Ended(nextId - 1)
  /\ \A i \in 1..MaxRequests :
       i < nextId /\ ~Ended(i) => InCall(me) /\ i = nextId - 1

LEMMA LoneInit ==
  ASSUME NEW me, Lone(me), Init
  PROVE  LoneInv(me) /\ Call!Init
<1>1. LoneInv(me)
  BY ConstantsAssumption DEF Lone, Init, LoneInv, InCall, Sent
<1>2. Call!Init
  BY ConstantsAssumption DEF Init, Call!Init, Call!Ids, Status
<1>3. QED
  BY <1>1, <1>2

(* A request is issued when the one before it has ended.                                *)
LEMMA LoneLoad ==
  ASSUME NEW me, Lone(me), TypeOK, IdsInv, LoneInv(me),
         NEW k \in Kinds, LoadTransactionId(me, k)
  PROVE  LoneInv(me)' /\ Call!Next
<1>1. /\ pc[me] = "idle" /\ pc'[me] = "numbering"
      /\ request'[me].id = nextId
      /\ nextId \in 1..MaxRequests /\ nextId' = nextId + 1
      /\ raced' = (raced \/ \E t \in Senders : pc[t] = "numbering")
      /\ UNCHANGED <<overlapped, handed>>
  <2>1. me \in Senders
    BY DEF Lone
  <2>2. nextId \in 1..(MaxRequests + 1) /\ MaxRequests \in Nat
    BY ConstantsAssumption DEF TypeOK
  <2>3. /\ pc[me] = "idle" /\ pc'[me] = "numbering"
        /\ request'[me].id = nextId
        /\ nextId <= MaxRequests /\ nextId' = nextId + 1
        /\ UNCHANGED <<overlapped, handed>>
    BY <2>1, LoadEffect
  <2>4. raced' = (raced \/ \E t \in Senders : pc[t] = "numbering")
    BY <2>1, LoadEffect, Zenon
  <2>5. QED
    BY <2>2, <2>3, <2>4
<1>2. failed' = failed
  BY DEF LoadTransactionId
<1>3. ~raced'
  BY <1>1 DEF Lone, LoneInv
<1>4. nextId \notin handed /\ nextId \notin failed
  BY <1>1 DEF IdsInv, MessageIds, LoneInv
<1>5. \A i \in 1..MaxRequests : i < nextId => Ended(i)
  BY <1>1 DEF LoneInv, InCall, Sent
<1>6. LoneInv(me)'
  <2>1. nextId \in Nat /\ nextId >= 1 /\ nextId' - 1 = nextId
    BY <1>1
  <2>2. \A i \in failed' : i < nextId'
    <3>1. \A i \in failed : i \in Nat
      BY ConstantsAssumption DEF TypeOK
    <3>2. QED
      BY <1>1, <1>2, <2>1, <3>1 DEF LoneInv
  <2>3. \A i \in 1..MaxRequests : i < nextId' => i < nextId \/ i = nextId
    BY <1>1, <2>1
  <2>4. InCall(me)' /\ ~overlapped'[me]
    BY <1>1 DEF InCall, LoneInv
  <2>5. \A i : Ended(i)' <=> Ended(i)
    BY <1>1, <1>2 DEF Ended
  <2>6. ~Ended(nextId)
    BY <1>4 DEF Ended
  <2>7. QED
    BY <1>1, <1>3, <1>5, <2>1, <2>2, <2>3, <2>4, <2>5, <2>6 DEF LoneInv
<1>7. Call!Open(nextId)
  <2>1. \A j \in 1..MaxRequests :
          IF j < nextId THEN Status[j] \in {"answered", "failed"} ELSE Status[j] = "new"
    BY <1>1, <1>5 DEF Status, Ended
  <2>2. Status' = [Status EXCEPT ![nextId] = "open"]
    <3>1. \A i \in 1..MaxRequests : i # nextId => (i >= nextId' <=> i >= nextId)
      BY <1>1
    <3>2. ~(nextId >= nextId')
      BY <1>1
    <3>3. QED
      BY <1>1, <1>2, <1>4, <3>1, <3>2 DEF Status
  <2>3. QED
    BY <1>1, <2>1, <2>2 DEF Call!Open, Call!Ids
<1>8. QED
  BY <1>1, <1>6, <1>7 DEF Call!Next, Call!Ids

(* A call that ends answers its request, or fails it.                                    *)
LEMMA LoneFinish ==
  ASSUME NEW me, Lone(me), TypeOK, LoneInv(me), InCall(me),
         NEW ret, NEW resp, Finish(me, ret, resp, request[me].id),
         resp = None \/ resp = request[me],
         UNCHANGED <<nextId, raced>>, ~overlapped'[me]
  PROVE  LoneInv(me)' /\ Call!Next
<1> DEFINE id == request[me].id
<1>1. /\ id \in 1..MaxRequests /\ id = nextId - 1 /\ id < nextId /\ ~(id >= nextId)
      /\ ~Ended(id) /\ nextId \in Nat /\ nextId' = nextId
  <2>1. request[me] \in Message
    BY DEF Lone, TypeOK, InCall, Sent
  <2>2. QED
    BY <2>1, ConstantsAssumption DEF LoneInv, TypeOK, Message
<1>2. pc'[me] = "returned"
  BY FinishEffect DEF Lone
<1>3. \/ handed' = handed \cup {id} /\ failed' = failed
      \/ handed' = handed /\ failed' = failed \cup {id}
  BY <1>1 DEF Finish
<1>4. LoneInv(me)'
  BY <1>1, <1>2, <1>3 DEF LoneInv, InCall, Sent, Ended
<1>5. CASE handed' = handed \cup {id} /\ failed' = failed
  <2>1. Status[id] = "open"
    BY <1>1 DEF Status, Ended
  <2>2. Status' = [Status EXCEPT ![id] = "answered"]
    BY <1>1, <1>5 DEF Status, Ended
  <2>3. QED
    BY <1>1, <1>4, <2>1, <2>2 DEF Call!Answer, Call!Next, Call!Ids
<1>6. CASE handed' = handed /\ failed' = failed \cup {id}
  <2>1. Status[id] = "open"
    BY <1>1 DEF Status, Ended
  <2>2. Status' = [Status EXCEPT ![id] = "failed"]
    BY <1>1, <1>6 DEF Status, Ended
  <2>3. QED
    BY <1>1, <1>4, <2>1, <2>2 DEF Call!Fail, Call!Next, Call!Ids
<1>7. QED
  BY <1>3, <1>5, <1>6

(* Other steps leave the call where it is.                                               *)
LEMMA LoneElsewhere ==
  ASSUME NEW me, LoneInv(me), InCall(me)' <=> InCall(me),
         InCall(me) => request'[me].id = request[me].id,
         UNCHANGED <<nextId, raced, handed, failed>>, ~overlapped'[me]
  PROVE  LoneInv(me)' /\ UNCHANGED Status
<1>1. LoneInv(me)'
  BY DEF LoneInv, Ended
<1>2. UNCHANGED Status
  BY DEF Status
<1>3. QED
  BY <1>1, <1>2

LEMMA LoneNext ==
  ASSUME NEW me, Lone(me), QuietInv, IndicationInv, IdsInv, OwnInv, LoneInv(me),
         [Next]_vars
  PROVE  LoneInv(me)' /\ [Call!Next]_Status
<1> TypeOK /\ me \in Senders /\ OwnPremise
  BY DEF QuietInv, Lone, LoneInv, OwnPremise
<1>1. CASE ComposeWithoutClient(me)
  <2>1. /\ pc[me] = "idle" /\ pc'[me] = "returned"
        /\ UNCHANGED <<request, nextId, raced, overlapped, handed, failed>>
    BY <1>1, FinishEffect DEF ComposeWithoutClient, Finish
  <2>2. QED
    BY <2>1, LoneElsewhere DEF InCall, Sent, LoneInv
<1>2. ASSUME NEW k \in Kinds, LoadTransactionId(me, k)
      PROVE  LoneInv(me)' /\ [Call!Next]_Status
  BY <1>2, LoneLoad
<1>3. CASE StoreTransactionId(me)
  <2>1. /\ pc[me] = "numbering" /\ request'[me].id = request[me].id
        /\ UNCHANGED <<nextId, raced, overlapped>>
    BY <1>3, StoreEffect
  <2>2. CASE Finish(me, "EINVAL", None, request[me].id)
    BY <2>1, <2>2, LoneFinish DEF InCall, LoneInv
  <2>3. CASE pc' = [pc EXCEPT ![me] = "composed"] /\ UNCHANGED <<handed, failed>>
    BY <2>1, <2>3, LoneElsewhere DEF InCall, LoneInv, TypeOK
  <2>4. QED
    BY <1>3, <2>2, <2>3 DEF StoreTransactionId
<1>4. CASE Send(me)
  <2>1. pc[me] = "composed" /\ UNCHANGED <<request, nextId, raced>>
    BY <1>4 DEF Send
  <2>2. ~overlapped'[me]
    BY <1>4 DEF Send, Lone
  <2>3. ASSUME NEW ret, Finish(me, ret, None, request[me].id)
        PROVE  LoneInv(me)' /\ [Call!Next]_Status
    BY <2>1, <2>2, <2>3, LoneFinish DEF InCall
  <2>4. CASE pc' = [pc EXCEPT ![me] = "waiting"] /\ UNCHANGED <<handed, failed>>
    BY <2>1, <2>2, <2>4, LoneElsewhere DEF InCall, Sent, TypeOK
  <2>5. QED
    BY <1>4, <2>3, <2>4 DEF Send
<1>5. CASE Wake(me)
  <2>1. /\ pc[me] = "signaled" /\ Finish(me, "0", s_pResponse, request[me].id)
        /\ UNCHANGED <<nextId, raced, overlapped>>
    BY <1>5 DEF Wake
  <2>2. ~overlapped[me]
    BY DEF LoneInv
  <2>3. s_pResponse = None \/ s_pResponse = request[me]
    BY <2>1, <2>2, TakesOwn
  <2>4. QED
    BY <2>1, <2>2, <2>3, LoneFinish DEF InCall, Sent
<1>6. CASE SpuriousWakeup(me) \/ TimerFires(me)
  <2>1. /\ pc[me] = "waiting" /\ pc'[me] \in {"signaled", "expired"}
        /\ UNCHANGED <<request, nextId, raced, overlapped, handed, failed>>
    BY <1>6 DEF SpuriousWakeup, TimerFires, TypeOK, historyVars
  <2>2. QED
    BY <2>1, LoneElsewhere DEF InCall, Sent, LoneInv
<1>7. CASE ReturnTimeout(me)
  <2>1. /\ pc[me] = "expired" /\ Finish(me, "ETIMEDOUT", None, request[me].id)
        /\ UNCHANGED <<nextId, raced, overlapped>>
    BY <1>7 DEF ReturnTimeout
  <2>2. QED
    BY <2>1, LoneFinish DEF InCall, Sent, LoneInv
<1>8. CASE Return(me)
  <2>1. /\ pc[me] = "returned" /\ pc'[me] = "idle"
        /\ UNCHANGED <<nextId, raced, overlapped, handed, failed>>
    BY <1>8 DEF Return, TypeOK, historyVars
  <2>2. QED
    BY <2>1, LoneElsewhere DEF InCall, Sent, LoneInv
<1>9. CASE Reader
  <2>1. /\ pc'[me] # pc[me] => pc[me] = "waiting" /\ pc'[me] = "signaled"
        /\ UNCHANGED <<request, nextId, raced, overlapped, handed, failed>>
    <3>1. CASE OpenClient \/ StartPolling \/ StopReader \/ GobiNetDeInit
      BY <3>1 DEF OpenClient, StartPolling, StopReader, GobiNetDeInit, historyVars
    <3>2. CASE ReadResponse
      BY <3>2, ReadResponseEffect, RecvEffect DEF ReadResponse, TypeOK
    <3>3. CASE ReadIndication
      BY <3>3, ReadIndicationEffect, RecvEffect DEF ReadIndication
    <3>4. CASE AbortRequest
      BY <3>4, AbortEffect DEF AbortRequest
    <3>5. QED
      BY <1>9, <3>1, <3>2, <3>3, <3>4 DEF Reader
  <2>2. QED
    BY <2>1, LoneElsewhere DEF InCall, Sent, LoneInv
<1>10. CASE UNCHANGED vars
  <2>1. UNCHANGED <<pc, request, nextId, raced, overlapped, handed, failed>>
    BY <1>10 DEF vars, historyVars
  <2>2. QED
    BY <2>1, LoneElsewhere DEF InCall, Sent, LoneInv
<1>11. QED
  BY <1>1, <1>2, <1>3, <1>4, <1>5, <1>6, <1>7, <1>8, <1>9, <1>10
     DEF Next, Sender, Lone

(* The steps of a thread that is alone are those of QmiCall: it issues one request at   *)
(* a time, and each is answered by its own response once, or fails, whatever the modem,  *)
(* the reader, the timers, memory and the shutdown do.                                   *)
THEOREM LoneStepsAreCalls ==
  ASSUME NEW me, Lone(me)
  PROVE  Spec => Call!Init /\ [][Call!Next]_Status
<1>1. Init => LoneInv(me) /\ Call!Init
  BY LoneInit
<1>2. /\ QuietInv /\ IndicationInv /\ IdsInv /\ OwnInv /\ LoneInv(me) /\ [Next]_vars
      => LoneInv(me)' /\ [Call!Next]_Status
  BY LoneNext
<1>3. QED
  BY <1>1, <1>2, QuietInit, QuietNext, TypeInit, IndicationInit, IndicationNext, IdsInit,
     IdsNext, OwnInit, OwnNext, PTL DEF Spec, QuietInv

===============================================================================
