---------------------------- MODULE QmiTransaction ----------------------------
(* The QMI transaction layer of MobileServer (src/MobileServer/src/QMIThread.c  *)
(* and the reader half of GobiNetThread.cpp).  Several threads (the D-Bus        *)
(* dispatcher, main, the workers that notifyAsync starts) call the request...()   *)
(* functions; each composes a request, stores it in the single slot s_pRequest,   *)
(* writes it to the modem and waits on s_commandcond.  One reader thread passes   *)
(* every message of the modem to QmiThreadRecvQMI, which fills s_pResponse and    *)
(* signals one waiter, or classifies the message as an unsolicited event.         *)
(*                                                                               *)
(* A critical section of s_commandmutex is one action: nothing else reads or      *)
(* writes the slot, the answer or the wait set while it runs.  Transaction ids    *)
(* are drawn outside the mutex, in two actions (the load and the store of ++).    *)
EXTENDS Naturals, Sequences

CONSTANTS
  Senders,      \* threads that issue requests
  Kinds,        \* the requests this instance issues, a subset of AllKinds
  MaxTid,       \* the last transaction id before wrap-around (0xFFFF in the code)
  MaxRequests,  \* bound: requests composed in one behaviour (their malloc'd buffers)
  OpenResults,  \* what GobiNetGetClientID may return: "open", "failed" or "none"
  IndTids,      \* transaction ids the modem puts in unsolicited indications
  Faults,       \* what may go wrong: "write", "alloc", "spurious"
  None

(* External (MPQMUX.h): a message is told apart by its service and its number;   *)
(* a response carries the number of its request.  Three numbers also belong to   *)
(* indications (0x22 of WDS, 0x24 and 0x4D of NAS).                               *)
IndKinds == {"PKT_SRVC_STATUS", "SERVING_SYSTEM", "SYS_INFO"}
AllKinds == IndKinds \cup {"START_NETWORK", "CARD_STATUS"}
Services == {"WDS", "NAS", "UIM"}
ServiceOf == [k \in AllKinds |->
  CASE k \in {"PKT_SRVC_STATUS", "START_NETWORK"} -> "WDS"
    [] k \in {"SERVING_SYSTEM", "SYS_INFO"}       -> "NAS"
    [] k = "CARD_STATUS"                          -> "UIM"]

(* id names the request's buffer (0 for an indication): the code has no such      *)
(* field, the properties use it to tell two requests with equal contents apart.   *)
Message == [kind : AllKinds, tid : Nat, id : 0..MaxRequests, ind : BOOLEAN]

ASSUME ConstantsAssumption ==
  /\ Kinds \subseteq AllKinds
  /\ MaxTid \in Nat \ {0}
  /\ MaxRequests \in Nat
  /\ IndTids \subseteq Nat
  /\ OpenResults \subseteq {"open", "failed", "none"}
  /\ Faults \subseteq {"write", "alloc", "spurious"}
  /\ None \notin Message

VARIABLES
  phase,          \* the reader: opening -> polling -> stopped -> closed -> aborted
  clientId,       \* qmiclientId: > 0 is "open", -1 is "failed", 0 is "none"
  toOpen,         \* services run() has not asked a client id for yet, in order
  TransactionId,  \* the static counter of GetQMUXTransactionId
  reg,            \* per sender: the counter's next value, loaded and not stored
  request,        \* per sender: the request of its call
  pc,             \* per sender: where its call is
  result,         \* per sender: return value and *ppResponse of its call
  s_pRequest,
  s_pResponse,
  pending,        \* responses the modem may still deliver, in any order
  posted,         \* the last return value of QmiThreadRecvQMI given to sendNotify
  (* history, read by the properties only *)
  nextId,         \* the next request buffer
  overlapped,     \* per sender: another call entered the slot during its call
  raced,          \* two transaction ids were once drawn at the same time
  handed,         \* ids of the requests whose response some call took
  replaced,       \* ids of the requests that another one has pushed out of the slot
  failed          \* ids of the requests whose call ended without a response

readerVars  == <<phase, clientId, toOpen>>
slotVars    == <<s_pRequest, s_pResponse>>
historyVars == <<nextId, overlapped, raced, handed, replaced, failed>>
vars == <<phase, clientId, toOpen, TransactionId, reg, request, pc, result,
          s_pRequest, s_pResponse, pending, posted, historyVars>>

NoResult == [ret |-> "none", resp |-> None]
NoEvent  == [event |-> "none", msg |-> None]

InWait(s) == pc[s] \in {"waiting", "signaled"}
Waiters   == {s \in Senders : pc[s] = "waiting"}

Init ==
  /\ phase = "opening"
  /\ clientId = [t \in Services |-> "none"]
  /\ toOpen = <<"WDS", "NAS", "UIM">>
  /\ TransactionId = 0
  /\ reg = [s \in Senders |-> 0]
  /\ request = [s \in Senders |-> None]
  /\ pc = [s \in Senders |-> "idle"]
  /\ result = [s \in Senders |-> NoResult]
  /\ s_pRequest = None
  /\ s_pResponse = None
  /\ pending = {}
  /\ posted = NoEvent
  /\ nextId = 1
  /\ overlapped = [s \in Senders |-> FALSE]
  /\ raced = FALSE
  /\ handed = {}
  /\ replaced = {}
  /\ failed = {}

-------------------------------------------------------------------------------
(* The senders.                                                                  *)

(* The call of s returns ret and resp; id is the request of the call, 0 if none.  *)
Finish(s, ret, resp, id) ==
  /\ pc' = [pc EXCEPT ![s] = "returned"]
  /\ result' = [result EXCEPT ![s] = [ret |-> ret, resp |-> resp]]
  /\ handed' = IF resp = None THEN handed ELSE handed \cup {resp.id}
  /\ failed' = IF resp = None /\ id # 0 THEN failed \cup {id} ELSE failed

(* ComposeQMUXMsg returns NULL when the service has no client id, and            *)
(* QmiThreadSendQMITimeout answers a NULL request with -EINVAL.                   *)
ComposeWithoutClient(s) ==
  /\ pc[s] = "idle"
  /\ \E k \in Kinds : clientId[ServiceOf[k]] = "none"
  /\ Finish(s, "EINVAL", None, 0)
  /\ UNCHANGED <<readerVars, TransactionId, reg, request, slotVars, pending,
                 posted, nextId, overlapped, raced, replaced>>

(* ++TransactionId, the load.  A client that failed to open (-1) passes the test. *)
LoadTransactionId(s, k) ==
  /\ pc[s] = "idle"
  /\ nextId <= MaxRequests
  /\ clientId[ServiceOf[k]] # "none"
  /\ pc' = [pc EXCEPT ![s] = "numbering"]
  /\ reg' = [reg EXCEPT ![s] = TransactionId + 1]
  /\ request' = [request EXCEPT
       ![s] = [kind |-> k, tid |-> 0, id |-> nextId, ind |-> FALSE]]
  /\ nextId' = nextId + 1
  /\ raced' = (raced \/ \E t \in Senders : pc[t] = "numbering")
  /\ UNCHANGED <<readerVars, TransactionId, result, slotVars, pending, posted,
                 overlapped, handed, replaced, failed>>

(* The store of the counter and its use as the id of the request.                 *)
NoWrap(n) == n
Wrap(n) == IF n > MaxTid THEN 1 ELSE n

StoreTransactionId(s) ==
  /\ pc[s] = "numbering"
  /\ TransactionId' = Wrap(reg[s])
  /\ request' = [request EXCEPT ![s].tid = Wrap(reg[s])]
  /\ reg' = [reg EXCEPT ![s] = 0]
  /\ \/ /\ pc' = [pc EXCEPT ![s] = "composed"]
        /\ UNCHANGED <<result, handed, failed>>
     \/ /\ "alloc" \in Faults     \* malloc of the request fails: NULL, -EINVAL
        /\ Finish(s, "EINVAL", None, request[s].id)
  /\ UNCHANGED <<readerVars, slotVars, pending, posted, nextId, overlapped,
                 raced, replaced>>

(* s_pRequest = pRequest; s_pResponse = NULL.                                     *)
FillSlotKeepingAnswer(s) == s_pRequest' = request[s] /\ UNCHANGED s_pResponse
FillSlot(s) == s_pRequest' = request[s] /\ s_pResponse' = None

(* The first critical section of QmiThreadSendQMITimeout, up to the wait: the     *)
(* slot is overwritten whatever it holds, then GobiNetSendQMI writes.             *)
Send(s) ==
  /\ pc[s] = "composed"
  /\ FillSlot(s)
  /\ overlapped' = [t \in Senders |->
       IF t = s THEN \E u \in Senders \ {s} : InWait(u)
                ELSE overlapped[t] \/ InWait(t)]
  /\ \/ /\ clientId[ServiceOf[request[s].kind]] = "open"
        /\ pc' = [pc EXCEPT ![s] = "waiting"]
        /\ \/ pending' = pending \cup {request[s]}
           \/ "write" \in Faults /\ UNCHANGED pending    \* write returns 0
        /\ UNCHANGED <<result, handed, failed>>
     \/ /\ clientId[ServiceOf[request[s].kind]] # "open"
        /\ Finish(s, "ENODEV", None, request[s].id)
        /\ UNCHANGED pending
     \/ /\ "write" \in Faults    \* a failed or a short write
        /\ clientId[ServiceOf[request[s].kind]] = "open"
        /\ Finish(s, "EIO", None, request[s].id)
        /\ UNCHANGED pending
  /\ replaced' = IF s_pRequest = None THEN replaced
                 ELSE replaced \cup {s_pRequest.id}
  /\ UNCHANGED <<readerVars, TransactionId, reg, request, posted, nextId, raced>>

(* pthread_cond_timedwait returns 0: whatever s_pResponse holds is the answer,    *)
(* and the slot keeps pointing at it.                                             *)
Wake(s) ==
  /\ pc[s] = "signaled"
  /\ Finish(s, "0", s_pResponse, request[s].id)
  /\ UNCHANGED <<readerVars, TransactionId, reg, request, slotVars, pending,
                 posted, nextId, overlapped, raced, replaced>>

SpuriousWakeup(s) ==
  /\ "spurious" \in Faults
  /\ pc[s] = "waiting"
  /\ pc' = [pc EXCEPT ![s] = "signaled"]
  /\ UNCHANGED <<readerVars, TransactionId, reg, request, result, slotVars,
                 pending, posted, historyVars>>

WaitForEver(s) == FALSE   \* the msecs = 0 branch of pthread_cond_timeout_np

(* The timer fires and s leaves the wait set; later it gets the mutex back.       *)
(* Nothing is cleared: the request stays in the slot.                             *)
TimerFires(s) ==
  /\ pc[s] = "waiting"
  /\ pc' = [pc EXCEPT ![s] = "expired"]
  /\ UNCHANGED <<readerVars, TransactionId, reg, request, result, slotVars,
                 pending, posted, historyVars>>

ReturnTimeoutAsSuccess(s) ==
  /\ pc[s] = "expired"
  /\ Finish(s, "0", None, request[s].id)
  /\ UNCHANGED <<readerVars, TransactionId, reg, request, slotVars, pending,
                 posted, nextId, overlapped, raced, replaced>>

ReturnTimeoutClearingSlot(s) ==
  /\ pc[s] = "expired"
  /\ Finish(s, "ETIMEDOUT", None, request[s].id)
  /\ s_pRequest' = None
  /\ UNCHANGED <<readerVars, TransactionId, reg, request, s_pResponse, pending,
                 posted, nextId, overlapped, raced, replaced>>

ReturnTimeout(s) ==
  /\ pc[s] = "expired"
  /\ Finish(s, "ETIMEDOUT", None, request[s].id)
  /\ UNCHANGED <<readerVars, TransactionId, reg, request, slotVars, pending,
                 posted, nextId, overlapped, raced, replaced>>

(* The request...() function returns to its caller.                               *)
Return(s) ==
  /\ pc[s] = "returned"
  /\ pc' = [pc EXCEPT ![s] = "idle"]
  /\ request' = [request EXCEPT ![s] = None]
  /\ result' = [result EXCEPT ![s] = NoResult]
  /\ UNCHANGED <<readerVars, TransactionId, reg, slotVars, pending, posted,
                 historyVars>>

-------------------------------------------------------------------------------
(* The reader.                                                                   *)

(* run(): one client id per service, then the test of the WDS client.             *)
OpenClient ==
  /\ phase = "opening"
  /\ toOpen # <<>>
  /\ \E r \in OpenResults : clientId' = [clientId EXCEPT ![Head(toOpen)] = r]
  /\ toOpen' = Tail(toOpen)
  /\ UNCHANGED <<phase, TransactionId, reg, request, pc, result, slotVars,
                 pending, posted, historyVars>>

StartPolling ==
  /\ phase = "opening"
  /\ toOpen = <<>>
  /\ phase' = "polling"
  /\ clientId' = IF clientId["WDS"] = "none" THEN [t \in Services |-> "none"]
                                             ELSE clientId
  /\ UNCHANGED <<toOpen, TransactionId, reg, request, pc, result, slotVars,
                 pending, posted, historyVars>>

SignalNobody == UNCHANGED pc

(* pthread_cond_signal: one waiter wakes; the signal is lost if nobody waits.     *)
Signal ==
  IF Waiters = {} THEN UNCHANGED pc
  ELSE \E s \in Waiters : pc' = [pc EXCEPT ![s] = "signaled"]

IsResponseOfService(req, m) == ServiceOf[req.kind] = ServiceOf[m.kind]

(* is_response: the client id follows from the service (one client for each).     *)
IsResponse(req, m) ==
  /\ ServiceOf[req.kind] = ServiceOf[m.kind]
  /\ req.tid = m.tid

Awaited(m) == s_pRequest # None /\ IsResponse(s_pRequest, m)

(* The event codes by which a message that answers nothing is classified.         *)
EventOf(m) ==
  CASE m.kind \in {"SERVING_SYSTEM", "SYS_INFO"} -> "NETWORK_STATE_CHANGED"
    [] m.kind = "PKT_SRVC_STATUS"                -> "DATA_CALL_LIST_CHANGED"
    [] OTHER                                     -> "none"

(* QmiThreadRecvQMI(NULL, m) and the sendNotify of what it returns.               *)
RecvQMI(m) ==
  \/ /\ Awaited(m)
     /\ s_pRequest' = None
     /\ \/ s_pResponse' = m
        \/ "alloc" \in Faults /\ s_pResponse' = None
     /\ Signal
     /\ posted' = NoEvent
  \/ /\ ~Awaited(m)
     /\ posted' = [event |-> EventOf(m), msg |-> m]
     /\ UNCHANGED <<slotVars, pc>>

ReadResponse ==
  /\ phase = "polling"
  /\ \E m \in pending :
       /\ clientId[ServiceOf[m.kind]] = "open"
       /\ RecvQMI(m)
       /\ pending' = pending \ {m}
  /\ UNCHANGED <<readerVars, TransactionId, reg, request, result, nextId,
                 overlapped, raced, handed, replaced, failed>>

ReadIndication ==
  /\ phase = "polling"
  /\ \E k \in IndKinds, t \in IndTids :
       /\ clientId[ServiceOf[k]] = "open"
       /\ RecvQMI([kind |-> k, tid |-> t, id |-> 0, ind |-> TRUE])
  /\ UNCHANGED <<readerVars, TransactionId, reg, request, result, pending,
                 nextId, overlapped, raced, handed, replaced, failed>>

(* ~Quectel_mobile: stop() joins the reader; ~GobiNethread then closes the        *)
(* clients (GobiNetDeInit) and calls QmiThreadRecvQMI(NULL, NULL).                *)
StopReader ==
  /\ phase = "polling"
  /\ phase' = "stopped"
  /\ UNCHANGED <<clientId, toOpen, TransactionId, reg, request, pc, result,
                 slotVars, pending, posted, historyVars>>

GobiNetDeInit ==
  /\ phase = "stopped"
  /\ phase' = "closed"
  /\ clientId' = [t \in Services |-> "none"]
  /\ UNCHANGED <<toOpen, TransactionId, reg, request, pc, result, slotVars,
                 pending, posted, historyVars>>

AbortRequest ==
  /\ phase = "closed"
  /\ phase' = "aborted"
  /\ \/ /\ s_pRequest # None
        /\ s_pRequest' = None
        /\ s_pResponse' = None
        /\ Signal
     \/ /\ s_pRequest = None
        /\ UNCHANGED <<slotVars, pc>>
  /\ UNCHANGED <<clientId, toOpen, TransactionId, reg, request, result, pending,
                 posted, nextId, overlapped, raced, handed, replaced, failed>>

-------------------------------------------------------------------------------
Sender(s) ==
  \/ ComposeWithoutClient(s)
  \/ \E k \in Kinds : LoadTransactionId(s, k)
  \/ StoreTransactionId(s)
  \/ Send(s)
  \/ Wake(s)
  \/ SpuriousWakeup(s)
  \/ TimerFires(s)
  \/ ReturnTimeout(s)
  \/ Return(s)

Reader ==
  \/ OpenClient
  \/ StartPolling
  \/ ReadResponse
  \/ ReadIndication
  \/ StopReader
  \/ GobiNetDeInit
  \/ AbortRequest

Next == Reader \/ \E s \in Senders : Sender(s)

Spec == Init /\ [][Next]_vars

(* Fairness: a runnable thread runs, the mutex is granted, the timer of a         *)
(* timed wait fires.  Nothing is assumed of the modem, of new calls or of the     *)
(* shutdown.                                                                      *)
Fairness == \A s \in Senders :
  /\ WF_vars(StoreTransactionId(s))
  /\ WF_vars(Send(s))
  /\ WF_vars(Wake(s))
  /\ WF_vars(TimerFires(s))
  /\ WF_vars(ReturnTimeout(s))

FairSpec == Spec /\ Fairness

-------------------------------------------------------------------------------
(* Properties.  The single slot serves one call at a time and the code does not   *)
(* make the callers take turns, so what follows is promised to a call that no     *)
(* other call's Send overlapped ("quiet"), unless a property says otherwise.      *)

Result == [ret : {"none", "0", "EINVAL", "ENODEV", "EIO", "ETIMEDOUT"},
           resp : Message \cup {None}]

(* Every variable has its type; reg is loaded only while an id is being drawn.    *)
TypeOK ==
  /\ phase \in {"opening", "polling", "stopped", "closed", "aborted"}
  /\ clientId \in [Services -> {"open", "failed", "none"}]
  /\ toOpen \in Seq(Services)
  /\ TransactionId \in 0..MaxTid
  /\ reg \in [Senders -> 0..(MaxTid + 1)]
  /\ request \in [Senders -> Message \cup {None}]
  /\ pc \in [Senders -> {"idle", "numbering", "composed", "waiting", "signaled",
                         "expired", "returned"}]
  /\ result \in [Senders -> Result]
  /\ s_pRequest \in Message \cup {None}
  /\ s_pResponse \in Message \cup {None}
  /\ pending \in SUBSET Message
  /\ posted \in [event : {"none", "NETWORK_STATE_CHANGED",
                         "DATA_CALL_LIST_CHANGED"},
                 msg : Message \cup {None}]
  /\ nextId \in 1..(MaxRequests + 1)
  /\ overlapped \in [Senders -> BOOLEAN]
  /\ raced \in BOOLEAN
  /\ handed \subseteq 0..MaxRequests
  /\ replaced \subseteq 0..MaxRequests
  /\ failed \subseteq 0..MaxRequests
  /\ \A s \in Senders :
       /\ pc[s] \in {"numbering", "composed", "waiting", "signaled", "expired"}
            => request[s] \in Message
       /\ pc[s] = "numbering" => reg[s] >= 1

Answered(s) == pc[s] = "returned" /\ result[s].ret = "0" /\ result[s].resp # None

(* A quiet call that returns a message returns one of the service and with the id *)
(* of its own request: no late message and no message of another service.         *)
QuietAnswerMatches ==
  \A s \in Senders :
    Answered(s) /\ ~overlapped[s] =>
      /\ result[s].resp.tid = request[s].tid
      /\ ServiceOf[result[s].resp.kind] = ServiceOf[request[s].kind]

(* It is even the response to that very request, not to an earlier one that       *)
(* timed out, if no two transaction ids were ever drawn at the same time, the     *)
(* counter did not wrap and indications carry the id 0.                           *)
QuietAnswerIsOwn ==
  MaxRequests <= MaxTid /\ IndTids \subseteq {0} /\ ~raced =>
    \A s \in Senders :
      Answered(s) /\ ~overlapped[s] => result[s].resp = request[s]

(* A quiet call that returns 0 has a response, unless memory ran out, the wakeup  *)
(* was spurious or the reader's destructor aborted it.  Callers take 0 for done   *)
(* ("if (err < 0 || pResponse == NULL) return err").                              *)
QuietSuccessHasAnswer ==
  Faults \cap {"alloc", "spurious"} = {} /\ phase # "aborted" =>
    \A s \in Senders :
      pc[s] = "returned" /\ result[s].ret = "0" /\ ~overlapped[s]
        => result[s].resp # None

(* No wakeup of a quiet call is lost: while it waits its request is in the slot   *)
(* and no answer is, even if others time out or fail around it.                   *)
NoLostWakeup ==
  \A s \in Senders :
    pc[s] = "waiting" /\ ~overlapped[s] =>
      s_pRequest = request[s] /\ s_pResponse = None

(* A quiet call never takes a response that a call took before it: its caller is  *)
(* the only one to free the buffer.                                               *)
QuietAnswerTakenOnce ==
  \A s \in Senders :
    pc[s] = "signaled" /\ ~overlapped[s] /\ s_pResponse # None /\ ~s_pResponse.ind
      => s_pResponse.id \notin handed

(* No call, overlapped or not, returns an indication that carries the id 0:       *)
(* GetQMUXTransactionId never draws 0, also after it wraps.                       *)
IndicationNeverAnswers ==
  IndTids \subseteq {0} =>
    \A s \in Senders : Answered(s) => ~result[s].resp.ind

(* A response is told from an indication by the slot alone: its message number     *)
(* may be that of an indication.  One that is merely late, or whose call failed,    *)
(* still finds its request there; only if another request has pushed that one out   *)
(* is it posted to the workers as an event that the modem did not report (under the *)
(* premises of QuietAnswerIsOwn).                                                   *)
OnlyReplacedAreEvents ==
  MaxRequests <= MaxTid /\ IndTids \subseteq {0} /\ ~raced =>
    (posted.event # "none" /\ ~posted.msg.ind => posted.msg.id \in replaced)

(* Every request that a thread writes is one its caller hears of again, answered  *)
(* or not, whatever the modem, the reader and the other callers do.               *)
CallsReturn ==
  \A s \in Senders : pc[s] \in {"composed", "waiting"} ~> pc[s] = "returned"

(* A thread that is alone, its indications carrying the id 0, has what QmiCall    *)
(* promises: each request is answered by its own response once, or fails.         *)
Status == [i \in 1..MaxRequests |->
  IF i >= nextId THEN "new"
  ELSE IF i \in handed THEN "answered"
  ELSE IF i \in failed THEN "failed" ELSE "open"]

Call == INSTANCE QmiCall WITH status <- Status
ImplementsQmiCall == Call!Spec

===============================================================================
