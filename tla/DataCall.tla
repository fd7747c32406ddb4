------------------------------- MODULE DataCall -------------------------------
(* The data call of Quectel_mobile (src/MobileServer/src/Quectel_mobile.cpp)      *)
(* over requestQueryDataCall, requestSetupDataCall and requestDeactivateDefaultPDP *)
(* of QMIThread.c.  The D-Bus thread runs connect() and disconnect(); workers run  *)
(* recvNotify, one per event of the modem, and reconnect a call that dropped.      *)
(* They share IPv4ConnectionStatus, connectFlag and WdsConnectionIPv4Handle with   *)
(* no lock.  Nothing happens between a request's answer by the modem and its use   *)
(* by the caller except what other threads do: both are steps of their own.        *)
EXTENDS Naturals

CONSTANTS
  Users,      \* threads that call connect() and disconnect(): main, D-Bus
  Workers,    \* threads of the pool that run recvNotify
  Handles,    \* the modem numbers its calls 1..Handles, in turn
  MaxEvents,  \* bound: events waiting for a worker before new operations start
  Outcomes    \* what a request may come to, besides an answer of the modem:
              \*   "error"   the modem refuses it
              \*   "fail"    no response: the call times out or cannot be sent
              \*   "phantom" QmiThreadSendQMI returns 0 with no response
              \* and what a query may say of a call that is up, instead of CONNECTED:
              \*   "unclear"   no status, or one that wants the call reconfigured
              \*   "suspended" suspended, authenticating or unknown

ASSUME DataCallAssumption ==
  /\ Handles \in Nat \ {0}
  /\ MaxEvents \in Nat
  /\ Outcomes \subseteq {"error", "fail", "phantom", "unclear", "suspended"}
  /\ Users \cap Workers = {}

Threads == Users \cup Workers
UserOps == {"connect", "disconnect"}
Events  == {"DATA_CALL_LIST_CHANGED", "NETWORK_STATE_CHANGED"}
Silences == {"fail", "phantom"}
Denials  == {"unclear", "suspended"}

VARIABLES
  modem,                    \* external: the handle of the call that is up, 0 if none
  last,                     \* external: the handle of the last call
  events,                   \* events posted and not yet taken by a worker
  IPv4ConnectionStatus,     \* as the last query stored it
  WdsConnectionIPv4Handle,
  connectFlag,              \* reconnect when the call drops
  pc, op,                   \* per thread: the next statement, the function it is in
  got,                      \* per thread: the response it has not used yet
  (* history, read by the properties only *)
  wish,                     \* the last operation a user finished, and its result
  overlapped,               \* two operations have once run at the same time
  faulty,                   \* a request once got no answer
  denied                    \* a query did not call the present call CONNECTED

sharedVars  == <<IPv4ConnectionStatus, WdsConnectionIPv4Handle, connectFlag>>
historyVars == <<wish, overlapped, faulty, denied>>
vars == <<modem, last, events, sharedVars, pc, op, got, historyVars>>

NoResponse == [out |-> "none", val |-> 0]
ModemStatus == IF modem = 0 THEN "DISCONNECTED" ELSE "CONNECTED"

Post(e) == events' = [events EXCEPT ![e] = @ + 1]
EventsWaiting == events["DATA_CALL_LIST_CHANGED"] + events["NETWORK_STATE_CHANGED"]
Goto(t, label) == pc' = [pc EXCEPT ![t] = label]
Busy == {t \in Threads : pc[t] # "idle"}

(* A process that starts may find a call up that an earlier process made.         *)
Init ==
  /\ modem \in {0, 1}
  /\ last = 1
  /\ events = [e \in Events |-> 0]
  /\ IPv4ConnectionStatus = "UNKNOWN"
  /\ WdsConnectionIPv4Handle = 0
  /\ connectFlag = FALSE
  /\ pc = [t \in Threads |-> "idle"]
  /\ op = [t \in Threads |-> "none"]
  /\ got = [t \in Threads |-> NoResponse]
  /\ wish = [op |-> "none", ret |-> FALSE]
  /\ overlapped = FALSE
  /\ faulty = FALSE
  /\ denied = FALSE

-------------------------------------------------------------------------------
(* Entering the functions; each begins with requestQueryDataCall.                 *)
Enter(t, f) ==
  /\ pc[t] = "idle"
  /\ Goto(t, "ask")
  /\ op' = [op EXCEPT ![t] = f]
  /\ overlapped' = (overlapped \/ Busy # {})
  /\ UNCHANGED <<modem, last, sharedVars, got, wish, faulty, denied>>

Call(u, f) == Enter(u, f) /\ EventsWaiting <= MaxEvents /\ UNCHANGED events

recvNotify(w, e) ==
  /\ events[e] > 0
  /\ Enter(w, e)
  /\ events' = [events EXCEPT ![e] = @ - 1]

(* connect(), disconnect() or recvNotify returns.                                 *)
Leave(t, r) ==
  /\ Goto(t, "idle")
  /\ op' = [op EXCEPT ![t] = "none"]
  /\ wish' = IF t \in Users THEN [op |-> op[t], ret |-> r] ELSE wish

-------------------------------------------------------------------------------
(* requestQueryDataCall.  Without a response it leaves the status alone, and no   *)
(* caller looks at its result.                                                    *)
QueryAnswered(t) ==
  /\ pc[t] = "ask"
  /\ \/ /\ got' = [got EXCEPT ![t] = [out |-> ModemStatus, val |-> 0]]
        /\ UNCHANGED denied
     \/ /\ modem # 0
        /\ \E o \in Outcomes \cap Denials :
              got' = [got EXCEPT ![t] = [out |-> o, val |-> 0]]
        /\ denied' = TRUE
  /\ Goto(t, "answered")
  /\ UNCHANGED <<modem, last, events, sharedVars, op, wish, overlapped, faulty>>

QueryUnanswered(t) ==
  /\ pc[t] = "ask"
  /\ Outcomes \cap (Silences \cup {"error"}) # {}
  /\ faulty' = TRUE
  /\ Goto(t, "queried")
  /\ UNCHANGED <<modem, last, events, sharedVars, op, got, wish, overlapped,
                 denied>>

(* The shared status is DISCONNECTED for a moment, whatever the response says.    *)
ClearStatus(t) ==
  /\ pc[t] = "answered"
  /\ IPv4ConnectionStatus' = "DISCONNECTED"
  /\ Goto(t, "cleared")
  /\ UNCHANGED <<modem, last, events, WdsConnectionIPv4Handle, connectFlag, op,
                 got, historyVars>>

(* A response without a status stores no other one, and one that wants the call   *)
(* reconfigured stores DISCONNECTED once more.                                    *)
StoreStatus(t) ==
  /\ pc[t] = "cleared"
  /\ IPv4ConnectionStatus' \in IF got[t].out = "unclear"
                               THEN {IPv4ConnectionStatus, "DISCONNECTED"}
                               ELSE {got[t].out}
  /\ got' = [got EXCEPT ![t] = NoResponse]
  /\ Goto(t, "stored")
  /\ UNCHANGED <<modem, last, events, WdsConnectionIPv4Handle, connectFlag, op,
                 historyVars>>

(* The handle is forgotten if the status, read again, is DISCONNECTED.            *)
ForgetHandleAlways == WdsConnectionIPv4Handle' = 0
ForgetHandle ==
  WdsConnectionIPv4Handle' = IF IPv4ConnectionStatus = "DISCONNECTED" THEN 0
                             ELSE WdsConnectionIPv4Handle

CheckHandle(t) ==
  /\ pc[t] = "stored"
  /\ ForgetHandle
  /\ Goto(t, "queried")
  /\ UNCHANGED <<modem, last, events, IPv4ConnectionStatus, connectFlag, op,
                 got, historyVars>>

-------------------------------------------------------------------------------
(* connect(): a call that is already up is an error and ends the reconnecting.    *)
ConnectDecides(t) ==
  /\ pc[t] = "queried" /\ op[t] = "connect"
  /\ \/ /\ IPv4ConnectionStatus # "CONNECTED"
        /\ Goto(t, "setup")
        /\ UNCHANGED <<connectFlag, op, wish>>
     \/ /\ IPv4ConnectionStatus = "CONNECTED"
        /\ connectFlag' = FALSE
        /\ Leave(t, FALSE)
  /\ UNCHANGED <<modem, last, events, IPv4ConnectionStatus,
                 WdsConnectionIPv4Handle, got, overlapped, faulty, denied>>

(* External: what START_NETWORK_INTERFACE does.  A call that is up refuses it;    *)
(* a request whose response is lost may have been executed.                       *)
StartCall ==
  /\ modem = 0
  /\ modem' = (last % Handles) + 1
  /\ last' = modem'
  /\ denied' = FALSE
  /\ Post("DATA_CALL_LIST_CHANGED")

Setup(t) ==
  /\ pc[t] = "setup"
  /\ \/ /\ StartCall
        /\ got' = [got EXCEPT ![t] = [out |-> "ok", val |-> modem']]
        /\ UNCHANGED faulty
     \/ /\ "error" \in Outcomes \/ modem # 0
        /\ got' = [got EXCEPT ![t] = [out |-> "error", val |-> 0]]
        /\ UNCHANGED <<modem, last, events, denied, faulty>>
     \/ \E o \in Outcomes \cap Silences :
        /\ got' = [got EXCEPT ![t] = [out |-> o, val |-> 0]]
        /\ faulty' = TRUE
        /\ StartCall \/ UNCHANGED <<modem, last, events, denied>>
  /\ Goto(t, "setup_done")
  /\ UNCHANGED <<sharedVars, op, wish, overlapped>>

(* The end of requestSetupDataCall and of connect(): 0 with no response counts    *)
(* as success.                                                                    *)
Succeeded(t) == got[t].out \in {"ok", "phantom"}

SetupReturns(t) ==
  /\ pc[t] = "setup_done"
  /\ WdsConnectionIPv4Handle' = IF got[t].out = "ok" THEN got[t].val
                                ELSE WdsConnectionIPv4Handle
  /\ connectFlag' = Succeeded(t)
  /\ got' = [got EXCEPT ![t] = NoResponse]
  /\ Leave(t, Succeeded(t))
  /\ UNCHANGED <<modem, last, events, IPv4ConnectionStatus, overlapped, faulty,
                 denied>>

-------------------------------------------------------------------------------
(* disconnect() and requestDeactivateDefaultPDP, which is done at once without a  *)
(* handle.  Whatever does not end the call arms the reconnecting.                 *)
DisconnectKeepsFlag(t, done) == UNCHANGED connectFlag /\ Leave(t, done)
DisconnectReturns(t, done) == connectFlag' = ~done /\ Leave(t, done)

DisconnectDecides(t) ==
  /\ pc[t] = "queried" /\ op[t] = "disconnect"
  /\ \/ /\ IPv4ConnectionStatus = "CONNECTED" /\ WdsConnectionIPv4Handle # 0
        /\ Goto(t, "stop")
        /\ UNCHANGED <<connectFlag, op, wish>>
     \/ /\ IPv4ConnectionStatus = "CONNECTED" /\ WdsConnectionIPv4Handle = 0
        /\ DisconnectReturns(t, TRUE)
     \/ /\ IPv4ConnectionStatus # "CONNECTED"
        /\ DisconnectReturns(t, FALSE)
  /\ UNCHANGED <<modem, last, events, IPv4ConnectionStatus,
                 WdsConnectionIPv4Handle, got, overlapped, faulty, denied>>

(* External: STOP_NETWORK_INTERFACE ends the call whose handle it carries; the    *)
(* handle is read when the request is composed.                                   *)
StopCall ==
  /\ modem # 0 /\ modem = WdsConnectionIPv4Handle
  /\ modem' = 0
  /\ Post("DATA_CALL_LIST_CHANGED")

Stop(t) ==
  /\ pc[t] = "stop"
  /\ \/ /\ StopCall
        /\ got' = [got EXCEPT ![t] = [out |-> "ok", val |-> 0]]
        /\ UNCHANGED faulty
     \/ /\ "error" \in Outcomes \/ modem # WdsConnectionIPv4Handle
        /\ got' = [got EXCEPT ![t] = [out |-> "error", val |-> 0]]
        /\ UNCHANGED <<modem, events, faulty>>
     \/ \E o \in Outcomes \cap Silences :
        /\ got' = [got EXCEPT ![t] = [out |-> o, val |-> 0]]
        /\ faulty' = TRUE
        /\ StopCall \/ UNCHANGED <<modem, events>>
  /\ Goto(t, "stop_done")
  /\ UNCHANGED <<last, sharedVars, op, wish, overlapped, denied>>

StopReturns(t) ==
  /\ pc[t] = "stop_done"
  /\ WdsConnectionIPv4Handle' = IF got[t].out = "ok" THEN 0
                                ELSE WdsConnectionIPv4Handle
  /\ got' = [got EXCEPT ![t] = NoResponse]
  /\ DisconnectReturns(t, Succeeded(t))
  /\ UNCHANGED <<modem, last, events, IPv4ConnectionStatus, overlapped, faulty,
                 denied>>

-------------------------------------------------------------------------------
(* recvNotify after its query (and, for a data call event, after the              *)
(* requestRegistrationState whose result it does not use): reconnect if armed.    *)
ReconnectUnarmed(t) == IPv4ConnectionStatus # "CONNECTED"
ReconnectNever(t) == FALSE
Reconnects(t) == connectFlag /\ IPv4ConnectionStatus # "CONNECTED"

NotifyDecides(t) ==
  /\ pc[t] = "queried" /\ op[t] \in Events
  /\ \/ /\ op[t] = "DATA_CALL_LIST_CHANGED" /\ Reconnects(t)
        /\ op' = [op EXCEPT ![t] = "connect"]
        /\ Goto(t, "ask")
        /\ UNCHANGED wish
     \/ /\ op[t] = "NETWORK_STATE_CHANGED" \/ ~Reconnects(t)
        /\ Leave(t, FALSE)
  /\ UNCHANGED <<modem, last, events, sharedVars, got, overlapped, faulty,
                 denied>>

-------------------------------------------------------------------------------
(* External: the network ends the call, or the modem reports a change (a response *)
(* to a request that is no longer in the slot looks the same).                    *)
ModemDrops ==
  /\ modem # 0
  /\ EventsWaiting < MaxEvents
  /\ modem' = 0
  /\ Post("DATA_CALL_LIST_CHANGED")
  /\ UNCHANGED <<last, sharedVars, pc, op, got, historyVars>>

ModemIndicates ==
  /\ EventsWaiting < MaxEvents
  /\ \E e \in Events : Post(e)
  /\ UNCHANGED <<modem, last, sharedVars, pc, op, got, historyVars>>

Step(t) ==
  \/ QueryAnswered(t)
  \/ QueryUnanswered(t)
  \/ ClearStatus(t)
  \/ StoreStatus(t)
  \/ CheckHandle(t)
  \/ ConnectDecides(t)
  \/ Setup(t)
  \/ SetupReturns(t)
  \/ DisconnectDecides(t)
  \/ Stop(t)
  \/ StopReturns(t)
  \/ NotifyDecides(t)

Next ==
  \/ \E u \in Users, f \in UserOps : Call(u, f)
  \/ \E w \in Workers, e \in Events : recvNotify(w, e)
  \/ \E t \in Threads : Step(t)
  \/ ModemDrops
  \/ ModemIndicates

Spec == Init /\ [][Next]_vars

(* Fairness: threads run, a posted event finds a worker, a request ends (answered *)
(* or by its timer).  Users and the network may do nothing for ever.              *)
Fairness ==
  /\ \A t \in Threads : WF_vars(Step(t))
  /\ \A e \in Events : SF_vars(\E w \in Workers : recvNotify(w, e))

FairSpec == Spec /\ Fairness

-------------------------------------------------------------------------------
(* Properties.  The functions share their variables without a lock, so most of    *)
(* what follows is promised as long as no two of them have run at the same time.  *)

(* The call should be up: connect() was the last thing a user did and succeeded,  *)
(* or disconnect() did and failed (the code arms the reconnecting then).          *)
Wished ==
  \/ wish = [op |-> "connect", ret |-> TRUE]
  \/ wish = [op |-> "disconnect", ret |-> FALSE]

(* Reconnecting is armed only if the user's last operation left it so, and a      *)
(* worker starts a call only then: not after a connect() that failed, and not     *)
(* after a disconnect() that succeeded, whatever events were still waiting.       *)
ReconnectIsWished ==
  ~overlapped =>
    /\ connectFlag => Wished
    /\ \A w \in Workers : pc[w] = "setup" => Wished

(* While reconnecting is armed the process knows the handle of a call that is up, *)
(* through drops, reconnects and refused requests, so that it can end that call.  *)
(* A query that does not call that call CONNECTED is excepted: the code may then  *)
(* forget the handle of a call that is up.                                        *)
HandleIsKnown ==
  ~overlapped /\ ~faulty /\ ~denied /\ connectFlag /\ modem # 0 =>
    \/ WdsConnectionIPv4Handle = modem
    \/ \E t \in Threads : pc[t] = "setup_done"

(* A disconnect() that returns true has ended the call, if reconnecting was armed *)
(* (a call found up at the start has no handle and stays up) and no query has     *)
(* denied the call since it was made (its handle is forgotten then).              *)
DisconnectEndsCall ==
  [][\A u \in Users :
       /\ op[u] = "disconnect" /\ pc[u] # "idle" /\ pc'[u] = "idle"
       /\ wish' = [op |-> "disconnect", ret |-> TRUE]
       /\ connectFlag /\ ~overlapped /\ ~faulty /\ ~denied
       => modem' = 0]_vars

(* No drop is forgotten: when nothing runs, a call that the user connected and    *)
(* that is down has an event waiting for it.                                      *)
NoForgottenDrop ==
  /\ Busy = {} /\ ~overlapped /\ ~faulty
  /\ connectFlag /\ modem = 0 /\ wish = [op |-> "connect", ret |-> TRUE]
  => events["DATA_CALL_LIST_CHANGED"] > 0

(* Such a call comes back, as long as the modem answers and accepts.              *)
DroppedCallComesBack ==
  connectFlag /\ modem = 0 /\ wish = [op |-> "connect", ret |-> TRUE]
    ~> modem # 0 \/ ~connectFlag \/ overlapped \/ faulty

===============================================================================
