---------------------------- MODULE DataCallProofs ----------------------------
(* Theorems about DataCall, for any set of users and workers, any handles and any *)
(* outcomes of requests.                                                          *)
EXTENDS DataCall, TLAPS

(* While no two operations have overlapped at most one thread is in one; the      *)
(* label of a thread tells its function; a worker is in connect() only to bring   *)
(* back a call that the user wants.                                               *)
OneAtATime ==
  ~overlapped => \A t, u \in Threads : pc[t] # "idle" /\ pc[u] # "idle" => t = u

(* Where a thread's operation may be.                                             *)
Labels == {"idle", "ask", "answered", "cleared", "stored", "queried", "setup",
           "setup_done", "stop", "stop_done"}

LabelsFit ==
  \A t \in Threads :
    /\ pc[t] \in {"setup", "setup_done"} => op[t] = "connect"
    /\ pc[t] \in {"stop", "stop_done"} => op[t] = "disconnect"
    /\ t \in Workers => op[t] # "disconnect"
    /\ t \in Users => op[t] \notin Events
    /\ pc[t] = "idle" => op[t] = "none"

WorkersConnectAsWished ==
  ~overlapped => \A w \in Workers : op[w] = "connect" => Wished

ArmedAsWished == ~overlapped /\ connectFlag => Wished

WishInv ==
  /\ pc \in [Threads -> Labels]
  /\ op \in [Threads -> {"none"} \cup UserOps \cup Events]
  /\ connectFlag \in BOOLEAN
  /\ overlapped \in BOOLEAN
  /\ OneAtATime
  /\ LabelsFit
  /\ WorkersConnectAsWished
  /\ ArmedAsWished

LEMMA WishInit == Init => WishInv
<1> SUFFICES ASSUME Init PROVE WishInv
  OBVIOUS
<1>1. /\ pc \in [Threads -> Labels]
      /\ op \in [Threads -> {"none"} \cup UserOps \cup Events]
      /\ \A t \in Threads : pc[t] = "idle" /\ op[t] = "none"
  BY DEF Init, Labels
<1>2. LabelsFit
  BY <1>1 DEF LabelsFit, Events
<1>3. OneAtATime /\ WorkersConnectAsWished /\ ArmedAsWished
  BY <1>1 DEF Init, OneAtATime, WorkersConnectAsWished, ArmedAsWished, Threads
<1>4. QED
  BY <1>1, <1>2, <1>3 DEF Init, WishInv

(* A step inside an operation that changes neither flag nor wish.                 *)
LEMMA WishInside ==
  ASSUME WishInv, NEW t \in Threads, NEW label \in Labels \ {"idle"},
         pc[t] # "idle", Goto(t, label),
         UNCHANGED <<op, connectFlag, wish, overlapped>>,
         label \in {"setup", "setup_done"} => op[t] = "connect",
         label \in {"stop", "stop_done"} => op[t] = "disconnect"
  PROVE  WishInv'
<1>1. pc' = [pc EXCEPT ![t] = label] /\ pc' \in [Threads -> Labels]
  BY DEF Goto, WishInv
<1>2. OneAtATime'
  BY <1>1 DEF WishInv, OneAtATime
<1>3. LabelsFit'
  BY <1>1 DEF WishInv, LabelsFit
<1>4. WorkersConnectAsWished' /\ ArmedAsWished'
  BY DEF WishInv, WorkersConnectAsWished, ArmedAsWished, Wished
<1>5. QED
  BY <1>1, <1>2, <1>3, <1>4 DEF WishInv

(* A return, with the flag it leaves.                                             *)
LEMMA WishReturn ==
  ASSUME WishInv, NEW t \in Threads, NEW r \in BOOLEAN,
         pc[t] # "idle", Leave(t, r), UNCHANGED overlapped,
         connectFlag' \in BOOLEAN,
         \/ /\ op[t] = "connect" /\ connectFlag' = r
         \/ /\ op[t] = "disconnect" /\ connectFlag' = ~r
         \/ /\ op[t] \in Events /\ UNCHANGED connectFlag
  PROVE  WishInv'
<1>1. /\ pc' = [pc EXCEPT ![t] = "idle"] /\ pc' \in [Threads -> Labels]
      /\ op' = [op EXCEPT ![t] = "none"]
      /\ op' \in [Threads -> {"none"} \cup UserOps \cup Events]
  BY DEF Leave, Goto, WishInv, Labels
<1>2. OneAtATime'
  BY <1>1 DEF WishInv, OneAtATime
<1>3. LabelsFit'
  BY <1>1 DEF WishInv, LabelsFit, UserOps, Events
<1>4. CASE t \in Users
  <2>1. /\ op[t] \notin Events
        /\ wish' = [op |-> op[t], ret |-> r]
    BY <1>4 DEF Leave, WishInv, LabelsFit
  <2>2. connectFlag' => Wished'
    BY <2>1 DEF Wished
  <2>3. \A w \in Workers : ~overlapped => op'[w] # "connect"
    BY <1>1, <1>4, DataCallAssumption DEF WishInv, OneAtATime, LabelsFit, Threads
  <2>4. QED
    BY <1>1, <1>2, <1>3, <2>2, <2>3 DEF WishInv, WorkersConnectAsWished, ArmedAsWished
<1>5. CASE t \in Workers
  <2>1. wish' = wish /\ op[t] # "disconnect"
    BY <1>5, DataCallAssumption DEF Leave, WishInv, LabelsFit
  <2>2. Wished' <=> Wished
    BY <2>1 DEF Wished
  <2>3. ~overlapped /\ connectFlag' => Wished
    BY <1>5, <2>1 DEF WishInv, WorkersConnectAsWished, ArmedAsWished
  <2>4. \A w \in Workers : ~overlapped /\ op'[w] = "connect" => Wished
    BY <1>1 DEF WishInv, WorkersConnectAsWished
  <2>5. QED
    BY <1>1, <1>2, <1>3, <2>2, <2>3, <2>4
       DEF WishInv, WorkersConnectAsWished, ArmedAsWished
<1>6. QED
  BY <1>4, <1>5 DEF Threads

(* Entering an operation.                                                         *)
LEMMA WishEnter ==
  ASSUME WishInv, NEW t \in Threads, NEW f \in UserOps \cup Events, Enter(t, f),
         t \in Users => f \in UserOps, t \in Workers => f \in Events
  PROVE  WishInv'
<1>1. /\ pc' = [pc EXCEPT ![t] = "ask"] /\ pc' \in [Threads -> Labels]
      /\ op' = [op EXCEPT ![t] = f]
      /\ op' \in [Threads -> {"none"} \cup UserOps \cup Events]
      /\ UNCHANGED <<connectFlag, wish>>
      /\ pc[t] = "idle"
  BY DEF Enter, Goto, WishInv, Labels, sharedVars
<1>2. overlapped' \in BOOLEAN /\ (~overlapped' => ~overlapped /\ Busy = {})
  BY DEF Enter
<1>3. OneAtATime'
  BY <1>1, <1>2 DEF OneAtATime, Busy
<1>4. LabelsFit'
  BY <1>1, DataCallAssumption DEF WishInv, LabelsFit, UserOps, Events, Threads
<1>5. WorkersConnectAsWished' /\ ArmedAsWished'
  BY <1>1, <1>2 DEF WishInv, WorkersConnectAsWished, ArmedAsWished, Wished, Events
<1>6. QED
  BY <1>1, <1>2, <1>3, <1>4, <1>5 DEF WishInv

LEMMA WishNext == WishInv /\ [Next]_vars => WishInv'
<1> SUFFICES ASSUME WishInv, [Next]_vars
             PROVE  WishInv'
  OBVIOUS
<1>1. ASSUME NEW u \in Users, NEW f \in UserOps, Call(u, f)
      PROVE  WishInv'
  BY <1>1, WishEnter, DataCallAssumption DEF Call, Threads
<1>2. ASSUME NEW w \in Workers, NEW e \in Events, recvNotify(w, e)
      PROVE  WishInv'
  BY <1>2, WishEnter, DataCallAssumption DEF recvNotify, Threads
<1>3. ASSUME NEW t \in Threads, QueryAnswered(t)
      PROVE  WishInv'
  BY <1>3, WishInside DEF QueryAnswered, sharedVars, historyVars, Labels
<1>4. ASSUME NEW t \in Threads, QueryUnanswered(t)
      PROVE  WishInv'
  BY <1>4, WishInside DEF QueryUnanswered, sharedVars, Labels
<1>5. ASSUME NEW t \in Threads, ClearStatus(t)
      PROVE  WishInv'
  BY <1>5, WishInside DEF ClearStatus, historyVars, Labels
<1>6. ASSUME NEW t \in Threads, StoreStatus(t)
      PROVE  WishInv'
  BY <1>6, WishInside DEF StoreStatus, historyVars, Labels
<1>7. ASSUME NEW t \in Threads, CheckHandle(t)
      PROVE  WishInv'
  BY <1>7, WishInside DEF CheckHandle, historyVars, Labels
<1>8. ASSUME NEW t \in Threads, ConnectDecides(t)
      PROVE  WishInv'
  <2>1. CASE Goto(t, "setup") /\ UNCHANGED <<connectFlag, op, wish>>
    BY <1>8, <2>1, WishInside DEF ConnectDecides, Labels
  <2>2. CASE connectFlag' = FALSE /\ Leave(t, FALSE)
    BY <1>8, <2>2, WishReturn DEF ConnectDecides
  <2>3. QED
    BY <1>8, <2>1, <2>2 DEF ConnectDecides
<1>9. ASSUME NEW t \in Threads, Setup(t)
      PROVE  WishInv'
  <2>1. op[t] = "connect"
    BY <1>9 DEF Setup, WishInv, LabelsFit
  <2>2. QED
    BY <1>9, <2>1, WishInside DEF Setup, sharedVars, Labels
<1>10. ASSUME NEW t \in Threads, SetupReturns(t)
       PROVE  WishInv'
  <2>1. op[t] = "connect" /\ Succeeded(t) \in BOOLEAN
    BY <1>10 DEF SetupReturns, WishInv, LabelsFit, Succeeded
  <2>2. QED
    BY <1>10, <2>1, WishReturn DEF SetupReturns
<1>11. ASSUME NEW t \in Threads, DisconnectDecides(t)
       PROVE  WishInv'
  <2>1. CASE Goto(t, "stop") /\ UNCHANGED <<connectFlag, op, wish>>
    BY <1>11, <2>1, WishInside DEF DisconnectDecides, Labels
  <2>2. CASE \E r \in BOOLEAN : DisconnectReturns(t, r)
    BY <1>11, <2>2, WishReturn DEF DisconnectDecides, DisconnectReturns
  <2>3. QED
    BY <1>11, <2>1, <2>2 DEF DisconnectDecides
<1>12. ASSUME NEW t \in Threads, Stop(t)
       PROVE  WishInv'
  <2>1. op[t] = "disconnect"
    BY <1>12 DEF Stop, WishInv, LabelsFit
  <2>2. QED
    BY <1>12, <2>1, WishInside DEF Stop, sharedVars, Labels
<1>13. ASSUME NEW t \in Threads, StopReturns(t)
       PROVE  WishInv'
  <2>1. op[t] = "disconnect" /\ Succeeded(t) \in BOOLEAN
    BY <1>13 DEF StopReturns, WishInv, LabelsFit, Succeeded
  <2>2. QED
    BY <1>13, <2>1, WishReturn DEF StopReturns, DisconnectReturns
<1>14. ASSUME NEW t \in Threads, NotifyDecides(t)
       PROVE  WishInv'
  <2>1. pc[t] = "queried" /\ op[t] \in Events /\ UNCHANGED <<connectFlag, overlapped>>
    BY <1>14 DEF NotifyDecides, sharedVars
  <2>2. CASE Leave(t, FALSE)
    BY <2>1, <2>2, WishReturn DEF WishInv
  <2>3. CASE /\ Reconnects(t) /\ Goto(t, "ask") /\ UNCHANGED wish
             /\ op' = [op EXCEPT ![t] = "connect"]
    <3>1. pc' = [pc EXCEPT ![t] = "ask"] /\ pc' \in [Threads -> Labels]
      BY <2>3 DEF Goto, WishInv, Labels
    <3>2. op' \in [Threads -> {"none"} \cup UserOps \cup Events]
      BY <2>3 DEF WishInv, UserOps
    <3>3. OneAtATime'
      BY <2>1, <3>1 DEF WishInv, OneAtATime
    <3>4. LabelsFit'
      BY <2>1, <2>3, <3>1 DEF WishInv, LabelsFit, Events
    <3>5. connectFlag
      BY <2>3 DEF Reconnects
    <3>6. WorkersConnectAsWished' /\ ArmedAsWished'
      BY <2>1, <2>3, <3>5 DEF WishInv, WorkersConnectAsWished, ArmedAsWished, Wished
    <3>7. QED
      BY <2>1, <3>1, <3>2, <3>3, <3>4, <3>6 DEF WishInv
  <2>4. QED
    BY <1>14, <2>2, <2>3 DEF NotifyDecides
<1>15. ASSUME ModemDrops \/ ModemIndicates \/ UNCHANGED vars
       PROVE  WishInv'
  <2>1. UNCHANGED <<pc, op, connectFlag, wish, overlapped>>
    BY <1>15 DEF ModemDrops, ModemIndicates, vars, sharedVars, historyVars
  <2>2. QED
    BY <2>1 DEF WishInv, OneAtATime, LabelsFit, WorkersConnectAsWished,
       ArmedAsWished, Wished
<1>16. QED
  BY <1>1, <1>2, <1>3, <1>4, <1>5, <1>6, <1>7, <1>8, <1>9, <1>10, <1>11, <1>12,
     <1>13, <1>14, <1>15 DEF Next, Step

(* As long as no two operations overlap, a worker starts a call only if the       *)
(* user's last connect() succeeded or the last disconnect() failed, whatever      *)
(* requests fail and however many events are waiting.                             *)
THEOREM WorkersReconnectAsWished == Spec => []ReconnectIsWished
<1>1. WishInv => ReconnectIsWished
  BY DEF WishInv, ReconnectIsWished, ArmedAsWished, WorkersConnectAsWished,
     LabelsFit, Threads
<1>2. QED
  BY <1>1, WishInit, WishNext, PTL DEF Spec

-------------------------------------------------------------------------------
(* The handle of the call, and drops, as long as no two operations overlapped and  *)
(* every request was answered; and, for the handle, as long as no query has denied *)
(* the call that is up.                                                            *)

(* What a request may come to.                                                   *)
Outs == {"none", "CONNECTED", "DISCONNECTED", "ok", "error", "fail", "phantom",
         "unclear", "suspended"}

Quiet == ~overlapped /\ ~faulty

(* Every variable the steps below compare has its type.                          *)
CallType ==
  /\ modem \in Nat
  /\ last \in Nat
  /\ WdsConnectionIPv4Handle \in Nat
  /\ events \in [Events -> Nat]
  /\ got \in [Threads -> [out : Outs, val : Nat]]
  /\ faulty \in BOOLEAN
  /\ denied \in BOOLEAN

(* No call is up, or a query did not call it CONNECTED.                             *)
GoneOrDenied == modem = 0 \/ denied

(* What a response or the status says about the call that is not up stays true:   *)
(* only the thread itself can start a call.                                       *)
HeardStatus(t) ==
  /\ pc[t] \in {"answered", "cleared"} =>
       /\ got[t].out \in {"CONNECTED", "DISCONNECTED"} \cup Denials
       /\ got[t].out # "CONNECTED" => GoneOrDenied
  /\ pc[t] = "cleared" => IPv4ConnectionStatus = "DISCONNECTED"
  /\ pc[t] \in {"stored", "queried"} =>
       /\ IPv4ConnectionStatus \in {"CONNECTED", "DISCONNECTED", "suspended"}
       /\ IPv4ConnectionStatus # "CONNECTED" => GoneOrDenied

(* A setup starts with no call, or one that was denied; its response has the handle *)
(* of the call, which may have dropped since and has posted an event.             *)
HeardSetup(t) ==
  /\ pc[t] = "setup" => GoneOrDenied
  /\ pc[t] = "setup_done" =>
       /\ got[t].out \in {"ok", "error"}
       /\ got[t].out = "error" => GoneOrDenied
       /\ got[t].out = "ok" => /\ modem \in {0, got[t].val}
                               /\ events["DATA_CALL_LIST_CHANGED"] > 0

HeardStop(t) ==
  /\ pc[t] \in {"stop", "stop_done"} => WdsConnectionIPv4Handle # 0
  /\ pc[t] = "stop_done" => /\ got[t].out \in {"ok", "error"}
                            /\ got[t].out = "ok" => modem = 0

Heard == \A t \in Threads : HeardStatus(t) /\ HeardSetup(t) /\ HeardStop(t)

Known ==
  ~GoneOrDenied /\ (\A t \in Threads : pc[t] # "setup_done") =>
    /\ WdsConnectionIPv4Handle \in {0, modem}
    /\ connectFlag => WdsConnectionIPv4Handle # 0

(* A thread that has noticed, or is about to notice, that the call is down, and    *)
(* will bring it back or give up.                                                  *)
Notices(t) ==
  /\ op[t] \in {"DATA_CALL_LIST_CHANGED", "connect"}
  /\ \/ pc[t] = "ask"
     \/ pc[t] \in {"answered", "cleared"} /\ got[t].out # "CONNECTED"
     \/ pc[t] \in {"stored", "queried"} /\ IPv4ConnectionStatus # "CONNECTED"
     \/ pc[t] = "setup"
     \/ pc[t] = "setup_done" /\ got[t].out = "error"

Connected == wish = [op |-> "connect", ret |-> TRUE]

DropHeard ==
  connectFlag /\ modem = 0 /\ Connected =>
    \/ events["DATA_CALL_LIST_CHANGED"] > 0
    \/ \E t \in Threads : Notices(t)

HandleInv == CallType /\ (Quiet => Heard /\ Known /\ DropHeard)

-------------------------------------------------------------------------------
(* At the start no request was made, and nothing is known of a call.                *)
LEMMA HandleInit == Init => HandleInv
<1> SUFFICES ASSUME Init PROVE HandleInv
  OBVIOUS
<1>1. CallType
  <2>1. NoResponse \in [out : Outs, val : Nat]
    BY DEF NoResponse, Outs
  <2>2. got \in [Threads -> [out : Outs, val : Nat]]
    BY <2>1 DEF Init
  <2>3. events \in [Events -> Nat]
    BY DEF Init
  <2>4. modem \in Nat /\ last \in Nat /\ WdsConnectionIPv4Handle \in Nat
    BY DEF Init
  <2>5. faulty \in BOOLEAN /\ denied \in BOOLEAN
    BY DEF Init
  <2>6. QED
    BY <2>2, <2>3, <2>4, <2>5 DEF CallType
<1>2. Heard
  BY DEF Init, Heard, HeardStatus, HeardSetup, HeardStop
<1>3. Known /\ DropHeard
  BY DEF Init, Known, DropHeard
<1>4. QED
  BY <1>1, <1>2, <1>3 DEF HandleInv

(* A posted event is one more of its kind.                                       *)
LEMMA PostEffect ==
  ASSUME CallType, NEW e \in Events, Post(e)
  PROVE  /\ events' \in [Events -> Nat]
         /\ events'[e] > 0
         /\ \A f \in Events : events'[f] >= events[f]
BY DEF Post, CallType

(* The modem numbers a new call from 1 on.                                         *)
LEMMA StartEffect ==
  ASSUME CallType, StartCall
  PROVE  /\ modem' \in Nat \ {0} /\ last' \in Nat
         /\ events' \in [Events -> Nat]
         /\ events'["DATA_CALL_LIST_CHANGED"] > 0
<1>1. last % Handles \in Nat
  BY DataCallAssumption DEF CallType
<1>2. modem' \in Nat \ {0} /\ last' \in Nat
  BY <1>1 DEF StartCall
<1>3. QED
  BY <1>2, PostEffect DEF StartCall, Events

(* Every step keeps the types.                                                     *)
LEMMA CallTypeNext == CallType /\ [Next]_vars => CallType'
<1> SUFFICES ASSUME CallType, [Next]_vars PROVE CallType'
  OBVIOUS
<1>1. ASSUME NEW t \in Threads, NEW f, Enter(t, f),
             UNCHANGED events \/ \E e \in Events :
               events[e] > 0 /\ events' = [events EXCEPT ![e] = @ - 1]
      PROVE  CallType'
  BY <1>1 DEF Enter, CallType, sharedVars
<1>2. ASSUME NEW u \in Users, NEW f \in UserOps, Call(u, f)
      PROVE  CallType'
  BY <1>1, <1>2 DEF Call, Threads
<1>3. ASSUME NEW w \in Workers, NEW e \in Events, recvNotify(w, e)
      PROVE  CallType'
  BY <1>1, <1>3 DEF recvNotify, Threads
<1>4. ASSUME NEW t \in Threads, QueryAnswered(t)
      PROVE  CallType'
  <2>1. \E o \in {ModemStatus} \cup Denials :
          got' = [got EXCEPT ![t] = [out |-> o, val |-> 0]]
    BY <1>4 DEF QueryAnswered
  <2>2. {ModemStatus} \cup Denials \subseteq Outs
    BY DEF ModemStatus, Outs, Denials
  <2>3. got' \in [Threads -> [out : Outs, val : Nat]]
    BY <2>1, <2>2 DEF CallType
  <2>4. denied' \in BOOLEAN
    BY <1>4 DEF QueryAnswered, CallType
  <2>5. QED
    BY <1>4, <2>3, <2>4 DEF QueryAnswered, CallType, sharedVars
<1>5. ASSUME NEW t \in Threads,
             QueryUnanswered(t) \/ ClearStatus(t) \/ StoreStatus(t) \/ CheckHandle(t)
      PROVE  CallType'
  <2>1. NoResponse \in [out : Outs, val : Nat]
    BY DEF NoResponse, Outs
  <2>2. CASE QueryUnanswered(t) \/ ClearStatus(t)
    BY <2>2 DEF QueryUnanswered, ClearStatus, CallType, sharedVars, historyVars
  <2>3. CASE StoreStatus(t)
    BY <2>1, <2>3 DEF StoreStatus, CallType, historyVars
  <2>4. CASE CheckHandle(t)
    BY <2>4 DEF CheckHandle, ForgetHandle, CallType, historyVars
  <2>5. QED
    BY <1>5, <2>2, <2>3, <2>4
<1>6. ASSUME NEW t \in Threads,
             ConnectDecides(t) \/ DisconnectDecides(t) \/ NotifyDecides(t)
      PROVE  CallType'
  BY <1>6 DEF ConnectDecides, DisconnectDecides, NotifyDecides, DisconnectReturns, Leave,
     CallType, sharedVars
<1>7. ASSUME NEW t \in Threads, Setup(t)
      PROVE  CallType'
  <2>1. StartCall \/ UNCHANGED <<modem, last, events>>
    BY <1>7 DEF Setup
  <2>2. modem' \in Nat /\ last' \in Nat /\ events' \in [Events -> Nat]
    BY <2>1, StartEffect DEF CallType
  <2>3. \E o \in {"ok", "error"} \cup Outcomes, v \in Nat :
          got' = [got EXCEPT ![t] = [out |-> o, val |-> v]]
    BY <1>7, <2>2 DEF Setup
  <2>4. faulty' \in BOOLEAN /\ denied' \in BOOLEAN
    BY <1>7 DEF Setup, StartCall, CallType
  <2>5. Outcomes \cup {"ok", "error"} \subseteq Outs
    BY DataCallAssumption DEF Outs
  <2>6. got' \in [Threads -> [out : Outs, val : Nat]]
    BY <2>3, <2>5 DEF CallType
  <2>7. QED
    BY <1>7, <2>2, <2>4, <2>6 DEF Setup, CallType, sharedVars
<1>8. ASSUME NEW t \in Threads, Stop(t)
      PROVE  CallType'
  <2>1. StopCall \/ UNCHANGED <<modem, events>>
    BY <1>8 DEF Stop
  <2>2. modem' \in Nat /\ events' \in [Events -> Nat]
    BY <2>1, PostEffect DEF StopCall, CallType, Events
  <2>3. \E o \in {"ok", "error"} \cup Outcomes :
          got' = [got EXCEPT ![t] = [out |-> o, val |-> 0]]
    BY <1>8 DEF Stop
  <2>4. faulty' \in BOOLEAN
    BY <1>8 DEF Stop, CallType
  <2>5. Outcomes \cup {"ok", "error"} \subseteq Outs
    BY DataCallAssumption DEF Outs
  <2>6. got' \in [Threads -> [out : Outs, val : Nat]]
    BY <2>3, <2>5 DEF CallType
  <2>7. QED
    BY <1>8, <2>2, <2>4, <2>6 DEF Stop, CallType, sharedVars
<1>9. ASSUME NEW t \in Threads, SetupReturns(t) \/ StopReturns(t)
      PROVE  CallType'
  <2>1. got[t].val \in Nat /\ Succeeded(t) \in BOOLEAN
    BY DEF CallType, Succeeded
  <2>2. QED
    BY <1>9, <2>1 DEF SetupReturns, StopReturns, DisconnectReturns, Leave, NoResponse, Outs,
       CallType
<1>10. ASSUME ModemDrops \/ ModemIndicates
       PROVE  CallType'
  BY <1>10, PostEffect DEF ModemDrops, ModemIndicates, CallType, sharedVars, historyVars,
     Events
<1>11. CASE UNCHANGED vars
  BY <1>11 DEF vars, sharedVars, historyVars, CallType
<1>12. QED
  BY <1>2, <1>3, <1>4, <1>5, <1>6, <1>7, <1>8, <1>9, <1>10, <1>11 DEF Next, Step

(* Overlaps and missing answers are not forgotten.                                 *)
LEMMA QuietStays == [Next]_vars /\ Quiet' => Quiet
<1> SUFFICES ASSUME [Next]_vars PROVE (overlapped => overlapped') /\ (faulty => faulty')
  BY DEF Quiet
<1> USE DEF historyVars
<1>1. ASSUME NEW t \in Threads, NEW f, Enter(t, f)
      PROVE  (overlapped => overlapped') /\ (faulty => faulty')
  BY <1>1 DEF Enter
<1>2. ASSUME NEW t \in Threads,
             \/ QueryAnswered(t) \/ ClearStatus(t) \/ StoreStatus(t) \/ CheckHandle(t)
             \/ ConnectDecides(t) \/ SetupReturns(t) \/ DisconnectDecides(t)
             \/ StopReturns(t) \/ NotifyDecides(t)
      PROVE  UNCHANGED <<overlapped, faulty>>
  <2>1. CASE QueryAnswered(t) \/ ClearStatus(t) \/ StoreStatus(t) \/ CheckHandle(t)
    BY <2>1 DEF QueryAnswered, ClearStatus, StoreStatus, CheckHandle
  <2>2. CASE ConnectDecides(t) \/ DisconnectDecides(t) \/ NotifyDecides(t)
    BY <2>2 DEF ConnectDecides, DisconnectDecides, NotifyDecides
  <2>3. CASE SetupReturns(t) \/ StopReturns(t)
    BY <2>3 DEF SetupReturns, StopReturns
  <2>4. QED
    BY <1>2, <2>1, <2>2, <2>3
<1>3. ASSUME NEW t \in Threads, QueryUnanswered(t) \/ Setup(t) \/ Stop(t)
      PROVE  (overlapped => overlapped') /\ (faulty => faulty')
  BY <1>3 DEF QueryUnanswered, Setup, Stop
<1>4. CASE ModemDrops \/ ModemIndicates \/ UNCHANGED vars
  BY <1>4 DEF ModemDrops, ModemIndicates, vars
<1>5. QED
  BY <1>1, <1>2, <1>3, <1>4 DEF Next, Step, Call, recvNotify, Threads

(* What a thread that is alone has to keep: the others are idle, and idle threads   *)
(* wait for nothing.                                                               *)
Alone(t) == \A u \in Threads : u # t => pc[u] = "idle"

LEMMA QuietThreadIsAlone ==
  ASSUME WishInv, Quiet, NEW t \in Threads, pc[t] # "idle"
  PROVE  Alone(t)
BY DEF WishInv, OneAtATime, Quiet, Alone

LEMMA AloneHeard ==
  ASSUME WishInv, NEW t \in Threads, Alone(t), NEW label, Goto(t, label),
         HeardStatus(t)', HeardSetup(t)', HeardStop(t)'
  PROVE  Heard'
<1> SUFFICES ASSUME NEW u \in Threads, u # t
             PROVE  (HeardStatus(u) /\ HeardSetup(u) /\ HeardStop(u))'
  BY DEF Heard
<1>1. pc'[u] = "idle"
  BY DEF Alone, Goto, WishInv
<1>2. QED
  BY <1>1 DEF HeardStatus, HeardSetup, HeardStop

(* A drop that a thread alone leaves as it finds it, with its events.               *)
LEMMA AloneDrop ==
  ASSUME NEW t \in Threads, Alone(t), DropHeard, UNCHANGED <<connectFlag, wish>>,
         modem' = 0 => modem = 0,
         events'["DATA_CALL_LIST_CHANGED"] = events["DATA_CALL_LIST_CHANGED"],
         Notices(t) => Notices(t)'
  PROVE  DropHeard'
<1>1. \A u \in Threads : Notices(u) => u = t
  BY DEF Alone, Notices
<1>2. QED
  BY <1>1 DEF DropHeard, Connected

(* Each step keeps what is known of the call.                                      *)
LEMMA HandleNext == WishInv /\ HandleInv /\ [Next]_vars => HandleInv'
<1> SUFFICES ASSUME WishInv, HandleInv, [Next]_vars, Quiet'
             PROVE  Heard' /\ Known' /\ DropHeard'
  BY CallTypeNext DEF HandleInv
<1> Quiet /\ CallType /\ Heard /\ Known /\ DropHeard
  BY QuietStays DEF HandleInv
<1>1. ASSUME NEW t \in Threads, NEW f \in UserOps \cup Events, Enter(t, f),
             \/ UNCHANGED events
             \/ f \in Events /\ events' = [events EXCEPT ![f] = @ - 1]
      PROVE  Heard' /\ Known' /\ DropHeard'
  <2>1. \A u \in Threads : pc[u] = "idle"
    BY <1>1 DEF Enter, Quiet, Busy
  <2>2. /\ \A u \in Threads : pc'[u] = IF u = t THEN "ask" ELSE "idle"
        /\ op'[t] = f
        /\ UNCHANGED <<modem, WdsConnectionIPv4Handle, connectFlag, wish, denied>>
    BY <1>1, <2>1 DEF Enter, Goto, WishInv, sharedVars
  <2>3. Heard'
    BY <2>2 DEF Heard, HeardStatus, HeardSetup, HeardStop
  <2>4. Known'
    BY <2>1, <2>2 DEF Known, GoneOrDenied
  <2>5. connectFlag /\ modem = 0 /\ Connected => events["DATA_CALL_LIST_CHANGED"] > 0
    BY <2>1 DEF DropHeard, Notices
  <2>6. CASE f = "DATA_CALL_LIST_CHANGED"
    BY <2>2, <2>3, <2>4, <2>6 DEF DropHeard, Notices
  <2>7. CASE f # "DATA_CALL_LIST_CHANGED"
    <3>1. events'["DATA_CALL_LIST_CHANGED"] = events["DATA_CALL_LIST_CHANGED"]
      BY <1>1, <2>7 DEF CallType, Events
    <3>2. DropHeard'
      BY <2>2, <2>5, <3>1 DEF DropHeard, Connected
    <3>3. QED
      BY <2>3, <2>4, <3>2
  <2>8. QED
    BY <2>6, <2>7
<1>2. ASSUME NEW u \in Users, NEW f \in UserOps, Call(u, f)
      PROVE  Heard' /\ Known' /\ DropHeard'
  BY <1>1, <1>2 DEF Call, Threads
<1>3. ASSUME NEW w \in Workers, NEW e \in Events, recvNotify(w, e)
      PROVE  Heard' /\ Known' /\ DropHeard'
  BY <1>1, <1>3 DEF recvNotify, Threads
<1>4. ASSUME NEW t \in Threads, QueryAnswered(t)
      PROVE  Heard' /\ Known' /\ DropHeard'
  <2>1. /\ Alone(t) /\ pc[t] = "ask" /\ Goto(t, "answered") /\ pc'[t] = "answered"
        /\ \/ got'[t].out = ModemStatus /\ denied' = denied
           \/ modem # 0 /\ got'[t].out \in Denials /\ denied' = TRUE
        /\ UNCHANGED <<modem, events, sharedVars, op, wish>>
    BY <1>4, QuietThreadIsAlone DEF QueryAnswered, CallType, Goto, WishInv
  <2>2. Heard'
    BY <2>1, AloneHeard
       DEF HeardStatus, HeardSetup, HeardStop, ModemStatus, GoneOrDenied
  <2>3. Known'
    BY <2>1 DEF Known, Goto, Alone, sharedVars, GoneOrDenied
  <2>4. modem = 0 => (Notices(t) => Notices(t)')
    BY <2>1 DEF Notices, ModemStatus
  <2>5. DropHeard'
    BY <2>1, <2>4, AloneDrop DEF sharedVars, DropHeard
  <2>6. QED
    BY <2>2, <2>3, <2>5
<1>5. ASSUME NEW t \in Threads, QueryUnanswered(t)
      PROVE  FALSE
  BY <1>5 DEF QueryUnanswered, Quiet
<1>6. ASSUME NEW t \in Threads, ClearStatus(t)
      PROVE  Heard' /\ Known' /\ DropHeard'
  <2>1. /\ Alone(t) /\ pc[t] = "answered" /\ Goto(t, "cleared") /\ pc'[t] = "cleared"
        /\ IPv4ConnectionStatus' = "DISCONNECTED"
        /\ UNCHANGED <<modem, events, WdsConnectionIPv4Handle, connectFlag, op, wish, got,
                       denied>>
    BY <1>6, QuietThreadIsAlone DEF ClearStatus, Goto, WishInv, historyVars
  <2>2. Heard'
    BY <2>1, AloneHeard DEF Heard, HeardStatus, HeardSetup, HeardStop, GoneOrDenied
  <2>3. Known'
    BY <2>1 DEF Known, Goto, Alone, GoneOrDenied
  <2>4. Notices(t) => Notices(t)'
    BY <2>1 DEF Notices
  <2>5. QED
    BY <2>1, <2>2, <2>3, <2>4, AloneDrop
<1>7. ASSUME NEW t \in Threads, StoreStatus(t)
      PROVE  Heard' /\ Known' /\ DropHeard'
  <2>1. /\ Alone(t) /\ pc[t] = "cleared" /\ Goto(t, "stored") /\ pc'[t] = "stored"
        /\ got[t].out \in {"CONNECTED", "DISCONNECTED"} \cup Denials
        /\ IPv4ConnectionStatus' = IF got[t].out = "unclear" THEN "DISCONNECTED"
                                   ELSE got[t].out
        /\ UNCHANGED <<modem, events, WdsConnectionIPv4Handle, connectFlag, op, wish,
                       denied>>
    BY <1>7, QuietThreadIsAlone
       DEF StoreStatus, Goto, WishInv, historyVars, Heard, HeardStatus
  <2>2. Heard'
    BY <2>1, AloneHeard DEF Heard, HeardStatus, HeardSetup, HeardStop, GoneOrDenied,
       Denials
  <2>3. Known'
    BY <2>1 DEF Known, Goto, Alone, GoneOrDenied
  <2>4. Notices(t) => Notices(t)'
    BY <2>1 DEF Notices, Denials
  <2>5. QED
    BY <2>1, <2>2, <2>3, <2>4, AloneDrop
<1>8. ASSUME NEW t \in Threads, CheckHandle(t)
      PROVE  Heard' /\ Known' /\ DropHeard'
  <2>1. /\ Alone(t) /\ pc[t] = "stored" /\ Goto(t, "queried") /\ pc'[t] = "queried"
        /\ ForgetHandle
        /\ UNCHANGED <<modem, events, IPv4ConnectionStatus, connectFlag, op, wish, denied>>
    BY <1>8, QuietThreadIsAlone DEF CheckHandle, Goto, WishInv, historyVars
  <2>2. /\ IPv4ConnectionStatus \in {"CONNECTED", "DISCONNECTED", "suspended"}
        /\ IPv4ConnectionStatus # "CONNECTED" => GoneOrDenied
    BY <2>1 DEF Heard, HeardStatus
  <2>3. Heard'
    BY <2>1, <2>2, AloneHeard DEF HeardStatus, HeardSetup, HeardStop, GoneOrDenied
  <2>4. Known'
    BY <2>1, <2>2 DEF ForgetHandle, Known, Goto, Alone, GoneOrDenied
  <2>5. Notices(t) => Notices(t)'
    BY <2>1 DEF Notices
  <2>6. QED
    BY <2>1, <2>3, <2>4, <2>5, AloneDrop
<1>9. ASSUME NEW t \in Threads, ConnectDecides(t)
      PROVE  Heard' /\ Known' /\ DropHeard'
  <2>1. /\ Alone(t) /\ pc[t] = "queried"
        /\ IPv4ConnectionStatus # "CONNECTED" => GoneOrDenied
        /\ UNCHANGED <<modem, events, IPv4ConnectionStatus, WdsConnectionIPv4Handle, denied>>
    BY <1>9, QuietThreadIsAlone DEF ConnectDecides, Heard, HeardStatus
  <2>2. CASE /\ IPv4ConnectionStatus # "CONNECTED" /\ Goto(t, "setup")
             /\ UNCHANGED <<connectFlag, op, wish>>
    <3>1. pc'[t] = "setup"
      BY <2>2 DEF Goto, WishInv
    <3>2. Heard'
      BY <2>1, <2>2, <3>1, AloneHeard DEF HeardStatus, HeardSetup, HeardStop, GoneOrDenied
    <3>3. Known'
      BY <2>1, <2>2 DEF Known, GoneOrDenied
    <3>4. Notices(t) => Notices(t)'
      BY <2>2, <3>1 DEF Notices
    <3>5. QED
      BY <2>1, <2>2, <3>2, <3>3, <3>4, AloneDrop
  <2>3. CASE connectFlag' = FALSE /\ Leave(t, FALSE)
    <3>1. Goto(t, "idle") /\ pc'[t] = "idle"
      BY <2>3 DEF Leave, Goto, WishInv
    <3>2. Heard'
      BY <2>1, <3>1, AloneHeard DEF HeardStatus, HeardSetup, HeardStop, GoneOrDenied
    <3>3. QED
      BY <2>1, <2>3, <3>2 DEF Known, GoneOrDenied, Alone, DropHeard
  <2>4. QED
    BY <1>9, <2>2, <2>3 DEF ConnectDecides
<1>10. ASSUME NEW t \in Threads, Setup(t)
       PROVE  Heard' /\ Known' /\ DropHeard'
  <2>1. /\ Alone(t) /\ pc[t] = "setup" /\ Goto(t, "setup_done") /\ pc'[t] = "setup_done"
        /\ op[t] = "connect" /\ GoneOrDenied
        /\ UNCHANGED <<WdsConnectionIPv4Handle, connectFlag, op, wish>>
    BY <1>10, QuietThreadIsAlone
       DEF Setup, Goto, WishInv, LabelsFit, Heard, HeardSetup, sharedVars
  <2>2. \/ StartCall /\ got' = [got EXCEPT ![t] = [out |-> "ok", val |-> modem']]
        \/ /\ got' = [got EXCEPT ![t] = [out |-> "error", val |-> 0]]
           /\ UNCHANGED <<modem, events, denied>>
    BY <1>10 DEF Setup, Quiet
  <2>3. CASE StartCall /\ got' = [got EXCEPT ![t] = [out |-> "ok", val |-> modem']]
    <3>1. /\ modem' # 0 /\ events'["DATA_CALL_LIST_CHANGED"] > 0
          /\ got'[t].out = "ok" /\ got'[t].val = modem'
      BY <2>3, StartEffect DEF CallType
    <3>2. Heard'
      BY <2>1, <3>1, AloneHeard DEF HeardStatus, HeardSetup, HeardStop, GoneOrDenied
    <3>3. QED
      BY <2>1, <3>1, <3>2 DEF Known, DropHeard
  <2>4. CASE /\ got' = [got EXCEPT ![t] = [out |-> "error", val |-> 0]]
             /\ UNCHANGED <<modem, events, denied>>
    <3>1. got'[t].out = "error"
      BY <2>4 DEF CallType
    <3>2. Heard'
      BY <2>1, <2>4, <3>1, AloneHeard DEF HeardStatus, HeardSetup, HeardStop, GoneOrDenied
    <3>3. Notices(t)'
      BY <2>1, <3>1 DEF Notices
    <3>4. QED
      BY <2>1, <2>4, <3>2, <3>3 DEF Known, DropHeard
  <2>5. QED
    BY <2>2, <2>3, <2>4
<1>11. ASSUME NEW t \in Threads, SetupReturns(t)
       PROVE  Heard' /\ Known' /\ DropHeard'
  <2>1. /\ Alone(t) /\ pc[t] = "setup_done" /\ Goto(t, "idle") /\ pc'[t] = "idle"
        /\ WdsConnectionIPv4Handle' = IF got[t].out = "ok" THEN got[t].val
                                      ELSE WdsConnectionIPv4Handle
        /\ connectFlag' = Succeeded(t)
        /\ UNCHANGED <<modem, events, denied>>
    BY <1>11, QuietThreadIsAlone DEF SetupReturns, Leave, Goto, WishInv
  <2>2. /\ got[t].out \in {"ok", "error"}
        /\ got[t].out = "error" => GoneOrDenied
        /\ got[t].out = "ok" => /\ modem \in {0, got[t].val}
                                /\ events["DATA_CALL_LIST_CHANGED"] > 0
    BY <2>1 DEF Heard, HeardSetup
  <2>3. Heard'
    BY <2>1, AloneHeard DEF HeardStatus, HeardSetup, HeardStop
  <2>4. Known'
    BY <2>1, <2>2 DEF Known, Succeeded, GoneOrDenied
  <2>5. DropHeard'
    BY <2>1, <2>2 DEF DropHeard, Succeeded
  <2>6. QED
    BY <2>3, <2>4, <2>5
<1>12. ASSUME NEW t \in Threads, NEW done \in BOOLEAN, op[t] = "disconnect",
              pc[t] # "idle", DisconnectReturns(t, done), UNCHANGED <<modem, events, denied>>,
              \/ GoneOrDenied
              \/ done /\ WdsConnectionIPv4Handle' = WdsConnectionIPv4Handle
              \/ WdsConnectionIPv4Handle' # 0
                 /\ WdsConnectionIPv4Handle' = WdsConnectionIPv4Handle
       PROVE  Heard' /\ Known' /\ DropHeard'
  <2>1. /\ Alone(t) /\ Goto(t, "idle") /\ pc'[t] = "idle" /\ connectFlag' = ~done
        /\ t \in Users /\ wish' = [op |-> "disconnect", ret |-> done]
        /\ pc[t] # "setup_done"
    BY <1>12, QuietThreadIsAlone
       DEF DisconnectReturns, Leave, Goto, WishInv, LabelsFit, Threads
  <2>2. Heard'
    BY <2>1, AloneHeard DEF HeardStatus, HeardSetup, HeardStop
  <2>3. Known'
    BY <1>12, <2>1 DEF Known, GoneOrDenied, Alone
  <2>4. DropHeard'
    BY <2>1 DEF DropHeard, Connected
  <2>5. QED
    BY <2>2, <2>3, <2>4
<1>13. ASSUME NEW t \in Threads, DisconnectDecides(t)
       PROVE  Heard' /\ Known' /\ DropHeard'
  <2>1. /\ Alone(t) /\ pc[t] = "queried" /\ op[t] = "disconnect"
        /\ IPv4ConnectionStatus # "CONNECTED" => GoneOrDenied
        /\ UNCHANGED <<modem, events, WdsConnectionIPv4Handle, denied>>
    BY <1>13, QuietThreadIsAlone DEF DisconnectDecides, Heard, HeardStatus
  <2>2. CASE /\ WdsConnectionIPv4Handle # 0 /\ Goto(t, "stop")
             /\ UNCHANGED <<connectFlag, op, wish>>
    <3>1. pc'[t] = "stop"
      BY <2>2 DEF Goto, WishInv
    <3>2. Heard'
      BY <2>1, <2>2, <3>1, AloneHeard DEF HeardStatus, HeardSetup, HeardStop
    <3>3. Known'
      BY <2>1, <2>2 DEF Known, GoneOrDenied, Alone
    <3>4. ~Notices(t)
      BY <2>1 DEF Notices
    <3>5. QED
      BY <2>1, <2>2, <3>2, <3>3, <3>4, AloneDrop
  <2>3. CASE DisconnectReturns(t, TRUE)
    BY <1>12, <2>1, <2>3
  <2>4. CASE IPv4ConnectionStatus # "CONNECTED" /\ DisconnectReturns(t, FALSE)
    BY <1>12, <2>1, <2>4
  <2>5. QED
    BY <1>13, <2>2, <2>3, <2>4 DEF DisconnectDecides
<1>14. ASSUME NEW t \in Threads, Stop(t)
       PROVE  Heard' /\ Known' /\ DropHeard'
  <2>1. /\ Alone(t) /\ pc[t] = "stop" /\ Goto(t, "stop_done") /\ pc'[t] = "stop_done"
        /\ WdsConnectionIPv4Handle # 0
        /\ UNCHANGED <<WdsConnectionIPv4Handle, connectFlag, op, wish, denied>>
    BY <1>14, QuietThreadIsAlone DEF Stop, Goto, WishInv, Heard, HeardStop, sharedVars
  <2>2. \/ StopCall /\ got' = [got EXCEPT ![t] = [out |-> "ok", val |-> 0]]
        \/ /\ got' = [got EXCEPT ![t] = [out |-> "error", val |-> 0]]
           /\ UNCHANGED <<modem, events>>
    BY <1>14 DEF Stop, Quiet
  <2>3. CASE StopCall /\ got' = [got EXCEPT ![t] = [out |-> "ok", val |-> 0]]
    <3>1. modem' = 0 /\ events'["DATA_CALL_LIST_CHANGED"] > 0 /\ got'[t].out = "ok"
      BY <2>3, PostEffect DEF StopCall, CallType, Events
    <3>2. Heard'
      BY <2>1, <3>1, AloneHeard DEF HeardStatus, HeardSetup, HeardStop
    <3>3. QED
      BY <3>1, <3>2 DEF Known, DropHeard, GoneOrDenied
  <2>4. CASE /\ got' = [got EXCEPT ![t] = [out |-> "error", val |-> 0]]
             /\ UNCHANGED <<modem, events>>
    <3>1. got'[t].out = "error"
      BY <2>4 DEF CallType
    <3>2. Heard'
      BY <2>1, <3>1, AloneHeard DEF HeardStatus, HeardSetup, HeardStop
    <3>3. ~Notices(t)
      BY <2>1 DEF Notices
    <3>4. QED
      BY <2>1, <2>4, <3>2, <3>3, AloneDrop DEF Known, GoneOrDenied, Goto, Alone
  <2>5. QED
    BY <2>2, <2>3, <2>4
<1>15. ASSUME NEW t \in Threads, StopReturns(t)
       PROVE  Heard' /\ Known' /\ DropHeard'
  <2>1. /\ pc[t] = "stop_done" /\ op[t] = "disconnect" /\ WdsConnectionIPv4Handle # 0
        /\ got[t].out \in {"ok", "error"} /\ (got[t].out = "ok" => GoneOrDenied)
    BY <1>15 DEF StopReturns, WishInv, LabelsFit, Heard, HeardStop, GoneOrDenied
  <2>2. Succeeded(t) \in BOOLEAN
    BY DEF Succeeded
  <2>3. QED
    BY <1>12, <1>15, <2>1, <2>2 DEF StopReturns
<1>16. ASSUME NEW t \in Threads, NotifyDecides(t)
       PROVE  Heard' /\ Known' /\ DropHeard'
  <2>1. /\ Alone(t) /\ pc[t] = "queried" /\ op[t] \in Events
        /\ UNCHANGED <<modem, events, sharedVars, denied>>
    BY <1>16, QuietThreadIsAlone DEF NotifyDecides
  <2>2. CASE /\ op' = [op EXCEPT ![t] = "connect"] /\ Goto(t, "ask")
             /\ UNCHANGED wish
    <3>1. pc'[t] = "ask" /\ op'[t] = "connect"
      BY <2>2 DEF Goto, WishInv
    <3>2. Heard'
      BY <2>2, <2>1, <3>1, AloneHeard DEF HeardStatus, HeardSetup, HeardStop
    <3>3. Notices(t)'
      BY <3>1 DEF Notices
    <3>4. Known'
      BY <2>1, <2>2 DEF Known, GoneOrDenied, sharedVars, Alone
    <3>5. QED
      BY <2>1, <2>2, <3>2, <3>3, <3>4, AloneDrop DEF sharedVars
  <2>3. CASE /\ op[t] = "NETWORK_STATE_CHANGED" \/ ~Reconnects(t)
             /\ Leave(t, FALSE)
    <3>1. /\ Goto(t, "idle") /\ pc'[t] = "idle"
          /\ wish' = wish
      BY <2>1, <2>3, DataCallAssumption DEF Leave, Goto, WishInv, LabelsFit, Threads
    <3>2. Heard'
      BY <2>1, <3>1, AloneHeard DEF HeardStatus, HeardSetup, HeardStop
    <3>3. Known'
      BY <2>1 DEF Known, GoneOrDenied, sharedVars, Alone
    <3>4. connectFlag => ~Notices(t)
      BY <2>1, <2>3 DEF Notices, Reconnects
    <3>5. DropHeard'
      BY <2>1, <3>1, <3>4, AloneDrop DEF sharedVars, DropHeard
    <3>6. QED
      BY <3>2, <3>3, <3>5
  <2>4. QED
    BY <1>16, <2>2, <2>3 DEF NotifyDecides
<1>17. CASE ModemDrops
  <2>1. /\ modem' = 0 /\ events'["DATA_CALL_LIST_CHANGED"] > 0
        /\ UNCHANGED <<sharedVars, pc, op, got, denied>>
    BY <1>17, PostEffect DEF ModemDrops, Events, historyVars
  <2>2. Heard'
    BY <2>1 DEF Heard, HeardStatus, HeardSetup, HeardStop, GoneOrDenied, sharedVars
  <2>3. QED
    BY <2>1, <2>2 DEF Known, GoneOrDenied, DropHeard
<1>18. CASE ModemIndicates
  <2>1. /\ events' \in [Events -> Nat]
        /\ events'["DATA_CALL_LIST_CHANGED"] >= events["DATA_CALL_LIST_CHANGED"]
        /\ UNCHANGED <<modem, sharedVars, pc, op, got, wish, denied>>
    BY <1>18, PostEffect DEF ModemIndicates, Events, historyVars
  <2>2. events["DATA_CALL_LIST_CHANGED"] > 0 => events'["DATA_CALL_LIST_CHANGED"] > 0
    BY <2>1 DEF CallType, Events
  <2>3. Heard'
    BY <2>1, <2>2 DEF Heard, HeardStatus, HeardSetup, HeardStop, GoneOrDenied, sharedVars
  <2>4. Known' /\ DropHeard'
    BY <2>1, <2>2 DEF Known, GoneOrDenied, DropHeard, Notices, Connected, sharedVars
  <2>5. QED
    BY <2>3, <2>4
<1>19. CASE UNCHANGED vars
  BY <1>19 DEF vars, sharedVars, historyVars, Heard, HeardStatus, HeardSetup, HeardStop,
     GoneOrDenied, Known, DropHeard, Notices, Connected
<1>20. QED
  BY <1>2, <1>3, <1>4, <1>5, <1>6, <1>7, <1>8, <1>9, <1>10, <1>11, <1>13, <1>14, <1>15,
     <1>16, <1>17, <1>18, <1>19 DEF Next, Step

(* While reconnecting is armed the process knows the handle of a call that is up,    *)
(* for any number of handles, drops, refusals and events, unless a query has not     *)
(* called that very call CONNECTED; the next call is known again.                    *)
THEOREM ArmedMeansKnown == Spec => []HandleIsKnown
<1>1. HandleInv => HandleIsKnown
  BY DEF HandleInv, Quiet, Known, GoneOrDenied, HandleIsKnown
<1>2. QED
  BY <1>1, WishInit, WishNext, HandleInit, HandleNext, PTL DEF Spec

(* When nothing runs, a call the user connected and that is down has an event         *)
(* waiting, for any number of workers.                                                *)
THEOREM DropsAreHeard == Spec => []NoForgottenDrop
<1>1. HandleInv => NoForgottenDrop
  BY DEF HandleInv, Quiet, DropHeard, Notices, Busy, Connected, NoForgottenDrop
<1>2. QED
  BY <1>1, WishInit, WishNext, HandleInit, HandleNext, PTL DEF Spec

(* A disconnect() that reports success while reconnecting was armed has ended the     *)
(* call, unless a query has denied that call since it was made.                       *)
THEOREM DisconnectsAreReal == Spec => DisconnectEndsCall
<1>1. ASSUME WishInv, HandleInv, [Next]_vars, NEW u \in Users,
             op[u] = "disconnect", pc[u] # "idle", pc'[u] = "idle",
             wish' = [op |-> "disconnect", ret |-> TRUE],
             connectFlag, ~overlapped, ~faulty, ~denied
      PROVE  modem' = 0
  <2>1. /\ Quiet /\ CallType /\ Heard /\ Known
        /\ u \in Threads /\ Alone(u)
    BY <1>1, QuietThreadIsAlone DEF HandleInv, Quiet, Threads
  <2>2. ASSUME NEW t \in Threads, Step(t), t # u
        PROVE  FALSE
    <3>1. pc[t] = "idle"
      BY <2>1, <2>2 DEF Alone
    <3>2. QED
      BY <2>2, <3>1 DEF Step, QueryAnswered, QueryUnanswered, ClearStatus, StoreStatus,
         CheckHandle, ConnectDecides, Setup, SetupReturns, DisconnectDecides, Stop,
         StopReturns, NotifyDecides
  <2>3. CASE DisconnectDecides(u)
    <3>1. ~Goto(u, "stop")
      BY <1>1, <2>1 DEF Goto, WishInv
    <3>2. /\ IPv4ConnectionStatus = "CONNECTED" /\ WdsConnectionIPv4Handle = 0
          /\ modem' = modem
      BY <1>1, <2>1, <2>3, <3>1
         DEF DisconnectDecides, DisconnectReturns, Leave, CallType
    <3>3. pc[u] = "queried" /\ \A t \in Threads : pc[t] # "setup_done"
      BY <2>1, <2>3 DEF DisconnectDecides, Alone
    <3>4. QED
      BY <1>1, <2>1, <3>2, <3>3 DEF Known, GoneOrDenied, CallType
  <2>4. CASE StopReturns(u)
    <3>1. Succeeded(u) /\ modem' = modem /\ pc[u] = "stop_done"
      <4>1. /\ wish' = [op |-> op[u], ret |-> Succeeded(u)]
            /\ modem' = modem /\ pc[u] = "stop_done"
        BY <1>1, <2>1, <2>4, Zenon DEF StopReturns, DisconnectReturns, Leave
      <4>2. PICK done : done = Succeeded(u)
        OBVIOUS
      <4>3. done = TRUE
        BY <1>1, <4>1, <4>2
      <4>4. QED
        BY <4>1, <4>2, <4>3, Zenon
    <3>2. QED
      BY <1>1, <2>1, <3>1 DEF Heard, HeardStop, Succeeded
  <2>5. ~ConnectDecides(u) /\ ~SetupReturns(u) /\ ~NotifyDecides(u)
    BY <1>1, <2>1 DEF ConnectDecides, SetupReturns, NotifyDecides, WishInv, LabelsFit,
       Events
  <2>6. ASSUME NEW label \in Labels \ {"idle"}, Goto(u, label) PROVE FALSE
    BY <1>1, <2>1, <2>6 DEF Goto, WishInv
  <2>7. /\ ~QueryAnswered(u) /\ ~QueryUnanswered(u) /\ ~ClearStatus(u)
        /\ ~StoreStatus(u) /\ ~CheckHandle(u) /\ ~Setup(u) /\ ~Stop(u)
    BY <2>6 DEF QueryAnswered, QueryUnanswered, ClearStatus, StoreStatus, CheckHandle,
       Setup, Stop, Labels
  <2>8. ASSUME NEW t \in Threads, NEW f, Enter(t, f) PROVE FALSE
    BY <1>1, <2>1, <2>8 DEF Enter, Goto, WishInv
  <2>9. ~ModemDrops /\ ~ModemIndicates /\ ~UNCHANGED vars
    BY <1>1 DEF ModemDrops, ModemIndicates, vars
  <2>10. QED
    BY <1>1, <2>2, <2>3, <2>4, <2>5, <2>7, <2>8, <2>9
       DEF Next, Step, Call, recvNotify, Threads
<1>2. WishInv /\ HandleInv /\ [Next]_vars =>
        [\A u \in Users :
           /\ op[u] = "disconnect" /\ pc[u] # "idle" /\ pc'[u] = "idle"
           /\ wish' = [op |-> "disconnect", ret |-> TRUE]
           /\ connectFlag /\ ~overlapped /\ ~faulty /\ ~denied
           => modem' = 0]_vars
  BY <1>1
<1>3. QED
  BY <1>2, WishInit, WishNext, HandleInit, HandleNext, PTL DEF Spec, DisconnectEndsCall

===============================================================================
