--------------------------- MODULE RegistrationProofs --------------------------
(* Theorems about Registration, for any sets of workers and callers.              *)
EXTENDS Registration, TLAPS

(* The types the argument needs.                                                  *)
FieldTypes ==
  /\ PSAttachedState \in 0..2
  /\ isReady \in BOOLEAN
  /\ pc \in [Threads -> Labels]
  /\ sim \in [Threads -> {"none", "READY", "other"}]
  /\ heard \in {"nothing", "misled", "attached"}
  /\ simHeard \in {"nothing", "other", "READY"}

(* Once a refresh has cleared the attach state, or the older request was answered,  *)
(* nothing but a response makes it other than 0; and isReady comes after such a    *)
(* refresh.                                                                        *)
AfterClearing == {"zeroed", "parsing", "cleared", "refreshed"}
Cleared == heard # "nothing" \/ PSAttachedState = 0

StateIsHeard ==
  /\ \A t \in Threads : pc[t] \in AfterClearing => Cleared
  /\ isReady => Cleared

(* A ready SIM is one a response spoke of, or nobody answered yet.                  *)
SimIsHeard ==
  /\ SIMStatus = "READY" => simHeard # "other"
  /\ \A t \in Threads : sim[t] = "READY" => simHeard = "READY"

HeardInv == FieldTypes /\ StateIsHeard /\ SimIsHeard

LEMMA HeardInit == Init => HeardInv
<1> SUFFICES ASSUME Init PROVE HeardInv
  OBVIOUS
<1>1. FieldTypes
  <2>1. pc \in [Threads -> Labels]
    BY DEF Init, Labels
  <2>2. sim \in [Threads -> {"none", "READY", "other"}]
    BY DEF Init
  <2>3. PSAttachedState \in 0..2
    <3>1. PSAttachedState \in 0..1
      BY Zenon DEF Init
    <3>2. QED
      BY <3>1
  <2>4. simHeard \in {"nothing", "other", "READY"}
    BY DEF Init
  <2>5. isReady \in BOOLEAN /\ heard \in {"nothing", "misled", "attached"}
    BY DEF Init
  <2>6. QED
    BY <2>1, <2>2, <2>3, <2>4, <2>5 DEF FieldTypes
<1>2. StateIsHeard
  BY DEF Init, StateIsHeard, AfterClearing
<1>3. SimIsHeard
  BY DEF Init, SimIsHeard
<1>4. QED
  BY <1>1, <1>2, <1>3 DEF HeardInv

(* A step that moves a thread and touches none of the fields of the argument.      *)
LEMMA HeardMove ==
  ASSUME HeardInv, NEW t \in Threads, NEW label \in Labels, Goto(t, label),
         UNCHANGED <<PSAttachedState, SIMStatus, isReady, sim, heard, simHeard>>,
         label \in AfterClearing => pc[t] \in AfterClearing
  PROVE  HeardInv'
<1>1. pc' = [pc EXCEPT ![t] = label] /\ pc' \in [Threads -> Labels]
  BY DEF Goto, HeardInv, FieldTypes
<1>2. FieldTypes'
  BY <1>1 DEF HeardInv, FieldTypes
<1>3. Cleared' <=> Cleared
  BY DEF Cleared
<1>4. \A u \in Threads : pc'[u] \in AfterClearing => pc[u] \in AfterClearing \/ u = t
  BY <1>1 DEF HeardInv, FieldTypes
<1>5. StateIsHeard'
  BY <1>1, <1>3, <1>4 DEF HeardInv, FieldTypes, StateIsHeard
<1>6. SimIsHeard'
  BY DEF HeardInv, SimIsHeard
<1>7. QED
  BY <1>2, <1>5, <1>6 DEF HeardInv

(* Steps of any thread.                                                            *)
LEMMA HeardStep ==
  ASSUME HeardInv, NEW t \in Threads, Step(t)
  PROVE  HeardInv'
<1>1. CASE SimAnswered(t)
  <2>1. PICK status \in {"READY", "other"} :
          /\ sim' = [sim EXCEPT ![t] = status]
          /\ simHeard' = IF simHeard = "READY" THEN "READY" ELSE status
    BY <1>1 DEF SimAnswered
  <2>2. /\ SIMStatus' = "other"
        /\ pc' = [pc EXCEPT ![t] = "sim_store"]
        /\ UNCHANGED <<PSAttachedState, isReady, heard>>
    BY <1>1 DEF SimAnswered, Goto
  <2>3. FieldTypes'
    BY <2>1, <2>2 DEF HeardInv, FieldTypes, Labels
  <2>4. StateIsHeard'
    BY <2>2 DEF HeardInv, FieldTypes, StateIsHeard, Cleared, AfterClearing
  <2>5. SimIsHeard'
    BY <2>1, <2>2 DEF HeardInv, FieldTypes, SimIsHeard
  <2>6. QED
    BY <2>3, <2>4, <2>5 DEF HeardInv
<1>2. CASE SimUnanswered(t)
  <2>1. AfterSim(t) \in {"read", "register"}
    BY DEF AfterSim
  <2>2. QED
    BY <1>2, <2>1, HeardMove DEF SimUnanswered, fieldVars, historyVars, Labels,
       AfterClearing
<1>3. CASE SimStore(t)
  <2>1. AfterSim(t) \in {"read", "register"}
    BY DEF AfterSim
  <2>2. /\ SIMStatus' = sim[t]
        /\ sim' = [sim EXCEPT ![t] = "none"]
        /\ pc[t] = "sim_store"
        /\ pc' = [pc EXCEPT ![t] = AfterSim(t)]
        /\ UNCHANGED <<PSAttachedState, isReady, heard, simHeard>>
    BY <1>3 DEF SimStore, Goto, historyVars
  <2>3. FieldTypes'
    <3>1. pc' \in [Threads -> Labels]
      BY <2>1, <2>2 DEF HeardInv, FieldTypes, Labels
    <3>2. sim' \in [Threads -> {"none", "READY", "other"}]
      BY <2>2 DEF HeardInv, FieldTypes
    <3>3. QED
      BY <2>2, <3>1, <3>2 DEF HeardInv, FieldTypes
  <2>4. StateIsHeard'
    BY <2>1, <2>2 DEF HeardInv, FieldTypes, StateIsHeard, Cleared, AfterClearing
  <2>5. SimIsHeard'
    BY <2>2 DEF HeardInv, FieldTypes, SimIsHeard
  <2>6. QED
    BY <2>3, <2>4, <2>5 DEF HeardInv
<1>4. CASE Technology(t) \/ ProfileIndex(t)
  BY <1>4, HeardMove DEF Technology, ProfileIndex, fieldVars, historyVars, Labels,
     AfterClearing
<1>5. CASE Return(t)
  BY <1>5, HeardMove DEF Return, fieldVars, Labels, AfterClearing
<1>6. QED
  BY <1>1, <1>2, <1>3, <1>4, <1>5 DEF Step

(* Steps of the workers.                                                           *)
LEMMA HeardWorkerStep ==
  ASSUME HeardInv, NEW w \in Workers, WorkerStep(w)
  PROVE  HeardInv'
<1>w. w \in Threads
  BY DEF Threads
<1>1. CASE \/ TakeConnected(w) \/ TakeDataCallEvent(w)
           \/ requestBaseBandVersion(w) \/ requestSetEthMode(w)
  BY <1>1, <1>w, HeardMove DEF TakeConnected, TakeDataCallEvent, Enter,
     requestBaseBandVersion, requestSetEthMode, fieldVars, historyVars, Labels,
     AfterClearing
<1>2. CASE StartRefresh(w)
  <2>1. CASE ClearState /\ Goto(w, "zeroed")
    <3>1. /\ PSAttachedState' = 0
          /\ pc' = [pc EXCEPT ![w] = "zeroed"]
          /\ UNCHANGED <<SIMStatus, isReady, sim, heard, simHeard>>
      BY <1>2, <2>1 DEF StartRefresh, ClearState, Goto
    <3>2. FieldTypes'
      BY <1>w, <3>1 DEF HeardInv, FieldTypes, Labels
    <3>3. StateIsHeard'
      BY <1>w, <3>1 DEF HeardInv, FieldTypes, StateIsHeard, Cleared
    <3>4. SimIsHeard'
      BY <3>1 DEF HeardInv, SimIsHeard
    <3>5. QED
      BY <3>2, <3>3, <3>4 DEF HeardInv
  <2>2. CASE Goto(w, "asked") /\ UNCHANGED PSAttachedState
    <3>1. UNCHANGED <<PSAttachedState, SIMStatus, isReady, sim, heard, simHeard>>
      BY <1>2, <2>2 DEF StartRefresh
    <3>2. QED
      BY <1>w, <2>2, <3>1, HeardMove DEF Labels, AfterClearing
  <2>3. QED
    BY <1>2, <2>1, <2>2 DEF StartRefresh
<1>3. CASE RefreshUnanswered(w)
  <2>1. /\ pc[w] \in {"zeroed", "asked"}
        /\ heard' = IF pc[w] = "asked" /\ heard = "nothing" THEN "misled" ELSE heard
        /\ pc' = [pc EXCEPT ![w] = "refreshed"]
        /\ UNCHANGED <<PSAttachedState, SIMStatus, isReady, sim, simHeard>>
    BY <1>3, <1>w DEF RefreshUnanswered, Goto, fieldVars
  <2>2. FieldTypes'
    BY <1>w, <2>1 DEF HeardInv, FieldTypes, Labels
  <2>3. Cleared'
    BY <1>w, <2>1 DEF HeardInv, FieldTypes, StateIsHeard, Cleared, AfterClearing
  <2>4. StateIsHeard' /\ SimIsHeard'
    BY <2>1, <2>3 DEF HeardInv, StateIsHeard, SimIsHeard
  <2>5. QED
    BY <2>2, <2>4 DEF HeardInv
<1>4. CASE ServingSystem(w)
  <2>1. /\ PSAttachedState' \in 0..2
        /\ pc' = [pc EXCEPT ![w] = "refreshed"]
        /\ UNCHANGED <<SIMStatus, isReady, sim, simHeard>>
    BY <1>4, <1>w DEF ServingSystem, Goto
  <2>2. /\ PSAttachedState' = 0 => heard' = heard
        /\ PSAttachedState' = 1 => heard' = "attached"
        /\ PSAttachedState' = 2 => heard' = IF heard = "nothing" THEN "misled" ELSE heard
    BY <1>4 DEF ServingSystem
  <2>3. FieldTypes'
    BY <1>w, <2>1, <2>2 DEF HeardInv, FieldTypes, Labels
  <2>4. Cleared'
    BY <2>1, <2>2 DEF HeardInv, FieldTypes, Cleared
  <2>5. StateIsHeard' /\ SimIsHeard'
    BY <2>1, <2>4 DEF HeardInv, StateIsHeard, SimIsHeard
  <2>6. QED
    BY <2>3, <2>5 DEF HeardInv
<1>5. CASE SysInfo(w) \/ ClearCapStr(w) \/ CopyCapStr(w)
  <2>1. pc[w] \in AfterClearing /\ \E label \in {"parsing", "cleared", "refreshed"} :
                                     Goto(w, label)
    BY <1>5, Zenon DEF SysInfo, ClearCapStr, CopyCapStr, AfterClearing
  <2>2. UNCHANGED <<PSAttachedState, SIMStatus, isReady, sim, heard, simHeard>>
    BY <1>5, Zenon DEF SysInfo, ClearCapStr, CopyCapStr, historyVars
  <2>3. QED
    BY <1>w, <2>1, <2>2, HeardMove DEF Labels, AfterClearing
<1>6. CASE NextTlv(w)
  <2>1. UNCHANGED <<SIMStatus, isReady, pc, sim, simHeard>>
    BY <1>6 DEF NextTlv
  <2>2. \/ UNCHANGED <<PSAttachedState, heard>>
        \/ PSAttachedState' = 1 /\ heard' = "attached"
        \/ PSAttachedState' = 0 /\ UNCHANGED heard
    <3>1. CASE \E rat \in Rats : ServiceTlv(w, rat)
      BY <3>1 DEF ServiceTlv
    <3>2. ASSUME NEW rat \in Rats, NEW ps \in BOOLEAN, DomainTlv(w, rat, ps)
          PROVE  \/ PSAttachedState' = 1 /\ heard' = "attached"
                 \/ PSAttachedState' = 0 /\ UNCHANGED heard
      <4>1. PSAttachedState' = AttachState(ps) /\ heard' = IF ps THEN "attached" ELSE heard
        BY <3>2, Zenon DEF DomainTlv
      <4>2. CASE ps = TRUE
        BY <4>1, <4>2 DEF AttachState
      <4>3. CASE ps = FALSE
        BY <4>1, <4>3 DEF AttachState
      <4>4. QED
        BY <4>2, <4>3
    <3>3. QED
      BY <1>6, <3>1, <3>2 DEF NextTlv
  <2>3. FieldTypes'
    <3>1. PSAttachedState' \in 0..2 /\ heard' \in {"nothing", "misled", "attached"}
      <4>1. PSAttachedState \in 0..2 /\ heard \in {"nothing", "misled", "attached"}
        BY DEF HeardInv, FieldTypes
      <4>2. CASE UNCHANGED <<PSAttachedState, heard>>
        BY <4>1, <4>2
      <4>3. CASE PSAttachedState' = 1 /\ heard' = "attached"
        BY <4>3
      <4>4. CASE PSAttachedState' = 0 /\ UNCHANGED heard
        BY <4>1, <4>4
      <4>5. QED
        BY <2>2, <4>2, <4>3, <4>4
    <3>2. QED
      BY <2>1, <3>1 DEF HeardInv, FieldTypes
  <2>4. Cleared => Cleared'
    BY <2>1, <2>2 DEF Cleared
  <2>5. StateIsHeard'
    BY <2>1, <2>4 DEF HeardInv, StateIsHeard
  <2>6. SimIsHeard'
    BY <2>1 DEF HeardInv, SimIsHeard
  <2>7. QED
    BY <2>3, <2>5, <2>6 DEF HeardInv
<1>7. CASE EndRefresh(w)
  <2>1. /\ pc[w] = "refreshed"
        /\ isReady' = (isReady \/ job[w] = "getconfiguration")
        /\ UNCHANGED <<PSAttachedState, SIMStatus, sim, heard, simHeard>>
    BY <1>7, Zenon DEF EndRefresh
  <2>2. PICK label \in {"compose", "idle"} : pc' = [pc EXCEPT ![w] = label]
    BY <1>7 DEF EndRefresh, Goto
  <2>3. pc' \in [Threads -> Labels]
    BY <1>w, <2>2 DEF HeardInv, FieldTypes, Labels
  <2>4. isReady' \in BOOLEAN
    BY <2>1
  <2>5. FieldTypes'
    BY <2>1, <2>3, <2>4 DEF HeardInv, FieldTypes
  <2>6. Cleared /\ Cleared'
    BY <1>w, <2>1 DEF HeardInv, StateIsHeard, AfterClearing, Cleared
  <2>7. StateIsHeard'
    BY <2>6 DEF StateIsHeard
  <2>8. SimIsHeard'
    BY <2>1 DEF HeardInv, SimIsHeard
  <2>9. QED
    BY <2>5, <2>7, <2>8 DEF HeardInv
<1>8. QED
  BY <1>1, <1>2, <1>3, <1>4, <1>5, <1>6, <1>7 DEF WorkerStep

(* Steps of the callers.                                                           *)
LEMMA HeardCallerStep ==
  ASSUME HeardInv, NEW c \in Callers, CallerStep(c)
  PROVE  HeardInv'
<1>c. c \in Threads
  BY DEF Threads
<1>1. CASE checkNetRegsterStatus(c) \/ connect(c)
  BY <1>1, <1>c, HeardMove DEF checkNetRegsterStatus, connect, Enter, fieldVars,
     historyVars, Labels, AfterClearing
<1>2. CASE ReadStatus(c)
  <2>1. PICK label \in {"registered", "idle"} : Goto(c, label)
    BY <1>2 DEF ReadStatus
  <2>2. UNCHANGED <<PSAttachedState, SIMStatus, isReady, sim, heard, simHeard>>
    BY <1>2 DEF ReadStatus, fieldVars, historyVars
  <2>3. QED
    BY <1>c, <2>1, <2>2, HeardMove DEF Labels, AfterClearing
<1>3. QED
  BY <1>1, <1>2 DEF CallerStep

LEMMA HeardNext == HeardInv /\ [Next]_vars => HeardInv'
<1> SUFFICES ASSUME HeardInv, [Next]_vars PROVE HeardInv'
  OBVIOUS
<1>1. CASE UNCHANGED vars
  BY <1>1 DEF vars, fieldVars, localVars, historyVars, HeardInv, FieldTypes,
     StateIsHeard, SimIsHeard, Cleared
<1>2. CASE Next
  BY <1>2, HeardStep, HeardWorkerStep, HeardCallerStep DEF Next
<1>3. QED
  BY <1>1, <1>2

(* Nobody moves a caller on from "read" but ReadStatus.                             *)
LEMMA MovesItself ==
  ASSUME NEW c \in Threads, NEW t \in Threads, NEW label, pc \in [Threads -> Labels],
         pc[t] # "read", Goto(t, label)
  PROVE  pc[c] = "read" => pc'[c] = "read"
BY DEF Goto

LEMMA OnlyReadStatus ==
  ASSUME HeardInv, Next, NEW c \in Callers, pc[c] = "read", pc'[c] # "read"
  PROVE  ReadStatus(c)
<1>c. c \in Threads /\ pc \in [Threads -> Labels]
  BY DEF Threads, HeardInv, FieldTypes
<1>1. ASSUME NEW t \in Threads, Step(t) PROVE FALSE
  <2>1. pc[t] # "read" /\ \E label : Goto(t, label)
    BY <1>1 DEF Step, SimAnswered, SimUnanswered, SimStore, Technology, ProfileIndex,
       Return
  <2>2. QED
    BY <1>c, <2>1, MovesItself
<1>2. ASSUME NEW w \in Workers, WorkerStep(w) PROVE FALSE
  <2>w. w \in Threads
    BY DEF Threads
  <2>1. CASE NextTlv(w)
    BY <2>1 DEF NextTlv
  <2>2. CASE SysInfo(w) \/ ClearCapStr(w) \/ CopyCapStr(w) \/ ServingSystem(w)
    <3>1. pc[w] # "read" /\ \E label : Goto(w, label)
      BY <2>2 DEF SysInfo, ClearCapStr, CopyCapStr, ServingSystem
    <3>2. QED
      BY <1>c, <2>w, <3>1, MovesItself
  <2>3. CASE StartRefresh(w) \/ RefreshUnanswered(w) \/ EndRefresh(w)
    <3>1. pc[w] # "read" /\ \E label : Goto(w, label)
      BY <2>3 DEF StartRefresh, RefreshUnanswered, EndRefresh
    <3>2. QED
      BY <1>c, <2>w, <3>1, MovesItself
  <2>4. CASE \/ TakeConnected(w) \/ TakeDataCallEvent(w)
             \/ requestBaseBandVersion(w) \/ requestSetEthMode(w)
    <3>1. pc[w] # "read" /\ \E label : Goto(w, label)
      BY <2>4 DEF TakeConnected, TakeDataCallEvent, Enter, requestBaseBandVersion,
         requestSetEthMode
    <3>2. QED
      BY <1>c, <2>w, <3>1, MovesItself
  <2>5. QED
    BY <1>2, <2>1, <2>2, <2>3, <2>4 DEF WorkerStep
<1>3. ASSUME NEW d \in Callers, CallerStep(d) PROVE ReadStatus(c)
  <2>d. d \in Threads
    BY DEF Threads
  <2>1. CASE checkNetRegsterStatus(d) \/ connect(d)
    <3>1. pc[d] # "read" /\ \E label : Goto(d, label)
      BY <2>1 DEF checkNetRegsterStatus, connect, Enter
    <3>2. QED
      BY <1>c, <2>d, <3>1, MovesItself
  <2>2. CASE ReadStatus(d)
    <3>1. \E label : pc' = [pc EXCEPT ![d] = label]
      BY <2>2 DEF ReadStatus, Goto
    <3>2. d = c
      BY <1>c, <2>d, <3>1
    <3>3. QED
      BY <2>2, <3>2
  <2>3. QED
    BY <1>3, <2>1, <2>2 DEF CallerStep
<1>4. QED
  BY <1>1, <1>2, <1>3 DEF Next

(* checkNetRegsterStatus() (Quectel_mobile.cpp) takes the modem for registered only *)
(* after a response said attached, and never with a SIM whose every answer was     *)
(* other than ready, however many threads refresh the fields at once; unless the   *)
(* older request, GET_SERVING_SYSTEM, has failed or was answered detached.         *)
THEOREM RegisteredWasHeard == Spec => RegisteredIsHeard
<1>1. ASSUME HeardInv, Next, NEW c \in Callers,
             pc[c] = "read", pc'[c] = "registered"
      PROVE  heard # "nothing" /\ simHeard # "other"
  <2>1. ReadStatus(c)
    BY <1>1, OnlyReadStatus
  <2>2. c \in Threads /\ pc \in [Threads -> Labels]
    BY <1>1 DEF Threads, HeardInv, FieldTypes
  <2>3. Registered
    BY <1>1, <2>1, <2>2 DEF ReadStatus, Goto
  <2>4. QED
    BY <1>1, <2>3 DEF Registered, HeardInv, StateIsHeard, SimIsHeard, Cleared
<1>2. HeardInv /\ [Next]_vars =>
        [\A c \in Callers :
           pc[c] = "read" /\ pc'[c] = "registered" =>
             heard # "nothing" /\ simHeard # "other"]_vars
  BY <1>1
<1>3. Spec => []HeardInv
  BY HeardInit, HeardNext, PTL DEF Spec
<1>4. QED
  BY <1>2, <1>3, PTL DEF Spec, RegisteredIsHeard

-------------------------------------------------------------------------------
(* The second argument: what a refresh that no other overlaps leaves behind.        *)

Parsing(t) == pc[t] \in {"parsing", "cleared"}
Parsed(t) == Parsing(t) \/ (pc[t] = "refreshed" /\ answer[t].came)

(* A thread that counts as quiet has been, and still is, alone with its refresh or   *)
(* its message.                                                                     *)
Alone == \A t \in Threads : quiet[t] /\ pc[t] \in InUse => OthersQuiet(t)

(* The locals of a refresh say nothing before its response came.                     *)
Blank(t) == answer[t] = NoAnswer /\ is_lte[t] = FALSE /\ lteClass[t] = FALSE
Unanswered == \A t \in Threads : ~Parsing(t) /\ pc[t] # "refreshed" => Blank(t)

(* The fields follow the response of a quiet refresh, TLV by TLV.                    *)
RadioOf(said) ==
  IF "CDMA" \in said.radios /\ "LTE" \notin said.radios THEN "CDMA" ELSE "3GPP"
RadioNow == IF s_is_cdma THEN "CDMA" ELSE "3GPP"
AttachedAs(said) == PSAttachedState = IF said.attached THEN 1 ELSE 0
NamesLte == CapStr = [first |-> "LTE", nul |-> TRUE]

TracksOf(t) ==
  /\ pc[t] = "zeroed" => PSAttachedState = 0
  /\ Parsed(t) => AttachedAs(answer[t])
  /\ Parsing(t) => (is_lte[t] <=> ("LTE" \in answer[t].radios))
  /\ Parsing(t) => RadioNow = RadioOf(answer[t])
  /\ pc[t] = "cleared" => CapStr = [first |-> "none", nul |-> TRUE]
  /\ pc[t] = "refreshed" /\ answer[t].came => (NamesLte <=> lteClass[t])

Tracks == \A t \in Threads : quiet[t] => TracksOf(t)

(* Between refreshes the radio of the last one is the one the process goes by.       *)
Settled ==
  radio # "unknown" /\ (\A t \in Threads : ~Parsing(t)) => radio = RadioNow

(* A message that is being composed speaks of that radio.                            *)
Messages ==
  \A t \in Threads : quiet[t] /\ radio # "unknown" =>
    /\ pc[t] = "profile" => message[t].tech = radio
    /\ pc[t] = "composed" => message[t] = [tech |-> radio, profile |-> (radio = "3GPP")]

(* A thread that stores a SIM status has one.                                         *)
SimKnown == \A t \in Threads : pc[t] = "sim_store" => sim[t] # "none"

RefreshInv == TypeOK /\ SimKnown /\ Alone /\ Unanswered /\ Tracks /\ Settled /\ Messages

LEMMA RefreshInit == Init => RefreshInv
<1> SUFFICES ASSUME Init PROVE RefreshInv
  OBVIOUS
<1>1. TypeOK
  <2>1. PSAttachedState \in 0..2
    <3>1. PSAttachedState \in 0..1
      BY Zenon DEF Init
    <3>2. QED
      BY <3>1
  <2>2. /\ SIMStatus \in {"READY", "other"} /\ radio \in {"3GPP", "CDMA", "unknown"}
        /\ simHeard \in {"nothing", "other", "READY"}
        /\ CapStr \in [first : {"LTE", "other", "none"}, nul : BOOLEAN]
    BY DEF Init
  <2>3. /\ isReady \in BOOLEAN /\ s_is_cdma \in BOOLEAN /\ s_9x07 \in BOOLEAN
        /\ connected \in BOOLEAN /\ heard \in {"nothing", "misled", "attached"}
    BY Zenon DEF Init
  <2>4. /\ pc \in [Threads -> Labels]
        /\ job \in [Threads -> {"none", "getconfiguration", "recvNotify", "check",
                                "connect"}]
        /\ sim \in [Threads -> {"none", "READY", "other"}]
    BY DEF Init, Labels
  <2>5. /\ is_lte \in [Threads -> BOOLEAN] /\ lteClass \in [Threads -> BOOLEAN]
        /\ quiet \in [Threads -> BOOLEAN]
    BY DEF Init
  <2>6. message \in [Threads -> [tech : {"none", "CDMA", "3GPP"}, profile : BOOLEAN]]
    BY DEF Init, NoMessage
  <2>7. NoAnswer \in [came : BOOLEAN, attached : BOOLEAN,
                      radios : SUBSET (Rats \ {"GSM"})]
    BY DEF NoAnswer, Rats
  <2>8. answer \in [Threads -> [came : BOOLEAN, attached : BOOLEAN,
                                radios : SUBSET (Rats \ {"GSM"})]]
    BY <2>7 DEF Init
  <2>9. QED
    BY <2>1, <2>2, <2>3, <2>4, <2>5, <2>6, <2>8 DEF TypeOK
<1>2. \A t \in Threads : pc[t] = "idle"
  BY DEF Init
<1>3. Alone
  BY <1>2 DEF Alone, InUse
<1>4. Unanswered
  BY DEF Init, Unanswered, Blank
<1>5. Tracks
  BY <1>2 DEF Tracks, TracksOf, Parsed, Parsing
<1>6. Settled
  BY DEF Init, Settled, RadioNow
<1>7. Messages
  BY <1>2 DEF Messages
<1>8. SimKnown
  BY <1>2 DEF SimKnown
<1>9. QED
  BY <1>1, <1>3, <1>4, <1>5, <1>6, <1>7, <1>8 DEF RefreshInv

(* Every step keeps the types.                                                      *)
Answers == [came : BOOLEAN, attached : BOOLEAN, radios : SUBSET (Rats \ {"GSM"})]

LEMMA GotoTyped ==
  ASSUME TypeOK, NEW t \in Threads, NEW label \in Labels, Goto(t, label)
  PROVE  pc' \in [Threads -> Labels]
BY DEF TypeOK, Goto

LEMMA StepTyped ==
  ASSUME TypeOK, SimKnown, NEW t \in Threads, Step(t)
  PROVE  TypeOK'
<1>1. CASE SimAnswered(t)
  <2>1. pc' \in [Threads -> Labels]
    BY <1>1, GotoTyped DEF SimAnswered, Labels
  <2>2. /\ sim' \in [Threads -> {"none", "READY", "other"}]
        /\ simHeard' \in {"nothing", "other", "READY"}
    BY <1>1 DEF SimAnswered, TypeOK
  <2>3. QED
    BY <1>1, <2>1, <2>2 DEF SimAnswered, TypeOK
<1>2. CASE SimUnanswered(t)
  <2>1. pc' \in [Threads -> Labels]
    BY <1>2, GotoTyped DEF SimUnanswered, AfterSim, Labels
  <2>2. QED
    BY <1>2, <2>1 DEF SimUnanswered, fieldVars, historyVars, TypeOK
<1>3. CASE SimStore(t)
  <2>1. pc' \in [Threads -> Labels]
    BY <1>3, GotoTyped DEF SimStore, AfterSim, Labels
  <2>2. sim' \in [Threads -> {"none", "READY", "other"}]
    BY <1>3 DEF SimStore, TypeOK
  <2>3. SIMStatus' \in {"READY", "other"}
    BY <1>3 DEF SimStore, SimKnown, TypeOK
  <2>4. QED
    BY <1>3, <2>1, <2>2, <2>3 DEF SimStore, historyVars, TypeOK
<1>4. CASE Technology(t)
  <2>1. pc' \in [Threads -> Labels]
    BY <1>4, GotoTyped DEF Technology, Labels
  <2>2. message' \in [Threads -> [tech : {"none", "CDMA", "3GPP"}, profile : BOOLEAN]]
    BY <1>4, SMTT(40) DEF Technology, TypeOK
  <2>3. OthersQuiet(t) \in BOOLEAN
    BY DEF OthersQuiet
  <2>4. quiet' \in [Threads -> BOOLEAN]
    BY <1>4, <2>3 DEF Technology, TypeOK
  <2>5. QED
    BY <1>4, <2>1, <2>2, <2>4 DEF Technology, fieldVars, TypeOK
<1>5. CASE ProfileIndex(t)
  <2>1. pc' \in [Threads -> Labels]
    BY <1>5, GotoTyped DEF ProfileIndex, Labels
  <2>2. message' \in [Threads -> [tech : {"none", "CDMA", "3GPP"}, profile : BOOLEAN]]
    <3>1. message \in [Threads -> [tech : {"none", "CDMA", "3GPP"}, profile : BOOLEAN]]
      BY DEF TypeOK
    <3>2. (~s_is_cdma) \in BOOLEAN
      BY Zenon DEF TypeOK
    <3>3. message' = [message EXCEPT ![t].profile = ~s_is_cdma]
      BY <1>5 DEF ProfileIndex
    <3>4. \A b \in BOOLEAN : [message EXCEPT ![t].profile = b] \in
            [Threads -> [tech : {"none", "CDMA", "3GPP"}, profile : BOOLEAN]]
      BY <3>1
    <3>5. QED
      BY <3>2, <3>3, <3>4, Zenon
  <2>3. QED
    BY <1>5, <2>1, <2>2 DEF ProfileIndex, fieldVars, historyVars, TypeOK
<1>6. CASE Return(t)
  <2>1. pc' \in [Threads -> Labels]
    BY <1>6, GotoTyped DEF Return, Labels
  <2>2. message' \in [Threads -> [tech : {"none", "CDMA", "3GPP"}, profile : BOOLEAN]]
    BY <1>6 DEF Return, NoMessage, TypeOK
  <2>3. quiet' \in [Threads -> BOOLEAN] /\ job' \in [Threads -> {"none",
           "getconfiguration", "recvNotify", "check", "connect"}]
    BY <1>6 DEF Return, TypeOK
  <2>4. QED
    BY <1>6, <2>1, <2>2, <2>3 DEF Return, fieldVars, TypeOK
<1>7. QED
  BY <1>1, <1>2, <1>3, <1>4, <1>5, <1>6 DEF Step

LEMMA EnterTyped ==
  ASSUME TypeOK, NEW t \in Threads, NEW label \in Labels,
         NEW f \in {"recvNotify", "check", "connect"}, Enter(t, f, label)
  PROVE  TypeOK'
<1>1. pc' \in [Threads -> Labels]
  BY GotoTyped DEF Enter
<1>2. job' \in [Threads -> {"none", "getconfiguration", "recvNotify", "check",
                            "connect"}]
  BY DEF Enter, TypeOK
<1>3. QED
  BY <1>1, <1>2 DEF Enter, fieldVars, historyVars, TypeOK

(* What a TLV changes, whichever it is.                                             *)
LEMMA TlvTyped ==
  ASSUME TypeOK, NEW w \in Threads, NextTlv(w)
  PROVE  TypeOK'
<1>1. PICK rat \in Rats : ServiceTlv(w, rat) \/ \E ps \in BOOLEAN : DomainTlv(w, rat, ps)
  BY DEF NextTlv
<1>2. s_is_cdma \in BOOLEAN /\ is_lte \in [Threads -> BOOLEAN]
      /\ lteClass \in [Threads -> BOOLEAN] /\ answer \in [Threads -> Answers]
      /\ heard \in {"nothing", "misled", "attached"}
  BY DEF TypeOK, Answers
<1>3. ASSUME NoteRadio(w, rat)
      PROVE  is_lte' \in [Threads -> BOOLEAN] /\ s_is_cdma' \in BOOLEAN
  <2>1. is_lte' \in [Threads -> BOOLEAN]
    BY <1>2, <1>3 DEF NoteRadio
  <2>2. is_lte[w] \in BOOLEAN
    BY <1>2
  <2>3. ASSUME rat = "CDMA" PROVE s_is_cdma' \in BOOLEAN
    <3>1. s_is_cdma' = ~is_lte[w]
      BY <1>3, <2>3 DEF NoteRadio
    <3>2. QED
      BY <3>1, Zenon
  <2>4. ASSUME rat = "LTE" PROVE s_is_cdma' \in BOOLEAN
    <3>1. s_is_cdma' = FALSE
      BY <1>3, <2>4 DEF NoteRadio
    <3>2. QED
      BY <3>1, Zenon
  <2>5. ASSUME rat = "GSM" PROVE s_is_cdma' \in BOOLEAN
    BY <1>2, <1>3, <2>5 DEF NoteRadio
  <2>6. QED
    BY <2>1, <2>3, <2>4, <2>5 DEF Rats
<1>4. Told(rat) \subseteq Rats \ {"GSM"}
  BY DEF Told
<1>5. CASE ServiceTlv(w, rat)
  <2>1. lteClass' \in [Threads -> BOOLEAN]
    BY <1>2, <1>5 DEF ServiceTlv
  <2>2. answer' \in [Threads -> Answers]
    BY <1>2, <1>4, <1>5 DEF ServiceTlv, Answers
  <2>3. /\ is_lte' \in [Threads -> BOOLEAN] /\ s_is_cdma' \in BOOLEAN
        /\ UNCHANGED <<PSAttachedState, heard>>
    BY <1>3, <1>5 DEF ServiceTlv
  <2>4. QED
    BY <2>1, <2>2, <2>3 DEF NextTlv, TypeOK, Answers
<1>6. ASSUME NEW ps \in BOOLEAN, DomainTlv(w, rat, ps)
      PROVE  TypeOK'
  <2>1. PSAttachedState' \in 0..2
    <3>1. AttachState(ps) \in {0, 1}
      BY DEF AttachState
    <3>2. QED
      BY <1>6, <3>1 DEF DomainTlv
  <2>2. answer' \in [Threads -> Answers]
    <3> DEFINE said == IF ps THEN answer[w].radios \cup Told(rat) ELSE answer[w].radios
               given == [answer[w] EXCEPT !.attached = ps, !.radios = said]
    <3>1. answer[w] \in Answers
      BY <1>2
    <3>2. said \subseteq Rats \ {"GSM"}
      BY <1>4, <3>1 DEF Answers
    <3> HIDE DEF said
    <3>3. given \in Answers
      BY <3>1, <3>2 DEF Answers
    <3>4. answer' = [answer EXCEPT ![w] = given]
      BY <1>6 DEF DomainTlv, said
    <3> HIDE DEF given
    <3>5. QED
      BY <1>2, <3>3, <3>4
  <2>3. heard' \in {"nothing", "misled", "attached"}
    BY <1>2, <1>6 DEF DomainTlv
  <2>4. is_lte' \in [Threads -> BOOLEAN] /\ s_is_cdma' \in BOOLEAN
    <3>1. CASE ps
      BY <1>3, <1>6, <3>1 DEF DomainTlv
    <3>2. CASE ~ps
      BY <1>2, <1>6, <3>2 DEF DomainTlv
    <3>3. QED
      BY <3>1, <3>2
  <2>5. lteClass' = lteClass
    BY <1>6 DEF DomainTlv
  <2>6. QED
    BY <2>1, <2>2, <2>3, <2>4, <2>5 DEF NextTlv, TypeOK, Answers
<1>7. QED
  BY <1>1, <1>5, <1>6

LEMMA WorkerTyped ==
  ASSUME TypeOK, NEW w \in Workers, WorkerStep(w)
  PROVE  TypeOK'
<1>w. w \in Threads
  BY DEF Threads
<1>1. CASE TakeConnected(w)
  <2>1. pc' \in [Threads -> Labels]
    BY <1>1, <1>w, GotoTyped DEF TakeConnected, Labels
  <2>2. connected' \in BOOLEAN
    BY <1>1 DEF TakeConnected
  <2>3. job' \in [Threads -> {"none", "getconfiguration", "recvNotify", "check",
                              "connect"}]
    BY <1>1 DEF TakeConnected, TypeOK
  <2>4. QED
    BY <1>1, <2>1, <2>2, <2>3 DEF TakeConnected, fieldVars, historyVars, TypeOK
<1>2. CASE TakeDataCallEvent(w)
  BY <1>2, <1>w, EnterTyped DEF TakeDataCallEvent, Labels
<1>3. CASE requestBaseBandVersion(w) \/ requestSetEthMode(w)
  <2>1. pc' \in [Threads -> Labels]
    BY <1>3, <1>w, GotoTyped DEF requestBaseBandVersion, requestSetEthMode, Labels
  <2>2. QED
    BY <1>3, <2>1 DEF requestBaseBandVersion, requestSetEthMode, historyVars, TypeOK
<1>4. CASE StartRefresh(w)
  <2>1. pc' \in [Threads -> Labels]
    BY <1>4, <1>w, GotoTyped DEF StartRefresh, Labels
  <2>2. PSAttachedState' \in 0..2
    BY <1>4 DEF StartRefresh, ClearState, TypeOK
  <2>3. heard' \in {"nothing", "misled", "attached"}
    BY <1>4 DEF StartRefresh, TypeOK
  <2>4. quiet' \in [Threads -> BOOLEAN]
    <3>1. OthersQuiet(w) \in BOOLEAN
      BY DEF OthersQuiet
    <3>2. quiet' = [t \in Threads |-> IF t = w THEN OthersQuiet(w)
                                               ELSE quiet[t] /\ pc[t] \notin InUse]
      BY <1>4 DEF StartRefresh
    <3>3. QED
      BY <3>1, <3>2
  <2>5. QED
    BY <1>4, <2>1, <2>2, <2>3, <2>4 DEF StartRefresh, TypeOK
<1>5. CASE RefreshUnanswered(w)
  <2>1. pc' \in [Threads -> Labels]
    BY <1>5, <1>w, GotoTyped DEF RefreshUnanswered, Labels
  <2>2. QED
    BY <1>5, <2>1 DEF RefreshUnanswered, fieldVars, historyVars, TypeOK
<1>6. CASE ServingSystem(w)
  <2>1. pc' \in [Threads -> Labels]
    BY <1>6, <1>w, GotoTyped DEF ServingSystem, Labels
  <2>2. radio' \in {"3GPP", "CDMA", "unknown"}
    BY <1>6 DEF ServingSystem
  <2>3. QED
    BY <1>6, <2>1, <2>2 DEF ServingSystem, TypeOK
<1>7. CASE SysInfo(w)
  <2>1. pc' \in [Threads -> Labels]
    BY <1>7, <1>w, GotoTyped DEF SysInfo, Labels
  <2>2. answer' \in [Threads -> Answers]
    BY <1>7 DEF SysInfo, TypeOK, Answers
  <2>3. s_is_cdma' \in BOOLEAN
    <3>1. s_is_cdma' = FALSE
      BY <1>7 DEF SysInfo, ForgetRadio
    <3>2. QED
      BY <3>1
  <2>4. /\ UNCHANGED <<PSAttachedState, SIMStatus, isReady, CapStr, s_9x07, connected>>
        /\ UNCHANGED <<job, sim, is_lte, lteClass, message, quiet, heard, simHeard, radio>>
    BY <1>7 DEF SysInfo
  <2>5. QED
    BY <2>1, <2>2, <2>3, <2>4, ZenonT(40) DEF TypeOK, Answers
<1>8. CASE NextTlv(w)
  BY <1>8, <1>w, TlvTyped
<1>9. CASE ClearCapStr(w)
  <2>1. pc' \in [Threads -> Labels]
    BY <1>9, <1>w, GotoTyped DEF ClearCapStr, Labels
  <2>2. QED
    BY <1>9, <2>1 DEF ClearCapStr, ClearName, historyVars, TypeOK
<1>10. CASE CopyCapStr(w)
  <2>1. pc' \in [Threads -> Labels]
    BY <1>10, <1>w, GotoTyped DEF CopyCapStr, Labels
  <2>2. CapStr' \in [first : {"LTE", "other", "none"}, nul : BOOLEAN]
    BY <1>10 DEF CopyCapStr, TypeOK
  <2>3. radio' \in {"3GPP", "CDMA", "unknown"}
    BY <1>10 DEF CopyCapStr
  <2>4. QED
    BY <1>10, <2>1, <2>2, <2>3 DEF CopyCapStr, TypeOK
<1>11. CASE EndRefresh(w)
  <2>1. pc' \in [Threads -> Labels]
    BY <1>11, <1>w, GotoTyped DEF EndRefresh, Labels
  <2>2. isReady' \in BOOLEAN
    BY <1>11, Zenon DEF EndRefresh
  <2>3. /\ is_lte' \in [Threads -> BOOLEAN] /\ lteClass' \in [Threads -> BOOLEAN]
        /\ quiet' \in [Threads -> BOOLEAN]
    BY <1>11 DEF EndRefresh, TypeOK
  <2>4. job' \in [Threads -> {"none", "getconfiguration", "recvNotify", "check",
                              "connect"}]
    BY <1>11 DEF EndRefresh, TypeOK
  <2>5. answer' \in [Threads -> Answers]
    <3>1. NoAnswer \in Answers
      BY DEF NoAnswer, Answers
    <3>2. QED
      BY <1>11, <3>1 DEF EndRefresh, TypeOK, Answers
  <2>6. QED
    BY <1>11, <2>1, <2>2, <2>3, <2>4, <2>5 DEF EndRefresh, TypeOK, Answers
<1>12. QED
  BY <1>1, <1>2, <1>3, <1>4, <1>5, <1>6, <1>7, <1>8, <1>9, <1>10, <1>11 DEF WorkerStep

LEMMA CallerTyped ==
  ASSUME TypeOK, NEW c \in Callers, CallerStep(c)
  PROVE  TypeOK'
<1>c. c \in Threads
  BY DEF Threads
<1>1. CASE checkNetRegsterStatus(c) \/ connect(c)
  BY <1>1, <1>c, EnterTyped DEF checkNetRegsterStatus, connect, Labels
<1>2. CASE ReadStatus(c)
  <2>1. pc' \in [Threads -> Labels]
    BY <1>2, <1>c, GotoTyped DEF ReadStatus, Labels
  <2>2. job' \in [Threads -> {"none", "getconfiguration", "recvNotify", "check",
                              "connect"}]
    BY <1>2 DEF ReadStatus, TypeOK
  <2>3. QED
    BY <1>2, <2>1, <2>2 DEF ReadStatus, fieldVars, historyVars, TypeOK
<1>3. QED
  BY <1>1, <1>2 DEF CallerStep

LEMMA TypeNext == TypeOK /\ SimKnown /\ [Next]_vars => TypeOK'
<1> SUFFICES ASSUME TypeOK, SimKnown, [Next]_vars PROVE TypeOK'
  OBVIOUS
<1>1. CASE UNCHANGED vars
  BY <1>1 DEF vars, fieldVars, localVars, historyVars, TypeOK
<1>2. CASE Next
  BY <1>2, StepTyped, WorkerTyped, CallerTyped DEF Next
<1>3. QED
  BY <1>1, <1>2

(* A step moves one thread.                                                          *)
Elsewhere(t) ==
  \A u \in Threads : u # t => /\ pc'[u] = pc[u] /\ quiet'[u] = quiet[u]
                              /\ answer'[u] = answer[u] /\ is_lte'[u] = is_lte[u]
                              /\ lteClass'[u] = lteClass[u]
                              /\ message'[u] = message[u]

sharedVars == <<PSAttachedState, CapStr, s_is_cdma, radio>>
ownVars == <<is_lte, lteClass, message, quiet, answer>>

LEMMA GotoEffect ==
  ASSUME TypeOK, NEW t \in Threads, NEW label, Goto(t, label)
  PROVE  /\ pc'[t] = label
         /\ \A u \in Threads : u # t => pc'[u] = pc[u]
BY DEF TypeOK, Goto

(* Steps outside of a refresh and of a message.                                      *)
LEMMA IdleMove ==
  ASSUME RefreshInv, TypeOK', SimKnown', NEW t \in Threads, NEW label, Goto(t, label),
         pc[t] \notin InUse, label \notin InUse \cup {"parsing", "cleared"},
         UNCHANGED <<sharedVars, ownVars>>
  PROVE  RefreshInv'
<1>1. /\ pc'[t] = label
      /\ \A u \in Threads : u # t => pc'[u] = pc[u]
  BY GotoEffect DEF RefreshInv
<1>2. /\ \A u \in Threads : pc'[u] \in InUse => pc'[u] = pc[u]
      /\ \A u \in Threads : Refreshing(u)' => Refreshing(u)
      /\ \A u \in Threads : Parsing(u)' <=> Parsing(u)
  BY <1>1 DEF InUse, Refreshing, Parsing
<1>3. Alone'
  BY <1>1, <1>2 DEF RefreshInv, Alone, OthersQuiet, ownVars
<1>4. Unanswered'
  BY <1>1, <1>2 DEF RefreshInv, Unanswered, Blank, Parsing, InUse, ownVars
<1>5. Tracks'
  <2>1. SUFFICES ASSUME NEW u \in Threads, quiet'[u] PROVE TracksOf(u)'
    BY DEF Tracks
  <2>2. quiet[u] /\ TracksOf(u)
    BY <2>1 DEF RefreshInv, Tracks, ownVars
  <2>3. CASE u = t
    BY <1>1, <2>3 DEF TracksOf, Parsed, Parsing, InUse
  <2>4. CASE u # t
    <3>1. pc'[u] = pc[u]
      BY <1>1, <2>4
    <3>2. QED
      BY <2>2, <3>1 DEF TracksOf, Parsed, Parsing, AttachedAs, RadioNow, RadioOf,
         NamesLte, sharedVars, ownVars
  <2>5. QED
    BY <2>3, <2>4
<1>6. Settled'
  BY <1>2 DEF RefreshInv, Settled, RadioNow, sharedVars
<1>7. Messages'
  BY <1>1, <1>2 DEF RefreshInv, Messages, InUse, sharedVars, ownVars
<1>8. QED
  BY <1>3, <1>4, <1>5, <1>6, <1>7 DEF RefreshInv

(* A thread that refreshes leaves no other one quiet.                                 *)
LEMMA OnlyQuiet ==
  ASSUME RefreshInv, NEW w \in Threads, Refreshing(w)
  PROVE  \A u \in Threads : u # w /\ quiet[u] => pc[u] \notin InUse
BY DEF RefreshInv, Alone, OthersQuiet

(* Steps within a refresh.                                                            *)
LEMMA RefreshMove ==
  ASSUME RefreshInv, TypeOK', SimKnown', NEW w \in Threads, Refreshing(w),
         pc'[w] \in {"parsing", "cleared", "refreshed"}, Elsewhere(w),
         UNCHANGED <<quiet, message>>,
         quiet[w] => TracksOf(w)', Settled'
  PROVE  RefreshInv'
<1>1. \A u \in Threads : u # w /\ quiet[u] => pc[u] \notin InUse
  BY OnlyQuiet
<1>2. Alone'
  <2>1. SUFFICES ASSUME NEW u \in Threads, quiet'[u], pc'[u] \in InUse
                 PROVE  OthersQuiet(u)'
    BY DEF Alone
  <2>2. u = w
    BY <1>1, <2>1 DEF Elsewhere
  <2>3. pc[w] \in InUse /\ quiet[w]
    BY <2>1, <2>2 DEF Refreshing, InUse
  <2>4. OthersQuiet(w)
    BY <2>3 DEF RefreshInv, Alone
  <2>5. QED
    BY <2>2, <2>4 DEF OthersQuiet, Refreshing, Elsewhere
<1>3. Unanswered'
  <2>1. SUFFICES ASSUME NEW u \in Threads, ~Parsing(u)', pc'[u] # "refreshed"
                 PROVE  Blank(u)'
    BY DEF Unanswered
  <2>2. u # w
    BY <2>1 DEF Parsing
  <2>3. Blank(u)
    BY <2>1, <2>2 DEF RefreshInv, Unanswered, Parsing, Elsewhere
  <2>4. QED
    BY <2>2, <2>3 DEF Blank, Elsewhere
<1>4. Tracks'
  <2>1. SUFFICES ASSUME NEW u \in Threads, u # w, quiet'[u] PROVE TracksOf(u)'
    BY DEF Tracks
  <2>2. pc'[u] \notin InUse
    BY <1>1, <2>1 DEF Elsewhere
  <2>3. QED
    BY <2>2 DEF TracksOf, Parsed, Parsing, InUse
<1>5. Messages'
  <2>1. SUFFICES ASSUME NEW u \in Threads, quiet'[u], pc'[u] \in InUse
                 PROVE  pc'[u] \notin {"profile", "composed"}
    BY DEF Messages, InUse
  <2>2. u = w
    BY <1>1, <2>1 DEF Elsewhere
  <2>3. QED
    BY <2>2
<1>6. QED
  BY <1>2, <1>3, <1>4, <1>5 DEF RefreshInv

(* The radio the process goes by and the one the response speaks of move together,     *)
(* in whichever order CDMA and LTE are named.                                          *)
LEMMA NoteFollows ==
  ASSUME TypeOK, NEW w \in Threads, NEW rat \in Rats, NoteRadio(w, rat),
         answer'[w].radios = answer[w].radios \cup Told(rat),
         is_lte[w] <=> ("LTE" \in answer[w].radios), RadioNow = RadioOf(answer[w])
  PROVE  /\ is_lte'[w] <=> ("LTE" \in answer'[w].radios)
         /\ RadioNow' = RadioOf(answer'[w])
<1>1. /\ s_is_cdma \in BOOLEAN
      /\ is_lte'[w] = (is_lte[w] \/ rat = "LTE")
      /\ s_is_cdma' = CASE rat = "CDMA" -> ~is_lte[w]
                        [] rat = "LTE"  -> FALSE
                        [] rat = "GSM"  -> s_is_cdma
  BY DEF NoteRadio, TypeOK
<1>2. s_is_cdma <=> ("CDMA" \in answer[w].radios /\ "LTE" \notin answer[w].radios)
  BY <1>1 DEF RadioNow, RadioOf
<1>3. CASE rat = "CDMA"
  <2>1. s_is_cdma' <=> ~is_lte[w]
    BY <1>1, <1>3
  <2>2. /\ "CDMA" \in answer'[w].radios
        /\ "LTE" \in answer'[w].radios <=> "LTE" \in answer[w].radios
    BY <1>3 DEF Told
  <2>3. QED
    BY <1>1, <1>3, <2>1, <2>2 DEF RadioNow, RadioOf
<1>4. CASE rat = "LTE"
  <2>1. s_is_cdma' <=> FALSE
    BY <1>1, <1>4
  <2>2. "LTE" \in answer'[w].radios
    BY <1>4 DEF Told
  <2>3. QED
    BY <1>1, <1>4, <2>1, <2>2 DEF RadioNow, RadioOf
<1>5. CASE rat = "GSM"
  <2>1. s_is_cdma' <=> s_is_cdma
    BY <1>1, <1>5
  <2>2. answer'[w].radios = answer[w].radios
    BY <1>5 DEF Told
  <2>3. is_lte'[w] <=> is_lte[w]
    BY <1>1, <1>5
  <2>4. QED
    BY <1>2, <2>1, <2>2, <2>3 DEF RadioNow, RadioOf
<1>6. QED
  BY <1>3, <1>4, <1>5 DEF Rats

(* A TLV.                                                                             *)
LEMMA TlvKeeps ==
  ASSUME RefreshInv, TypeOK', SimKnown', NEW w \in Threads, NextTlv(w)
  PROVE  RefreshInv'
<1>1. pc[w] = "parsing" /\ UNCHANGED <<pc, CapStr, message, quiet, radio>>
  BY DEF NextTlv
<1>2. PICK rat \in Rats : ServiceTlv(w, rat) \/ \E ps \in BOOLEAN : DomainTlv(w, rat, ps)
  BY DEF NextTlv
<1>3. /\ is_lte \in [Threads -> BOOLEAN] /\ lteClass \in [Threads -> BOOLEAN]
      /\ answer \in [Threads -> Answers]
  BY DEF RefreshInv, TypeOK, Answers
<1>4. Elsewhere(w)
  <2>1. ASSUME ServiceTlv(w, rat) PROVE Elsewhere(w)
    BY <1>1, <1>3, <2>1 DEF ServiceTlv, NoteRadio, Elsewhere
  <2>2. ASSUME NEW ps \in BOOLEAN, DomainTlv(w, rat, ps) PROVE Elsewhere(w)
    BY <1>1, <1>3, <2>2 DEF DomainTlv, NoteRadio, Elsewhere
  <2>3. QED
    BY <1>2, <2>1, <2>2
<1>5. Settled'
  BY <1>1 DEF Settled, Parsing
<1>6. ASSUME quiet[w] PROVE TracksOf(w)'
  <2>1. /\ AttachedAs(answer[w])
        /\ is_lte[w] <=> ("LTE" \in answer[w].radios)
        /\ RadioNow = RadioOf(answer[w])
    BY <1>1, <1>6 DEF RefreshInv, Tracks, TracksOf, Parsed, Parsing
  <2>2. /\ AttachedAs(answer[w])'
        /\ is_lte'[w] <=> ("LTE" \in answer'[w].radios)
        /\ RadioNow' = RadioOf(answer'[w])
    <3>1. CASE ServiceTlv(w, rat)
      <4>1. /\ answer'[w].radios = answer[w].radios \cup Told(rat)
            /\ answer'[w].attached = answer[w].attached
            /\ NoteRadio(w, rat) /\ PSAttachedState' = PSAttachedState
        BY <1>3, <3>1 DEF ServiceTlv, Answers
      <4>2. QED
        BY <2>1, <4>1, NoteFollows DEF AttachedAs, RefreshInv
    <3>2. ASSUME NEW ps \in BOOLEAN, DomainTlv(w, rat, ps)
          PROVE  /\ AttachedAs(answer[w])'
                 /\ is_lte'[w] <=> ("LTE" \in answer'[w].radios)
                 /\ RadioNow' = RadioOf(answer'[w])
      <4>1. /\ answer'[w].attached = ps
            /\ answer'[w].radios = IF ps THEN answer[w].radios \cup Told(rat)
                                         ELSE answer[w].radios
            /\ PSAttachedState' = AttachState(ps)
        BY <1>3, <3>2 DEF DomainTlv, Answers
      <4>2. AttachedAs(answer[w])'
        BY <4>1 DEF AttachedAs, AttachState
      <4>3. CASE ps = TRUE
        BY <2>1, <3>2, <4>1, <4>2, <4>3, NoteFollows DEF DomainTlv, RefreshInv
      <4>4. CASE ps = FALSE
        <5>1. answer'[w].radios = answer[w].radios /\ is_lte' = is_lte
              /\ s_is_cdma' = s_is_cdma
          BY <3>2, <4>1, <4>4 DEF DomainTlv
        <5>2. QED
          BY <2>1, <4>2, <5>1 DEF RadioNow, RadioOf
      <4>5. QED
        BY <4>3, <4>4
    <3>3. QED
      BY <1>2, <3>1, <3>2
  <2>3. QED
    BY <1>1, <2>2 DEF TracksOf, Parsed, Parsing
<1>7. QED
  BY <1>1, <1>4, <1>5, <1>6, RefreshMove DEF Refreshing

(* The other steps of a refresh.                                                       *)
LEMMA RefreshKeeps ==
  ASSUME RefreshInv, TypeOK', SimKnown', NEW w \in Threads,
         \/ RefreshUnanswered(w) \/ ServingSystem(w) \/ SysInfo(w)
         \/ ClearCapStr(w) \/ CopyCapStr(w)
  PROVE  RefreshInv'
<1>t. TypeOK
  BY DEF RefreshInv
<1>1. CASE RefreshUnanswered(w)
  <2>1. /\ pc'[w] = "refreshed" /\ pc[w] \in {"zeroed", "asked"}
        /\ \A u \in Threads : u # w => pc'[u] = pc[u]
        /\ UNCHANGED <<sharedVars, ownVars>>
    BY <1>1, <1>t, GotoEffect DEF RefreshUnanswered, fieldVars, historyVars, sharedVars,
       ownVars
  <2>2. Elsewhere(w)
    BY <2>1 DEF Elsewhere, ownVars
  <2>3. answer'[w] = NoAnswer
    BY <2>1 DEF RefreshInv, Unanswered, Blank, Parsing, ownVars
  <2>4. TracksOf(w)'
    BY <2>1, <2>3 DEF TracksOf, Parsed, Parsing, NoAnswer
  <2>5. Settled'
    BY <2>1 DEF RefreshInv, Settled, RadioNow, Parsing, sharedVars
  <2>6. QED
    BY <2>1, <2>2, <2>4, <2>5, RefreshMove DEF Refreshing, ownVars
<1>2. CASE ServingSystem(w)
  <2>1. /\ pc'[w] = "refreshed" /\ pc[w] = "asked"
        /\ \A u \in Threads : u # w => pc'[u] = pc[u]
        /\ UNCHANGED ownVars
        /\ radio' = IF ~quiet[w] THEN "unknown" ELSE RadioNow'
    BY <1>2, <1>t, GotoEffect DEF ServingSystem, ownVars, RadioNow
  <2>2. Elsewhere(w)
    BY <2>1 DEF Elsewhere, ownVars
  <2>3. answer'[w] = NoAnswer
    BY <2>1 DEF RefreshInv, Unanswered, Blank, Parsing, ownVars
  <2>4. TracksOf(w)'
    BY <2>1, <2>3 DEF TracksOf, Parsed, Parsing, NoAnswer
  <2>5. Settled'
    BY <2>1 DEF Settled
  <2>6. QED
    BY <2>1, <2>2, <2>4, <2>5, RefreshMove DEF Refreshing, ownVars
<1>3. CASE SysInfo(w)
  <2>1. /\ pc'[w] = "parsing" /\ pc[w] = "zeroed"
        /\ \A u \in Threads : u # w => pc'[u] = pc[u]
        /\ UNCHANGED <<PSAttachedState, is_lte, lteClass, message, quiet>>
        /\ s_is_cdma' = FALSE
        /\ answer' = [answer EXCEPT ![w].came = TRUE]
    BY <1>3, <1>t, GotoEffect DEF SysInfo, ForgetRadio
  <2>2. answer \in [Threads -> Answers]
    BY <1>t DEF TypeOK, Answers
  <2>3. Elsewhere(w)
    BY <2>1, <2>2 DEF Elsewhere
  <2>4. answer[w] = NoAnswer /\ is_lte[w] = FALSE
    BY <2>1 DEF RefreshInv, Unanswered, Blank, Parsing
  <2>5. answer'[w].attached = FALSE /\ answer'[w].radios = {}
    BY <2>1, <2>2, <2>4 DEF NoAnswer
  <2>6. ASSUME quiet[w] PROVE TracksOf(w)'
    <3>1. PSAttachedState = 0
      BY <2>1, <2>6 DEF RefreshInv, Tracks, TracksOf
    <3>2. QED
      BY <2>1, <2>4, <2>5, <3>1 DEF TracksOf, Parsed, Parsing, AttachedAs, RadioNow,
         RadioOf
  <2>7. Settled'
    BY <2>1 DEF Settled, Parsing
  <2>8. QED
    BY <2>1, <2>3, <2>6, <2>7, RefreshMove DEF Refreshing
<1>4. CASE ClearCapStr(w)
  <2>1. /\ pc'[w] = "cleared" /\ pc[w] = "parsing"
        /\ \A u \in Threads : u # w => pc'[u] = pc[u]
        /\ UNCHANGED <<PSAttachedState, s_is_cdma, ownVars>>
        /\ CapStr' = [first |-> "none", nul |-> TRUE]
    BY <1>4, <1>t, GotoEffect DEF ClearCapStr, ClearName, historyVars, ownVars
  <2>2. Elsewhere(w)
    BY <2>1 DEF Elsewhere, ownVars
  <2>3. ASSUME quiet[w] PROVE TracksOf(w)'
    <3>1. TracksOf(w)
      BY <2>3 DEF RefreshInv, Tracks
    <3>2. QED
      BY <2>1, <3>1 DEF TracksOf, Parsed, Parsing, AttachedAs, RadioNow, RadioOf, ownVars
  <2>4. Settled'
    BY <2>1 DEF Settled, Parsing
  <2>5. QED
    BY <2>1, <2>2, <2>3, <2>4, RefreshMove DEF Refreshing, ownVars
<1>5. CASE CopyCapStr(w)
  <2>1. /\ pc'[w] = "refreshed" /\ pc[w] = "cleared"
        /\ \A u \in Threads : u # w => pc'[u] = pc[u]
        /\ UNCHANGED <<PSAttachedState, s_is_cdma, ownVars>>
        /\ CapStr' = IF lteClass[w] THEN [CapStr EXCEPT !.first = "LTE"]
                                    ELSE [first |-> "other", nul |-> FALSE]
        /\ radio' = IF ~quiet[w] THEN "unknown" ELSE RadioOf(answer[w])
    BY <1>5, <1>t, GotoEffect DEF CopyCapStr, RadioOf, ownVars
  <2>2. Elsewhere(w)
    BY <2>1 DEF Elsewhere, ownVars
  <2>3. quiet[w] => TracksOf(w)
    BY DEF RefreshInv, Tracks
  <2>4. ASSUME quiet[w] PROVE TracksOf(w)'
    <3>1. NamesLte' <=> lteClass[w]
      <4>1. CapStr = [first |-> "none", nul |-> TRUE]
        BY <2>1, <2>3, <2>4 DEF TracksOf
      <4>2. QED
        BY <2>1, <4>1 DEF NamesLte
    <3>2. QED
      BY <2>1, <2>3, <2>4, <3>1 DEF TracksOf, Parsed, Parsing, AttachedAs, ownVars
  <2>5. Settled'
    <3>1. quiet[w] => RadioNow = RadioOf(answer[w])
      BY <2>1, <2>3 DEF TracksOf, Parsing
    <3>2. RadioNow' = RadioNow
      BY <2>1 DEF RadioNow
    <3>3. QED
      BY <2>1, <3>1, <3>2 DEF Settled
  <2>6. QED
    BY <2>1, <2>2, <2>4, <2>5, RefreshMove DEF Refreshing, ownVars
<1>6. QED
  BY <1>1, <1>2, <1>3, <1>4, <1>5

(* A refresh that starts takes the quiet of every thread that refreshes, reconnects or   *)
(* composes.                                                                           *)
LEMMA StartKeeps ==
  ASSUME RefreshInv, TypeOK', SimKnown', NEW w \in Threads, StartRefresh(w)
  PROVE  RefreshInv'
<1>1. PICK label \in {"zeroed", "asked"} :
        Goto(w, label) /\ (label = "zeroed" => PSAttachedState' = 0)
  BY DEF StartRefresh, ClearState
<1>2. /\ pc[w] = "register" /\ pc'[w] = label
      /\ \A u \in Threads : u # w => pc'[u] = pc[u]
      /\ quiet'[w] = OthersQuiet(w)
      /\ \A u \in Threads : u # w => (quiet'[u] <=> quiet[u] /\ pc[u] \notin InUse)
      /\ UNCHANGED <<s_is_cdma, CapStr, radio, is_lte, lteClass, message, answer>>
  BY <1>1, GotoEffect DEF StartRefresh, RefreshInv
<1>3. \A u \in Threads : quiet'[u] /\ pc'[u] \in InUse => u = w
  BY <1>2
<1>4. Alone'
  <2>1. quiet'[w] => OthersQuiet(w)'
    BY <1>2 DEF OthersQuiet, Refreshing
  <2>2. QED
    BY <1>3, <2>1 DEF Alone
<1>5. Unanswered'
  <2>1. \A u \in Threads : Parsing(u)' <=> Parsing(u)
    BY <1>2 DEF Parsing
  <2>2. QED
    BY <1>2, <2>1 DEF RefreshInv, Unanswered, Blank
<1>6. Tracks'
  <2>1. SUFFICES ASSUME NEW u \in Threads, quiet'[u] PROVE TracksOf(u)'
    BY DEF Tracks
  <2>2. CASE u = w
    BY <1>1, <1>2, <2>2 DEF TracksOf, Parsed, Parsing
  <2>3. CASE u # w
    BY <1>3, <2>1, <2>3 DEF TracksOf, Parsed, Parsing, InUse
  <2>4. QED
    BY <2>2, <2>3
<1>7. Settled'
  BY <1>2 DEF RefreshInv, Settled, RadioNow, Parsing
<1>8. Messages'
  BY <1>2, <1>3 DEF Messages, InUse
<1>9. QED
  BY <1>4, <1>5, <1>6, <1>7, <1>8 DEF RefreshInv

(* A refresh and a message that end.                                                    *)
LEMMA EndKeeps ==
  ASSUME RefreshInv, TypeOK', SimKnown', NEW t \in Threads, EndRefresh(t) \/ Return(t)
  PROVE  RefreshInv'
<1>1. PICK label \in {"idle", "compose"} : Goto(t, label)
  BY DEF EndRefresh, Return
<1>2. /\ pc[t] \in {"refreshed", "composed", "registered"} /\ pc'[t] = label
      /\ \A u \in Threads : u # t => pc'[u] = pc[u]
      /\ UNCHANGED sharedVars
  BY <1>1, GotoEffect DEF EndRefresh, Return, RefreshInv, sharedVars, fieldVars
<1>3. Elsewhere(t)
  BY <1>2 DEF EndRefresh, Return, Elsewhere, RefreshInv, TypeOK
<1>4. Blank(t)'
  <2>1. CASE EndRefresh(t)
    BY <2>1 DEF EndRefresh, Blank, RefreshInv, TypeOK
  <2>2. CASE Return(t)
    <3>1. pc[t] \in {"composed", "registered"} /\ UNCHANGED <<answer, is_lte, lteClass>>
      BY <2>2 DEF Return
    <3>2. QED
      BY <3>1 DEF RefreshInv, Unanswered, Parsing, Blank
  <2>3. QED
    BY <2>1, <2>2
<1>5. /\ \A u \in Threads : Refreshing(u)' <=> Refreshing(u)
      /\ \A u \in Threads : Parsing(u)' <=> Parsing(u)
  BY <1>2 DEF Refreshing, Parsing
<1>6. Alone'
  BY <1>2, <1>3, <1>5 DEF RefreshInv, Alone, OthersQuiet, InUse, Elsewhere
<1>7. Unanswered'
  <2>1. SUFFICES ASSUME NEW u \in Threads, u # t, ~Parsing(u)', pc'[u] # "refreshed"
                 PROVE  Blank(u)'
    BY <1>4 DEF Unanswered
  <2>2. Blank(u)
    BY <1>2, <1>5, <2>1 DEF RefreshInv, Unanswered
  <2>3. QED
    BY <1>3, <2>1, <2>2 DEF Blank, Elsewhere
<1>8. Tracks'
  <2>1. SUFFICES ASSUME NEW u \in Threads, quiet'[u] PROVE TracksOf(u)'
    BY DEF Tracks
  <2>2. CASE u = t
    BY <1>2, <2>2 DEF TracksOf, Parsed, Parsing
  <2>3. CASE u # t
    <3>1. TracksOf(u)
      BY <1>3, <2>1, <2>3 DEF RefreshInv, Tracks, Elsewhere
    <3>2. QED
      BY <1>2, <1>3, <2>3, <3>1 DEF TracksOf, Parsed, Parsing, AttachedAs, RadioNow,
         RadioOf, NamesLte, Elsewhere, sharedVars
  <2>4. QED
    BY <2>2, <2>3
<1>9. Settled'
  BY <1>2, <1>5 DEF RefreshInv, Settled, RadioNow, sharedVars
<1>10. Messages'
  <2>1. SUFFICES ASSUME NEW u \in Threads, quiet'[u], pc'[u] \in {"profile", "composed"},
                        radio # "unknown"
                 PROVE  /\ pc'[u] = pc[u] /\ message'[u] = message[u] /\ quiet[u]
    BY <1>2 DEF RefreshInv, Messages, sharedVars
  <2>2. u # t
    BY <1>2, <2>1
  <2>3. QED
    BY <1>3, <2>1, <2>2 DEF Elsewhere
<1>11. QED
  BY <1>6, <1>7, <1>8, <1>9, <1>10 DEF RefreshInv

(* The two looks a message takes at the radio.                                          *)
LEMMA MessageKeeps ==
  ASSUME RefreshInv, TypeOK', SimKnown', NEW t \in Threads,
         Technology(t) \/ ProfileIndex(t)
  PROVE  RefreshInv'
<1>1. PICK label \in {"profile", "composed"} : Goto(t, label)
  BY DEF Technology, ProfileIndex
<1>2. /\ pc[t] \in {"compose", "profile"} /\ pc'[t] = label
      /\ \A u \in Threads : u # t => pc'[u] = pc[u]
      /\ UNCHANGED <<sharedVars, answer, is_lte, lteClass>>
  BY <1>1, GotoEffect DEF Technology, ProfileIndex, RefreshInv, sharedVars, fieldVars,
     historyVars
<1>3. Elsewhere(t)
  <2>1. CASE Technology(t)
    BY <1>2, <2>1 DEF Technology, Elsewhere, RefreshInv, TypeOK
  <2>2. CASE ProfileIndex(t)
    BY <1>2, <2>2 DEF ProfileIndex, historyVars, Elsewhere, RefreshInv, TypeOK
  <2>3. QED
    BY <2>1, <2>2
<1>4. /\ \A u \in Threads : Refreshing(u)' <=> Refreshing(u)
      /\ \A u \in Threads : Parsing(u)' <=> Parsing(u)
  BY <1>2 DEF Refreshing, Parsing
<1>5. quiet'[t] => OthersQuiet(t)
  <2>1. CASE Technology(t)
    BY <2>1 DEF Technology, RefreshInv, TypeOK
  <2>2. CASE ProfileIndex(t)
    <3>1. pc[t] = "profile" /\ quiet' = quiet
      BY <2>2 DEF ProfileIndex, historyVars
    <3>2. QED
      BY <3>1 DEF RefreshInv, Alone, InUse
  <2>3. QED
    BY <2>1, <2>2
<1>6. Alone'
  <2>1. SUFFICES ASSUME NEW u \in Threads, quiet'[u], pc'[u] \in InUse
                 PROVE  OthersQuiet(u)
    BY <1>4 DEF Alone, OthersQuiet
  <2>2. QED
    BY <1>3, <1>5, <2>1 DEF RefreshInv, Alone, Elsewhere
<1>7. Unanswered'
  BY <1>2, <1>4 DEF RefreshInv, Unanswered, Blank, Parsing
<1>8. Tracks'
  <2>1. SUFFICES ASSUME NEW u \in Threads, quiet'[u] PROVE TracksOf(u)'
    BY DEF Tracks
  <2>2. CASE u = t
    BY <1>2, <2>2 DEF TracksOf, Parsed, Parsing
  <2>3. CASE u # t
    <3>1. TracksOf(u)
      BY <1>3, <2>1, <2>3 DEF RefreshInv, Tracks, Elsewhere
    <3>2. QED
      BY <1>2, <1>3, <2>3, <3>1 DEF TracksOf, Parsed, Parsing, AttachedAs, RadioNow,
         RadioOf, NamesLte, Elsewhere, sharedVars
  <2>4. QED
    BY <2>2, <2>3
<1>9. Settled'
  BY <1>2, <1>4 DEF RefreshInv, Settled, RadioNow, sharedVars
<1>10. Messages'
  <2>1. SUFFICES ASSUME quiet'[t], radio # "unknown"
                 PROVE  /\ pc'[t] = "profile" => message'[t].tech = radio
                        /\ pc'[t] = "composed" =>
                             message'[t] = [tech |-> radio, profile |-> (radio = "3GPP")]
    BY <1>2, <1>3 DEF RefreshInv, Messages, Elsewhere, sharedVars
  <2>2. \A u \in Threads : ~Parsing(u)
    BY <1>2, <1>5, <2>1 DEF OthersQuiet, Refreshing, Parsing
  <2>3. radio = RadioNow
    BY <2>1, <2>2 DEF RefreshInv, Settled
  <2>4. message \in [Threads -> [tech : {"none", "CDMA", "3GPP"}, profile : BOOLEAN]]
    BY DEF RefreshInv, TypeOK
  <2>5. CASE Technology(t)
    <3>1. pc'[t] = "profile"
      BY <2>5, GotoEffect DEF Technology, RefreshInv
    <3>2. message'[t].tech = RadioNow
      BY <2>4, <2>5 DEF Technology, RadioNow
    <3>3. QED
      BY <2>3, <3>1, <3>2
  <2>6. CASE ProfileIndex(t)
    <3>1. pc[t] = "profile" /\ pc'[t] = "composed" /\ quiet[t]
      BY <2>1, <2>6, GotoEffect DEF ProfileIndex, RefreshInv, historyVars
    <3>2. message[t].tech = radio
      BY <2>1, <3>1 DEF RefreshInv, Messages
    <3>3. message'[t] = [tech |-> radio, profile |-> ~s_is_cdma]
      BY <2>4, <2>6, <3>2 DEF ProfileIndex
    <3>4. s_is_cdma \in BOOLEAN
      BY DEF RefreshInv, TypeOK
    <3>5. (~s_is_cdma) = (radio = "3GPP")
      BY <2>3, <3>4 DEF RadioNow
    <3>6. QED
      BY <3>1, <3>3, <3>5
  <2>7. QED
    BY <2>5, <2>6
<1>11. QED
  BY <1>6, <1>7, <1>8, <1>9, <1>10 DEF RefreshInv

(* A SIM status is stored by the thread that was given it.                               *)
LEMMA SimKnownMove ==
  ASSUME TypeOK, SimKnown, NEW t \in Threads, NEW label, Goto(t, label),
         label # "sim_store", UNCHANGED sim
  PROVE  SimKnown'
BY GotoEffect DEF SimKnown

LEMMA SimKnownNext == TypeOK /\ SimKnown /\ [Next]_vars => SimKnown'
<1> SUFFICES ASSUME TypeOK, SimKnown, [Next]_vars PROVE SimKnown'
  OBVIOUS
<1>1. ASSUME NEW t \in Threads, Step(t) PROVE SimKnown'
  <2>1. CASE SimAnswered(t)
    BY <2>1, GotoEffect DEF SimAnswered, SimKnown, TypeOK
  <2>2. CASE SimStore(t)
    BY <2>2, GotoEffect DEF SimStore, SimKnown, TypeOK, AfterSim
  <2>3. CASE SimUnanswered(t) \/ Technology(t) \/ ProfileIndex(t) \/ Return(t)
    <3>1. \E label : Goto(t, label) /\ label # "sim_store"
      BY <2>3 DEF SimUnanswered, AfterSim, Technology, ProfileIndex, Return
    <3>2. UNCHANGED sim
      BY <2>3 DEF SimUnanswered, Technology, ProfileIndex, Return
    <3>3. QED
      BY <3>1, <3>2, SimKnownMove
  <2>4. QED
    BY <1>1, <2>1, <2>2, <2>3 DEF Step
<1>2. ASSUME NEW w \in Workers, WorkerStep(w) PROVE SimKnown'
  <2>w. w \in Threads
    BY DEF Threads
  <2>1. CASE NextTlv(w)
    BY <2>1 DEF NextTlv, SimKnown
  <2>2. CASE ~NextTlv(w)
    <3>1. \E label : Goto(w, label) /\ label # "sim_store"
      BY <1>2, <2>2 DEF WorkerStep, TakeConnected, TakeDataCallEvent, Enter,
         requestBaseBandVersion, requestSetEthMode, StartRefresh, RefreshUnanswered,
         ServingSystem, SysInfo, ClearCapStr, CopyCapStr, EndRefresh
    <3>2. UNCHANGED sim
      BY <1>2, <2>2 DEF WorkerStep, TakeConnected, TakeDataCallEvent, Enter,
         requestBaseBandVersion, requestSetEthMode, StartRefresh, RefreshUnanswered,
         ServingSystem, SysInfo, ClearCapStr, CopyCapStr, EndRefresh
    <3>3. QED
      BY <2>w, <3>1, <3>2, SimKnownMove
  <2>3. QED
    BY <2>1, <2>2
<1>3. ASSUME NEW c \in Callers, CallerStep(c) PROVE SimKnown'
  <2>1. \E label : Goto(c, label) /\ label # "sim_store"
    BY <1>3 DEF CallerStep, checkNetRegsterStatus, connect, Enter, ReadStatus
  <2>2. UNCHANGED sim
    BY <1>3 DEF CallerStep, checkNetRegsterStatus, connect, Enter, ReadStatus
  <2>3. QED
    BY <2>1, <2>2, SimKnownMove DEF Threads
<1>4. CASE UNCHANGED vars
  BY <1>4 DEF vars, localVars, SimKnown
<1>5. QED
  BY <1>1, <1>2, <1>3, <1>4 DEF Next

LEMMA RefreshNext == RefreshInv /\ [Next]_vars => RefreshInv'
<1> SUFFICES ASSUME RefreshInv, [Next]_vars PROVE RefreshInv'
  OBVIOUS
<1>1. TypeOK' /\ SimKnown'
  BY TypeNext, SimKnownNext DEF RefreshInv
<1>2. ASSUME NEW t \in Threads, NEW label, Goto(t, label), pc[t] \notin InUse,
             label \notin InUse \cup {"parsing", "cleared"},
             UNCHANGED <<sharedVars, ownVars>>
      PROVE  RefreshInv'
  BY <1>1, <1>2, IdleMove
<1>3. ASSUME NEW t \in Threads, Step(t) PROVE RefreshInv'
  <2>1. CASE SimAnswered(t) \/ SimUnanswered(t) \/ SimStore(t)
    <3>1. pc[t] \notin InUse
      BY <2>1 DEF SimAnswered, SimUnanswered, SimStore, InUse
    <3>2. \E label : Goto(t, label) /\ label \notin InUse \cup {"parsing", "cleared"}
      BY <2>1 DEF SimAnswered, SimUnanswered, SimStore, AfterSim, InUse
    <3>3. UNCHANGED <<sharedVars, ownVars>>
      BY <2>1 DEF SimAnswered, SimUnanswered, SimStore, fieldVars, historyVars,
         sharedVars, ownVars
    <3>4. QED
      BY <1>2, <3>1, <3>2, <3>3
  <2>2. QED
    BY <1>1, <1>3, <2>1, MessageKeeps, EndKeeps DEF Step
<1>4. ASSUME NEW w \in Workers, WorkerStep(w) PROVE RefreshInv'
  <2>w. w \in Threads
    BY DEF Threads
  <2>1. CASE \/ TakeConnected(w) \/ TakeDataCallEvent(w)
             \/ requestBaseBandVersion(w) \/ requestSetEthMode(w)
    <3>1. pc[w] \notin InUse
      BY <2>1 DEF TakeConnected, TakeDataCallEvent, Enter, requestBaseBandVersion,
         requestSetEthMode, InUse
    <3>2. \E label : Goto(w, label) /\ label \notin InUse \cup {"parsing", "cleared"}
      BY <2>1 DEF TakeConnected, TakeDataCallEvent, Enter, requestBaseBandVersion,
         requestSetEthMode, InUse
    <3>3. UNCHANGED <<sharedVars, ownVars>>
      BY <2>1 DEF TakeConnected, TakeDataCallEvent, Enter, requestBaseBandVersion,
         requestSetEthMode, fieldVars, historyVars, sharedVars, ownVars
    <3>4. QED
      BY <1>2, <2>w, <3>1, <3>2, <3>3
  <2>2. QED
    BY <1>1, <1>4, <2>w, <2>1, StartKeeps, RefreshKeeps, TlvKeeps, EndKeeps
       DEF WorkerStep
<1>5. ASSUME NEW c \in Callers, CallerStep(c) PROVE RefreshInv'
  <2>c. c \in Threads
    BY DEF Threads
  <2>1. pc[c] \notin InUse
    BY <1>5 DEF CallerStep, checkNetRegsterStatus, connect, Enter, ReadStatus, InUse
  <2>2. \E label : Goto(c, label) /\ label \notin InUse \cup {"parsing", "cleared"}
    BY <1>5 DEF CallerStep, checkNetRegsterStatus, connect, Enter, ReadStatus, InUse
  <2>3. UNCHANGED <<sharedVars, ownVars>>
    BY <1>5 DEF CallerStep, checkNetRegsterStatus, connect, Enter, ReadStatus,
       fieldVars, historyVars, sharedVars, ownVars
  <2>4. QED
    BY <1>2, <2>c, <2>1, <2>2, <2>3
<1>6. CASE UNCHANGED vars
  BY <1>1, <1>6 DEF vars, fieldVars, localVars, historyVars, RefreshInv, Alone,
     OthersQuiet, Refreshing, Unanswered, Blank, Tracks, TracksOf, Parsed, Parsing,
     AttachedAs, RadioNow, RadioOf, NamesLte, Settled, Messages
<1>7. QED
  BY <1>3, <1>4, <1>5, <1>6 DEF Next

LEMMA AlwaysRefreshInv == Spec => []RefreshInv
BY RefreshInit, RefreshNext, PTL DEF Spec

(* The fields of the backend and the locals of a refresh stay in the ranges the code     *)
(* distinguishes.                                                                        *)
THEOREM FieldsTyped == Spec => []TypeOK
<1>1. RefreshInv => TypeOK
  BY DEF RefreshInv
<1>2. QED
  BY <1>1, AlwaysRefreshInv, PTL

(* What the registration refresh of QMIThread.c leaves in the attach state and the name   *)
(* of the network is what its response said, in whichever order and however often the     *)
(* response names a domain or a radio, as long as no other refresh overlaps it.           *)
THEOREM QuietRefreshesAreFaithful == Spec => []QuietRefreshIsFaithful
<1>1. RefreshInv => QuietRefreshIsFaithful
  BY DEF RefreshInv, Tracks, TracksOf, Parsed, AttachedAs, NamesLte, Threads,
     QuietRefreshIsFaithful
<1>2. QED
  BY <1>1, AlwaysRefreshInv, PTL

(* A START_NETWORK message (WdsStartNwInterfaceReq) has the technology and the profile     *)
(* of the radio that the last refresh heard of, if no refresh ran meanwhile.              *)
THEOREM MessagesMatchRadio == Spec => []MessageMatchesRadio
<1>1. RefreshInv => MessageMatchesRadio
  BY DEF RefreshInv, Messages, MessageMatchesRadio
<1>2. QED
  BY <1>1, AlwaysRefreshInv, PTL

===============================================================================
