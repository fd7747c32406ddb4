----------------------------- MODULE Registration -----------------------------
(* What Quectel_mobile knows of the SIM, the registration and the radio, and how   *)
(* it uses it: getconfiguration(), the refresh on a data call event,               *)
(* checkNetRegsterStatus() and the START_NETWORK message of connect() (QMIThread.c, *)
(* Quectel_mobile.cpp).  Workers of the pool write the shared fields, one TLV of a  *)
(* response at a time, while other threads read them; there is no lock.            *)
(*                                                                                 *)
(* Requests are answered or not (QmiTransaction says when).  A radio technology is  *)
(* "CDMA" (or HDR), "LTE" or "GSM" (any other): the code tells only these apart,    *)
(* but for the names in the log.                                                   *)
EXTENDS Integers

CONSTANTS
  Workers,   \* threads of the pool that run recvNotify
  Callers    \* threads that call checkNetRegsterStatus() and connect(): main, D-Bus

ASSUME RegistrationAssumption == Workers \cap Callers = {}

Threads == Workers \cup Callers
Rats == {"CDMA", "GSM", "LTE"}

VARIABLES
  PSAttachedState,   \* 0, 1 or 2 (detached); the code counts all but 0 as attached
  SIMStatus,         \* "READY" or "other"
  isReady,           \* getconfiguration() is over
  CapStr,            \* pDataCapStr: its first three bytes, is the fourth NUL
  s_is_cdma,
  s_9x07,            \* -1 at first, which is true
  connected,         \* RIL_INDICATE_DEVICE_CONNECTED was taken by a worker
  pc, job,           \* per thread: the next statement, the function it is in
  sim,               \* per thread: the SIM status it was answered, not stored yet
  is_lte, lteClass,  \* per thread: local is_lte; DataCapList is that of LTE
  message,           \* per thread: what START_NETWORK says so far
  (* history, read by the properties only *)
  quiet,             \* per thread: no other refresh ran during its refresh or message
  answer,            \* per thread: what its response said so far
  heard,             \* "attached" once a response said so; before that "misled" once
                     \* GET_SERVING_SYSTEM went unanswered or said detached, or "nothing"
  simHeard,          \* responses have said of the SIM: "nothing", "other", "READY" once
  radio              \* the radio of the last answered refresh, if it was quiet

fieldVars   == <<PSAttachedState, SIMStatus, isReady, CapStr, s_is_cdma, s_9x07>>
localVars   == <<pc, job, sim, is_lte, lteClass, message>>
historyVars == <<quiet, answer, heard, simHeard, radio>>
vars == <<fieldVars, connected, localVars, historyVars>>

NoMessage == [tech |-> "none", profile |-> FALSE]

(* What a response says: the last domain it names has a PS service, and the radios  *)
(* it gives evidence of.                                                            *)
NoAnswer == [came |-> FALSE, attached |-> FALSE, radios |-> {}]

(* PSAttachedState and SIMStatus are members without an initialiser (1 stands for  *)
(* every value but 0 that it may start with).                                      *)
Init ==
  /\ PSAttachedState \in 0..1
  /\ SIMStatus \in {"READY", "other"}
  /\ isReady = FALSE
  /\ CapStr = [first |-> "other", nul |-> FALSE]
  /\ s_is_cdma = FALSE
  /\ s_9x07 = TRUE
  /\ connected = FALSE
  /\ pc = [t \in Threads |-> "idle"]
  /\ job = [t \in Threads |-> "none"]
  /\ sim = [t \in Threads |-> "none"]
  /\ is_lte = [t \in Threads |-> FALSE]
  /\ lteClass = [t \in Threads |-> FALSE]
  /\ message = [t \in Threads |-> NoMessage]
  /\ quiet = [t \in Threads |-> TRUE]
  /\ answer = [t \in Threads |-> NoAnswer]
  /\ heard = "nothing"
  /\ simHeard = "nothing"
  /\ radio = "3GPP"

Labels == {"idle", "version", "ethmode", "sim", "sim_store", "register", "zeroed",
           "asked", "parsing", "cleared", "refreshed", "compose", "profile", "composed",
           "read", "registered"}

Goto(t, label) == pc' = [pc EXCEPT ![t] = label]

Refreshing(t) == pc[t] \in {"zeroed", "asked", "parsing", "cleared"}
InUse == {"zeroed", "asked", "parsing", "cleared", "refreshed", "profile", "composed"}
OthersQuiet(t) == \A u \in Threads \ {t} : ~Refreshing(u)

-------------------------------------------------------------------------------
(* recvNotify takes an event; checkNetRegsterStatus() and connect() are called.    *)
TakeConnected(w) ==
  /\ pc[w] = "idle"
  /\ ~connected
  /\ connected' = TRUE
  /\ job' = [job EXCEPT ![w] = "getconfiguration"]
  /\ Goto(w, "version")
  /\ UNCHANGED <<fieldVars, sim, is_lte, lteClass, message, historyVars>>

Enter(t, f, label) ==
  /\ pc[t] = "idle"
  /\ job' = [job EXCEPT ![t] = f]
  /\ Goto(t, label)
  /\ UNCHANGED <<fieldVars, connected, sim, is_lte, lteClass, message, historyVars>>

TakeDataCallEvent(w) == Enter(w, "recvNotify", "register")
checkNetRegsterStatus(c) == Enter(c, "check", "sim")
connect(c) == Enter(c, "connect", "compose")

-------------------------------------------------------------------------------
(* getconfiguration() runs once, so s_9x07 is still -1: the revision of the modem   *)
(* decides it, then its data format (raw IP); either may go unanswered.             *)
requestBaseBandVersion(w) ==
  /\ pc[w] = "version"
  /\ s_9x07' \in BOOLEAN
  /\ Goto(w, "ethmode")
  /\ UNCHANGED <<PSAttachedState, SIMStatus, isReady, CapStr, s_is_cdma, connected,
                 job, sim, is_lte, lteClass, message, historyVars>>

requestSetEthMode(w) ==
  /\ pc[w] = "ethmode"
  /\ s_9x07' \in BOOLEAN
  /\ Goto(w, "sim")
  /\ UNCHANGED <<PSAttachedState, SIMStatus, isReady, CapStr, s_is_cdma, connected,
                 job, sim, is_lte, lteClass, message, historyVars>>

(* requestGetSIMStatus.  A modem that does not support the request yet is asked     *)
(* again; without a response the status stays.                                      *)
AfterSim(t) == IF job[t] = "check" THEN "read" ELSE "register"

SimAnswered(t) ==
  /\ pc[t] = "sim"
  /\ \E status \in {"READY", "other"} :
       /\ sim' = [sim EXCEPT ![t] = status]
       /\ simHeard' = IF simHeard = "READY" THEN "READY" ELSE status
  /\ SIMStatus' = "other"
  /\ Goto(t, "sim_store")
  /\ UNCHANGED <<PSAttachedState, isReady, CapStr, s_is_cdma, s_9x07, connected,
                 job, is_lte, lteClass, message, quiet, answer, heard, radio>>

SimUnanswered(t) ==
  /\ pc[t] = "sim"
  /\ Goto(t, AfterSim(t))
  /\ UNCHANGED <<fieldVars, connected, job, sim, is_lte, lteClass, message,
                 historyVars>>

SimStore(t) ==
  /\ pc[t] = "sim_store"
  /\ SIMStatus' = sim[t]
  /\ sim' = [sim EXCEPT ![t] = "none"]
  /\ Goto(t, AfterSim(t))
  /\ UNCHANGED <<PSAttachedState, isReady, CapStr, s_is_cdma, s_9x07, connected,
                 job, is_lte, lteClass, message, historyVars>>

-------------------------------------------------------------------------------
(* requestRegistrationState, which asks with GET_SERVING_SYSTEM or, for a 9x07,     *)
(* calls requestRegistrationState2.  That one reports "not attached" as long as it  *)
(* waits for its response.                                                          *)
KeepState == UNCHANGED PSAttachedState
ClearState == PSAttachedState' = 0

StartRefresh(w) ==
  /\ pc[w] = "register"
  /\ \/ /\ s_9x07
        /\ ClearState
        /\ Goto(w, "zeroed")
     \/ /\ ~s_9x07
        /\ Goto(w, "asked")
        /\ UNCHANGED PSAttachedState
  /\ quiet' = [t \in Threads |-> IF t = w THEN OthersQuiet(w)
                                          ELSE quiet[t] /\ pc[t] \notin InUse]
  /\ UNCHANGED <<SIMStatus, isReady, CapStr, s_is_cdma, s_9x07, connected, job, sim,
                 is_lte, lteClass, message, answer, heard, simHeard, radio>>

(* The end of a refresh: getconfiguration() is over, recvNotify may reconnect.      *)
EndRefresh(w) ==
  /\ pc[w] = "refreshed"
  /\ isReady' = (isReady \/ job[w] = "getconfiguration")
  /\ \/ /\ job[w] = "recvNotify"
        /\ Goto(w, "compose")
        /\ job' = [job EXCEPT ![w] = "connect"]
     \/ /\ Goto(w, "idle")
        /\ job' = [job EXCEPT ![w] = "none"]
  /\ is_lte' = [is_lte EXCEPT ![w] = FALSE]
  /\ lteClass' = [lteClass EXCEPT ![w] = FALSE]
  /\ answer' = [answer EXCEPT ![w] = NoAnswer]
  /\ quiet' = [quiet EXCEPT ![w] = TRUE]
  /\ UNCHANGED <<PSAttachedState, SIMStatus, CapStr, s_is_cdma, s_9x07, connected,
                 sim, message, heard, simHeard, radio>>

RefreshUnanswered(w) ==
  /\ pc[w] \in {"zeroed", "asked"}
  /\ Goto(w, "refreshed")
  /\ heard' = IF pc[w] = "asked" /\ heard = "nothing" THEN "misled" ELSE heard
  /\ UNCHANGED <<fieldVars, connected, job, sim, is_lte, lteClass, message, quiet,
                 answer, simHeard, radio>>

(* The older response: a modem that is not registered is 2, "detached"; the name of *)
(* the radio only goes to the log.                                                  *)
ServingSystem(w) ==
  /\ pc[w] = "asked"
  /\ PSAttachedState' \in 0..2
  /\ heard' = CASE PSAttachedState' = 0 -> heard
                [] PSAttachedState' = 1 -> "attached"
                [] PSAttachedState' = 2 -> IF heard = "nothing" THEN "misled" ELSE heard
  /\ s_is_cdma' \in BOOLEAN
  /\ radio' = IF ~quiet[w] THEN "unknown" ELSE IF s_is_cdma' THEN "CDMA" ELSE "3GPP"
  /\ Goto(w, "refreshed")
  /\ UNCHANGED <<SIMStatus, isReady, CapStr, s_9x07, connected, job, sim, is_lte,
                 lteClass, message, quiet, answer, simHeard>>

KeepRadio == UNCHANGED s_is_cdma
ForgetRadio == s_is_cdma' = FALSE

SysInfo(w) ==
  /\ pc[w] = "zeroed"
  /\ ForgetRadio
  /\ answer' = [answer EXCEPT ![w].came = TRUE]
  /\ Goto(w, "parsing")
  /\ UNCHANGED <<PSAttachedState, SIMStatus, isReady, CapStr, s_9x07, connected,
                 job, sim, is_lte, lteClass, message, quiet, heard, simHeard,
                 radio>>

(* Evidence of a radio, from its service status or its PS domain.  LTE wins over    *)
(* CDMA in any order of the two.                                                    *)
NoteRadio(w, rat) ==
  /\ is_lte' = [is_lte EXCEPT ![w] = @ \/ rat = "LTE"]
  /\ s_is_cdma' = CASE rat = "CDMA" -> ~is_lte[w]
                    [] rat = "LTE"  -> FALSE
                    [] rat = "GSM"  -> s_is_cdma

Told(rat) == {rat} \ {"GSM"}

(* A TLV with the service status of a radio that is in service.  (That of TD-SCDMA  *)
(* names the network in the log and sets no class.)                                 *)
ServiceTlv(w, rat) ==
  /\ lteClass' = [lteClass EXCEPT ![w] = rat = "LTE"]
  /\ NoteRadio(w, rat)
  /\ answer' = [answer EXCEPT ![w].radios = @ \cup Told(rat)]
  /\ UNCHANGED <<PSAttachedState, heard>>

(* A TLV with the system information of a radio whose service domain is valid; the  *)
(* last one decides whether the modem is attached.                                  *)
RawDomain(ps) == IF ps THEN 3 ELSE 1
AttachState(ps) == IF ps THEN 1 ELSE 0

DomainTlv(w, rat, ps) ==
  /\ PSAttachedState' = AttachState(ps)
  /\ IF ps THEN NoteRadio(w, rat) ELSE UNCHANGED <<is_lte, s_is_cdma>>
  /\ answer' = [answer EXCEPT ![w].attached = ps,
                              ![w].radios = IF ps THEN @ \cup Told(rat) ELSE @]
  /\ heard' = IF ps THEN "attached" ELSE heard
  /\ UNCHANGED lteClass

NextTlv(w) ==
  /\ pc[w] = "parsing"
  /\ \E rat \in Rats : ServiceTlv(w, rat) \/ \E ps \in BOOLEAN : DomainTlv(w, rat, ps)
  /\ UNCHANGED <<SIMStatus, isReady, CapStr, s_9x07, connected, pc, job, sim,
                 message, quiet, simHeard, radio>>

(* The name of the radio: memset clears as many bytes as a pointer has (4), memcpy  *)
(* copies the name without its NUL; "LTE" is the only name of three bytes.          *)
KeepName == UNCHANGED CapStr
ClearName == CapStr' = [first |-> "none", nul |-> TRUE]

ClearCapStr(w) ==
  /\ pc[w] = "parsing"
  /\ ClearName
  /\ Goto(w, "cleared")
  /\ UNCHANGED <<PSAttachedState, SIMStatus, isReady, s_is_cdma, s_9x07, connected,
                 job, sim, is_lte, lteClass, message, historyVars>>

CopyCapStr(w) ==
  /\ pc[w] = "cleared"
  /\ CapStr' = IF lteClass[w] THEN [CapStr EXCEPT !.first = "LTE"]
                              ELSE [first |-> "other", nul |-> FALSE]
  /\ radio' = IF ~quiet[w] THEN "unknown"
              ELSE IF "CDMA" \in answer[w].radios /\ "LTE" \notin answer[w].radios
                   THEN "CDMA" ELSE "3GPP"
  /\ Goto(w, "refreshed")
  /\ UNCHANGED <<PSAttachedState, SIMStatus, isReady, s_is_cdma, s_9x07, connected,
                 job, sim, is_lte, lteClass, message, quiet, answer, heard,
                 simHeard>>

-------------------------------------------------------------------------------
(* connect(): WdsStartNwInterfaceReq reads s_is_cdma for the technology preference  *)
(* (and the credentials) and again for the profile index, which CDMA must not have. *)
Technology(t) ==
  /\ pc[t] = "compose"
  /\ message' = [message EXCEPT ![t].tech = IF s_is_cdma THEN "CDMA" ELSE "3GPP"]
  /\ quiet' = [quiet EXCEPT ![t] = OthersQuiet(t)]
  /\ Goto(t, "profile")
  /\ UNCHANGED <<fieldVars, connected, job, sim, is_lte, lteClass, answer, heard,
                 simHeard, radio>>

ProfileIndex(t) ==
  /\ pc[t] = "profile"
  /\ message' = [message EXCEPT ![t].profile = ~s_is_cdma]
  /\ Goto(t, "composed")
  /\ UNCHANGED <<fieldVars, connected, job, sim, is_lte, lteClass, historyVars>>

(* checkNetRegsterStatus() reads the fields.                                        *)
RegisteredEarly == SIMStatus = "READY" /\ PSAttachedState # 0
Registered == SIMStatus = "READY" /\ isReady /\ PSAttachedState # 0

ReadStatus(c) ==
  /\ pc[c] = "read"
  /\ Goto(c, IF Registered THEN "registered" ELSE "idle")
  /\ job' = [job EXCEPT ![c] = "none"]
  /\ UNCHANGED <<fieldVars, connected, sim, is_lte, lteClass, message, historyVars>>

Return(t) ==
  /\ pc[t] \in {"composed", "registered"}
  /\ Goto(t, "idle")
  /\ job' = [job EXCEPT ![t] = "none"]
  /\ message' = [message EXCEPT ![t] = NoMessage]
  /\ quiet' = [quiet EXCEPT ![t] = TRUE]
  /\ UNCHANGED <<fieldVars, connected, sim, is_lte, lteClass, answer, heard,
                 simHeard, radio>>

-------------------------------------------------------------------------------
Step(t) ==
  \/ SimAnswered(t) \/ SimUnanswered(t) \/ SimStore(t)
  \/ Technology(t) \/ ProfileIndex(t) \/ Return(t)

WorkerStep(w) ==
  \/ TakeConnected(w) \/ TakeDataCallEvent(w)
  \/ requestBaseBandVersion(w) \/ requestSetEthMode(w)
  \/ StartRefresh(w) \/ RefreshUnanswered(w) \/ ServingSystem(w)
  \/ SysInfo(w) \/ NextTlv(w) \/ ClearCapStr(w) \/ CopyCapStr(w) \/ EndRefresh(w)

CallerStep(c) == checkNetRegsterStatus(c) \/ connect(c) \/ ReadStatus(c)

Next ==
  \/ \E t \in Threads : Step(t)
  \/ \E w \in Workers : WorkerStep(w)
  \/ \E c \in Callers : CallerStep(c)

Spec == Init /\ [][Next]_vars

-------------------------------------------------------------------------------
(* Properties.                                                                     *)

TypeOK ==
  /\ PSAttachedState \in 0..2
  /\ SIMStatus \in {"READY", "other"}
  /\ isReady \in BOOLEAN
  /\ CapStr \in [first : {"LTE", "other", "none"}, nul : BOOLEAN]
  /\ s_is_cdma \in BOOLEAN
  /\ s_9x07 \in BOOLEAN
  /\ connected \in BOOLEAN
  /\ pc \in [Threads -> Labels]
  /\ job \in [Threads -> {"none", "getconfiguration", "recvNotify", "check", "connect"}]
  /\ sim \in [Threads -> {"none", "READY", "other"}]
  /\ is_lte \in [Threads -> BOOLEAN]
  /\ lteClass \in [Threads -> BOOLEAN]
  /\ message \in [Threads -> [tech : {"none", "CDMA", "3GPP"}, profile : BOOLEAN]]
  /\ quiet \in [Threads -> BOOLEAN]
  /\ answer \in [Threads -> [came : BOOLEAN, attached : BOOLEAN, radios : SUBSET (Rats \ {"GSM"})]]
  /\ heard \in {"nothing", "misled", "attached"}
  /\ simHeard \in {"nothing", "other", "READY"}
  /\ radio \in {"3GPP", "CDMA", "unknown"}

(* An answered refresh that no other overlapped leaves what its response said: the  *)
(* attach state, and "LTE" as the name of the network exactly if that is its class  *)
(* (getMobileInfo reports NetStatus and NetMode from these), whatever was there.    *)
QuietRefreshIsFaithful ==
  \A w \in Workers :
    pc[w] = "refreshed" /\ answer[w].came /\ quiet[w] =>
      /\ PSAttachedState = IF answer[w].attached THEN 1 ELSE 0
      /\ (CapStr = [first |-> "LTE", nul |-> TRUE]) <=> lteClass[w]

(* START_NETWORK speaks of one radio, that of the last answered refresh: CDMA if    *)
(* the response gave evidence of CDMA and none of LTE.  Promised if no refresh ran  *)
(* while the message was composed and none overlapped the last one.                 *)
MessageMatchesRadio ==
  \A t \in Threads :
    pc[t] = "composed" /\ quiet[t] /\ radio # "unknown" =>
      message[t] = [tech |-> radio, profile |-> radio = "3GPP"]

(* The modem counts as registered only if a response once said that it is attached  *)
(* and, if it was ever asked for the SIM with success, that the SIM is ready.  This *)
(* holds however the threads race, although both fields start with any value:       *)
(* isReady comes after a refresh that cleared the first.  Excepted is a modem that   *)
(* left GET_SERVING_SYSTEM unanswered, which then clears nothing, or answered it     *)
(* "detached", which the code stores as 2 and counts as attached.                    *)
RegisteredIsHeard ==
  [][\A c \in Callers :
       pc[c] = "read" /\ pc'[c] = "registered" =>
         heard # "nothing" /\ simHeard # "other"]_vars

(* "0x02 PS_DETACHED" (QMIThread.c:1799): checkNetRegsterStatus() does not take a    *)
(* modem for registered that said it is detached.                                   *)
DetachedIsNotRegistered ==
  [][\A c \in Callers :
       pc[c] = "read" /\ pc'[c] = "registered" => PSAttachedState # 2]_vars

===============================================================================
