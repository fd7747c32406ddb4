----------------------------- MODULE MobileManager -----------------------------
(* The D-Bus manager of MobileServer (mobileManager.cpp, mobileService.cpp) with    *)
(* the Sim7600 backend (Sim7600_mobile.cpp), on top of AtChannel.  Three threads    *)
(* share the AT channel: main runs initDevice, the D-Bus dispatcher runs one        *)
(* method at a time, and from the end of the start-up a timer asks for the signal   *)
(* strength every ten seconds.  signalFlag is what keeps the timer off the channel. *)
(*                                                                                 *)
(* With the Quectel backend connect, disconnect and the registration status are     *)
(* QMI requests (modules QmiTransaction and DataCall): here they return anything.   *)
EXTENDS AtChannel

CONSTANTS
  Backend,   \* "Quectel" or "Sim7600": which network interface initDevice found
  Methods,   \* the D-Bus methods that are called
  QmiResults, \* what the QMI requests may return, a subset of {"true", "false"}
  EarlyCalls  \* whether methods are called before the start-up is over

AllMethods == {"connect", "disconnect", "sendMessage", "getMobileInfo"}
Threads == {"main", "bus", "timer"}

ASSUME ManagerAssumption ==
  /\ Backend \in {"Quectel", "Sim7600"}
  /\ Methods \subseteq AllMethods
  /\ QmiResults \subseteq {"true", "false"}
  /\ EarlyCalls \in BOOLEAN
  /\ Clients = Threads

VARIABLES
  job,         \* per thread: what it runs
  step,        \* per thread: commands of the job begun (answers, for QMI)
  outcome,     \* per thread: result of the job's backend call
  signalFlag,
  timerOn,     \* signalTimer was started
  SIMStatus, NetworkMode, NetAttachStatus,    \* fields of Sim7600_mobile
  emitted,     \* the last signal emitted, with how it was measured
  (* history, read by the properties only *)
  clean,       \* per thread: every command of the job was alone and fresh
  served,      \* per thread: the modem did what the job's last command asked
  queries,     \* timer queries that ran during the D-Bus method
  settled      \* the start-up was over when the D-Bus method began

jobVars     == <<job, step, outcome>>
statusVars  == <<SIMStatus, NetworkMode, NetAttachStatus>>
ghostVars   == <<clean, served, queries, settled>>
managerVars == <<jobVars, signalFlag, timerOn, statusVars, emitted, ghostVars>>
vars == <<channelVars, managerVars>>

Init ==
  /\ ChannelInit
  /\ job = [t \in Threads |-> IF t = "main" THEN "construct" ELSE "none"]
  /\ step = [t \in Threads |-> 0]
  /\ outcome = [t \in Threads |-> "running"]
  /\ signalFlag = FALSE
  /\ timerOn = FALSE
  /\ SIMStatus = 0
  /\ NetworkMode = 0
  /\ NetAttachStatus = 0
  /\ emitted = [level |-> 0, clean |-> FALSE, said |-> {}]
  /\ clean = [t \in Threads |-> TRUE]
  /\ served = [t \in Threads |-> FALSE]
  /\ queries = 0
  /\ settled = FALSE

-------------------------------------------------------------------------------
(* The AT commands of a job, in order; none when the backend uses QMI.  Before its  *)
(* first check initDevice sets the network mode.                                    *)
CheckCommands == <<"CPIN", "CNSMOD", "CGREG">>
Script(t) ==
  CASE job[t] = "sendMessage" -> <<"CMGF=0", "CSCA", "CMGS", "PDU">>
    [] job[t] = "signal"      -> <<"CSQ">>
    [] OTHER -> IF Backend = "Quectel" THEN <<>>
                ELSE CASE job[t] = "connect"       -> <<"DIAL">>
                       [] job[t] = "disconnect"    -> <<"HANGUP">>
                       [] job[t] = "getMobileInfo" -> CheckCommands
                       [] job[t] = "check"         -> <<"CNSMOD=1">> \o CheckCommands
                       [] OTHER                    -> <<>>

Busy(t) == job[t] \notin {"none", "construct", "done", "exited"}

StartJob(t, j) ==
  /\ job' = [job EXCEPT ![t] = j]
  /\ step' = [step EXCEPT ![t] = 0]
  /\ outcome' = [outcome EXCEPT ![t] = "running"]
  /\ clean' = [clean EXCEPT ![t] = TRUE]
  /\ served' = [served EXCEPT ![t] = FALSE]

EndJob(t, j) ==
  /\ job' = [job EXCEPT ![t] = j]
  /\ step' = [step EXCEPT ![t] = 0]
  /\ outcome' = [outcome EXCEPT ![t] = "running"]
  /\ UNCHANGED <<clean, served>>

Issue(t) ==
  /\ Busy(t)
  /\ outcome[t] = "running"
  /\ step[t] < Len(Script(t))
  /\ Begin(t, Script(t)[step[t] + 1])
  /\ step' = [step EXCEPT ![t] = @ + 1]
  /\ UNCHANGED <<job, outcome, signalFlag, timerOn, statusVars, emitted, ghostVars>>

(* External: the QMI requests of the Quectel backend.                               *)
QmiAnswers(t) ==
  /\ Busy(t)
  /\ outcome[t] = "running"
  /\ Script(t) = <<>>
  /\ \E r \in QmiResults : outcome' = [outcome EXCEPT ![t] = r]
  /\ step' = [step EXCEPT ![t] = @ + 1]
  /\ UNCHANGED <<channelVars, job, signalFlag, timerOn, statusVars, emitted,
                 ghostVars>>

-------------------------------------------------------------------------------
(* What the code finds in the text s of a reply.  A line "+NAME: a,b" cut off after *)
(* its name, or an unsolicited one with a single number, leaves what sscanf should  *)
(* have set uninitialised: it may be anything.                                      *)
HasOK(s) == \E i \in 1..Len(s) : s[i].text = "OK"
Is(s, i, k, text) == s[i].cmd = k /\ s[i].text = text
Names(s, k) == \E i \in 1..Len(s) : Is(s, i, k, "name")

Scanned(s, k) ==
  LET at == CHOOSE i \in 1..Len(s) :
              Is(s, i, k, "name") /\ \A j \in 1..(i - 1) : ~Is(s, j, k, "name")
  IN IF at < Len(s) /\ s[at + 1].text = "value" /\ s[at].id # 0
     THEN {s[at + 1].good} ELSE BOOLEAN

NumberOf(s, k) ==
  IF Names(s, k) THEN {IF b THEN 1 ELSE 0 : b \in Scanned(s, k)} ELSE {-1}

SIMStatusOf(s) ==
  IF \E i \in 1..Len(s) : Is(s, i, "CPIN", "value") /\ s[i].good THEN 2 ELSE 1

Heard(t) == IF ret[t] = "true" THEN got[t] ELSE <<>>

(* Commands that are refused unless the reply holds an OK (dialling: or its "V4").  *)
AcceptsAnyReply(s, k) == k \in {"CNSMOD=1", "CMGF=0", "DIAL", "HANGUP", "PDU"} /\ s = <<>>
Refused(s, k) ==
  /\ k \in {"CNSMOD=1", "CMGF=0", "DIAL", "HANGUP", "PDU"}
  /\ ~HasOK(s)
  /\ ~(k = "DIAL" /\ Names(s, k))

(* GetRssidata wants an OK before GetCurSignalStrenght looks for "+CSQ: ".           *)
AnyText(s) == s # <<>>
Measured(s) == HasOK(s)

(* What the thread itself was told by the modem in answer to its command.           *)
Said(t) == {IF got[t][i].good THEN 1 ELSE 0 :
              i \in {j \in 1..Len(got[t]) :
                       got[t][j].id = own[t] /\ got[t][j].text = "value"}}

StoreStatus(k, s) ==
  /\ SIMStatus' = IF k = "CPIN" THEN SIMStatusOf(s) ELSE SIMStatus
  /\ IF k = "CNSMOD" THEN NetworkMode' \in NumberOf(s, k) ELSE UNCHANGED NetworkMode
  /\ IF k = "CGREG" THEN NetAttachStatus' \in NumberOf(s, k)
                    ELSE UNCHANGED NetAttachStatus

EmitSignal(t, s) ==
  \E n \in NumberOf(s, "CSQ") :
    emitted' = [level |-> n, clean |-> alone[t] /\ fresh[t], said |-> Said(t)]

(* The command of the job returns; an exception ends the job.                       *)
Reply(t) ==
  LET k == command[t]  s == Heard(t)  last == step[t] = Len(Script(t)) IN
  /\ pc[t] = "returned"
  /\ Return(t)
  /\ IF ret[t] = "thrown" THEN UNCHANGED statusVars ELSE StoreStatus(k, s)
  /\ outcome' = [outcome EXCEPT ![t] =
       CASE ret[t] = "thrown"             -> "thrown"
         [] ret[t] # "thrown" /\ Refused(s, k)  -> "false"
         [] ret[t] # "thrown" /\ ~Refused(s, k) ->
              IF ~last THEN "running"
              ELSE IF k = "CGREG" /\ ~(SIMStatus' = 2 /\ NetAttachStatus' = 1)
                   THEN "false" ELSE "true"]
  /\ IF k = "CSQ" /\ Measured(s) THEN EmitSignal(t, s) ELSE UNCHANGED emitted
  /\ clean' = [clean EXCEPT ![t] = @ /\ alone[t] /\ fresh[t]]
  /\ served' = [served EXCEPT ![t] = accepted[t]]
  /\ UNCHANGED <<job, step, signalFlag, timerOn, queries, settled>>

-------------------------------------------------------------------------------
(* main: initDevice.  The D-Bus object was registered before.                       *)
Construct ==
  /\ job["main"] = "construct"
  /\ \/ StartJob("main", "check")
     \/ "throw" \in Faults /\ EndJob("main", "exited")   \* the port does not open
  /\ UNCHANGED <<channelVars, signalFlag, timerOn, statusVars, emitted, queries,
                 settled>>

(* The check is over; a registered modem is connected if the configuration says so, *)
(* and the timer starts.  A configuration that cannot be read ends the process: only *)
(* errors of its JSON are caught.  The Quectel modem is asked up to three times.     *)
Checked ==
  /\ job["main"] = "check"
  /\ \/ /\ outcome["main"] = "true"
        /\ \/ /\ StartJob("main", "connect")
              /\ signalFlag' = FALSE
              /\ UNCHANGED timerOn
           \/ /\ EndJob("main", "done")
              /\ timerOn' = TRUE
              /\ UNCHANGED signalFlag
           \/ EndJob("main", "exited") /\ UNCHANGED <<signalFlag, timerOn>>
     \/ /\ outcome["main"] = "false"
        /\ IF Backend = "Quectel" /\ step["main"] < 3
           THEN /\ outcome' = [outcome EXCEPT !["main"] = "running"]
                /\ UNCHANGED <<job, step, clean, served>>
           ELSE EndJob("main", "done")
        /\ UNCHANGED <<signalFlag, timerOn>>
  /\ UNCHANGED <<channelVars, statusVars, emitted, queries, settled>>

ConfigConnected ==
  /\ job["main"] = "connect"
  /\ outcome["main"] \in {"true", "false"}
  /\ EndJob("main", "done")
  /\ signalFlag' = TRUE
  /\ timerOn' = TRUE
  /\ UNCHANGED <<channelVars, statusVars, emitted, queries, settled>>

(* Nothing catches an exception in main: the process ends.                          *)
MainThrows ==
  /\ outcome["main"] = "thrown"
  /\ EndJob("main", "exited")
  /\ UNCHANGED <<channelVars, signalFlag, timerOn, statusVars, emitted, queries,
                 settled>>

-------------------------------------------------------------------------------
(* The D-Bus dispatcher.  Before initDevice set command and mobilePtr a call would  *)
(* use uninitialised pointers, which is not modelled.                               *)
KeepFlag == UNCHANGED signalFlag
LowerFlag == signalFlag' = FALSE

Called == job["main"] = "done" \/ (EarlyCalls /\ job["main"] # "construct")

Call(m) ==
  /\ Called
  /\ job["bus"] = "none"
  /\ StartJob("bus", m)
  /\ LowerFlag
  /\ queries' = IF Busy("timer") THEN 1 ELSE 0
  /\ settled' = (job["main"] = "done")
  /\ UNCHANGED <<channelVars, timerOn, statusVars, emitted>>

(* sendMessage with a number or a text it does not take lowers and raises the flag. *)
RefuseMessage ==
  /\ "sendMessage" \in Methods
  /\ Called
  /\ job["bus"] = "none"
  /\ signalFlag' = TRUE
  /\ UNCHANGED <<channelVars, jobVars, timerOn, statusVars, emitted, ghostVars>>

(* The backend call returns, or throws past the line that raises the flag.  The     *)
(* calls of the Ethernet proxy that may follow change nothing here.                 *)
EndMethod ==
  /\ Busy("bus")
  /\ outcome["bus"] # "running"
  /\ EndJob("bus", "none")
  /\ signalFlag' = (signalFlag \/ outcome["bus"] # "thrown")
  /\ queries' = 0
  /\ UNCHANGED <<channelVars, timerOn, statusVars, emitted, settled>>

-------------------------------------------------------------------------------
(* The timer: getSignalStrength tests the flag once, then uses the channel.         *)
TimerFires ==
  /\ timerOn
  /\ job["timer"] = "none"
  /\ signalFlag
  /\ StartJob("timer", "signal")
  /\ queries' = IF Busy("bus") THEN queries + 1 ELSE queries
  /\ UNCHANGED <<channelVars, signalFlag, timerOn, statusVars, emitted, settled>>

EndTimer ==
  /\ job["timer"] = "signal"
  /\ outcome["timer"] # "running"
  /\ EndJob("timer", "none")
  /\ UNCHANGED <<channelVars, signalFlag, timerOn, statusVars, emitted, queries,
                 settled>>

-------------------------------------------------------------------------------
Channel == (Modem \/ \E t \in Threads : Step(t)) /\ UNCHANGED managerVars

Manager ==
  \/ Construct \/ Checked \/ ConfigConnected \/ MainThrows
  \/ \E m \in Methods : Call(m)
  \/ RefuseMessage \/ EndMethod
  \/ TimerFires \/ EndTimer
  \/ \E t \in Threads : Issue(t) \/ QmiAnswers(t) \/ Reply(t)

ManagerNext == job["main"] # "exited" /\ (Channel \/ Manager)

ManagerSpec == Init /\ [][ManagerNext]_vars

-------------------------------------------------------------------------------
(* Properties.                                                                     *)

(* signalFlag does not keep the timer off the channel (it is tested before the      *)
(* query), but once the start-up is over it lets at most one query run into a       *)
(* D-Bus method.                                                                    *)
OneQueryPerMethod == settled => queries <= 1

(* connect, disconnect and sendMessage report success only if the modem did what    *)
(* was asked, when no other thread's command and no text said before came between.  *)
SuccessIsReal ==
  \A t \in {"main", "bus"} :
    /\ job[t] \in {"connect", "disconnect", "sendMessage"}
    /\ Script(t) # <<>>
    /\ outcome[t] = "true"
    /\ clean[t]
    => served[t]

(* Under the same condition the level that is emitted is the one the modem gave in  *)
(* answer to that very query, and not what was left on the stack.                   *)
EmittedIsMeasured == emitted.clean => emitted.level \in emitted.said

===============================================================================
