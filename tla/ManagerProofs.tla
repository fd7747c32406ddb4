----------------------------- MODULE ManagerProofs -----------------------------
(* Theorems about MobileManager, for both backends, any methods and any faults of   *)
(* the modem.  They rest on what AtChannelProofs says of the channel.               *)
EXTENDS MobileManager, AtChannelProofs

(* What a thread may run.                                                          *)
Jobs == AllMethods \cup {"none", "construct", "check", "done", "exited", "signal"}

JobsTyped ==
  /\ job \in [Threads -> Jobs]
  /\ queries \in Nat

(* The start-up, which also raises the flag, is over when a settled method begins.  *)
StartupOver == settled => job["main"] \in {"done", "exited"}

(* A settled method keeps the flag down, so that no further query starts under it.  *)
FlagDown == settled /\ Busy("bus") => ~signalFlag

FlagInv == JobsTyped /\ StartupOver /\ FlagDown /\ OneQueryPerMethod

LEMMA FlagInit == Init => FlagInv
  BY DEF Init, FlagInv, JobsTyped, StartupOver, FlagDown, OneQueryPerMethod, Threads,
         Jobs, AllMethods

(* Only a method, a query or a step of initDevice moves what the invariant reads.   *)
LEMMA FlagStutter ==
  ASSUME FlagInv, UNCHANGED <<job, signalFlag, queries, settled>>
  PROVE  FlagInv'
  BY DEF FlagInv, JobsTyped, StartupOver, FlagDown, OneQueryPerMethod, Busy

(* initDevice moves main only, and while it has something to do no method is        *)
(* settled.                                                                        *)
LEMMA FlagStartup ==
  ASSUME FlagInv, Construct \/ Checked \/ ConfigConnected \/ MainThrows
  PROVE  FlagInv'
<1> USE DEF FlagInv, JobsTyped, StartupOver, FlagDown, OneQueryPerMethod, Busy, Threads,
            Jobs, AllMethods, StartJob, EndJob
<1>1. CASE Construct
  BY <1>1 DEF Construct
<1>2. CASE Checked
  BY <1>2 DEF Checked
<1>3. CASE ConfigConnected
  BY <1>3 DEF ConfigConnected
<1>4. CASE MainThrows
  BY <1>4 DEF MainThrows
<1>5. QED
  BY <1>1, <1>2, <1>3, <1>4

(* A method lowers the flag as it begins; whoever raises it finds no method.        *)
LEMMA FlagMethod ==
  ASSUME FlagInv, (\E m \in Methods : Call(m)) \/ RefuseMessage \/ EndMethod
  PROVE  FlagInv'
<1> USE DEF FlagInv, JobsTyped, StartupOver, FlagDown, OneQueryPerMethod, Busy, Threads,
            Jobs
<1>1. ASSUME NEW m \in Methods, Call(m)
      PROVE  FlagInv'
  <2>1. /\ m \in Jobs
        /\ job' = [job EXCEPT !["bus"] = m]
        /\ queries' \in {0, 1}
        /\ settled' = (job["main"] = "done")
    BY <1>1, ManagerAssumption DEF Call, StartJob
  <2>2. ~signalFlag'
    BY <1>1 DEF Call, LowerFlag
  <2>3. JobsTyped' /\ OneQueryPerMethod'
    BY <2>1
  <2>4. StartupOver'
    BY <2>1
  <2>5. QED
    BY <2>2, <2>3, <2>4
<1>2. CASE RefuseMessage
  BY <1>2 DEF RefuseMessage, jobVars, ghostVars
<1>3. CASE EndMethod
  BY <1>3 DEF EndMethod, EndJob
<1>4. QED
  BY <1>1, <1>2, <1>3

LEMMA FlagTimer ==
  ASSUME FlagInv, TimerFires \/ EndTimer
  PROVE  FlagInv'
<1> USE DEF FlagInv, JobsTyped, StartupOver, FlagDown, OneQueryPerMethod, Busy, Threads,
            Jobs
<1>1. CASE TimerFires
  BY <1>1 DEF TimerFires, StartJob
<1>2. CASE EndTimer
  BY <1>2 DEF EndTimer, EndJob
<1>3. QED
  BY <1>1, <1>2

LEMMA FlagNext == FlagInv /\ [ManagerNext]_vars => FlagInv'
<1> SUFFICES ASSUME FlagInv, [ManagerNext]_vars
             PROVE  FlagInv'
  OBVIOUS
<1> USE DEF managerVars, jobVars, ghostVars
<1>1. CASE Construct \/ Checked \/ ConfigConnected \/ MainThrows
  BY <1>1, FlagStartup
<1>2. CASE (\E m \in Methods : Call(m)) \/ RefuseMessage \/ EndMethod
  BY <1>2, FlagMethod
<1>3. CASE TimerFires \/ EndTimer
  BY <1>3, FlagTimer
<1>4. ASSUME NEW t \in Threads, Issue(t) \/ QmiAnswers(t) \/ Reply(t)
      PROVE  FlagInv'
  <2>1. UNCHANGED <<job, signalFlag, queries, settled>>
    BY <1>4 DEF Issue, QmiAnswers, Reply
  <2>2. QED
    BY <2>1, FlagStutter
<1>5. CASE Channel
  <2>1. UNCHANGED <<job, signalFlag, queries, settled>>
    BY <1>5 DEF Channel
  <2>2. QED
    BY <2>1, FlagStutter
<1>6. CASE UNCHANGED vars
  <2>1. UNCHANGED <<job, signalFlag, queries, settled>>
    BY <1>6 DEF vars
  <2>2. QED
    BY <2>1, FlagStutter
<1>7. QED
  BY <1>1, <1>2, <1>3, <1>4, <1>5, <1>6 DEF ManagerNext, Manager

(* Once the start-up is over, at most one query of the timer runs into a D-Bus      *)
(* method, whatever the modem does and however long the method takes.               *)
THEOREM QueriesAreBounded == ManagerSpec => []OneQueryPerMethod
<1>1. FlagInv => OneQueryPerMethod
  BY DEF FlagInv
<1>2. QED
  BY <1>1, FlagInit, FlagNext, PTL DEF ManagerSpec

-------------------------------------------------------------------------------
(* What the threads keep of their jobs.                                             *)
JobStates == {"running", "true", "false", "thrown"}

JobInv ==
  /\ job \in [Threads -> Jobs]
  /\ step \in [Threads -> Nat]
  /\ outcome \in [Threads -> JobStates]
  /\ clean \in [Threads -> BOOLEAN]
  /\ served \in [Threads -> BOOLEAN]

(* A command under way is the one of the script that was begun last, and its job    *)
(* waits for it.                                                                   *)
CommandInv ==
  \A t \in Threads : pc[t] # "idle" =>
    /\ Busy(t)
    /\ outcome[t] = "running"
    /\ step[t] \in 1..Len(Script(t))
    /\ command[t] = Script(t)[step[t]]

(* SuccessIsReal for any thread.                                                    *)
SuccessInv ==
  \A t \in Threads :
    /\ job[t] \in {"connect", "disconnect", "sendMessage"}
    /\ Script(t) # <<>>
    /\ outcome[t] = "true"
    /\ clean[t]
    => served[t]

ManagerInv == ChannelInv /\ JobInv /\ CommandInv /\ SuccessInv /\ EmittedIsMeasured

(* The commands of a script are ones the modem knows, and those that ask it to do   *)
(* something end with the command that says whether it did.                         *)
LEMMA ScriptType ==
  ASSUME NEW t \in Threads
  PROVE  /\ Len(Script(t)) \in Nat
         /\ \A i \in 1..Len(Script(t)) : Script(t)[i] \in AllCommands
         /\ job[t] \in {"connect", "disconnect", "sendMessage"} /\ Script(t) # <<>>
              => Script(t)[Len(Script(t))] \in {"DIAL", "HANGUP", "PDU"}
<1> DEFINE start == <<"CNSMOD=1">> \o CheckCommands
<1>1. \A i \in 1..Len(start) : start[i] \in AllCommands
  <2> DEFINE one == <<"CNSMOD=1">>
             three == <<"CPIN", "CNSMOD", "CGREG">>
  <2>1. one \in Seq(AllCommands) /\ three \in Seq(AllCommands)
    BY DEF AllCommands, Asks, Sets, Reports
  <2>2. start \in Seq(AllCommands)
    <3> HIDE DEF one, three
    <3>1. one \o three \in Seq(AllCommands)
      BY <2>1, ConcatProperties
    <3>2. QED
      BY <3>1 DEF one, three, CheckCommands
  <2> HIDE DEF start
  <2>3. QED
    BY <2>2, ElementOfSeq
<1>2. Len(start) \in Nat
  OBVIOUS
<1>3. \/ Script(t) = <<"CMGF=0", "CSCA", "CMGS", "PDU">> /\ job[t] = "sendMessage"
      \/ Script(t) = <<"CSQ">> /\ job[t] = "signal"
      \/ Script(t) = <<"DIAL">> /\ job[t] = "connect"
      \/ Script(t) = <<"HANGUP">> /\ job[t] = "disconnect"
      \/ Script(t) = <<"CPIN", "CNSMOD", "CGREG">> /\ job[t] = "getMobileInfo"
      \/ Script(t) = start /\ job[t] = "check"
      \/ Script(t) = <<>>
  BY DEF Script, CheckCommands
<1> HIDE DEF start
<1>4. CASE Script(t) = start /\ job[t] = "check"
  BY <1>1, <1>2, <1>4
<1>5. CASE Script(t) = <<"CMGF=0", "CSCA", "CMGS", "PDU">> /\ job[t] = "sendMessage"
  BY <1>5 DEF AllCommands, Asks, Sets, Reports
<1>6. CASE \/ Script(t) = <<"CPIN", "CNSMOD", "CGREG">> /\ job[t] = "getMobileInfo"
           \/ Script(t) = <<"CSQ">> /\ job[t] = "signal"
  BY <1>6 DEF AllCommands, Asks, Sets, Reports
<1>7. CASE \/ Script(t) = <<"DIAL">> /\ job[t] = "connect"
           \/ Script(t) = <<"HANGUP">> /\ job[t] = "disconnect"
           \/ Script(t) = <<>>
  BY <1>7 DEF AllCommands, Asks, Sets, Reports
<1>8. QED
  BY <1>3, <1>4, <1>5, <1>6, <1>7

LEMMA ManagerFirst == Init => ManagerInv
<1> SUFFICES ASSUME Init PROVE ManagerInv
  OBVIOUS
<1>1. ChannelInv
  BY ChannelFirst DEF Init
<1>2. JobInv
  BY DEF Init, JobInv, Jobs, JobStates, Threads, AllMethods
<1>3. CommandInv
  BY ManagerAssumption DEF Init, ChannelInit, CommandInv
<1>4. SuccessInv /\ EmittedIsMeasured
  BY DEF Init, SuccessInv, EmittedIsMeasured
<1>5. QED
  BY <1>1, <1>2, <1>3, <1>4 DEF ManagerInv

(* A thread that has no command under way may begin or end a job: what others do    *)
(* and what it did before stays as it was.                                          *)
LEMMA JobChanges ==
  ASSUME ManagerInv, NEW t \in Threads, pc[t] = "idle",
         UNCHANGED <<channelVars, emitted>>,
         JobInv',
         \A d \in Threads \ {t} : /\ job'[d] = job[d] /\ step'[d] = step[d]
                                  /\ outcome'[d] = outcome[d] /\ clean'[d] = clean[d]
                                  /\ served'[d] = served[d],
         outcome'[t] = "running"
  PROVE  ManagerInv'
<1>1. UNCHANGED <<pc, command>>
  BY DEF channelVars, callVars
<1>2. ChannelInv'
  BY ChannelNext DEF ManagerInv
<1>3. \A d \in Threads \ {t} : Script(d)' = Script(d) /\ Busy(d)' = Busy(d)
  BY DEF Script, Busy, CheckCommands
<1>4. CommandInv'
  BY <1>1, <1>3 DEF ManagerInv, CommandInv
<1>5. SuccessInv'
  BY <1>3 DEF ManagerInv, SuccessInv
<1>6. EmittedIsMeasured'
  BY DEF ManagerInv, EmittedIsMeasured
<1>7. QED
  BY <1>2, <1>4, <1>5, <1>6 DEF ManagerInv

(* A step that is about no job.                                                     *)
LEMMA JobsKept ==
  ASSUME ManagerInv, UNCHANGED <<channelVars, job, step, outcome, clean, served, emitted>>
  PROVE  ManagerInv'
<1>1. UNCHANGED <<pc, command>>
  BY DEF channelVars, callVars
<1>2. ChannelInv'
  BY ChannelNext DEF ManagerInv
<1>3. \A d \in Threads : Script(d)' = Script(d) /\ Busy(d)' = Busy(d)
  BY DEF Script, Busy, CheckCommands
<1>4. QED
  BY <1>1, <1>2, <1>3 DEF ManagerInv, JobInv, CommandInv, SuccessInv, EmittedIsMeasured

LEMMA StartType ==
  ASSUME JobInv, NEW t \in Threads, NEW j \in Jobs, StartJob(t, j) \/ EndJob(t, j)
  PROVE  /\ JobInv'
         /\ \A d \in Threads \ {t} : /\ job'[d] = job[d] /\ step'[d] = step[d]
                                     /\ outcome'[d] = outcome[d] /\ clean'[d] = clean[d]
                                     /\ served'[d] = served[d]
         /\ outcome'[t] = "running"
<1>1. /\ job' = [job EXCEPT ![t] = j]
      /\ step' = [step EXCEPT ![t] = 0]
      /\ outcome' = [outcome EXCEPT ![t] = "running"]
  BY DEF StartJob, EndJob
<1>2. /\ job' \in [Threads -> Jobs] /\ step' \in [Threads -> Nat]
      /\ outcome' \in [Threads -> JobStates] /\ outcome'[t] = "running"
      /\ \A d \in Threads \ {t} : /\ job'[d] = job[d] /\ step'[d] = step[d]
                                  /\ outcome'[d] = outcome[d]
  BY <1>1 DEF JobInv, JobStates
<1>3. CASE StartJob(t, j)
  <2>1. clean' = [clean EXCEPT ![t] = TRUE] /\ served' = [served EXCEPT ![t] = FALSE]
    BY <1>3 DEF StartJob
  <2>2. /\ clean' \in [Threads -> BOOLEAN] /\ served' \in [Threads -> BOOLEAN]
        /\ \A d \in Threads \ {t} : clean'[d] = clean[d] /\ served'[d] = served[d]
    BY <2>1 DEF JobInv
  <2>3. QED
    BY <1>2, <2>2 DEF JobInv
<1>4. CASE EndJob(t, j)
  <2>1. clean' = clean /\ served' = served
    BY <1>4 DEF EndJob
  <2>2. QED
    BY <1>2, <2>1 DEF JobInv
<1>5. QED
  BY <1>3, <1>4

(* initDevice, the methods and the timer begin and end jobs of threads at rest.      *)
LEMMA ManagerJobs ==
  ASSUME ManagerInv,
         \/ Construct \/ Checked \/ ConfigConnected \/ MainThrows
         \/ \E m \in Methods : Call(m)
         \/ RefuseMessage \/ EndMethod \/ TimerFires \/ EndTimer
  PROVE  ManagerInv'
<1>1. JobInv
  BY DEF ManagerInv
<1>2. ASSUME NEW t \in Threads, pc[t] # "idle"
      PROVE  Busy(t) /\ outcome[t] = "running"
  BY <1>2 DEF ManagerInv, CommandInv
<1>3. ASSUME NEW t \in Threads, NEW j \in Jobs, StartJob(t, j) \/ EndJob(t, j),
             ~Busy(t) \/ outcome[t] # "running",
             UNCHANGED <<channelVars, emitted>>
      PROVE  ManagerInv'
  <2>1. pc[t] = "idle"
    BY <1>2, <1>3
  <2>2. QED
    BY <1>1, <1>3, <2>1, StartType, JobChanges
<1>4. CASE Construct
  BY <1>3, <1>4 DEF Construct, Busy, Threads, Jobs
<1>5. CASE Checked
  <2>1. CASE outcome' = [outcome EXCEPT !["main"] = "running"]
             /\ UNCHANGED <<job, step, clean, served>>
    <3>1. outcome["main"] # "running" /\ UNCHANGED <<channelVars, emitted>>
      BY <1>5 DEF Checked
    <3>2. "main" \in Threads /\ pc["main"] = "idle"
      BY <1>2, <3>1 DEF Threads
    <3>3. /\ outcome'["main"] = "running" /\ JobInv'
          /\ \A d \in Threads \ {"main"} : outcome'[d] = outcome[d]
      BY <1>1, <2>1, <3>2 DEF JobInv, JobStates
    <3>4. QED
      BY <2>1, <3>1, <3>2, <3>3, JobChanges
  <2>2. CASE \/ StartJob("main", "connect")
             \/ EndJob("main", "done") \/ EndJob("main", "exited")
    <3>1. outcome["main"] # "running" /\ UNCHANGED <<channelVars, emitted>>
      BY <1>5 DEF Checked
    <3>2. QED
      BY <1>3, <2>2, <3>1 DEF Threads, Jobs, AllMethods
  <2>3. QED
    BY <1>5, <2>1, <2>2 DEF Checked
<1>6. CASE ConfigConnected
  BY <1>3, <1>6 DEF ConfigConnected, Threads, Jobs
<1>7. CASE MainThrows
  BY <1>3, <1>7 DEF MainThrows, Threads, Jobs
<1>8. ASSUME NEW m \in Methods, Call(m)
      PROVE  ManagerInv'
  <2>1. m \in Jobs
    BY ManagerAssumption DEF Jobs
  <2>2. QED
    BY <1>3, <1>8, <2>1 DEF Call, Busy, Threads
<1>9. CASE RefuseMessage
  BY <1>9, JobsKept DEF RefuseMessage, jobVars, ghostVars
<1>10. CASE EndMethod
  BY <1>3, <1>10 DEF EndMethod, Threads, Jobs
<1>11. CASE TimerFires
  BY <1>3, <1>11 DEF TimerFires, Busy, Threads, Jobs
<1>12. CASE EndTimer
  BY <1>3, <1>12 DEF EndTimer, Threads, Jobs
<1>13. QED
  BY <1>4, <1>5, <1>6, <1>7, <1>8, <1>9, <1>10, <1>11, <1>12

(* The line speaks and the commands go on while the jobs wait.                      *)
LEMMA ManagerChannel ==
  ASSUME ManagerInv, Channel
  PROVE  ManagerInv'
<1>1. ChannelInv'
  BY ManagerAssumption, ChannelNext DEF ManagerInv, Channel, AnyNext
<1>2. UNCHANGED <<job, step, outcome, clean, served, emitted>>
  BY DEF Channel, managerVars, jobVars, ghostVars
<1>3. \A d \in Threads : Script(d)' = Script(d) /\ Busy(d)' = Busy(d)
  BY <1>2 DEF Script, Busy, CheckCommands
<1>4. UNCHANGED command /\ \A d \in Threads : pc'[d] # "idle" => pc[d] # "idle"
  <2>1. CASE Modem
    BY <2>1 DEF Modem, Deliver, Unsolicited, HangUp, callVars
  <2>2. ASSUME NEW t \in Threads, Step(t)
        PROVE  /\ UNCHANGED command /\ pc[t] # "idle"
               /\ \A d \in Threads : d # t => pc'[d] = pc[d]
    BY <2>2, ManagerAssumption, StepFrame DEF ManagerInv, ChannelInv
  <2>3. QED
    BY <2>1, <2>2 DEF Channel
<1>5. CommandInv'
  BY <1>2, <1>3, <1>4 DEF ManagerInv, CommandInv
<1>6. QED
  BY <1>1, <1>2, <1>3, <1>5 DEF ManagerInv, JobInv, SuccessInv, EmittedIsMeasured

LEMMA ManagerIssue ==
  ASSUME ManagerInv, NEW t \in Threads, Issue(t)
  PROVE  ManagerInv'
<1> DEFINE k == Script(t)[step[t] + 1]
<1>1. /\ Begin(t, k) /\ step[t] \in Nat /\ step[t] + 1 \in 1..Len(Script(t))
      /\ k \in AllCommands /\ Busy(t) /\ outcome[t] = "running"
  BY ScriptType DEF Issue, ManagerInv, JobInv
<1>2. ChannelInv'
  BY <1>1, ManagerAssumption, ChannelNext DEF ManagerInv, AnyNext
<1>3. UNCHANGED <<job, outcome, clean, served, emitted>>
  BY DEF Issue, ghostVars
<1>4. step' = [step EXCEPT ![t] = step[t] + 1]
  BY DEF Issue
<1>5. \A d \in Threads : Script(d)' = Script(d) /\ Busy(d)' = Busy(d)
  BY <1>3 DEF Script, Busy, CheckCommands
<1>6. /\ command'[t] = k
      /\ \A d \in Threads \ {t} : pc'[d] = pc[d] /\ command'[d] = command[d]
  BY <1>1, ManagerAssumption DEF Begin, ManagerInv, ChannelInv, TypeOK
<1>7. JobInv'
  BY <1>1, <1>3, <1>4 DEF ManagerInv, JobInv
<1>8. step'[t] = step[t] + 1 /\ \A d \in Threads \ {t} : step'[d] = step[d]
  BY <1>4 DEF ManagerInv, JobInv
<1>9. CommandInv'
  BY <1>1, <1>3, <1>5, <1>6, <1>8 DEF ManagerInv, CommandInv
<1>10. QED
  BY <1>2, <1>3, <1>5, <1>7, <1>9 DEF ManagerInv, SuccessInv, EmittedIsMeasured

(* A backend that uses QMI has no AT commands to wait for.                          *)
LEMMA ManagerQmi ==
  ASSUME ManagerInv, NEW t \in Threads, QmiAnswers(t)
  PROVE  ManagerInv'
<1>1. PICK r \in QmiResults : outcome' = [outcome EXCEPT ![t] = r]
  BY DEF QmiAnswers
<1>2. /\ UNCHANGED <<channelVars, job, clean, served, emitted>> /\ Script(t) = <<>>
      /\ step' = [step EXCEPT ![t] = step[t] + 1]
  BY DEF QmiAnswers, ghostVars
<1>3. r \in JobStates
  BY ManagerAssumption DEF JobStates
<1>4. ChannelInv'
  BY <1>2, ChannelNext DEF ManagerInv
<1>5. pc[t] = "idle" /\ UNCHANGED <<pc, command>>
  BY <1>2 DEF ManagerInv, CommandInv, channelVars, callVars
<1>6. \A d \in Threads : Script(d)' = Script(d) /\ Busy(d)' = Busy(d)
  BY <1>2 DEF Script, Busy, CheckCommands
<1>7. JobInv' /\ \A d \in Threads \ {t} : outcome'[d] = outcome[d] /\ step'[d] = step[d]
  BY <1>1, <1>2, <1>3 DEF ManagerInv, JobInv
<1>8. CommandInv'
  BY <1>5, <1>6, <1>7 DEF ManagerInv, CommandInv
<1>9. SuccessInv'
  BY <1>2, <1>6, <1>7 DEF ManagerInv, SuccessInv
<1>10. QED
  BY <1>2, <1>4, <1>7, <1>8, <1>9 DEF ManagerInv, EmittedIsMeasured

-------------------------------------------------------------------------------
(* A set of numbers that is not empty has a least one.                              *)
LEMMA Least ==
  ASSUME NEW T \in SUBSET Nat, T # {}
  PROVE  \E x \in T : \A y \in T : x <= y
<1> DEFINE R == OpToRel(<, Nat)
<1>1. IsWellFoundedOn(R, Nat)
  BY NatLessThanWellFounded, Zenon
<1>2. \A x, y \in Nat : x < y => <<x, y>> \in R
  BY DEF OpToRel
<1> HIDE DEF R
<1>3. PICK x \in T : \A y \in T : ~(<<y, x>> \in R)
  BY <1>1, WFMin
<1>4. \A y \in T : ~(y < x)
  BY <1>2, <1>3
<1>5. QED
  BY <1>4

(* An OK that comes in answer to AT+CSQ has the name and the value of the answer     *)
(* before it: the number that is read is the one the modem gave.                     *)
LEMMA NumberIsTheAnswers ==
  ASSUME NEW s \in Seq(Token), NEW i, i # 0, NEW ok,
         AnswerText("CSQ", i, ok, s), HasOK(s), NEW n \in NumberOf(s, "CSQ")
  PROVE  \E j \in 1..Len(s) : /\ s[j].id = i /\ s[j].text = "value"
                              /\ n = IF s[j].good THEN 1 ELSE 0
<1> DEFINE First(j) == /\ Is(s, j, "CSQ", "name")
                       /\ \A l \in 1..(j - 1) : ~Is(s, l, "CSQ", "name")
<1>1. Len(s) \in Nat /\ "CSQ" \in Asks
  BY LenProperties DEF Asks
<1>2. \A j \in 1..Len(s) :
        /\ s[j].text = "prompt" \/ (s[j].id = i /\ s[j].cmd = "CSQ")
        /\ s[j].text = "OK" => j = Len(s)
        /\ s[j].text = "OK" => \E l \in 1..Len(s) : s[l].text = "name"
        /\ s[j].text = "name" /\ j < Len(s) => s[j + 1].text = "value"
  BY <1>1 DEF AnswerText
<1>3. PICK l \in 1..Len(s) : s[l].text = "name" /\ s[Len(s)].text = "OK"
  BY <1>1, <1>2 DEF HasOK
<1>4. Names(s, "CSQ")
  BY <1>2, <1>3 DEF Names, Is
<1>5. \E j \in 1..Len(s) : First(j)
  <2> DEFINE T == {j \in 1..Len(s) : Is(s, j, "CSQ", "name")}
  <2>1. T \in SUBSET Nat /\ T # {}
    BY <1>1, <1>4 DEF Names
  <2>2. PICK j \in T : \A m \in T : j <= m
    BY <2>1, Least
  <2>3. First(j)
    BY <1>1, <2>2
  <2>4. QED
    BY <2>2, <2>3
<1>6. PICK at : at = CHOOSE j \in 1..Len(s) : First(j)
  OBVIOUS
<1>7. at \in 1..Len(s) /\ Is(s, at, "CSQ", "name")
  BY <1>5, <1>6
<1>8. /\ at < Len(s) /\ at + 1 \in 1..Len(s) /\ s[at].id # 0
      /\ s[at + 1].text = "value" /\ s[at + 1].id = i
  <2>1. at # Len(s) /\ s[at].text = "name"
    BY <1>3, <1>7 DEF Is
  <2>2. at < Len(s) /\ at + 1 \in 1..Len(s)
    BY <1>1, <1>7, <2>1
  <2>3. QED
    BY <1>2, <1>7, <2>1, <2>2
<1>9. Scanned(s, "CSQ") = {s[at + 1].good}
  BY <1>6, <1>8 DEF Scanned
<1>10. n = IF s[at + 1].good THEN 1 ELSE 0
  BY <1>4, <1>9 DEF NumberOf
<1>11. QED
  BY <1>8, <1>10

(* What a thread heard when its command was alone and fresh.                         *)
LEMMA HeardIsOwn ==
  ASSUME ManagerInv, NEW t \in Threads, pc[t] = "returned", alone[t], fresh[t],
         HasOK(Heard(t)) \/ Names(Heard(t), command[t])
  PROVE  /\ Heard(t) = got[t] /\ got[t] \in Seq(Token)
         /\ AnswerText(command[t], own[t], accepted[t], got[t])
         /\ accepted[t] /\ own[t] # 0
<1>1. t \in Clients
  BY ManagerAssumption
<1>2. /\ got[t] \in Seq(Token) /\ own[t] # 0
      /\ AnswerText(command[t], own[t], accepted[t], got[t])
  BY <1>1 DEF ManagerInv, ChannelInv, TypeOK, CommandKnown, FreshInv, FreshAt, OwnText
<1>3. Heard(t) = got[t]
  <2>1. SUFFICES ASSUME Heard(t) = <<>> PROVE FALSE
    BY DEF Heard
  <2>2. QED
    BY <2>1 DEF HasOK, Names
<1>4. PICK i \in 1..Len(got[t]) : got[t][i].text \in {"name", "OK"}
  BY <1>3 DEF HasOK, Names, Is
<1>5. accepted[t]
  BY <1>2, <1>4, Zenon DEF AnswerText
<1>6. QED
  BY <1>2, <1>3, <1>5

LEMMA ManagerReply ==
  ASSUME ManagerInv, NEW t \in Threads, Reply(t)
  PROVE  ManagerInv'
<1> DEFINE k == command[t]
           s == Heard(t)
<1>1. /\ pc[t] = "returned" /\ Return(t) /\ UNCHANGED <<job, step>>
      /\ clean' = [clean EXCEPT ![t] = clean[t] /\ alone[t] /\ fresh[t]]
      /\ served' = [served EXCEPT ![t] = accepted[t]]
  BY DEF Reply
<1>2. PICK o \in JobStates :
        /\ outcome' = [outcome EXCEPT ![t] = o]
        /\ o = "true" => ~Refused(s, k) /\ step[t] = Len(Script(t))
  BY DEF Reply, JobStates
<1>3. IF k = "CSQ" /\ Measured(s) THEN EmitSignal(t, s) ELSE UNCHANGED emitted
  BY DEF Reply
<1>4. ChannelInv'
  BY <1>1, ManagerAssumption, ChannelNext DEF ManagerInv, AnyNext
<1>5. t \in Clients /\ accepted[t] \in BOOLEAN /\ alone[t] \in BOOLEAN /\ fresh[t] \in BOOLEAN
  BY ManagerAssumption DEF ManagerInv, ChannelInv, TypeOK
<1>6. JobInv'
  BY <1>1, <1>2, <1>5 DEF ManagerInv, JobInv
<1>7. \A d \in Threads : Script(d)' = Script(d) /\ Busy(d)' = Busy(d)
  BY <1>1 DEF Script, Busy, CheckCommands
<1>8. /\ pc'[t] = "idle"
      /\ \A d \in Threads \ {t} : /\ pc'[d] = pc[d] /\ command'[d] = command[d]
                                  /\ outcome'[d] = outcome[d] /\ clean'[d] = clean[d]
                                  /\ served'[d] = served[d]
  BY <1>1, <1>2, ManagerAssumption DEF Return, Goto, ManagerInv, ChannelInv, TypeOK, JobInv
<1>9. CommandInv'
  BY <1>1, <1>7, <1>8 DEF ManagerInv, CommandInv
<1>10. SuccessInv'
  <2> SUFFICES ASSUME NEW d \in Threads,
                      job'[d] \in {"connect", "disconnect", "sendMessage"},
                      Script(d)' # <<>>, outcome'[d] = "true", clean'[d]
               PROVE  served'[d]
    BY DEF SuccessInv
  <2>1. CASE d # t
    BY <1>1, <1>7, <1>8, <2>1 DEF ManagerInv, SuccessInv
  <2>2. CASE d = t
    <3>1. /\ outcome'[t] = o /\ clean'[t] = (clean[t] /\ alone[t] /\ fresh[t])
          /\ served'[t] = accepted[t]
      BY <1>1, <1>2 DEF ManagerInv, JobInv
    <3>2. ~Refused(s, k) /\ k = Script(t)[Len(Script(t))] /\ alone[t] /\ fresh[t]
      BY <1>1, <1>2, <2>2, <3>1 DEF ManagerInv, CommandInv
    <3>3. k \in {"DIAL", "HANGUP", "PDU"}
      BY <1>1, <1>7, <2>2, <3>2, ScriptType
    <3>4. HasOK(s) \/ Names(s, k)
      BY <3>2, <3>3 DEF Refused
    <3>5. accepted[t]
      BY <1>1, <3>2, <3>4, HeardIsOwn
    <3>6. QED
      BY <2>2, <3>1, <3>5
  <2>3. QED
    BY <2>1, <2>2
<1>11. EmittedIsMeasured'
  <2>1. CASE UNCHANGED emitted
    BY <2>1 DEF ManagerInv, EmittedIsMeasured
  <2>2. CASE k = "CSQ" /\ Measured(s) /\ EmitSignal(t, s)
    <3>1. PICK n \in NumberOf(s, "CSQ") :
            emitted' = [level |-> n, clean |-> alone[t] /\ fresh[t], said |-> Said(t)]
      BY <2>2 DEF EmitSignal
    <3>2. SUFFICES ASSUME alone[t], fresh[t] PROVE n \in Said(t)
      BY <3>1 DEF EmittedIsMeasured
    <3>3. HasOK(s)
      BY <2>2 DEF Measured
    <3>4. /\ s = got[t] /\ got[t] \in Seq(Token) /\ own[t] # 0
          /\ AnswerText("CSQ", own[t], accepted[t], got[t])
      BY <1>1, <2>2, <3>2, <3>3, HeardIsOwn
    <3>5. \E j \in 1..Len(got[t]) : /\ got[t][j].id = own[t] /\ got[t][j].text = "value"
                                    /\ n = IF got[t][j].good THEN 1 ELSE 0
      BY <3>1, <3>3, <3>4, NumberIsTheAnswers
    <3>6. QED
      BY <3>5 DEF Said
  <2>3. QED
    BY <1>3, <2>1, <2>2
<1>12. QED
  BY <1>4, <1>6, <1>9, <1>10, <1>11 DEF ManagerInv

LEMMA ManagerStep == ManagerInv /\ [ManagerNext]_vars => ManagerInv'
<1> SUFFICES ASSUME ManagerInv, [ManagerNext]_vars PROVE ManagerInv'
  OBVIOUS
<1>1. CASE Channel
  BY <1>1, ManagerChannel
<1>2. CASE \/ Construct \/ Checked \/ ConfigConnected \/ MainThrows
           \/ \E m \in Methods : Call(m)
           \/ RefuseMessage \/ EndMethod \/ TimerFires \/ EndTimer
  BY <1>2, ManagerJobs
<1>3. ASSUME NEW t \in Threads, Issue(t) \/ QmiAnswers(t) \/ Reply(t)
      PROVE  ManagerInv'
  BY <1>3, ManagerIssue, ManagerQmi, ManagerReply
<1>4. CASE UNCHANGED vars
  BY <1>4, JobsKept DEF vars, managerVars, jobVars, ghostVars
<1>5. QED
  BY <1>1, <1>2, <1>3, <1>4 DEF ManagerNext, Manager

LEMMA ManagerAlways == ManagerSpec => []ManagerInv
BY ManagerFirst, ManagerStep, PTL DEF ManagerSpec

(* connect, disconnect and sendMessage report a success only if the modem did what  *)
(* was asked, when no other thread's command and no text said before came between:   *)
(* for both backends, any methods, faults, delays and sizes of the buffers.          *)
THEOREM SuccessesAreReal == ManagerSpec => []SuccessIsReal
<1>1. ManagerInv => SuccessIsReal
  BY DEF ManagerInv, SuccessInv, SuccessIsReal, Threads
<1>2. QED
  BY <1>1, ManagerAlways, PTL

(* Under the same condition the level of SignalStrengthChanged is the one the modem  *)
(* gave in answer to that very query, and never the stack's.                         *)
THEOREM EmissionsAreMeasured == ManagerSpec => []EmittedIsMeasured
<1>1. ManagerInv => EmittedIsMeasured
  BY DEF ManagerInv
<1>2. QED
  BY <1>1, ManagerAlways, PTL

(* Every step of the manager is one of the channel, or leaves it as it is.           *)
LEMMA ManagerUsesChannel ==
  ASSUME ManagerInv, [ManagerNext]_vars
  PROVE  [AnyNext]_channelVars
<1>1. CASE Channel
  BY <1>1, ManagerAssumption DEF Channel, AnyNext
<1>2. CASE \/ Construct \/ Checked \/ ConfigConnected \/ MainThrows
           \/ \E m \in Methods : Call(m)
           \/ RefuseMessage \/ EndMethod \/ TimerFires \/ EndTimer
  BY <1>2 DEF Construct, Checked, ConfigConnected, MainThrows, Call, RefuseMessage,
     EndMethod, TimerFires, EndTimer
<1>3. ASSUME NEW t \in Threads, Issue(t)
      PROVE  AnyNext
  <2>1. /\ Begin(t, Script(t)[step[t] + 1]) /\ step[t] \in Nat
        /\ step[t] + 1 \in 1..Len(Script(t))
    BY <1>3, ScriptType DEF Issue, ManagerInv, JobInv
  <2>2. QED
    BY <2>1, ScriptType, ManagerAssumption DEF AnyNext
<1>4. ASSUME NEW t \in Threads, QmiAnswers(t) \/ Reply(t)
      PROVE  [AnyNext]_channelVars
  BY <1>4, ManagerAssumption DEF QmiAnswers, Reply, AnyNext
<1>5. CASE UNCHANGED vars
  BY <1>5 DEF vars
<1>6. QED
  BY <1>1, <1>2, <1>3, <1>4, <1>5 DEF ManagerNext, Manager

(* What holds of the port holds when the main thread, D-Bus and the timer share it:  *)
(* a command that no other overlaps does not hang in ::read, and until two commands   *)
(* overlap for the first time text is handed out as a stream, in order and once.      *)
THEOREM SharedPortIsSound ==
  ManagerSpec => [](TypeOK /\ AloneNeverHangs) /\ TurnsAreAStream
<1>1. ManagerInv => TypeOK /\ AloneNeverHangs
  BY DEF ManagerInv, ChannelInv, LoneInv, AloneNeverHangs, Active
<1>2. ManagerInv /\ ManagerInv' /\ [ManagerNext]_vars
        => [raced' \/ Stream!Next]_<<Unread, Taken>>
  <2> SUFFICES ASSUME ManagerInv, ManagerInv', [ManagerNext]_vars, ~raced'
               PROVE  [Stream!Next]_<<Unread, Taken>>
    OBVIOUS
  <2>1. QED
    BY ManagerUsesChannel, StreamNext DEF ManagerInv
<1>3. QED
  BY <1>1, <1>2, ManagerAlways, PTL DEF ManagerSpec, TurnsAreAStream

===============================================================================
