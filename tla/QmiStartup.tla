------------------------------ MODULE QmiStartup ------------------------------
(* The constructor of Quectel_mobile (src/MobileServer/src/Quectel_mobile.cpp): it  *)
(* looks for the modem and frees its channel (QmiDevice), then starts the reader    *)
(* (GobiReader), whatever came of the first.  The reader opens /dev/qcqmi2, not the *)
(* channel that was found.                                                          *)
EXTENDS QmiDevice, GobiReader

vars == <<deviceVars, readerVars>>

Init == DeviceInit /\ ReaderInit

Qcqmi == "qcqmi2"

(* checkQmidevice().  The processes are followed until it returns.                   *)
CheckQmidevice ==
  /\ step # "done"
  /\ Detect \/ Surroundings
  /\ UNCHANGED readerVars

(* startGobithread(): what checkQmidevice() returned is not looked at.  The profile    *)
(* keeps the channel and the adapter; what the scan has seen is gone.                 *)
Forget ==
  /\ tries' = 0 /\ plugs' = 0 /\ changes' = 0
  /\ holds' = [p \in Pids |-> None]
  /\ steady' = {} /\ foundAt' = None
  /\ seen' = {} /\ wronged' = {} /\ reused' = FALSE

StartAnyTime == TRUE
Constructed == step = "done"

StartGobithread ==
  /\ Constructed
  /\ Start
  /\ Forget
  /\ UNCHANGED <<step, port, toRead, entry, netcard, channel, adapter, early>>

(* The open() of GobiNetGetClientID fails without the node.                           *)
OpenClient ==
  /\ \E result \in (IF InDev(Qcqmi) THEN {"open", "none"} ELSE {"failed"}) :
       OpenService(result)
  /\ UNCHANGED deviceVars

RunReader == Alive /\ Run /\ UNCHANGED deviceVars
RunPool   == Alive /\ Pool /\ UNCHANGED deviceVars
StopReader == Alive /\ Stop /\ UNCHANGED deviceVars
JoinReader == Alive /\ DeInit /\ UNCHANGED deviceVars
RunModem  == Alive /\ Modem /\ UNCHANGED deviceVars

Next ==
  \/ CheckQmidevice \/ StartGobithread \/ OpenClient
  \/ RunReader \/ RunPool \/ StopReader \/ JoinReader \/ RunModem

Spec == Init /\ [][Next]_vars

(* The threads run, and their timed waits end.  Nothing is assumed of the modem, of    *)
(* the other processes or of the shutdown.                                             *)
Fairness ==
  /\ WF_vars(OpenClient)
  /\ WF_vars(RunReader)
  /\ WF_vars(Alive /\ EndHandler /\ UNCHANGED deviceVars)
  /\ WF_vars(Alive /\ Configure /\ UNCHANGED deviceVars)
  /\ WF_vars(Alive /\ ExitProcess /\ UNCHANGED deviceVars)
  /\ WF_vars(JoinReader)

FairSpec == Spec /\ Fairness

(* A process that had the modem's channel open when the constructor looked for such     *)
(* processes, and never closed it, is gone before this process opens a client on that    *)
(* channel.                                                                              *)
ClientsAfterBrothers ==
  (\E s \in Clients : client[s] = "open") /\ channel = Qcqmi => early = {}

===============================================================================
