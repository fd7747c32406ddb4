------------------------------ MODULE QmiDevice -------------------------------
(* Finding the modem and freeing its channel (src/MobileServer/src/               *)
(* Gobifunction.c): checkQmidevice() calls qmidevice_detect, which walks sysfs    *)
(* for a Quectel or Qualcomm device and falls back on the names in /dev, and       *)
(* kill_brothers, which walks /proc and ends every other process that has the      *)
(* channel open.  Both walk directories that change under them: devices come and   *)
(* go, processes start, exit, open and close the channel.                          *)
EXTENDS Naturals

CONSTANTS
  Ports,      \* entries of /sys/bus/usb/devices
  Devices,    \* what may sit in a port, a subset of Device
  Pids,       \* entries of /proc
  Self,       \* the pid of this process
  KillTries,  \* SIGTERMs before SIGKILL (15 in the code)
  MaxPlugs,   \* bound: devices plugged or unplugged during the scan
  MaxChanges, \* bound: steps of the other processes
  None

(* External: a node of /dev with its number, the network interfaces that share     *)
(* the number, and a device as sysfs shows it.  modem: its vendor is 05c6 or 2c7c;   *)
(* at4: net/ and the directory of the node (GobiQMI, usbmisc or usb) are those of    *)
(* interface 1.4.                                                                    *)
Nodes == {"qcqmi2", "cdc-wdm0"}
Nets  == {"usb2", "eth2", "wwan0"}
Device == [modem : BOOLEAN, at4 : BOOLEAN, net : Nets \cup {None},
           node : Nodes \cup {None}]

ASSUME DeviceAssumption ==
  /\ Devices \subseteq Device
  /\ Self \in Pids
  /\ KillTries \in Nat /\ MaxPlugs \in Nat /\ MaxChanges \in Nat
  /\ None \notin Nodes \cup Nets \cup {"gone"} \cup Pids \cup Ports

VARIABLES
  step,     \* where checkQmidevice is
  port,     \* the device in each port
  toRead,   \* entries of the directory being walked that are still to come
  entry,    \* the port or the process being looked at
  netcard,  \* the net interface read for this entry
  channel,  \* *pp_qmichannel
  adapter,  \* *pp_usbnet_adapter
  holds,    \* per process: the node it has open, None, or "gone"
  tries,    \* kill_timeout
  plugs, changes,
  (* history, read by the properties only *)
  steady,   \* ports that have not changed since the scan began
  foundAt,  \* the port whose entries became channel and adapter
  seen,     \* processes that were seen holding the channel, and still run
  wronged,  \* processes that were signalled though they were never seen holding it
  reused,   \* a pid was taken by a new process while it was being signalled
  early     \* processes that have held the channel since kill_brothers began

usbVars  == <<port, plugs, steady>>
foundVars == <<netcard, channel, adapter, foundAt>>
procVars == <<holds, changes, seen, wronged, reused, early>>
deviceVars == <<step, usbVars, toRead, entry, foundVars, procVars, tries>>

DeviceInit ==
  /\ step = "bus"
  /\ port \in [Ports -> Devices \cup {None}]
  /\ toRead = Ports
  /\ entry = None
  /\ netcard = None /\ channel = None /\ adapter = None
  /\ holds \in [Pids -> Nodes \cup {None}] /\ holds[Self] = None
  /\ tries = 0 /\ plugs = 0 /\ changes = 0
  /\ steady = Ports /\ foundAt = None
  /\ seen = {} /\ wronged = {} /\ reused = FALSE /\ early = {}

-------------------------------------------------------------------------------
(* qmidevice_detect, the walk over the USB bus.                                    *)

Sits(p) == port[p] # None

(* continue: the next entry of the directory; netcard is a variable of the loop    *)
(* body and starts empty again.                                                    *)
NextEntry(s) ==
  /\ step' = s
  /\ toRead' = toRead \ {entry}
  /\ entry' = None
  /\ netcard' = None
  /\ UNCHANGED <<channel, adapter, foundAt>>

(* idVendor of an entry: a foreign or vanished device is skipped.                   *)
StopAtForeign(p) ==
  IF Sits(p) /\ port[p].modem THEN step' = "net" /\ entry' = p /\ UNCHANGED toRead
  ELSE toRead' = {} /\ UNCHANGED <<step, entry>>
ReadVendor(p) ==
  IF Sits(p) /\ port[p].modem THEN step' = "net" /\ entry' = p /\ UNCHANGED toRead
  ELSE toRead' = toRead \ {p} /\ UNCHANGED <<step, entry>>

BusEntry ==
  /\ step = "bus"
  /\ \E p \in toRead : ReadVendor(p)
  /\ UNCHANGED <<usbVars, foundVars, procVars, tries>>

(* The first interface in <entry>:1.4/net, if the caller asked for no other.        *)
HasNet == Sits(entry) /\ port[entry].at4 /\ port[entry].net # None
Wanted(net) == adapter = None \/ adapter = net

ReadNet ==
  /\ step = "net"
  /\ IF HasNet /\ Wanted(port[entry].net)
     THEN /\ step' = "node"
          /\ netcard' = port[entry].net
          /\ UNCHANGED <<toRead, entry, channel, adapter, foundAt>>
     ELSE NextEntry("bus")
  /\ UNCHANGED <<usbVars, procVars, tries>>

(* The first node in <entry>:1.4/GobiQMI, or usbmisc, or usb.                        *)
HasNode == Sits(entry) /\ port[entry].at4 /\ port[entry].node # None

TakePairOfAnyPort ==
  /\ step' = "access"
  /\ \E p \in Ports : Sits(p) /\ port[p].node # None /\ channel' = port[p].node
  /\ adapter' = netcard
  /\ foundAt' = entry
  /\ UNCHANGED <<netcard, entry, toRead>>
TakePair ==
  /\ step' = "access"
  /\ channel' = port[entry].node
  /\ adapter' = netcard
  /\ foundAt' = entry
  /\ UNCHANGED <<netcard, entry, toRead>>

ReadNode ==
  /\ step = "node"
  /\ IF HasNode THEN TakePair ELSE NextEntry("bus")
  /\ UNCHANGED <<usbVars, procVars, tries>>

(* The fallback: a node cdc-wdm<n> goes with wwan<n>, a node qcqmi<n> with usb<n>     *)
(* or, if there is none, with eth<n>; whose device they are is not looked at.         *)
InDev(n)  == \E p \in Ports : Sits(p) /\ port[p].node = n
InNet(i)  == \E p \in Ports : Sits(p) /\ port[p].net = i
NetOf(n)  == IF n = "cdc-wdm0" THEN "wwan0"
             ELSE IF InNet("usb2") THEN "usb2" ELSE "eth2"

OpenDev ==
  /\ step = "bus" /\ toRead = {}
  /\ step' = "dev"
  /\ toRead' = Nodes
  /\ UNCHANGED <<usbVars, entry, foundVars, procVars, tries>>

DevEntry ==
  /\ step = "dev"
  /\ \E n \in toRead :
       IF InDev(n) /\ InNet(NetOf(n)) /\ Wanted(NetOf(n))
       THEN /\ channel' = n
            /\ adapter' = NetOf(n)
            /\ step' = "access"
            /\ UNCHANGED toRead
       ELSE /\ toRead' = toRead \ {n}
            /\ UNCHANGED <<channel, adapter, step>>
  /\ UNCHANGED <<usbVars, entry, netcard, foundAt, procVars, tries>>

NotFound ==
  /\ step = "dev" /\ toRead = {}
  /\ step' = "done"
  /\ UNCHANGED <<usbVars, toRead, entry, foundVars, procVars, tries>>

(* access(channel, R_OK | W_OK); then kill_brothers opens /proc.                      *)
CheckAccess ==
  /\ step = "access"
  /\ entry' = None
  /\ \/ /\ InDev(channel)
        /\ step' = "proc"
        /\ toRead' = Pids
        /\ early' = {p \in Pids : holds[p] = channel}
     \/ /\ step' = "done"                      \* no permission, or it is gone
        /\ UNCHANGED <<toRead, early>>
  /\ netcard' = None
  /\ UNCHANGED <<usbVars, channel, adapter, foundAt, holds, changes, seen, wronged,
                 reused, tries>>

-------------------------------------------------------------------------------
(* kill_brothers and is_brother_process.                                              *)

IsRunning(p) == holds[p] # "gone"
IsAnyOther(p) == p # Self /\ IsRunning(p)
IsBrother(p) == p # Self /\ holds[p] = channel

ProcEntry ==
  /\ step = "proc"
  /\ \E p \in toRead :
       IF IsBrother(p)
       THEN /\ entry' = p
            /\ tries' = KillTries
            /\ step' = "term"
            /\ UNCHANGED toRead
            /\ seen' = IF holds[p] = channel THEN seen \cup {p} ELSE seen
       ELSE toRead' = toRead \ {p} /\ UNCHANGED <<entry, tries, step, seen>>
  /\ UNCHANGED <<usbVars, foundVars, holds, changes, wronged, reused, early>>

(* A process is gone: nothing that was noted of it stands.                            *)
Gone(p) ==
  /\ holds' = [holds EXCEPT ![p] = "gone"]
  /\ seen' = seen \ {p}
  /\ early' = early \ {p}

Wrong(p) == wronged' = IF p \in seen THEN wronged ELSE wronged \cup {p}

(* kill(pid, SIGTERM) and a second of sleep: the process ends or does not care.        *)
Terminate ==
  /\ step = "term" /\ tries > 0 /\ IsRunning(entry)
  /\ tries' = tries - 1
  /\ Wrong(entry)
  /\ Gone(entry) \/ UNCHANGED <<holds, seen, early>>
  /\ UNCHANGED <<step, usbVars, toRead, entry, foundVars, changes, reused>>

(* SIGKILL for what still runs, then the next entry of /proc.                          *)
GiveUp == UNCHANGED <<holds, seen, early, wronged>>
Kill ==
  IF IsRunning(entry) THEN Gone(entry) /\ Wrong(entry)
  ELSE UNCHANGED <<holds, seen, early, wronged>>

KillAndNext ==
  /\ step = "term" /\ (tries = 0 \/ ~IsRunning(entry))
  /\ Kill
  /\ step' = "proc"
  /\ toRead' = toRead \ {entry}
  /\ entry' = None
  /\ tries' = 0
  /\ UNCHANGED <<usbVars, foundVars, changes, reused>>

BrothersDone ==
  /\ step = "proc" /\ toRead = {}
  /\ step' = "done"
  /\ UNCHANGED <<usbVars, toRead, entry, foundVars, procVars, tries>>

Detect ==
  \/ BusEntry \/ ReadNet \/ ReadNode
  \/ OpenDev \/ DevEntry \/ NotFound
  \/ CheckAccess
  \/ ProcEntry \/ Terminate \/ KillAndNext \/ BrothersDone

-------------------------------------------------------------------------------
(* External: the bus and the other processes.                                          *)

Plug(p) ==
  /\ plugs < MaxPlugs
  /\ plugs' = plugs + 1
  /\ port' \in {[port EXCEPT ![p] = d] : d \in (Devices \cup {None}) \ {port[p]}}
  /\ steady' = steady \ {p}
  /\ UNCHANGED <<step, toRead, entry, foundVars, procVars, tries>>

ProcessChange ==
  /\ changes < MaxChanges
  /\ changes' = changes + 1

EndProcess(p) ==
  /\ ProcessChange
  /\ IsAnyOther(p)
  /\ Gone(p)
  /\ UNCHANGED <<step, usbVars, toRead, entry, foundVars, tries, wronged, reused>>

StartProcess(p) ==
  /\ ProcessChange
  /\ ~IsRunning(p)
  /\ holds' = [holds EXCEPT ![p] = None]
  /\ reused' = (reused \/ p = entry)
  /\ UNCHANGED <<step, usbVars, toRead, entry, foundVars, tries, seen, wronged,
                 early>>

OpenOrClose(p) ==
  /\ ProcessChange
  /\ IsAnyOther(p)
  /\ \E n \in Nodes \cup {None} :
       /\ n # holds[p]
       /\ holds' = [holds EXCEPT ![p] = n]
  /\ early' = early \ {p}
  /\ UNCHANGED <<step, usbVars, toRead, entry, foundVars, tries, seen, wronged,
                 reused>>

Surroundings ==
  \/ \E p \in Ports : Plug(p)
  \/ \E p \in Pids : EndProcess(p) \/ StartProcess(p) \/ OpenOrClose(p)

-------------------------------------------------------------------------------
(* Properties.                                                                         *)

(* The channel and the network interface found on the bus are those of one device,      *)
(* if nothing was plugged at its port while it was read: two of a kind are not mixed     *)
(* up, and the first walk does not pair by name.                                         *)
PairIsOneDevice ==
  foundAt \in steady =>
    channel = port[foundAt].node /\ adapter = port[foundAt].net

(* A complete modem that was there during the whole walk is not missed, whatever else     *)
(* is or was on the bus.                                                                  *)
CompleteModemIsFound ==
  step = "dev" =>
    \A p \in steady :
      ~ /\ port[p] # None
        /\ port[p].modem /\ port[p].at4
        /\ port[p].net # None /\ port[p].node # None

(* Signals go only to processes that were seen with the channel open, and never to this   *)
(* process, unless a pid was taken over between two signals: kill(pid, 0) cannot tell.     *)
OnlyHoldersSignalled == ~reused => wronged = {} /\ holds[Self] # "gone"

===============================================================================
