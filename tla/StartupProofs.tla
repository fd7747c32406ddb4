----------------------------- MODULE StartupProofs -----------------------------
(* Theorems about QmiStartup: what the two walks of the detection may rely on, for  *)
(* any number of ports and processes, however often devices and processes change,   *)
(* and however many signals a process survives.                                     *)
EXTENDS QmiStartup, TLAPS

Walking == step \in {"bus", "net", "node"}
Hunting == step \in {"proc", "term"}

Complete(p) ==
  /\ port[p] # None
  /\ port[p].modem /\ port[p].at4
  /\ port[p].net # None /\ port[p].node # None

(* The walk over the bus: a complete modem that stays is still to come, and what     *)
(* netcard holds at "node" is of the entry that is looked at.                        *)
WalkInv ==
  /\ port \in [Ports -> Devices \cup {None}]
  /\ steady \subseteq Ports
  /\ Walking => toRead \subseteq Ports /\ adapter = None
  /\ step = "dev" => toRead \subseteq Nodes
  /\ step \in {"net", "node"} => entry \in Ports
  /\ Walking \/ step = "dev" => foundAt = None
  /\ step = "node" /\ entry \in steady => netcard = port[entry].net
  /\ Walking => \A p \in steady : Complete(p) => p \in toRead
  /\ step = "access" \/ Hunting => channel \in Nodes
  /\ PairIsOneDevice
  /\ CompleteModemIsFound

(* The walk over the processes: one that has held the channel all along is still to   *)
(* come, and the one that is being signalled was seen holding it.                     *)
HuntInv ==
  /\ holds \in [Pids -> Nodes \cup {None, "gone"}]
  /\ holds[Self] = None
  /\ Hunting => toRead \subseteq Pids
  /\ step = "term" => entry \in toRead /\ entry # Self
  /\ step = "term" /\ ~reused /\ IsRunning(entry) => entry \in seen
  /\ ~reused => wronged = {}
  /\ early # {} => Hunting
  /\ early \subseteq toRead
  /\ \A p \in early : holds[p] = channel

(* The reader opens its clients after the walks.                                      *)
ReaderInv ==
  /\ rpc # "unstarted" => step = "done"
  /\ rpc = "unstarted" => \A s \in Clients : client[s] # "open"

-------------------------------------------------------------------------------
LEMMA StartupInit == Init => WalkInv /\ HuntInv /\ ReaderInv
<1> SUFFICES ASSUME Init
             PROVE  WalkInv /\ HuntInv /\ ReaderInv
  OBVIOUS
<1> USE DeviceAssumption DEF Init, DeviceInit
<1>1. WalkInv
  BY DEF WalkInv, Walking, Hunting, Complete, PairIsOneDevice, CompleteModemIsFound
<1>2. HuntInv
  BY DEF HuntInv, Hunting, IsRunning
<1>3. ReaderInv
  BY DEF ReaderInv, ReaderInit
<1>4. QED
  BY <1>1, <1>2, <1>3

-------------------------------------------------------------------------------
(* The walk over the bus.                                                             *)

LEMMA WalkBus ==
  ASSUME WalkInv, BusEntry
  PROVE  WalkInv'
<1> USE DEF WalkInv, Walking, Hunting, Complete, PairIsOneDevice, CompleteModemIsFound,
            BusEntry, usbVars, foundVars
<1>1. PICK p \in toRead : ReadVendor(p)
  OBVIOUS
<1>2. CASE Sits(p) /\ port[p].modem
  BY <1>1, <1>2 DEF ReadVendor
<1>3. CASE ~(Sits(p) /\ port[p].modem)
  BY <1>1, <1>3 DEF ReadVendor, Sits
<1>4. QED
  BY <1>2, <1>3

(* An entry is left only if it is no complete modem: no interface was asked for.       *)
LEMMA WalkNet ==
  ASSUME WalkInv, ReadNet
  PROVE  WalkInv'
<1> USE DEF WalkInv, Walking, Hunting, Complete, PairIsOneDevice, CompleteModemIsFound,
            ReadNet, usbVars
<1>1. CASE HasNet
  BY <1>1 DEF Wanted
<1>2. CASE ~HasNet
  BY <1>2 DEF HasNet, Sits, NextEntry
<1>3. QED
  BY <1>1, <1>2

LEMMA WalkNode ==
  ASSUME WalkInv, ReadNode
  PROVE  WalkInv'
<1> USE DEF WalkInv, Walking, Hunting, Complete, PairIsOneDevice, CompleteModemIsFound,
            ReadNode, usbVars
<1>1. CASE HasNode
  <2>1. port[entry].node \in Nodes
    BY <1>1, DeviceAssumption DEF HasNode, Sits, Device
  <2>2. QED
    BY <1>1, <2>1 DEF TakePair
<1>2. CASE ~HasNode
  BY <1>2 DEF HasNode, Sits, NextEntry
<1>3. QED
  BY <1>1, <1>2

(* The walk over /dev pairs by name, but notes no port.                                *)
LEMMA WalkDev ==
  ASSUME WalkInv, OpenDev \/ DevEntry \/ NotFound
  PROVE  WalkInv'
<1> USE DEF WalkInv, Walking, Hunting, Complete, PairIsOneDevice, CompleteModemIsFound,
            usbVars, foundVars
<1>1. CASE OpenDev
  BY <1>1 DEF OpenDev
<1>2. CASE DevEntry
  <2>1. None \notin steady
    BY DeviceAssumption
  <2>2. /\ foundAt = None /\ foundAt' = None /\ step = "dev"
        /\ UNCHANGED <<port, steady, entry, netcard>>
    BY <1>2 DEF DevEntry
  <2>3. PICK n \in toRead :
          \/ channel' = n /\ step' = "access"
          \/ toRead' = toRead \ {n} /\ UNCHANGED <<channel, adapter, step>>
    BY <1>2 DEF DevEntry
  <2>4. QED
    BY <2>1, <2>2, <2>3
<1>3. CASE NotFound
  BY <1>3 DEF NotFound
<1>4. QED
  BY <1>1, <1>2, <1>3

(* What follows the walk leaves its result alone.                                      *)
LEMMA WalkOver ==
  ASSUME WalkInv,
         CheckAccess \/ ProcEntry \/ Terminate \/ KillAndNext \/ BrothersDone
  PROVE  WalkInv'
<1> USE DEF WalkInv, Walking, Hunting, Complete, PairIsOneDevice, CompleteModemIsFound,
            usbVars, foundVars
<1>1. CASE CheckAccess
  BY <1>1 DEF CheckAccess
<1>2. CASE ProcEntry
  BY <1>2 DEF ProcEntry
<1>3. CASE Terminate
  BY <1>3 DEF Terminate
<1>4. CASE KillAndNext
  BY <1>4 DEF KillAndNext
<1>5. CASE BrothersDone
  BY <1>5 DEF BrothersDone
<1>6. QED
  BY <1>1, <1>2, <1>3, <1>4, <1>5

(* A device that comes or goes is not steady any more.                                 *)
LEMMA WalkPlug ==
  ASSUME WalkInv, NEW p \in Ports, Plug(p)
  PROVE  WalkInv'
<1>1. /\ port' \in [Ports -> Devices \cup {None}]
      /\ \A q \in Ports : q # p => port'[q] = port[q]
  BY DEF WalkInv, Plug
<1>2. /\ steady' = steady \ {p}
      /\ UNCHANGED <<step, toRead, entry, foundVars>>
  BY DEF Plug
<1>3. QED
  BY <1>1, <1>2 DEF WalkInv, Walking, Hunting, Complete, PairIsOneDevice,
     CompleteModemIsFound, foundVars

LEMMA WalkStutter ==
  ASSUME WalkInv, UNCHANGED <<step, usbVars, toRead, entry, foundVars>>
  PROVE  WalkInv'
  BY DEF WalkInv, Walking, Hunting, Complete, PairIsOneDevice, CompleteModemIsFound,
     usbVars, foundVars

-------------------------------------------------------------------------------
(* The walk over the processes.                                                       *)

(* It begins with every process still to come.                                        *)
LEMMA HuntBegins ==
  ASSUME HuntInv, CheckAccess
  PROVE  HuntInv'
  BY DEF HuntInv, Hunting, IsRunning, CheckAccess

(* A process that is passed over does not hold the channel.                           *)
LEMMA HuntEntry ==
  ASSUME HuntInv, WalkInv, ProcEntry
  PROVE  HuntInv'
<1>1. PICK p \in toRead :
        IF IsBrother(p)
        THEN /\ entry' = p
             /\ step' = "term"
             /\ UNCHANGED toRead
             /\ seen' = IF holds[p] = channel THEN seen \cup {p} ELSE seen
        ELSE toRead' = toRead \ {p} /\ UNCHANGED <<entry, step, seen>>
  BY DEF ProcEntry
<1>2. /\ step = "proc" /\ channel \in Nodes /\ channel # None
      /\ UNCHANGED <<channel, holds, wronged, reused, early>>
  BY DeviceAssumption DEF ProcEntry, foundVars, WalkInv, Hunting
<1>3. CASE IsBrother(p)
  BY <1>1, <1>2, <1>3 DEF HuntInv, Hunting, IsRunning, IsBrother
<1>4. CASE ~IsBrother(p)
  BY <1>1, <1>2, <1>4 DEF HuntInv, Hunting, IsRunning, IsBrother
<1>5. QED
  BY <1>3, <1>4

LEMMA HuntTerminate ==
  ASSUME HuntInv, Terminate
  PROVE  HuntInv'
<1>1. /\ step = "term" /\ IsRunning(entry) /\ Wrong(entry)
      /\ UNCHANGED <<step, toRead, entry, channel, reused>>
  BY DEF Terminate, foundVars
<1>2. ~reused => wronged' = {}
  BY <1>1 DEF HuntInv, Wrong
<1>3. CASE Gone(entry)
  BY <1>1, <1>2, <1>3 DEF HuntInv, Hunting, IsRunning, Gone
<1>4. CASE UNCHANGED <<holds, seen, early>>
  BY <1>1, <1>2, <1>4 DEF HuntInv, Hunting, IsRunning
<1>5. QED
  BY <1>3, <1>4 DEF Terminate

(* The process that is left behind does not run, so it holds nothing.                 *)
LEMMA HuntKill ==
  ASSUME HuntInv, WalkInv, KillAndNext
  PROVE  HuntInv'
<1>1. /\ step = "term" /\ step' = "proc" /\ Kill
      /\ toRead' = toRead \ {entry}
      /\ UNCHANGED <<channel, reused>>
  BY DEF KillAndNext, foundVars
<1>2. channel # "gone"
  BY <1>1 DEF WalkInv, Hunting, Nodes
<1>3. CASE IsRunning(entry)
  <2>1. Gone(entry) /\ Wrong(entry)
    BY <1>1, <1>3 DEF Kill
  <2>2. ~reused => wronged' = {}
    BY <1>1, <1>3, <2>1 DEF HuntInv, Wrong
  <2>3. QED
    BY <1>1, <2>1, <2>2 DEF HuntInv, Hunting, Gone
<1>4. CASE ~IsRunning(entry)
  <2>1. UNCHANGED <<holds, seen, early, wronged>>
    BY <1>1, <1>4 DEF Kill
  <2>2. entry \notin early
    BY <1>2, <1>4 DEF HuntInv, IsRunning
  <2>3. QED
    BY <1>1, <2>1, <2>2 DEF HuntInv, Hunting
<1>5. QED
  BY <1>3, <1>4

LEMMA HuntEnds ==
  ASSUME HuntInv, BrothersDone
  PROVE  HuntInv'
  BY DEF HuntInv, Hunting, IsRunning, BrothersDone, foundVars, procVars

(* The detection before the walk.                                                     *)
LEMMA HuntWaits ==
  ASSUME HuntInv,
         BusEntry \/ ReadNet \/ ReadNode \/ OpenDev \/ DevEntry \/ NotFound
  PROVE  HuntInv'
<1>1. ~Hunting /\ ~Hunting' /\ UNCHANGED procVars
  <2>1. CASE BusEntry
    BY <2>1 DEF BusEntry, ReadVendor, Hunting
  <2>2. CASE ReadNet
    BY <2>2 DEF ReadNet, NextEntry, Hunting
  <2>3. CASE ReadNode
    BY <2>3 DEF ReadNode, NextEntry, TakePair, Hunting
  <2>4. CASE OpenDev
    BY <2>4 DEF OpenDev, Hunting
  <2>5. CASE DevEntry
    BY <2>5 DEF DevEntry, Hunting
  <2>6. CASE NotFound
    BY <2>6 DEF NotFound, Hunting
  <2>7. QED
    BY <2>1, <2>2, <2>3, <2>4, <2>5, <2>6
<1>2. QED
  BY <1>1 DEF HuntInv, Hunting, procVars

(* A process that ends, or takes up or closes a channel, is not an early holder any    *)
(* more; one that takes over the pid being signalled is noted.                         *)
LEMMA HuntChanges ==
  ASSUME HuntInv, WalkInv, Surroundings
  PROVE  HuntInv'
<1> USE DEF HuntInv, Hunting, foundVars
<1>1. ASSUME NEW p \in Ports, Plug(p)
      PROVE  HuntInv'
  BY <1>1 DEF Plug, procVars, IsRunning
<1>2. ASSUME NEW p \in Pids, EndProcess(p)
      PROVE  HuntInv'
  BY <1>2 DEF EndProcess, IsAnyOther, IsRunning, Gone
<1>3. ASSUME NEW p \in Pids, StartProcess(p)
      PROVE  HuntInv'
  <2>1. p \notin early
    BY <1>3 DEF WalkInv, Nodes, StartProcess, IsRunning
  <2>2. /\ holds' = [holds EXCEPT ![p] = None]
        /\ reused' = (reused \/ p = entry)
        /\ p # Self \/ holds'[p] = None
        /\ UNCHANGED <<step, toRead, entry, channel, seen, wronged, early>>
    BY <1>3 DEF StartProcess
  <2>3. ~reused' => wronged' = {}
    BY <2>2
  <2>4. step' = "term" /\ ~reused' /\ IsRunning(entry)' => entry' \in seen'
    BY <2>2 DEF IsRunning
  <2>5. \A q \in early' : holds'[q] = channel'
    BY <2>1, <2>2
  <2>6. holds' \in [Pids -> Nodes \cup {None, "gone"}] /\ holds'[Self] = None
    BY <2>2
  <2>7. QED
    BY <2>2, <2>3, <2>4, <2>5, <2>6
<1>4. ASSUME NEW p \in Pids, OpenOrClose(p)
      PROVE  HuntInv'
  BY <1>4 DEF OpenOrClose, IsAnyOther, IsRunning
<1>5. QED
  BY <1>1, <1>2, <1>3, <1>4 DEF Surroundings

LEMMA HuntStutter ==
  ASSUME HuntInv, UNCHANGED <<step, toRead, entry, channel, procVars>>
  PROVE  HuntInv'
  BY DEF HuntInv, Hunting, IsRunning, procVars

-------------------------------------------------------------------------------
(* The reader.                                                                        *)

(* The clients are opened and closed by a reader that was started.                    *)
LEMMA ReaderSteps ==
  ASSUME ReaderInv,
         OpenClient \/ RunReader \/ RunPool \/ StopReader \/ JoinReader \/ RunModem
  PROVE  ReaderInv' /\ UNCHANGED deviceVars
<1>1. UNCHANGED deviceVars
  BY DEF OpenClient, RunReader, RunPool, StopReader, JoinReader, RunModem
<1>2. (rpc # "unstarted" /\ rpc' # "unstarted") \/ UNCHANGED <<rpc, client>>
  <2>1. CASE OpenClient
    BY <2>1 DEF OpenClient, OpenService
  <2>2. CASE RunReader
    BY <2>2 DEF RunReader, Run, Opened, Announce, Loop, PollReturns, PollTimesOut, Serve,
       Pass, ReadMessage
  <2>3. CASE RunPool
    BY <2>3 DEF RunPool, Pool, EndHandler, Configure, ExitProcess, loopVars
  <2>4. CASE StopReader
    BY <2>4 DEF StopReader, Stop, loopVars
  <2>5. CASE JoinReader
    BY <2>5 DEF JoinReader, DeInit, loopVars
  <2>6. CASE RunModem
    BY <2>6 DEF RunModem, Modem, Send, HangUp, loopVars
  <2>7. QED
    BY <2>1, <2>2, <2>3, <2>4, <2>5, <2>6
<1>3. QED
  BY <1>1, <1>2 DEF ReaderInv, deviceVars

-------------------------------------------------------------------------------
LEMMA StartupNext ==
  WalkInv /\ HuntInv /\ ReaderInv /\ [Next]_vars => WalkInv' /\ HuntInv' /\ ReaderInv'
<1> SUFFICES ASSUME WalkInv, HuntInv, ReaderInv, [Next]_vars
             PROVE  WalkInv' /\ HuntInv' /\ ReaderInv'
  OBVIOUS
<1>1. CASE CheckQmidevice
  <2>1. ReaderInv'
    BY <1>1 DEF CheckQmidevice, ReaderInv, readerVars, loopVars
  <2>2. CASE Detect
    <3>1. WalkInv'
      BY <2>2, WalkBus, WalkNet, WalkNode, WalkDev, WalkOver DEF Detect
    <3>2. HuntInv'
      BY <2>2, HuntBegins, HuntEntry, HuntTerminate, HuntKill, HuntEnds, HuntWaits
         DEF Detect
    <3>3. QED
      BY <2>1, <3>1, <3>2
  <2>3. CASE Surroundings
    <3>1. ASSUME NEW p \in Ports, Plug(p)
          PROVE  WalkInv'
      BY <3>1, WalkPlug
    <3>2. ASSUME NEW p \in Pids, EndProcess(p) \/ StartProcess(p) \/ OpenOrClose(p)
          PROVE  WalkInv'
      BY <3>2, WalkStutter DEF EndProcess, StartProcess, OpenOrClose
    <3>3. WalkInv'
      BY <2>3, <3>1, <3>2 DEF Surroundings
    <3>4. QED
      BY <2>1, <2>3, <3>3, HuntChanges
  <2>4. QED
    BY <1>1, <2>2, <2>3 DEF CheckQmidevice
<1>2. CASE StartGobithread
  <2>1. /\ step = "done" /\ step' = "done" /\ early' = {}
        /\ UNCHANGED <<port, toRead, entry, channel, client>>
    BY <1>2 DEF StartGobithread, Constructed, Start, HuntInv, Hunting
  <2>2. /\ holds' = [p \in Pids |-> None] /\ steady' = {} /\ wronged' = {}
    BY <1>2 DEF StartGobithread, Forget
  <2>3. WalkInv'
    BY <2>1, <2>2 DEF WalkInv, Walking, Hunting, PairIsOneDevice, CompleteModemIsFound
  <2>4. HuntInv'
    BY <2>1, <2>2, DeviceAssumption DEF HuntInv, Hunting
  <2>5. ReaderInv'
    BY <1>2, <2>1 DEF ReaderInv, StartGobithread, Start
  <2>6. QED
    BY <2>3, <2>4, <2>5
<1>3. CASE OpenClient \/ RunReader \/ RunPool \/ StopReader \/ JoinReader \/ RunModem
  <2>1. ReaderInv' /\ UNCHANGED deviceVars
    BY <1>3, ReaderSteps
  <2>2. WalkInv'
    BY <2>1, WalkStutter DEF deviceVars
  <2>3. HuntInv'
    BY <2>1, HuntStutter DEF deviceVars, foundVars
  <2>4. QED
    BY <2>1, <2>2, <2>3
<1>4. CASE UNCHANGED vars
  <2>1. UNCHANGED deviceVars /\ UNCHANGED <<rpc, client>>
    BY <1>4 DEF vars, readerVars, loopVars
  <2>2. ReaderInv'
    BY <2>1 DEF ReaderInv, deviceVars
  <2>3. WalkInv'
    BY <2>1, WalkStutter DEF deviceVars
  <2>4. HuntInv'
    BY <2>1, HuntStutter DEF deviceVars, foundVars
  <2>5. QED
    BY <2>2, <2>3, <2>4
<1>5. QED
  BY <1>1, <1>2, <1>3, <1>4 DEF Next

(* The channel and the interface found on the bus are of one device, in a bus of any    *)
(* size whose other ports change all the time.                                          *)
THEOREM PairsAreOneDevice == Spec => []PairIsOneDevice
<1>1. WalkInv => PairIsOneDevice
  BY DEF WalkInv
<1>2. QED
  BY <1>1, StartupInit, StartupNext, PTL DEF Spec

(* The walk over the bus does not end without a complete modem that was there all along. *)
THEOREM ModemsAreFound == Spec => []CompleteModemIsFound
<1>1. WalkInv => CompleteModemIsFound
  BY DEF WalkInv
<1>2. QED
  BY <1>1, StartupInit, StartupNext, PTL DEF Spec

(* kill_brothers signals only processes it saw with the channel open, and not itself,    *)
(* as long as no pid is taken over between two signals.                                  *)
THEOREM HoldersAreSignalled == Spec => []OnlyHoldersSignalled
<1>1. HuntInv => OnlyHoldersSignalled
  BY DeviceAssumption DEF HuntInv, OnlyHoldersSignalled
<1>2. QED
  BY <1>1, StartupInit, StartupNext, PTL DEF Spec

(* A process that held the channel since kill_brothers began is gone before the reader    *)
(* opens a client on it.                                                                 *)
THEOREM BrothersGoFirst == Spec => []ClientsAfterBrothers
<1>1. HuntInv /\ ReaderInv => ClientsAfterBrothers
  BY DEF HuntInv, Hunting, ReaderInv, ClientsAfterBrothers
<1>2. QED
  BY <1>1, StartupInit, StartupNext, PTL DEF Spec

===============================================================================
