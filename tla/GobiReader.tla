------------------------------ MODULE GobiReader ------------------------------
(* The thread that reads the modem (src/MobileServer/src/GobiNetThread.cpp) and    *)
(* the pool threads it starts.  run() opens one client per service, announces the  *)
(* modem, then polls the clients and hands each message to QmiThreadRecvQMI and    *)
(* its event to a thread of Poco's default pool (notifyAsync).  The handler of     *)
(* CONNECTED runs getconfiguration(), that of DISCONNECTED ends the process.        *)
(* What becomes of a message is the subject of QmiTransaction; this module is      *)
(* about which messages are read at all, in which order, and until when.           *)
EXTENDS Naturals, Sequences, FiniteSets, SequencesExt

CONSTANTS
  Services,     \* the services run() opens, in the order of qmiclientId
  PoolSize,     \* threads of the default pool that are free at the start (16)
  MaxMessages,  \* bound: messages the modem sends
  MaxHangUps    \* bound: descriptors that are hung up

ASSUME ReaderAssumption ==
  PoolSize \in Nat /\ PoolSize >= 2 /\ MaxMessages \in Nat /\ MaxHangUps \in Nat

Clients == ToSet(Services)
Stdin == "stdin"       \* pollfds[0] is never set: descriptor 0, asked for no event
Descriptors == <<Stdin>> \o Services

(* The requests of getconfiguration(), in order: those before the SIM status, which   *)
(* may be asked for again, and those after it.                                       *)
Configuration == <<"Version and Ethernet mode", "SimStatus",
                   "Profile and registration">>

VARIABLES
  rpc,          \* where run() is
  toServe,      \* what run() has still to go through: clients, or polled descriptors
  pollin,       \* the descriptors poll() returned with POLLIN
  pollerr,      \* and those with POLLERR, POLLHUP or POLLNVAL
  client,       \* qmiclientId: > 0 is "open", -1 is "failed", 0 is "none"
  running,      \* set by stop(): TRUE ends the loop
  main,         \* the owner of the thread: up, joining, closed
  inbox,        \* per client: messages the driver holds
  hung,         \* descriptors that are hung up
  sent,         \* messages the modem has sent
  handlers,     \* pool threads that handle the event of a message
  config,       \* the request getconfiguration() is at: 0 before CONNECTED is posted,
                \* past the last one when isReady is set
  again,        \* flips when the SIM status is "unsupported" and asked for again
  disconnected  \* DISCONNECTED: none, posted, or exited

loopVars  == <<rpc, toServe, pollin, pollerr>>
ownerVars == <<running, main>>
modemVars == <<hung, sent>>
poolVars  == <<handlers, config, again, disconnected>>
readerVars == <<loopVars, client, ownerVars, inbox, modemVars, poolVars>>

ReaderInit ==
  /\ rpc = "unstarted"
  /\ toServe = <<>> /\ pollin = {} /\ pollerr = {}
  /\ client = [s \in Clients |-> "none"]
  /\ running = FALSE /\ main = "up"
  /\ inbox = [s \in Clients |-> 0] /\ hung = {} /\ sent = 0
  /\ handlers = 0 /\ config = 0 /\ again = FALSE /\ disconnected = "none"

Alive == disconnected # "exited"
Configuring == config \in 1..Len(Configuration)
Busy == handlers + (IF Configuring THEN 1 ELSE 0)
                 + (IF disconnected = "posted" THEN 1 ELSE 0)

-------------------------------------------------------------------------------
(* run().                                                                          *)

Start ==
  /\ rpc = "unstarted"
  /\ rpc' = "opening"
  /\ toServe' = Services
  /\ UNCHANGED <<pollin, pollerr, client, ownerVars, inbox, modemVars, poolVars>>

(* GobiNetGetClientID: open() fails (-1), the driver refuses the service (0), or     *)
(* the client is open.                                                              *)
OpenService(result) ==
  /\ rpc = "opening" /\ toServe # <<>>
  /\ client' = [client EXCEPT ![Head(toServe)] = result]
  /\ toServe' = Tail(toServe)
  /\ UNCHANGED <<rpc, pollin, pollerr, ownerVars, inbox, modemVars, poolVars>>

(* Without a WDS client the others are closed and DISCONNECTED is posted.  A client  *)
(* of -1 passes the test.                                                           *)
GoOnWithoutWds == UNCHANGED <<client, disconnected>>
TestWds ==
  IF client[Head(Services)] = "none"
  THEN client' = [s \in Clients |-> "none"] /\ disconnected' = "posted"
  ELSE UNCHANGED <<client, disconnected>>

Opened ==
  /\ rpc = "opening" /\ toServe = <<>>
  /\ TestWds
  /\ rpc' = "announcing"
  /\ UNCHANGED <<toServe, pollin, pollerr, ownerVars, inbox, modemVars, handlers,
                 config, again>>

(* CONNECTED is posted in any case.                                                 *)
Announce ==
  /\ rpc = "announcing"
  /\ config' = 1
  /\ rpc' = "polling"
  /\ UNCHANGED <<toServe, pollin, pollerr, client, ownerVars, inbox, modemVars,
                 handlers, again, disconnected>>

(* while (!running), after the announcement and after each round.                   *)
Loop ==
  /\ \/ rpc = "polling"
     \/ rpc = "serving" /\ toServe = <<>>
  /\ rpc' = IF running THEN "stopped" ELSE "waiting"
  /\ pollin' = {} /\ pollerr' = {}
  /\ UNCHANGED <<toServe, client, ownerVars, inbox, modemVars, poolVars>>

OpenClients == {s \in Clients : client[s] = "open"}
Polled(d) == d \in OpenClients \cup {Stdin}
Readable  == {s \in OpenClients : inbox[s] > 0}
HungUp    == {d \in hung : Polled(d)}

PollReturns ==
  /\ rpc = "waiting"
  /\ Readable \cup HungUp # {}
  /\ rpc' = "serving"
  /\ toServe' = SelectSeq(Descriptors, Polled)
  /\ pollin' = Readable
  /\ pollerr' = HungUp
  /\ UNCHANGED <<client, ownerVars, inbox, modemVars, poolVars>>

(* poll(pollfds, nevents, 1000), and the form it has in a comment, with -1.  A round  *)
(* without events does nothing but test running.                                     *)
WaitForEver == FALSE
Timeout == Readable \cup HungUp = {}

PollTimesOut ==
  /\ rpc = "waiting"
  /\ Timeout
  /\ running
  /\ rpc' = "stopped"
  /\ UNCHANGED <<toServe, pollin, pollerr, client, ownerVars, inbox, modemVars,
                 poolVars>>

(* break: what is left of the round is not looked at.                               *)
Break == toServe' = <<>>
SkipAll == toServe' = <<>>
Skip == toServe' = Tail(toServe)

Pass(d) ==
  /\ \/ d \in pollerr /\ Break
     \/ d \notin pollerr /\ d \notin pollin /\ Skip
  /\ UNCHANGED <<rpc, inbox, handlers>>

(* One read() of the client, QmiThreadRecvQMI, and sendNotify of its event, whatever *)
(* it is: notifyAsync throws if the pool has no thread for it, and run() ends.       *)
ReadMessage(d) ==
  /\ d \notin pollerr /\ d \in pollin
  /\ \/ /\ inbox[d] = 0
        /\ Break
        /\ UNCHANGED <<rpc, inbox, handlers>>
     \/ /\ inbox[d] > 0
        /\ inbox' = [inbox EXCEPT ![d] = @ - 1]
        /\ \/ /\ Busy < PoolSize
              /\ handlers' = handlers + 1
              /\ toServe' = Tail(toServe)
              /\ UNCHANGED rpc
           \/ /\ Busy = PoolSize
              /\ rpc' = "dead"
              /\ toServe' = <<>>
              /\ UNCHANGED handlers

Serve ==
  /\ rpc = "serving" /\ toServe # <<>>
  /\ Pass(Head(toServe)) \/ ReadMessage(Head(toServe))
  /\ UNCHANGED <<pollin, pollerr, client, ownerVars, modemVars, config, again,
                 disconnected>>

Run == Opened \/ Announce \/ Loop \/ PollReturns \/ PollTimesOut \/ Serve

-------------------------------------------------------------------------------
(* recvNotify, on the threads of the pool.                                          *)

(* Its requests were answered or timed out.                                         *)
EndHandler ==
  /\ handlers > 0
  /\ handlers' = handlers - 1
  /\ UNCHANGED <<loopVars, client, ownerVars, inbox, modemVars, config, again,
                 disconnected>>

(* getconfiguration() goes on when its request was answered or timed out, but asks   *)
(* for the SIM status again as long as the modem does not support it yet.            *)
NextRequest == config' = config + 1 /\ UNCHANGED again
AskAgain ==
  /\ Configuration[config] = "SimStatus"
  /\ again' = ~again
  /\ UNCHANGED config

Configure ==
  /\ Configuring
  /\ NextRequest \/ AskAgain
  /\ UNCHANGED <<loopVars, client, ownerVars, inbox, modemVars, handlers,
                 disconnected>>

(* exit(-1).                                                                        *)
ExitProcess ==
  /\ disconnected = "posted"
  /\ disconnected' = "exited"
  /\ UNCHANGED <<loopVars, client, ownerVars, inbox, modemVars, handlers, config,
                 again>>

Pool == EndHandler \/ Configure \/ ExitProcess

-------------------------------------------------------------------------------
(* ~Quectel_mobile: stop() joins the thread if it runs, then GobiNetDeInit.          *)
Stop ==
  /\ main = "up" /\ rpc # "unstarted"
  /\ running' = TRUE
  /\ main' = "joining"
  /\ UNCHANGED <<loopVars, client, inbox, modemVars, poolVars>>

DeInit ==
  /\ main = "joining" /\ rpc \in {"stopped", "dead"}
  /\ main' = "closed"
  /\ client' = [s \in Clients |-> "none"]
  /\ UNCHANGED <<loopVars, running, inbox, modemVars, poolVars>>

(* External: the modem sends, and a descriptor is hung up, its messages kept or lost. *)
Send(s) ==
  /\ client[s] = "open" /\ s \notin hung /\ sent < MaxMessages
  /\ sent' = sent + 1
  /\ inbox' = [inbox EXCEPT ![s] = @ + 1]
  /\ UNCHANGED <<loopVars, client, ownerVars, hung, poolVars>>

HangUp(d) ==
  /\ Polled(d) /\ d \notin hung /\ Cardinality(hung) < MaxHangUps
  /\ hung' = hung \cup {d}
  /\ \/ UNCHANGED inbox
     \/ d # Stdin /\ inbox' = [inbox EXCEPT ![d] = 0]
  /\ UNCHANGED <<loopVars, client, ownerVars, sent, poolVars>>

Modem == (\E s \in Clients : Send(s)) \/ (\E d \in ToSet(Descriptors) : HangUp(d))

-------------------------------------------------------------------------------
(* Properties.                                                                      *)

Over == ~Alive \/ running \/ rpc \in {"stopped", "dead"}

(* A client's messages do not wait for ever: the round serves every client, whatever  *)
(* the others do, unless the client, or a descriptor that is polled before it, is      *)
(* hung up (the round ends there each time), or the thread is over.                    *)
Position(d) == CHOOSE i \in 1..Len(Descriptors) : Descriptors[i] = d
Starved(s) == \E d \in hung : Position(d) <= Position(s)
MessagesAreRead == \A s \in Clients : []<>(inbox[s] = 0 \/ Starved(s) \/ Over)

(* The destructor of the backend does not hang in the join of stop(), also when the    *)
(* modem is silent, hung up, or the thread was just opening its clients.               *)
StopEnds == main = "joining" ~> (main = "closed" \/ ~Alive)

(* Once the clients are opened the start-up ends in a modem that is ready or in the end  *)
(* of the process, answers or not, unless the SIM status is asked for again and again: a  *)
(* driver that refuses the WDS client is not taken for a modem, although CONNECTED is     *)
(* posted after DISCONNECTED and its handler runs beside it.                              *)
Started ==
  /\ config > Len(Configuration)
  /\ client[Head(Services)] # "none" \/ main = "closed"
StartupEnds ==
  \/ []<><<again' # again>>_readerVars
  \/ (rpc = "opening" /\ toServe = <<>>) ~> (Started \/ ~Alive)

===============================================================================
