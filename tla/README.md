# Verification of MobileServer

MobileServer (`src/MobileServer`) is a Linux daemon that runs a 4G modem and
offers it on D-Bus: connect, disconnect, send a text message, report SIM, network
and address.  It drives a Quectel modem through QMI messages on `/dev/qcqmi2` and
a Sim7600 modem through AT commands on a serial line.  This directory holds TLA+
models of it, the TLC runs that check them and theorems checked by TLAPS.

## The system

| component | code | state | operations | talks to |
|---|---|---|---|---|
| Device detection | `Gobifunction.c`, `Quectel_mobile.cpp`:25-40 | the channel and the adapter of the profile | walk over the USB bus, walk over `/dev`, ending other users of the channel | sysfs, `/proc`, other processes |
| QMI transaction layer | `QMIThread.c`:49-96, 465-630, `util.c`:35-50 | the slot `s_pRequest`, `s_pResponse`, `s_commandmutex`, `s_commandcond`, the id counter, `qmiclientId` | compose, send and wait, receive, abort | modem (write), reader thread (calls `QmiThreadRecvQMI`) |
| QMI messages | `QMIThread.c`:98-463, `MPQMI.h`, `MPQMUX.h` | none | one composer per request, `GetTLV`, the decoding of answers | QMI requests |
| QMI requests | `QMIThread.c`:632-2362 | `WdsConnectionIPv4Handle`, `s_is_cdma`, `s_hdr_personality`, `s_9x07`, the addresses of the profile | one function per request, each a call of the transaction layer | transaction layer |
| QMI reader thread | `GobiNetThread.cpp` | client descriptors, `running` | open clients, poll and read, post events, stop | modem (read), transaction layer, notification pool |
| Quectel backend | `Quectel_mobile.cpp` | `connectFlag`, `IPv4ConnectionStatus`, `isReady`, `SIMStatus`, `PSAttachedState`, `pDataCapStr` | `connect`, `disconnect`, `recvNotify`, `checkNetRegsterStatus`, `getMobileInfo` | QMI requests, reader thread (events) |
| Serial port | `SerialPort.cpp`, `SerialPort_POSIX.cpp` | the descriptor, the settings of the tty, the receive buffer | open, close, poll, read, write, RTS | the tty |
| AT channel | `AtCommand.cpp` | none but the port's | write, wait, read; text messages; signal strength | serial port |
| Sim7600 backend | `Sim7600_mobile.cpp` | SIM, mode and attach state | the same interface as the Quectel backend | AT channel |
| D-Bus manager | `mobileManager.cpp`, `mobileService.cpp` | `signalFlag`, `mobilePtr`, `command`, the timer | `initDevice`, four D-Bus methods, the 10 s signal timer | both backends, AT channel, Ethernet proxy |

Threads: main (start-up, including the first `connect()`), the D-Bus dispatcher,
the timer, the QMI reader, and one pool thread per event (`notifyAsync`).  The D-Bus
object is registered before `initDevice` runs, so all of them may meet.

What is hard: there is one request slot for all threads and nothing makes them take
turns; a condition variable is signalled for whoever waits; responses may be late,
lost or have the number of an indication; the data call's flag, status and handle are shared
without a lock between the user's operations and the workers that reconnect; both
backends' state survives partial failures; the bus and the processes change while
they are walked; the reader must read and must end, whatever its descriptors, its
pool and its handlers do; offsets in messages are added up by hand.  `PROJECT.json`
lists the hazards at their lines.

What makes each part correct:

- *Device detection*: the node and the interface are of one device, no modem is
  missed, and only processes that hold the channel are signalled.
- *Transaction layer*: a call returns its own response once, or fails; it returns; no
  wakeup is lost; an indication never answers a request; a late response is no event.
- *QMI messages*: a request is read as it was written; an answer means the same
  whichever way it was asked for.
- *Reader*: messages are read, and start-up and shutdown end.
- *Data call*: the process reconnects what its user wants up and nothing else, forgets
  no drop, and knows the handle of the call it has to end.
- *Registration*: the shared fields say what the last response said; a message to the
  modem speaks of one radio; "registered" rests on answers, not on memory contents.
- *Serial port*: an opened port has the settings asked for, whatever was left behind.
- *AT channel*: text is a queue; a command's reply is its own; a command returns; a
  text message arrives as it was written.
- *Manager*: an operation reports success only if the modem did it; the timer stays
  off the channel while a method uses it.

## Modules

Order: the layer everything depends on first, then what is built on it, then the parts
around it.

| module | models | composes |
|---|---|---|
| `QmiCall` | abstract: requests issued in turn, each answered at most once or failed, and ended | |
| `QmiTransaction` | the transaction layer and the receiving half of the reader | implements `QmiCall` (one sender) |
| `DataCall` | `connect`, `disconnect`, `recvNotify` with their three WDS requests | a request's outcomes are those of `QmiTransaction` |
| `Registration` | `getconfiguration`, the registration refresh, `checkNetRegsterStatus`, the START_NETWORK message | as `DataCall` |
| `LineStream` | abstract: text as a queue | |
| `AtChannel` | `ATcommand` over `SerialPort` | implements `LineStream` (one thread) |
| `MobileManager` | `initDevice`, the D-Bus methods, the timer, the Sim7600 backend | EXTENDS `AtChannel` |
| `QmiDevice` | detection and `kill_brothers` | |
| `GobiReader` | the reader thread, its pool, its shutdown | |
| `QmiStartup` | the constructor of the Quectel backend | EXTENDS `QmiDevice`, `GobiReader` |
| `QmiMessage` | the composers of requests, `GetTLV` | |
| `QmiAnswers` | what profiles, SIM states, home networks and addresses are taken for | EXTENDS `QmiMessage` |
| `SmsText` | the PDU of a text message | |
| `PortSettings` | opening, setting and closing the port | |
| `Sequential` | the cases of the last four | `QmiAnswers`, `SmsText`, `PortSettings` |
| `...Proofs` | theorems | extend their module and TLAPS |
| other `MC...` | the instances for TLC | |

### QmiTransaction

State: `s_pRequest`, `s_pResponse`, `TransactionId` and `qmiclientId` keep their names;
`pc` is each sender's place in `QmiThreadSendQMITimeout`; the wait set of
`s_commandcond` is `Waiters`; `pending` holds what the modem may still answer, in any
order and at any time, or never.  A critical section of `s_commandmutex` is one
action (`Send`, `Wake`, `ReturnTimeout`, `ReadResponse`, `ReadIndication`,
`AbortRequest`).  The counter is incremented outside the mutex, so its load and its
store are two actions and two senders may draw the same id.  A signal and the
waiter's return are two actions: another sender may enter in between.  `TimerFires`
takes the waiter out of the wait set before it gets the mutex back, so that an answer may
come in between.  Data are abstracted to what `is_response` compares (service, id)
and what `requestid` classifies (message number).  `id` names the buffer of a request.

`Faults` switches failed and short writes, failed `malloc`s and spurious wakeups on.

A call that times out or whose write fails leaves its request in the slot, so that its response,
when it comes, still passes `is_response` and is absorbed.  Only a request that another `Send` has pushed
out of the slot (`replaced`) has a response that nobody matches; if it has the number of an
indication it is posted as an event (`OnlyReplacedAreEvents`).

### DataCall

State: `IPv4ConnectionStatus`, `WdsConnectionIPv4Handle`, `connectFlag` as in the code;
`modem` is the call as the modem has it.  Each request is two steps, the modem's and
the caller's, and the query's stores ("DISCONNECTED" first, then the answer, then the
test for the handle) are steps of their own since no lock covers them.  A request
may be refused, get no response, or return 0 without a response ("phantom": that
`QmiThreadSendQMI` can do so is shown by `QmiTransaction`); a setup or stop whose response is lost
may have been executed.  An event is consumed by one worker of the pool.

A query may fail to call a call that is up CONNECTED.  "unclear" stands for a response without a status and for
one that wants the call reconfigured: DISCONNECTED is stored after both, and the handle forgotten.
"suspended" is any other status.  `denied` remembers that this happened to the present call: `HandleIsKnown` and
`DisconnectEndsCall` except that call, which the code can no longer end, and hold again for the next one.

### Registration

State: the shared `PSAttachedState`, `SIMStatus`, `isReady`, `pDataCapStr`, `s_is_cdma`
and `s_9x07`, and per thread the locals of `requestRegistrationState2` that live across
its TLVs.  A response is processed one TLV per step, so that other threads see every
intermediate value.  Abstractions:

- A response may hold any number of TLVs in any order.
- The radios are the three the code tells apart: CDMA (with HDR), LTE, other.
- A domain TLV stores 0 and then 1; the two stores are one step.
- MCC, MNC and `s_hdr_personality` reach the log only and are left out.
- SIM states are "READY" or "other".  The loop for an "unsupported" answer is a stutter
  here and a step of `GobiReader`.
- `PSAttachedState` and `SIMStatus` have no initialiser: `Init` leaves both open.
- `getconfiguration` runs once, so `s_9x07` is true (-1) until it has been set and BOOLEAN
  afterwards.

### AtChannel

Text is a sequence of tokens, the pieces that the code searches for (name of a reply,
its value, `OK`, `ERROR`, the prompt).  `id` says which command a token answers.
The 64 bytes of a read are `ReadSize` tokens; the two callers with bigger buffers read
twice as many.  Nothing locks `_cur` and `_end`, so threads interleave between any two accesses to them: the
test of `available()`, the reset, the load and the store of `_end += n`, the test of `read`, the length it takes, the copy,
the load and the store of `_cur += n` are steps of their own, as they are in
the object file kept beside the sources (`obj/Linux/armv7l/release_shared/SerialPort.o`).  Two loads of
one comparison or difference are one step, and so are the two stores of a reset.  `loaded` and `count` are a thread's
locals: the cursor it has loaded, and the n it adds or copies.  `Available` is unsigned as in the code: once `_cur` has passed
`_end` it is larger than the buffer, and what is copied from behind the buffer is no text (`Junk`).
The model has `write`'s quirk that a failed `::write` is a success,
reads blocked with no timeout, unsolicited text, exceptions and a hangup.

`fresh` is what the clean replies need of the past: `Quiet`, that the cursors are equal and only prompts are on
the line.  `raced` says that two commands were once under way together: from then on the cursors may be
anywhere, and nothing about the stream is promised.

### MobileManager

Each thread has a `job` (what it runs), whose `Script` is the AT commands the code
issues, in order; `step` counts them.  `Reply` is the code between two commands: it
tests the text, stores the fields, and ends the job on refusal or on an exception.  A
value that `sscanf` did not set is any value.  With the Quectel backend the network
operations are QMI requests and return a member of `QmiResults`; `sendMessage` and the timer use the AT
channel there too.  `EarlyCalls` lets methods in during the start-up.  An exception in a
D-Bus method leaves `signalFlag` down; one in `main` ends the process, and so does a configuration
file that cannot be read (`initConfigFile` catches only the errors of its JSON).  Calls before
`initDevice` has set its pointers would be undefined behaviour and are not modelled.

### QmiDevice, GobiReader and QmiStartup

`QmiDevice` walks the entries of a directory in any order (`toRead` holds those still to
come), one read of sysfs or `/proc` per step, while `Surroundings` plugs devices and
starts, ends and changes processes.  A device is what sysfs shows of it: whether the
vendor fits, whether its network interface and its node hang on interface 1.4, and
their names.  The device number that joins a node to its interface is abstracted to
their sharing a device.  A pid is taken over by a new process when one starts while
the old one is being signalled.

`GobiReader` keeps the order of the descriptors: `pollfds[0]` is never set and is
descriptor 0, so a hang-up of stdin ends each round like one of a client does.  A
round (`toServe`) serves what `poll` returned; a message takes a thread of the pool
or, without one, ends the reader by an exception.  `Configure` is `getconfiguration()`
on its own pool thread, one request per step, with the SIM status asked for again.
What a message does in the slot is `QmiTransaction`'s subject; both modules map
`QmiThreadRecvQMI`'s caller, one for the data, one for the order.

`QmiStartup` composes them as the constructor does: the result of the detection is
not looked at, and the reader opens `/dev/qcqmi2`, not the channel that was found.
`Forget` drops the walk's history when the reader starts, which only makes the state
space smaller: no later step reads it.

### QmiMessage, QmiAnswers, SmsText, PortSettings

The first three are operators.  In `QmiMessage` a message is its fields with their
offsets and the length its composer returns; a text is its length, "not given" is -1;
the walk of `GetTLV` follows lengths, and sees `Astray` where no field begins.
`QmiAnswers` computes what a request stores from what was stored and from how the exchange
ended.  `SmsText` exchanges digits in pairs with a filler and computes the three length
fields; characters are code points.  `PortSettings` is a state machine: the settings of
a tty outlive the descriptor, others may change them while it is closed, an `open()` that
fails half-way keeps its descriptor, and a constructor that throws leaves no object.

`Sequential` puts them together: the variable `case` holds the inputs of one computation, or
"none", and then the port runs.  The profiles, lengths of PINs, telephone numbers and messages
are constants, within the sizes of the code's buffers, which the code does not check: texts
of up to 60 characters (`MaxText`; a request is composed in 256 bytes, three texts among them), numbers of up to 14
digits (`MaxDigits`; they are exchanged in 16 bytes) and messages of up to 50 characters
(`MaxPoints`; the PDU is put together in 256 bytes) of the basic plane.  `MCSequential` gives
the constants their values for TLC; the theorems hold for all values in these limits.

## Runs

| run | instance | question |
|---|---|---|
| `qmi_two_senders` | 2 senders, 3 requests, ids 1..3, no faults | what does a call keep when no other call overlaps it; which responses become events? |
| `qmi_faults` | 2 senders, 2 requests, one id (so it wraps), all faults, colliding indications, fairness | the same when everything fails; does every call return? |
| `qmi_alone` | 1 sender, 3 requests, all faults | does a lone thread have the abstract call? |
| `data_call` | 1 user, 1 worker, 2 handles, 1 waiting event and those the operations add, refused, lost and phantom requests, queries that deny a call, fairness | does reconnecting follow the user's wish and the modem's state; does the damage of a denied call end with that call? |
| `registration` | 2 workers, 1 caller | are the fields, the message and the status what the responses said? |
| `registration_detached` | 1 worker, 1 caller | violation: "detached" counts as attached |
| `startup` | 2 ports, a modem and a foreign device, 2 processes, 1 plug, 1 change; 2 clients, a pool of 2, 2 messages, 1 hang-up, fairness | what is found, who is ended, what is read; do start and stop end? |
| `sequential` | the cases below; 5 kinds of open, 2 settings left behind, 6 calls | do messages, answers, texts and settings mean what they should? |
| `at_one_thread` | 1 thread, 2 commands, late, unsolicited and missing text, hangup, fairness | is the port a stream, does a command return? |
| `two_threads` | 2 threads, 2 commands, no faults | violation: `available()` is larger than the buffer |
| `manager_quectel` | start-up, `connect`, `sendMessage`, timer, exceptions, hangup | what survives the race for the port? |
| `manager_sim7600` | start-up, 3 methods, timer, 5 commands, a silent modem | does success mean that it was done? |

Why the bounds are enough.  Two senders and two requests reach every race of the slot
(overwritten request, stolen signal, reset answer); the third request lets a late
answer of the first meet the slot of the third.  An id range of one makes ids repeat
at once, as after 65535 requests; the range of three lets the properties that need
fresh ids say so (`MaxRequests <= MaxTid`).  One user and one worker reach every pair of
statements of `DataCall`; an event that waits when an operation begins, and the ones its requests post, outlive it.  Two workers
make two refreshes overlap.  Of the five commands of `manager_sim7600` a check that succeeds uses four, so that
one is left for the timer or a method; `sendMessage`, which needs four, runs whole after a check that was refused early.
`BufferSize` of 9 tokens never fills, as 4096 bytes do not; the
4 of the manager runs does, which adds behaviours where a reply is split.

In `startup`, two ports let one entry's leftovers meet the next, one plug is a device
that appears, vanishes or is exchanged at any point of the walk, and one SIGTERM before
SIGKILL reaches both ways of ending.  The smallest pool that the thread of CONNECTED and
a message share is 2, and the second message finds it exhausted.  WDS is first and NAS second:
a hang-up is before, at or after a client.

The cases of `sequential`: texts that are not given, empty, of one and of 60 characters
in every place; PINs of 0, 4 and 8 digits; every pair of PIN states; all 1000 country and 100
network codes; every subset of six TLVs for an address, for both families and every outcome; numbers of
1 to 14 digits, odd and even, with zeros, messages of up to 50 characters.

Deadlock is checked except where the program may stop: `at_one_thread` and `two_threads` (the bound on
commands, an idle line), the two manager runs (the same bound; a process that
exited; a thread that hangs in `::read` for good, which the sources do not exclude),
`startup` (a process that ended) and `sequential` (a case has no steps).

Symmetry is used for threads in runs that check no liveness.

Fairness.  A thread that can run runs and the mutex is granted; a timed wait, a `poll` and a
`select` time out; a posted event is taken by a worker (strong, since the worker may be
busy in between).  In `startup` the opening of the clients, the reader, the handlers
and the join are weakly fair: each is one thread that nothing else can stop, and its
requests are answered or time out.  Nothing is assumed of the modem, the users, the
network, other processes or the shutdown, so `CallsReturn`, `CommandsReturn`,
`DroppedCallComesBack`, `MessagesAreRead`, `StopEnds` and `StartupEnds` hold for a modem that is silent.

### What the runs show

Most properties are promised to an operation that no other overlapped.  This is not
caution: without `~overlapped` (or `alone`, `fresh`, `quiet`) TLC refutes them.

- QMI: a second sender steals the slot, and a call gets no answer or another's answer.
- Two threads may both enter `::read`, and one of them hangs until the modem speaks.  They may also copy
  the same text and both advance `_cur`, which then passes `_end` (`two_threads`).
- The prompt of `AT+CMGS` is not read before the text is sent; `sendMessage` may report
  failure for a message that was sent, and the next command reads its `OK`.
- One query of the timer may run into a D-Bus method; during the start-up, two.
- One refused reconnect ends the reconnecting.
- A query that does not call a live call CONNECTED loses its handle: `disconnect()` later
  reports success while the call stays up.
- A response whose request a second sender has pushed out of the slot is posted as an event; one that
  is merely late is not.
- `disconnect()` of a call that is down arms the reconnecting (`Wished` states what the code does).
- A refresh that overlaps a START_NETWORK makes it mix CDMA and 3GPP parameters.
- Start-up: the first walk pairs node and interface of one device, unless it was exchanged
  between the two reads; the fallback pairs by name and makes no such promise.
- A hang-up starves every client polled after it, for as long as it lasts
  (`Starved`); stdin is polled before all of them.  An exhausted pool ends the reader for good.
- A driver that refuses WDS ends the process although CONNECTED is posted as well.  A client
  that fails to open passes for one; the modem then counts as ready and is never heard.
- The two ways of asking for the SIM and the two places for its PIN agree for a SIM that is
  locked, spoilt or usable.  A PIN that is not initialised, unblocked or changed is left out: one way
  makes it "ready" or "absent", and the sources do not tell what the modem answers to the other.

Two disagreements with the repository's own comments are findings in `PROJECT.json`:
"detached" counts as attached (`registration_detached`), and `available()` is not the number of
characters in the buffer once two threads have raced at the port (`two_threads`).

Observed while reading and not checked by a run:

- `getSIMStatus()` reports -1 for an absent SIM while `mobileManager.cpp`:190 says 2 is
  inserted and 1 is not; a SIM whose PIN is unblocked or changed is absent for the caller;
  the name table for the log has 6 entries and `SIM_BAD` is 6 (`QMIThread.c`:878).
- The older registration request never updates the network name.
- `AtCommand.cpp`:202 uses `arg2` even if nothing set it; a strength of 99 ("unknown") counts as great.
- `SerialPort.h`:82 documents 5 bits per character; `openImpl` refuses them.  A constructor
  of the port that throws leaks its descriptor.
- A text message keeps 16 bits of a character; a service centre without "+" is not told apart.
- Requests that the modem refuses do not free the response; `requestGetProfile` never frees its
  texts; no composer compares a length with the 256 bytes of its buffer.
- The home network 111 (packed 0) is taken for one that was not stored.
- `requestGetIPAddress`, `requestSetProfile` and `requestSetOperatingMode` have no caller in the service.

Every property has a mutant in `PROJECT.json`: a plausible slip in a mapped
definition under which the same run refutes the property.  The mutated forms stand
before the definitions they replace (for instance `FillSlotKeepingAnswer` and `FillSlot`).

## Proofs

For every value of the constants (any number of threads, ids, requests and faults, texts
and numbers of any length the buffers of the code hold):

| theorem | states | argument |
|---|---|---|
| `TypeCorrect` | `Spec => []TypeOK` (QmiTransaction) | `TypeOK` is inductive; it says which labels have a request and that a loaded counter is at least 1 |
| `QuietCallsGetMatchingAnswers` | `Spec => []QuietAnswerMatches` | `QuietInv` |
| `QuietSuccessIsReal` | `Spec => []QuietSuccessHasAnswer` | `QuietInv` |
| `QuietWakeupsArrive` | `Spec => []NoLostWakeup` | `QuietInv` |
| `IndicationsAnswerNothing` | `Spec => []IndicationNeverAnswers` | `IndicationInv` |
| `QuietAnswersAreTakenOnce` | `Spec => []QuietAnswerTakenOnce` | `IdsInv` |
| `QuietAnswersAreOwn` | `Spec => []QuietAnswerIsOwn` | `OwnInv` |
| `LateResponsesAreAbsorbed` | `Spec => []OnlyReplacedAreEvents` | `SlotInv`, `OwnInv` |
| `LoneStepsAreCalls` | `Spec => Call!Init /\ [][Call!Next]_Status` for one sender: the safety half of `ImplementsQmiCall` | `LoneInv`, `OwnInv` |
| `WorkersReconnectAsWished` | `Spec => []ReconnectIsWished` | `WishInv` |
| `ArmedMeansKnown` | `Spec => []HandleIsKnown` | `HandleInv` |
| `DropsAreHeard` | `Spec => []NoForgottenDrop` | `HandleInv` |
| `DisconnectsAreReal` | `Spec => DisconnectEndsCall` | `HandleInv` |
| `RegisteredWasHeard` | `Spec => RegisteredIsHeard` | `HeardInv` |
| `FieldsTyped` | `Spec => []TypeOK` (Registration) | `RefreshInv` |
| `QuietRefreshesAreFaithful` | `Spec => []QuietRefreshIsFaithful` | `RefreshInv` |
| `MessagesMatchRadio` | `Spec => []MessageMatchesRadio` | `RefreshInv` |
| `ChannelTyped` | `Spec => []TypeOK` (AtChannel) | `ChannelInv` |
| `LoneReadsReturn` | `Spec => []AloneNeverHangs` | `ChannelInv` |
| `CleanReplies` | `Spec => []CleanReplyIsOwn` | `ChannelInv` |
| `TurnsAreStreams` | `Spec => TurnsAreAStream` | `ChannelInv` |
| `PortIsAStream` | `Spec => ImplementsLineStream` for one client | `TurnsAreStreams`: a single client never races |
| `QueriesAreBounded` | `ManagerSpec => []OneQueryPerMethod` | `FlagInv` |
| `SuccessesAreReal` | `ManagerSpec => []SuccessIsReal` | `ManagerInv` |
| `EmissionsAreMeasured` | `ManagerSpec => []EmittedIsMeasured` | `ManagerInv` |
| `SharedPortIsSound` | `ManagerSpec => [](TypeOK /\ AloneNeverHangs) /\ TurnsAreAStream` | `ManagerInv` |
| `PairsAreOneDevice` | `Spec => []PairIsOneDevice` (QmiStartup) | `WalkInv` |
| `ModemsAreFound` | `Spec => []CompleteModemIsFound` | `WalkInv` |
| `HoldersAreSignalled` | `Spec => []OnlyHoldersSignalled` | `HuntInv` |
| `BrothersGoFirst` | `Spec => []ClientsAfterBrothers` | `HuntInv`, `ReaderInv` |
| `OpenedAsAsked` | `PortSpec => []ConfiguredAsAsked` (PortSettings on its own) | `SettingsInv` |
| `WalkSeesTheFields` | the walk of `GetTLV` goes through exactly the fields of a message in which they follow one another | from field to field (`Ladder`) |
| `StartIsTiled`, `ModifyIsTiled` | the fields of the two variable requests follow one another to the length returned | each `Put` keeps a message tiled |
| `RequestsAreSound` | `Spec => []RequestsAreWellFormed` (Sequential) | `WellPut` along the composers |
| `SimWaysAgreeAlways` | `Spec => []SimWaysAgree` | by the states of a PIN |
| `CodesAreDecoded` | `Spec => []CdmaCodesAreDecoded` | `CountryIsDecoded` |
| `NoAddressIsStale` | `Spec => []NoStaleAddress` | one setting after the other |
| `SmsIsReadBackAlways` | `Spec => []SmsIsReadBack` | `DigitsAreReadBack`, the three parts of the PDU |
| `DigitsAreReadBack` | exchanged digits, cut to their number, are the number | by the parity of the length |
| `CountryIsDecoded` | every packed country code is decoded, but 0 | arithmetic, digit by digit |

`QuietInv`: the properties speak of a call that returns, long after the cause.  The
invariant adds that a quiet call in the wait is the only one there (`QuietIsAlone`), that its request
is in the slot with no answer while it waits, and, once it is signalled, that the answer in
the slot passed `is_response` for its own request (`QuietSignaled`).  Assumption: `None` is no message.

`IndicationInv`: an id that is drawn is at least 1, also after the counter wrapped, and it stays
with its request from the composer to the slot; `is_response` compares it with 0.

`IdsInv` and `OwnInv`: where a message of an id may be.  A response is pending at most once, and
one that was taken is neither pending nor in the slot.  If no two senders ever drew an id at
once and the counter did not wrap, the ids drawn are the numbers of the requests, so that
a response with the caller's id can only be the one to its own request.

`SlotInv`: under the premises of `OwnInv` the request of a response that may still come is in the slot or was
pushed out of it.  A response that is read empties the slot of no other request, as ids do not repeat.

`LoneInv` (of the transaction layer): for a thread that is alone only the last request may be open, and only while its call
runs, so that each end of a call is an `Answer` or a `Fail` and each load of an id an `Open`.
It assumes one sender, a counter that does not wrap, and indications with the id 0.

`WishInv`: while no two operations overlapped, at most one thread is inside a function (`OneAtATime`),
labels fit functions, a worker that connects does so because the user wished it, and armed
means wished.  `ReconnectIsWished` alone is not inductive: the worker at "ask" must carry
the reason for its connect.

`HandleInv` adds to it what a thread has heard: a response that says "up" or "down" stays true
until its reader acts on it, because only that reader could start a call (a drop in between
leaves an event), and one that does not say "up" means that the call is down or denied (`GoneOrDenied`).  Then armed implies a known handle (`Known`), and a call that dropped is noticed:
an event waits, or the thread inside will still look (`DropHeard`).

`HeardInv`: after the clearing of a refresh, and once `isReady` is set, the attach state is 0 or was heard
(`Cleared`); without the part on the labels `EndRefresh` could set `isReady` over an initial value.  Heard is a response
that said attached, or a GET_SERVING_SYSTEM that was not answered so: that request clears nothing, and the
code takes "detached" for attached.  A "READY" on its way to the field was heard.  No type of `SIMStatus` is needed.  `OnlyReadStatus` shows
that nobody but `ReadStatus` moves a caller on from "read".

`RefreshInv`: a thread that counts as quiet is alone with its refresh or message (`Alone`), so the fields
follow its response TLV by TLV (`Tracks`); between refreshes the radio of the last one is what
`s_is_cdma` says (`Settled`), which a message in the making relies on (`Messages`).  `TypeOK` needs that a thread
about to store a SIM status was given one (`SimKnown`).

`ChannelInv` has six parts, all inductive for steps of any known commands (`AnyNext`), so that it
serves `AtChannel` on its own and `MobileManager`, whose threads choose their commands by a script:

- `TypeOK`, which says nothing of the order of the cursors, and `CommandKnown`: a thread at work knows its command.
- `LoneInv`: a thread that was alone since it began is the only one at work, so the text `poll` saw is
  still there when it reads.  The modem and the line only add to it.
- `HandsInv`: a thread has counted nothing before its `::read` and was handed nothing before its copy, and what it
  has just read fits the buffer.
- `CursorInv`: until the first overlap every thread is alone, the cursors are in order and in the buffer, and
  what a thread has loaded still is what the cursors say (`CursorAt`).  The same holds later of a thread that
  found the cursors equal and is alone.
- `FreshInv`: for a command that is alone and fresh the buffer is empty up to its read, and the line holds
  prompts and then at most its own answer (`AnswerText`).  The answer may come in parts, so `AnswerText` also says how it goes
  on: the value follows the name, `OK` is last.  `CleanReplyIsOwn` alone says nothing of text still on its way.

`TurnsAreStreams` ends with the first overlap, because two threads tear the stream apart (that is a hazard, not a gap of
the proof).  What a reader has still to get is the buffer behind the cursor, what was just read, the kernel and the line, in
this order (`Unread`); each step leaves it alone (`StreamKept`), adds at the end (`StreamSays`) or takes from
the front (`StreamTakes`).

`ManagerInv` is `ChannelInv` for the threads of the manager, with: a thread at work runs the command of its
script that its step names, and its job waits for it (`CommandInv`); and a job that is over with success,
and was clean, was served (`SuccessInv`, which is `SuccessIsReal` for the main thread as well).  The step that
matters is the reply to the last command of a script: by `FreshInv` the text is of this very command, so an `OK` in it is the
modem's (`HeardIsOwn`), and the number that is scanned is the one behind the name (`NumberIsTheAnswers`).

`FlagInv`: when a method begins after the start-up, nobody that raises the flag can still run
(`StartupOver`), so it stays down until the method ends (`FlagDown`) and only the query that
was under way can run into it.  The modem and the channel do not matter.

`WalkInv`: while the bus is walked, a complete modem that stays is still to come, because no
entry of it can be refused (no interface was asked for), and what `netcard` holds at "node" is of
the same entry.  The second walk notes no port.  `HuntInv`: a process that held the channel all
along is still to come or is gone; the one being signalled, if it still runs, was seen holding it
or its pid was taken over.  `None` is not "gone" (`DeviceAssumption`).

`SettingsInv`: the settings of an opened port are those `openImpl` makes of *some* settings for
the stored request; no part of the result comes from the settings that were found.

The remaining assumptions are the named ASSUMEs of the modules, which TLC evaluates in
every run.

The cases of `Sequential` never change (`CaseIsKnown`), so each of their invariants is a theorem about
operators, with the variable as one of its inputs.  What holds for every field of a message, whatever their number, is
shown without induction over data: a set of naturals has a least element (`Least`, from the
library's well-foundedness of <), hence one that holds 0 and the successors of its members is Nat (`Ladder`), and
the set is "the n for which the n-th field is where the walk arrives".

- Requests: a message is well put when its fields tile it, their types are from a set and no type comes twice
  (`WellPut`).  Each optional field of a composer is one step (`MayPut`) that keeps it (`MayPutKeeps`) and adds its value
  and no other (`MayPutSays`); `GetTLV` finds what a well put message holds (`GetTLVFinds`), by `WalkSeesTheFields`.
  Types are at most 1000h, since the invariant takes larger ones for "not there".
- Addresses: each setting of the family is stored once, wherever its field is (`StoreAt`), or cleared, and
  two settings are stored apart (`StoredApart`).
- CDMA codes: taking a digit out of a packed number leaves the number of the others (`RestDropsADigit`).
- SMS: the PDU is three texts one behind the other (`CenterText`, `DestText`, `MessageText`), of
  known lengths (`Long`, `Joins`); the modem's reading takes each part where the length fields say it is (`Holds`).

Every invariant a passing run checks has a theorem, and so have the action properties and the safety
of both refinements.  Only model-checked: liveness (`CallsReturn`, `CommandsReturn`, `DroppedCallComesBack`,
`MessagesAreRead`, `StopEnds`, `StartupEnds`) and the fairness half of `ImplementsQmiCall`, which
are out of the prover's reach.  `OpenedAsAsked` is about the port on its own, where the run has the cases beside it, which
leave the port alone.  The two violations that the runs show are counterexamples of TLC.

## Not modelled

- The codes of 3GPP networks (log only), the identity requests (not compiled), and the layout of
  answers that no modelled code looks into.
- The dump tables (`MPQMUX.c`, switched off) and the control service (`MPQCTL.h`), which the
  driver speaks; the Ethernet proxy and the two D-Bus test clients, which keep no state.
- The wall clock behind the timed wait; timers fire at any moment.
- Wild pointers of early D-Bus calls; destruction at exit (but for the reader).
- Authentication retries (their arguments are always NULL) and AT commands that no code calls.
- What becomes of an exception in the D-Bus library's own threads.

## Plan

Done: the transaction layer, data call, registration, AT channel and manager with their
abstract specifications; detection, reader and start-up; messages, answers, texts and
settings; the theorems above.  Left, in this order:

1. What the port promises again after two threads have raced, once it was emptied and a thread is alone.
2. The same for `QmiCall`: the calls of several senders that take turns.
3. What a reconnect owes the user when operations overlap (`DataCall` promises little then).
