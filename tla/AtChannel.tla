------------------------------- MODULE AtChannel -------------------------------
(* The AT command channel of MobileServer: ATcommand (AtCommand.cpp) over          *)
(* SerialPort (SerialPort.cpp, SerialPort_POSIX.cpp).  A thread writes a command,   *)
(* sleeps, polls the line for three seconds and reads once, at most the size of     *)
(* its own buffer; whatever text it gets is the reply.  The port has one receive    *)
(* buffer with two cursors, no lock, and nobody flushes it between commands.        *)
(*                                                                                 *)
(* Text is a sequence of tokens, the pieces the code looks for; the 64 bytes of a   *)
(* read are ReadSize tokens.  Threads interleave between any two accesses to the    *)
(* cursors: += loads a cursor in one step and stores it in another, as the object   *)
(* file kept under obj/ does.  Two loads for one comparison or difference are one   *)
(* step, and so are the two stores that empty the buffer.                           *)
EXTENDS Integers, Sequences, FiniteSets

CONSTANTS
  Clients,         \* threads that use the channel
  Commands,        \* the commands this instance writes, a subset of AllCommands
  ReadSize,        \* tokens in the 64 bytes most callers read
  BufferSize,      \* bound: tokens of the port's buffer (4096 bytes in the code)
  MaxWrites,       \* bound: commands begun in one behaviour
  MaxUnsolicited,  \* bound: unsolicited result codes in one behaviour
  Faults           \* what may go wrong: "silent", "throw", "hangup"

(* External: what the modem answers to a command.  A command that asks has its      *)
(* answer introduced by its name; CMGS asks for the text of a message (PDU).        *)
Asks    == {"CPIN", "CNSMOD", "CGREG", "CSQ", "CSCA"}
Sets    == {"CNSMOD=1", "CMGF=0", "HANGUP"}
Reports == {"DIAL", "PDU"}      \* the name of the reply says it was done
AllCommands == Asks \cup Sets \cup Reports \cup {"CMGS"}
Texts   == {"name", "value", "OK", "ERROR", "prompt", "junk"}

ASSUME ChannelAssumption ==
  /\ IsFiniteSet(Clients)
  /\ Commands \subseteq AllCommands
  /\ ReadSize \in Nat \ {0}
  /\ BufferSize \in Nat
  /\ MaxWrites \in Nat
  /\ MaxUnsolicited \in Nat
  /\ Faults \subseteq {"silent", "throw", "hangup"}

(* id is the number of the command a piece of text answers, 0 for none; good is     *)
(* what a value says: SIM ready, LTE, attached, a strong signal.                    *)
Token == [id : 0..MaxWrites, cmd : AllCommands \cup {"none"}, text : Texts,
          good : BOOLEAN]
Junk == [id |-> 0, cmd |-> "none", text |-> "junk", good |-> FALSE]

VARIABLES
  outgoing,     \* text the modem has to say, in order
  kernel,       \* text received by the tty, not read yet
  hungup,       \* the modem is gone: the open line ends
  buffer,       \* SerialPort::_buffer
  cur, end,     \* SerialPort::_cur and _end: tokens before each
  pc,           \* per client: where its command is
  command,      \* per client: the command
  loaded,       \* per client: the cursor it has loaded
  count,        \* per client: the n of poll, readBuffer or read
  got,          \* per client: the text its command read
  ret,          \* per client: what the call did: "true", "false" or "thrown"
  unsolicited,  \* unsolicited result codes so far
  (* history, read by the properties only *)
  own,          \* per client: the number of its command
  nextId,       \* the number of the next command
  raced,        \* two commands were under way at once, some time before
  alone,        \* per client: no other client's command was under way during its own
  fresh,        \* per client: when its command began no other text could come
  accepted      \* per client: the modem answers its command with OK

lineVars    == <<outgoing, kernel, hungup>>
portVars    == <<buffer, cur, end>>
localVars   == <<loaded, count>>
callVars    == <<pc, command, localVars, got, ret>>
historyVars == <<own, nextId, raced, alone, fresh, accepted>>
channelVars == <<lineVars, portVars, callVars, unsolicited, historyVars>>

ChannelInit ==
  /\ outgoing = <<>>
  /\ kernel = <<>>
  /\ hungup = FALSE
  /\ buffer = [i \in 1..BufferSize |-> Junk]
  /\ cur = 0
  /\ end = 0
  /\ pc = [c \in Clients |-> "idle"]
  /\ command = [c \in Clients |-> "none"]
  /\ loaded = [c \in Clients |-> 0]
  /\ count = [c \in Clients |-> 0]
  /\ got = [c \in Clients |-> <<>>]
  /\ ret = [c \in Clients |-> "none"]
  /\ unsolicited = 0
  /\ own = [c \in Clients |-> 0]
  /\ nextId = 1
  /\ raced = FALSE
  /\ alone = [c \in Clients |-> TRUE]
  /\ fresh = [c \in Clients |-> TRUE]
  /\ accepted = [c \in Clients |-> FALSE]

Active(c) == pc[c] \notin {"idle", "returned"}

SizeOf(k) == IF k \in {"CSQ", "CSCA"} THEN 2 * ReadSize ELSE ReadSize

-------------------------------------------------------------------------------
(* The modem.                                                                      *)
Piece(k, i, text) == [id |-> i, cmd |-> k, text |-> text, good |-> FALSE]
Value(k, i, b) == [Piece(k, i, "value") EXCEPT !.good = b]

Replies(k, i) ==
  {<<Piece(k, i, "ERROR")>>} \cup
  CASE k \in Asks    -> {<<Piece(k, i, "name"), Value(k, i, b), Piece(k, i, "OK")>>
                            : b \in BOOLEAN}
    [] k \in Sets    -> {<<Piece(k, i, "OK")>>}
    [] k \in Reports -> {<<Piece(k, i, "name"), Piece(k, i, "OK")>>}
    [] k = "CMGS"    -> {<<Piece(k, i, "prompt")>>}

Deliver ==
  /\ outgoing # <<>>
  /\ ~hungup
  /\ kernel' = Append(kernel, Head(outgoing))
  /\ outgoing' = Tail(outgoing)
  /\ UNCHANGED <<hungup, portVars, callVars, unsolicited, historyVars>>

(* A result code nobody asked for, such as a change of registration or of the SIM.  *)
Unsolicited ==
  /\ unsolicited < MaxUnsolicited
  /\ unsolicited' = unsolicited + 1
  /\ \E k \in {"CPIN", "CGREG"}, b \in BOOLEAN :
       outgoing' = outgoing \o <<Piece(k, 0, "name"), Value(k, 0, b)>>
  /\ fresh' = [c \in Clients |-> FALSE]
  /\ UNCHANGED <<kernel, hungup, portVars, callVars, own, nextId, raced, alone, accepted>>

(* The modem is unplugged or resets: from now on ::write fails and ::read is 0.     *)
HangUp ==
  /\ "hangup" \in Faults
  /\ ~hungup
  /\ hungup' = TRUE
  /\ UNCHANGED <<outgoing, kernel, portVars, callVars, unsolicited, historyVars>>

-------------------------------------------------------------------------------
(* One command of client c.  Nothing here looks at the port before it writes.       *)
OnlyPrompts(s) == \A i \in 1..Len(s) : s[i].text = "prompt"

(* All that was said is heard, but for prompts that are still on the line.          *)
Quiet == cur = end /\ OnlyPrompts(kernel \o outgoing)

Begin(c, k) ==
  /\ pc[c] = "idle"
  /\ nextId <= MaxWrites
  /\ pc' = [pc EXCEPT ![c] = "writing"]
  /\ command' = [command EXCEPT ![c] = k]
  /\ own' = [own EXCEPT ![c] = nextId]
  /\ nextId' = nextId + 1
  /\ raced' = (raced \/ \E d \in Clients \ {c} : Active(d))
  /\ alone' = [d \in Clients |->
       IF d = c THEN \A e \in Clients \ {c} : ~Active(e)
                ELSE alone[d] /\ ~Active(d)]
  /\ fresh' = [fresh EXCEPT ![c] = Quiet]
  /\ UNCHANGED <<lineVars, portVars, localVars, got, ret, unsolicited, accepted>>

Goto(c, label) == pc' = [pc EXCEPT ![c] = label]

Finish(c, r) ==
  /\ Goto(c, "returned")
  /\ ret' = [ret EXCEPT ![c] = r]

(* SerialPort::write.  A failed ::write is -1, which as a size_t is a success: the  *)
(* modem hears nothing and the call goes on, as it does if the modem is silent.     *)
(* A short one throws.  AT_SendCmd (CMGS) returns without reading.                  *)
AfterWrite(c) ==
  IF command[c] = "CMGS" THEN Finish(c, "true") ELSE Goto(c, "polling") /\ UNCHANGED ret

Write(c) ==
  /\ pc[c] = "writing"
  /\ \/ /\ ~hungup
        /\ \E r \in Replies(command[c], own[c]) :
             /\ outgoing' = outgoing \o r
             /\ accepted' = [accepted EXCEPT
                  ![c] = \E i \in 1..Len(r) : r[i].text = "OK"]
        /\ AfterWrite(c)
     \/ /\ "silent" \in Faults \/ hungup
        /\ AfterWrite(c)
        /\ UNCHANGED <<outgoing, accepted>>
     \/ /\ "throw" \in Faults
        /\ Finish(c, "thrown")
        /\ UNCHANGED <<outgoing, accepted>>
  /\ UNCHANGED <<kernel, hungup, portVars, command, localVars, got, unsolicited, own,
                 nextId, raced, alone, fresh>>

(* SerialPort::available, a size_t: a negative difference is a huge number, for     *)
(* which stands one that is larger than the buffer and than what any caller wants.  *)
Available == IF cur <= end THEN end - cur ELSE BufferSize + 2 * ReadSize

(* SerialPort::poll: buffered text is enough, else the buffer is emptied and        *)
(* pollImpl selects.                                                                *)
Poll(c) ==
  /\ pc[c] = "polling"
  /\ Goto(c, IF Available # 0 THEN "reading" ELSE "emptying")
  /\ UNCHANGED <<lineVars, portVars, command, localVars, got, ret, unsolicited,
                 historyVars>>

(* _cur = _end = _buffer.begin(), in poll and in readBuffer.                        *)
EmptyEndOnly(c) ==
  /\ \/ pc[c] = "emptying" /\ Goto(c, "selecting")
     \/ pc[c] = "refilling" /\ Goto(c, "blocked")
  /\ end' = 0
  /\ UNCHANGED <<lineVars, buffer, cur, command, localVars, got, ret, unsolicited,
                 historyVars>>

Empty(c) ==
  /\ \/ pc[c] = "emptying" /\ Goto(c, "selecting")
     \/ pc[c] = "refilling" /\ Goto(c, "blocked")
  /\ cur' = 0
  /\ end' = 0
  /\ UNCHANGED <<lineVars, buffer, command, localVars, got, ret, unsolicited,
                 historyVars>>

Readable == kernel # <<>> \/ hungup

SelectIsTrueWhenItTimesOut(c) ==
  /\ pc[c] = "selecting"
  /\ Goto(c, "selected")
  /\ UNCHANGED <<lineVars, portVars, command, localVars, got, ret, unsolicited,
                 historyVars>>

(* pollImpl: ready, no answer within three seconds, or an exception.                *)
Select(c) ==
  /\ pc[c] = "selecting"
  /\ \/ Readable /\ Goto(c, "selected") /\ UNCHANGED ret
     \/ ~Readable /\ Finish(c, "false")
     \/ "throw" \in Faults /\ Finish(c, "thrown")
  /\ UNCHANGED <<lineVars, portVars, command, localVars, got, unsolicited, historyVars>>

(* _end += n: nothing after a poll, what ::read returned after that.                *)
LoadEnd(c) ==
  /\ \/ pc[c] = "selected" /\ Goto(c, "polled")
     \/ pc[c] = "filled" /\ Goto(c, "counting")
  /\ loaded' = [loaded EXCEPT ![c] = end]
  /\ UNCHANGED <<lineVars, portVars, command, count, got, ret, unsolicited, historyVars>>

StoreEnd(c) ==
  /\ \/ pc[c] = "polled" /\ Goto(c, "reading")
     \/ pc[c] = "counting" /\ Goto(c, "taking")
  /\ end' = loaded[c] + count[c]
  /\ UNCHANGED <<lineVars, buffer, cur, command, localVars, got, ret, unsolicited,
                 historyVars>>

(* SerialPort::read: buffered text, or readBuffer, which empties the buffer and     *)
(* blocks in ::read for as long as it takes.                                        *)
Read(c) ==
  /\ pc[c] = "reading"
  /\ Goto(c, IF cur = end THEN "refilling" ELSE "taking")
  /\ UNCHANGED <<lineVars, portVars, command, localVars, got, ret, unsolicited,
                 historyVars>>

Smaller(a, b) == IF a <= b THEN a ELSE b

(* ::read puts the text at the begin of the buffer (0 bytes after a hangup).        *)
KernelRead(c) ==
  /\ pc[c] = "blocked"
  /\ \/ /\ kernel # <<>> /\ ~hungup
        /\ LET n == Smaller(Len(kernel), BufferSize) IN
           /\ buffer' = [i \in 1..BufferSize |->
                IF i <= n THEN kernel[i] ELSE buffer[i]]
           /\ count' = [count EXCEPT ![c] = n]
           /\ kernel' = SubSeq(kernel, n + 1, Len(kernel))
        /\ Goto(c, "filled")
        /\ UNCHANGED ret
     \/ /\ hungup
        /\ Goto(c, "filled")
        /\ UNCHANGED <<buffer, count, kernel, ret>>
     \/ /\ "throw" \in Faults
        /\ Finish(c, "thrown")
        /\ UNCHANGED <<buffer, count, kernel>>
  /\ UNCHANGED <<outgoing, hungup, cur, end, command, loaded, got, unsolicited,
                 historyVars>>

(* n = _end - _cur, at most the size of the caller's buffer, and the place to copy  *)
(* from.                                                                            *)
Take(c) ==
  /\ pc[c] = "taking"
  /\ Goto(c, "copying")
  /\ count' = [count EXCEPT ![c] = Smaller(Available, SizeOf(command[c]))]
  /\ loaded' = [loaded EXCEPT ![c] = cur]
  /\ UNCHANGED <<lineVars, portVars, command, got, ret, unsolicited, historyVars>>

(* memcpy; behind the buffer lies what is no text.                                  *)
Copy(c) ==
  /\ pc[c] = "copying"
  /\ Goto(c, "copied")
  /\ got' = [got EXCEPT ![c] = [i \in 1..count[c] |->
       IF loaded[c] + i <= BufferSize THEN buffer[loaded[c] + i] ELSE Junk]]
  /\ UNCHANGED <<lineVars, portVars, command, localVars, ret, unsolicited, historyVars>>

(* _cur += n, and the return.                                                       *)
LoadCur(c) ==
  /\ pc[c] = "copied"
  /\ Goto(c, "advancing")
  /\ loaded' = [loaded EXCEPT ![c] = cur]
  /\ UNCHANGED <<lineVars, portVars, command, count, got, ret, unsolicited, historyVars>>

KeepCursor(c) == cur' = loaded[c]
AdvanceCursor(c) == cur' = loaded[c] + count[c]

StoreCur(c) ==
  /\ pc[c] = "advancing"
  /\ AdvanceCursor(c)
  /\ Finish(c, IF count[c] > 0 THEN "true" ELSE "false")
  /\ UNCHANGED <<lineVars, buffer, end, command, localVars, got, unsolicited, historyVars>>

Return(c) ==
  /\ pc[c] = "returned"
  /\ Goto(c, "idle")
  /\ command' = [command EXCEPT ![c] = "none"]
  /\ loaded' = [loaded EXCEPT ![c] = 0]
  /\ count' = [count EXCEPT ![c] = 0]
  /\ got' = [got EXCEPT ![c] = <<>>]
  /\ ret' = [ret EXCEPT ![c] = "none"]
  /\ own' = [own EXCEPT ![c] = 0]
  /\ alone' = [alone EXCEPT ![c] = TRUE]
  /\ fresh' = [fresh EXCEPT ![c] = TRUE]
  /\ accepted' = [accepted EXCEPT ![c] = FALSE]
  /\ UNCHANGED <<lineVars, portVars, unsolicited, nextId, raced>>

-------------------------------------------------------------------------------
(* A step of c's command between its begin and its return, and the channel used by  *)
(* threads that write any command at any time.                                      *)
Modem == Deliver \/ Unsolicited \/ HangUp

PollSteps(c) == Poll(c) \/ Empty(c) \/ Select(c) \/ LoadEnd(c) \/ StoreEnd(c)
ReadSteps(c) == \/ Read(c) \/ KernelRead(c)
                \/ Take(c) \/ Copy(c) \/ LoadCur(c) \/ StoreCur(c)
Step(c) == Write(c) \/ PollSteps(c) \/ ReadSteps(c)

Next ==
  \/ Modem
  \/ \E c \in Clients : Step(c) \/ Return(c) \/ \E k \in Commands : Begin(c, k)

Spec == ChannelInit /\ [][Next]_channelVars

(* A runnable thread runs and a select times out.  Nothing is assumed of the modem. *)
FairSpec == Spec /\ \A c \in Clients : WF_channelVars(Step(c))

-------------------------------------------------------------------------------
(* Properties.                                                                     *)

(* Every variable has its type.                                                    *)
Places == {"idle", "writing", "polling", "emptying", "selecting", "selected", "polled",
           "reading", "refilling", "blocked", "filled", "counting", "taking",
           "copying", "copied", "advancing", "returned"}
TypeOK ==
  /\ outgoing \in Seq(Token)
  /\ kernel \in Seq(Token)
  /\ hungup \in BOOLEAN
  /\ buffer \in [1..BufferSize -> Token]
  /\ cur \in Nat
  /\ end \in Nat
  /\ pc \in [Clients -> Places]
  /\ command \in [Clients -> AllCommands \cup {"none"}]
  /\ loaded \in [Clients -> Nat]
  /\ count \in [Clients -> Nat]
  /\ got \in [Clients -> Seq(Token)]
  /\ ret \in [Clients -> {"none", "true", "false", "thrown"}]
  /\ unsolicited \in 0..MaxUnsolicited
  /\ own \in [Clients -> 0..MaxWrites]
  /\ nextId \in 1..(MaxWrites + 1)
  /\ raced \in BOOLEAN
  /\ alone \in [Clients -> BOOLEAN]
  /\ fresh \in [Clients -> BOOLEAN]
  /\ accepted \in [Clients -> BOOLEAN]

(* A caller that polled and has the channel to itself does not hang in ::read,      *)
(* which has no timeout: there is text for it when it gets there.                   *)
AloneNeverHangs ==
  \A c \in Clients : pc[c] = "blocked" /\ alone[c] => Readable

(* A command that has the channel to itself, and that began when all text said      *)
(* before was read, is answered by its own reply only: the port neither repeats     *)
(* text nor keeps it back for the next command.                                     *)
CleanReplyIsOwn ==
  \A c \in Clients :
    pc[c] = "returned" /\ alone[c] /\ fresh[c] =>
      \A i \in 1..Len(got[c]) : got[c][i].id = own[c] \/ got[c][i].text = "prompt"

(* A command whose thread is alone returns: write and select are bounded and the    *)
(* read does not hang (stated for a process with one such thread).                  *)
CommandsReturn ==
  \A c \in Clients : pc[c] = "writing" ~> pc[c] = "returned"

(* The port and the line together are the byte stream of LineStream: text waits     *)
(* between the cursors, in the hands of a client that has read it and not counted   *)
(* it yet, in the tty and at the modem; a read that returns takes it from the front. *)
Uncounted(c) == pc[c] \in {"filled", "counting"}
Held == SubSeq(buffer, cur + 1, end)
Filling == IF \E c \in Clients : Uncounted(c)
           THEN SubSeq(buffer, 1, count[CHOOSE c \in Clients : Uncounted(c)])
           ELSE <<>>
Unread == Held \o Filling \o kernel \o outgoing
Taken == [c \in Clients |-> IF pc[c] = "returned" THEN got[c] ELSE <<>>]
Stream == INSTANCE LineStream WITH unread <- Unread, taken <- Taken

(* For a single thread this is always so.                                           *)
ImplementsLineStream == Stream!Spec

(* For several it is as long as they take turns: whoever reads takes up the cursors  *)
(* where the last one left them.                                                    *)
TurnsAreAStream == [][raced' \/ Stream!Next]_<<Unread, Taken>>

(* What SerialPort.h says of available(): the number of characters in the internal   *)
(* buffer, which holds no more than it has room for.                                *)
AvailableIsInTheBuffer == Available <= BufferSize

===============================================================================
