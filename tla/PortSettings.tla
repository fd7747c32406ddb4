----------------------------- MODULE PortSettings -----------------------------
(* Opening, closing and setting up a serial port (src/MobileServer/src/             *)
(* SerialPort.cpp and SerialPort_POSIX.cpp).  The settings belong to the tty: they   *)
(* survive close(), and other programs change them.  openImpl takes what it finds    *)
(* as a start, changes it flag by flag and sets it at the end; it throws where an     *)
(* argument or a system call is wrong.  Reading and writing are the subject of        *)
(* AtChannel, which relies on lines that come as they were sent.                      *)
EXTENDS Integers

CONSTANTS
  Requests,   \* the arguments open() is called with: records of Request
  LeftBehind, \* settings other programs leave behind: records of Term
  MaxCalls    \* bound: calls of the port's operations and changes by others

(* size is a character ("6", "7", "8" or one that is refused), parity "N", "E", "O" or *)
(* another, stop "1", "2" or another, baud -1, a speed, or one that is not supported.   *)
Speeds == {9600, 115200}
Request == [chars : {2, 3}, size : {"5", "6", "7", "8"}, parity : {"N", "E", "O", "X"},
            stop : {"1", "2", "3"}, rtscts : BOOLEAN, baud : Speeds \cup {-1, 0}]

(* What the code changes of a struct termios: c_cflag, c_iflag as a set, c_oflag and    *)
(* c_lflag in one (the line is cooked), and the speed.                                   *)
InputFlags == {"IGNPAR", "INPCK", "ICRNL"}
Term == [size : {"5", "6", "7", "8"}, parenb : BOOLEAN, parodd : BOOLEAN,
         cstopb : BOOLEAN, crtscts : BOOLEAN, clocal : BOOLEAN, iflag : SUBSET InputFlags,
         cooked : BOOLEAN, speed : Speeds]

ASSUME PortAssumption ==
  Requests \subseteq Request /\ LeftBehind \subseteq Term /\ MaxCalls \in Nat

VARIABLES
  port,     \* "none" before the constructor and after the destructor, "open", "closed"
  tty,      \* the settings of the device
  fields,   \* _baudRate, _parameters and _flowControl, as last stored
  buffered, \* _cur < _end: text that was read and not taken
  opened,   \* history: the open() that opened the port returned
  rts,      \* the RTS line
  result,   \* of the last call: "returned", "threw" or "asserted"
  calls     \* the calls made so far
portVars == <<port, tty, fields, buffered, opened, rts, result, calls>>

NothingStored == [chars |-> 0, baud |-> -1]

PortInit ==
  /\ port = "none" /\ tty \in LeftBehind /\ fields = NothingStored /\ buffered = FALSE
  /\ opened = FALSE
  /\ rts \in BOOLEAN /\ result = "returned" /\ calls = 0

Called == calls < MaxCalls /\ calls' = calls + 1
Throw == result' = "threw"
Return == result' = "returned"

-------------------------------------------------------------------------------
(* The settings openImpl makes of those it finds.                                        *)

KeepOddParity(term) ==
  [term EXCEPT !.size = "5", !.parenb = FALSE, !.cstopb = FALSE, !.crtscts = FALSE,
               !.clocal = TRUE]
Cleared(term) ==
  [term EXCEPT !.size = "5", !.parenb = FALSE, !.parodd = FALSE, !.cstopb = FALSE,
               !.crtscts = FALSE, !.clocal = TRUE]

WithParity(term, parity) ==
  IF parity = "N" THEN [term EXCEPT !.iflag = {"IGNPAR"}]
  ELSE [term EXCEPT !.parenb = TRUE, !.iflag = @ \cup {"INPCK"},
                    !.parodd = (parity = "O") \/ @]

WithSpeed(term, baud) ==
  IF baud = -1 THEN term ELSE [term EXCEPT !.speed = baud]

Configured(term, request) ==
  LET framed == [WithParity([Cleared(term) EXCEPT !.size = request.size], request.parity)
                   EXCEPT !.cstopb = (request.stop = "2"), !.crtscts = request.rtscts]
  IN WithSpeed([framed EXCEPT !.cooked = FALSE], request.baud)

(* The arguments the four switches refuse.                                                *)
BadSize(request)   == request.size \notin {"6", "7", "8"}
BadParity(request) == request.parity \notin {"N", "E", "O"}
BadStop(request)   == request.stop \notin {"1", "2"}
BadBaud(request)   == request.baud \notin Speeds \cup {-1}
Refuses(request) ==
  BadSize(request) \/ BadParity(request) \/ BadStop(request) \/ BadBaud(request)

-------------------------------------------------------------------------------
(* open().  Once ::open has succeeded the descriptor stays, whatever is thrown after it.  *)
OpenDevice(request) ==
  \/ /\ port = "open" \/ request.chars # 3
     /\ Throw
     /\ UNCHANGED <<port, tty, fields, buffered, opened>>
  \/ /\ port # "open" /\ request.chars = 3
     /\ buffered' = FALSE
     /\ \/ /\ Throw                                  \* ::open failed
           /\ port' = "closed" /\ opened' = FALSE
           /\ UNCHANGED <<tty, fields>>
        \/ /\ Throw                                  \* an argument, or a later call
           /\ port' = "open" /\ opened' = FALSE
           /\ UNCHANGED <<tty, fields>>
        \/ /\ ~Refuses(request)
           /\ Return
           /\ port' = "open" /\ opened' = TRUE
           /\ tty' = Configured(tty, request)
           /\ fields' = request

(* The constructor that opens: if open() throws there is no object, and its destructor,   *)
(* which would close the descriptor, does not run.                                         *)
Construct(request) ==
  /\ Called
  /\ port = "none"
  /\ \/ OpenDevice(request) /\ result' = "returned"
     \/ Throw /\ UNCHANGED <<port, tty, fields, buffered, opened>>
  /\ UNCHANGED rts

Exists == port # "none"
Open(request) == Called /\ Exists /\ OpenDevice(request) /\ UNCHANGED rts

(* close(), which does nothing on a closed port, and the destructor, which calls it.       *)
Close ==
  /\ Called /\ Exists
  /\ port' = "closed" /\ buffered' = FALSE /\ opened' = FALSE
  /\ Return
  /\ UNCHANGED <<tty, fields, rts>>

Destroy ==
  /\ Called /\ Exists
  /\ port' = "none" /\ buffered' = FALSE /\ opened' = FALSE
  /\ fields' = NothingStored
  /\ Return
  /\ UNCHANGED <<tty, rts>>

(* drain, configureRS485, getRTS and setRTS assert that the port is open; their calls may   *)
(* fail.  Only setRTS changes anything that is modelled.                                   *)
Control ==
  /\ Called /\ Exists
  /\ \/ port = "closed" /\ result' = "asserted" /\ UNCHANGED rts
     \/ /\ port = "open"
        /\ \/ Throw /\ UNCHANGED rts
           \/ Return /\ rts' \in BOOLEAN
  /\ UNCHANGED <<port, tty, fields, buffered, opened>>

(* The reading side leaves text in the buffer.                                              *)
Fill ==
  /\ Called
  /\ port = "open" /\ ~buffered
  /\ buffered' = TRUE
  /\ Return
  /\ UNCHANGED <<port, tty, fields, opened, rts>>

(* External: another program sets the tty.                                                  *)
SetByOthers ==
  /\ Called
  /\ port # "open"
  /\ tty' \in LeftBehind
  /\ UNCHANGED <<port, fields, buffered, opened, rts, result>>

PortNext ==
  \/ \E request \in Requests : Construct(request) \/ Open(request)
  \/ Close \/ Destroy \/ Control \/ Fill \/ SetByOthers

-------------------------------------------------------------------------------
(* A port whose open() returned has the framing, the speed and the flow control that were    *)
(* asked for, whatever the tty was set to before and however often it was opened and closed; *)
(* without parity it delivers bytes as they were sent, neither echoed nor translated, which   *)
(* is what AtChannel takes for granted.  Others set the tty while it is closed only.          *)
ConfiguredAsAsked ==
  opened =>
    /\ tty.size = fields.size
    /\ tty.parenb = (fields.parity # "N")
    /\ tty.parodd = (fields.parity = "O")
    /\ tty.cstopb = (fields.stop = "2")
    /\ tty.crtscts = fields.rtscts
    /\ fields.baud # -1 => tty.speed = fields.baud
    /\ fields.parity = "N" => tty.iflag = {"IGNPAR"}
    /\ ~tty.cooked

===============================================================================
