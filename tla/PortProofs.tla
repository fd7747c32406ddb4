------------------------------ MODULE PortProofs ------------------------------
(* A port that was opened has the settings that were asked for, whatever it is      *)
(* opened with and whatever others leave behind.                                    *)
EXTENDS PortSettings, TLAPS

PortSpec == PortInit /\ [][PortNext]_portVars

(* The settings are those openImpl makes of some settings.                          *)
SettingsInv ==
  /\ tty \in Term
  /\ opened => /\ port = "open"
               /\ fields \in Request /\ ~Refuses(fields)
               /\ \E term \in Term : tty = Configured(term, fields)

(* openImpl makes settings of settings if it does not refuse the arguments.           *)
LEMMA ConfiguredIsTerm ==
  ASSUME NEW term \in Term, NEW request \in Request, ~Refuses(request)
  PROVE  Configured(term, request) \in Term
<1> DEFINE cleared == [Cleared(term) EXCEPT !.size = request.size]
           parity == WithParity(cleared, request.parity)
           framed == [parity EXCEPT !.cstopb = (request.stop = "2"),
                                    !.crtscts = request.rtscts]
           raw == [framed EXCEPT !.cooked = FALSE]
<1>1. cleared \in Term
  BY DEF Cleared, Term, Request
<1> HIDE DEF cleared
<1>2. parity \in Term
  BY <1>1 DEF WithParity, Term, InputFlags
<1> HIDE DEF parity
<1>3. framed \in Term
  BY <1>2 DEF Term, Request
<1> HIDE DEF framed
<1>4. raw \in Term
  BY <1>3 DEF Term
<1> HIDE DEF raw
<1>5. WithSpeed(raw, request.baud) \in Term
  BY <1>4 DEF WithSpeed, Term, Refuses, BadBaud
<1>6. Configured(term, request) = WithSpeed(raw, request.baud)
  BY Zenon DEF Configured, raw, framed, parity, cleared
<1>7. QED
  BY <1>5, <1>6

(* Whatever it starts from, it makes those that were asked for.                       *)
LEMMA ConfiguredHasRequest ==
  ASSUME NEW term \in Term, NEW request \in Request, ~Refuses(request)
  PROVE  LET made == Configured(term, request) IN
         /\ made.size = request.size
         /\ made.parenb = (request.parity # "N")
         /\ made.parodd = (request.parity = "O")
         /\ made.cstopb = (request.stop = "2")
         /\ made.crtscts = request.rtscts
         /\ request.baud # -1 => made.speed = request.baud
         /\ request.parity = "N" => made.iflag = {"IGNPAR"}
         /\ ~made.cooked
<1> DEFINE cleared == [Cleared(term) EXCEPT !.size = request.size]
           parity == WithParity(cleared, request.parity)
           framed == [parity EXCEPT !.cstopb = (request.stop = "2"),
                                    !.crtscts = request.rtscts]
           raw == [framed EXCEPT !.cooked = FALSE]
           made == WithSpeed(raw, request.baud)
<1>1. /\ cleared \in Term /\ cleared.size = request.size
      /\ cleared.parenb = FALSE /\ cleared.parodd = FALSE
  BY DEF Cleared, Term, Request
<1> HIDE DEF cleared
<1>2. /\ parity \in Term /\ parity.size = request.size
      /\ request.parity = "N" => parity.iflag = {"IGNPAR"}
  BY <1>1 DEF WithParity, Term, InputFlags
<1>3. parity.parenb = (request.parity # "N")
  BY <1>1 DEF WithParity, Term
<1>4. parity.parodd = (request.parity = "O")
  BY <1>1 DEF WithParity, Term, Refuses, BadParity
<1> HIDE DEF parity
<1>5. /\ framed \in Term /\ framed.size = parity.size /\ framed.parenb = parity.parenb
      /\ framed.parodd = parity.parodd /\ framed.iflag = parity.iflag
      /\ framed.cstopb = (request.stop = "2") /\ framed.crtscts = request.rtscts
  BY <1>2 DEF Term, Request
<1> HIDE DEF framed
<1>6. /\ raw \in Term /\ raw.size = framed.size /\ raw.parenb = framed.parenb
      /\ raw.parodd = framed.parodd /\ raw.iflag = framed.iflag
      /\ raw.cstopb = framed.cstopb /\ raw.crtscts = framed.crtscts
      /\ ~raw.cooked
  BY <1>5 DEF Term
<1> HIDE DEF raw
<1>7. /\ made.size = raw.size /\ made.parenb = raw.parenb
      /\ made.parodd = raw.parodd /\ made.iflag = raw.iflag
      /\ made.cstopb = raw.cstopb /\ made.crtscts = raw.crtscts
      /\ made.cooked = raw.cooked
      /\ request.baud # -1 => made.speed = request.baud
  BY <1>6 DEF WithSpeed, Term
<1> HIDE DEF made
<1>8. Configured(term, request) = made
  BY Zenon DEF Configured, made, raw, framed, parity, cleared
<1>9. QED
  BY <1>2, <1>3, <1>4, <1>5, <1>6, <1>7, <1>8

LEMMA SettingsInit == PortInit => SettingsInv
BY PortAssumption DEF PortInit, SettingsInv

(* Every call keeps it: only the last branch of open() sets opened, with the settings  *)
(* it has just made; closing and destroying take it back, and others wait for that.    *)
LEMMA SettingsStep == SettingsInv /\ [PortNext]_portVars => SettingsInv'
<1> SUFFICES ASSUME SettingsInv, [PortNext]_portVars PROVE SettingsInv'
  OBVIOUS
<1> USE DEF SettingsInv
<1>1. ASSUME NEW request \in Requests, OpenDevice(request) PROVE SettingsInv'
  <2>1. request \in Request
    BY PortAssumption
  <2>2. CASE UNCHANGED <<port, tty, fields, buffered, opened>>
    BY <2>2
  <2>3. CASE opened' = FALSE /\ UNCHANGED <<tty, fields>>
    BY <2>3
  <2>4. CASE /\ ~Refuses(request) /\ port' = "open"
             /\ tty' = Configured(tty, request) /\ fields' = request
    BY <2>1, <2>4, ConfiguredIsTerm
  <2>5. QED
    BY <1>1, <2>2, <2>3, <2>4 DEF OpenDevice
<1>2. ASSUME NEW request \in Requests, Construct(request) PROVE SettingsInv'
  BY <1>1, <1>2 DEF Construct
<1>3. ASSUME NEW request \in Requests, Open(request) PROVE SettingsInv'
  BY <1>1, <1>3 DEF Open
<1>4. CASE Close
  BY <1>4 DEF Close
<1>5. CASE Destroy
  BY <1>5 DEF Destroy
<1>6. CASE Control
  BY <1>6 DEF Control
<1>7. CASE Fill
  BY <1>7 DEF Fill
<1>8. CASE SetByOthers
  BY <1>8, PortAssumption DEF SetByOthers
<1>9. CASE UNCHANGED portVars
  BY <1>9 DEF portVars
<1>10. QED
  BY <1>2, <1>3, <1>4, <1>5, <1>6, <1>7, <1>8, <1>9 DEF PortNext

(* An open() that returned leaves the port as asked: no flag of the settings it found   *)
(* is left over, for any requests and any settings of other programs.                   *)
THEOREM OpenedAsAsked == PortSpec => []ConfiguredAsAsked
<1>1. SettingsInv => ConfiguredAsAsked
  <2> SUFFICES ASSUME SettingsInv, opened PROVE ConfiguredAsAsked
    BY DEF ConfiguredAsAsked
  <2>1. PICK term \in Term : tty = Configured(term, fields)
    BY DEF SettingsInv
  <2>2. fields \in Request /\ ~Refuses(fields)
    BY DEF SettingsInv
  <2>3. QED
    BY <2>1, <2>2, ConfiguredHasRequest DEF ConfiguredAsAsked
<1>2. QED
  BY <1>1, SettingsInit, SettingsStep, PTL DEF PortSpec

===============================================================================
