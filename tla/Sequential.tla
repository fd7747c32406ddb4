------------------------------ MODULE Sequential ------------------------------
(* The sequential parts together: either the serial port is opened, set and closed in *)
(* any order, or a single case of a computation is looked at.  A case carries the      *)
(* inputs of one of them; "none" leaves the port to run.                               *)
EXTENDS QmiAnswers, SmsText, PortSettings, FiniteSets

CONSTANTS
  Profiles,     \* profiles of data calls, with the lengths of their texts
  PinLengths,   \* lengths of PINs
  Numbers,      \* telephone numbers, service centres among them
  Messages      \* messages, sequences of code points

(* Profiles with texts of up to 60 characters: the buffer a request is composed in has  *)
(* 256 bytes, and no composer looks at it.  Digits are exchanged in a buffer of 16, and  *)
(* the text of an SMS is put together in one of 256.                                     *)
Profile == [apn : Text, user : Text, password : Text, auth : Nat, pdp : Nat,
            curIpFamily : Nat]
MaxText == 60
MaxDigits == 14
MaxPoints == 50
BasicPlane == 0..65535           \* code points of four hexadecimal digits

ASSUME ProfilesAssumption ==
  \A p \in Profiles :
    /\ p \in Profile
    /\ p.apn <= MaxText /\ p.user <= MaxText /\ p.password <= MaxText
ASSUME PinsAssumption == PinLengths \subseteq 0..MaxText
ASSUME NumbersAssumption ==
  \A n \in Numbers :
    n \in [plus : BOOLEAN, digits : Seq(0..9)] /\ Len(n.digits) \in 1..MaxDigits
ASSUME MessagesAssumption ==
  \A m \in Messages : m \in Seq(BasicPlane) /\ Len(m) <= MaxPoints

VARIABLE case

seqVars == <<portVars, case>>

-------------------------------------------------------------------------------
(* The cases.                                                                          *)

RequestCases == [subject : {"request"}, cdma : BOOLEAN, profile : Profiles]

PinCases == [subject : {"pin"}, by_uim : BOOLEAN, pin : PinLengths]

SimCases ==
  [subject : {"sim"}, pin : Pins \ {"not initialised", "unblocked", "changed"},
   other : Pins, univ : BOOLEAN]

CdmaCases ==
  [subject : {"mcc"}, digits : (0..9) \X (0..9) \X (0..9)]
  \cup [subject : {"mnc"}, digits : (0..9) \X (0..9)]

AddressCases ==
  [subject : {"address"}, family : {V4, V6}, handle : {0, 9},
   how : {"none", "refused", "ok"},
   types : SUBSET {\h1E, \h20, \h15, \h25, \h26, MtuType}]

SmsCases ==
  [subject : {"sms"}, number : Numbers, center : {n \in Numbers : n.plus},
   points : Messages]

NoCase == [subject |-> "none"]
Cases == RequestCases \cup PinCases \cup SimCases \cup CdmaCases \cup AddressCases
           \cup SmsCases

Idle ==
  /\ port = "none" /\ tty = CHOOSE t \in LeftBehind : TRUE
  /\ fields = NothingStored /\ buffered = FALSE /\ opened = FALSE /\ rts = FALSE
  /\ result = "returned" /\ calls = MaxCalls

Init ==
  \/ case = NoCase /\ PortInit
  \/ case \in Cases /\ Idle

Next == PortNext /\ UNCHANGED case

Spec == Init /\ [][Next]_seqVars

-------------------------------------------------------------------------------
(* Properties of the cases.                                                            *)

(* A message is read as it was written: GetTLV goes through exactly the fields that     *)
(* were put in, in their order, and nothing is left; the copy that is sent holds all of  *)
(* it and it fits the buffer it is composed in; and the account in a profile can be      *)
(* read back.  Texts are of up to 60 characters.                                        *)
Reads(msg) ==
  /\ Walk(msg) = msg.fields
  /\ \A i \in DOMAIN msg.fields :
       /\ GetTLV(msg, msg.fields[i].type) = msg.fields[i]
       /\ GetTLV(msg, \h1000 + i) = msg.fields[i]
Sent(msg) ==
  LET lengths == ComposeQMUXMsg(1, msg) IN
  /\ lengths.mux = msg.end - QCQMUX_MSG_HDR
  /\ lengths.copied = QCQMI_HDR + QCQMUX_HDR + msg.end
  /\ lengths.copied <= WDM_DEFAULT_BUFSIZE
Good(msg) == Reads(msg) /\ Sent(msg)

RequestsAreWellFormed ==
  /\ case.subject = "request" =>
       LET stored == SetProfile(case.profile) IN
       /\ Good(WdsStartNwInterfaceReq(case.profile, case.cdma))
       /\ Good(WdsGetProfileSettingsReqSend(case.profile))
       /\ Good(stored)
       /\ stored # Nothing =>
            /\ GetProfile(stored).apn = case.profile.apn
            /\ GetProfile(stored).user = case.profile.user
            /\ GetProfile(stored).password = case.profile.password
       /\ Good(WdsSetClientIPFamilyPref(case.profile.curIpFamily))
       /\ \A n \in {0, 1} : Good(WdsStopNwInterfaceReq(n)) /\ Good(WdsSetAutoConnect(n))
                            /\ Good(SetOperatingMode(n)) /\ Good(WdaSetDataFormat(n))
                            /\ Good(WdsGetRuntimeSettingReq(n))
  /\ case.subject = "pin" => Good(EnterSimPin(case.by_uim, case.pin))

(* The two ways of asking, and the two places for the PIN of a card, give the same state  *)
(* of the SIM: what a modem says of a locked or an unlocked card, it says both ways.       *)
CardMessage(pin1, upin, univ) ==
  Put(NoFields, \h10, 20, [state |-> 1, univ |-> univ, pin1 |-> pin1, upin |-> upin])
PinMessage(pin) == Response(Put(NoFields, \h11, 3, pin))
Usable(pin) == pin \in {"verified", "disabled"}
SimWaysAgree ==
  case.subject = "sim" =>
    FromCardStatus(IF case.univ THEN CardMessage(case.other, case.pin, TRUE)
                   ELSE CardMessage(case.pin, case.other, FALSE))
    = FromUimState(IF Usable(case.pin) THEN 0 ELSE 1, PinMessage(case.pin))

(* Every code a CDMA modem can pack is stored as the number with its digits, but for the   *)
(* country code 111, packed 0, which leaves the network of the serving system.            *)
Packed(d) == IF d = 0 THEN 9 ELSE d - 1
HomeMessage(mcc, mnc) == Response(Put(NoFields, \h01, 6, [mcc |-> mcc, mnc |-> mnc]))
Serving == [mcc |-> 999, mnc |-> 99]
CdmaCodesAreDecoded ==
  /\ case.subject = "mcc" =>
       LET d == case.digits
           packed == 100 * Packed(d[1]) + 10 * Packed(d[2]) + Packed(d[3])
       IN HomeNetwork(Serving, HomeMessage(packed, 0)).mcc =
            IF packed = 0 THEN Serving.mcc ELSE 100 * d[1] + 10 * d[2] + d[3]
  /\ case.subject = "mnc" =>
       LET d == case.digits
       IN HomeNetwork(Serving, HomeMessage(1, 10 * Packed(d[1]) + Packed(d[2]))).mnc =
            10 * d[1] + d[2]

(* After requestGetIPAddress nothing of an earlier call is left in the family it was asked  *)
(* for, however it ended; what the answer names is there.                                   *)
Stale == 7
Old == [at \in {V4, V6} \X Settings |-> Stale]
ValueOf(type) == type + 100
AddressMessage(types) ==
  LET Add(msg, type) == PutIf(type \in types, msg, type, 4, ValueOf(type))
  IN Add(Add(Add(Add(Add(Add(NoFields, MtuType), \h26), \h1E), \h15), \h25), \h20)
NoStaleAddress ==
  case.subject = "address" =>
    LET response == [how |-> case.how, msg |-> AddressMessage(case.types)]
        ip == GetIPAddress(Old, case.family, case.handle, response)
    IN /\ \A setting \in Settings : ip[<<case.family, setting>>] # Stale
       /\ (case.handle # 0 /\ case.how = "ok") =>
            \A type \in case.types \ {MtuType} : ip[Stored[type]] = ValueOf(type)

(* A modem reads from the text the number that was asked for, of its kind, the service       *)
(* centre it told itself and the message, and AT+CMGS announces the octets behind the         *)
(* centre.  The centre has a "+", numbers up to 14 digits, the message up to 50 characters     *)
(* of the basic plane.                                                                        *)
SmsIsReadBack ==
  case.subject = "sms" =>
    LET sms == SendPduMessage(TRUE, case.center, case.number, case.points)
        submit == Submit(sms.data)
    IN /\ ReadCenter(sms.data) = case.center.digits
       /\ ReadNumber(submit) = case.number
       /\ ReadText(submit) = case.points
       /\ 2 * sms.cmgs = Len(submit)

===============================================================================
