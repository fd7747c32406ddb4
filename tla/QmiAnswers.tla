------------------------------ MODULE QmiAnswers ------------------------------
(* What the requests of src/MobileServer/src/QMIThread.c take from an answer: the    *)
(* state of the SIM from two services of the modem, the account of a profile, the     *)
(* home network of a CDMA modem and its packed codes, the addresses of a data call.   *)
(* A request returns a code and may store what it found; what it stores is a value    *)
(* here, computed from what was stored before.                                        *)
EXTENDS QmiMessage

(* How an exchange ends: no response (the send failed, timed out or had no client),    *)
(* a response with an error, or a message.  The requests return on the first two.      *)
NoResponse == [how |-> "none", msg |-> NoFields]
Refused == [how |-> "refused", msg |-> NoFields]
Response(msg) == [how |-> "ok", msg |-> msg]

Found(tlv) == tlv.type # NotFound.type

(* requestSetProfile, requestEnterSimPin and requestSetOperatingMode send their         *)
(* message and look at the result code only.                                            *)
Nothing == NoFields
EnterSimPin(by_uim, pin) ==
  IF by_uim THEN UimVerifyPinReqSend(pin) ELSE DmsUIMVerifyPinReqSend(pin)
SetProfile(profile) ==
  IF profile.pdp = 0 THEN Nothing ELSE WdsModifyProfileSettingsReq(profile)
SetOperatingMode(mode) == DmsSetOperatingModeReq(mode)

(* requestGetProfile copies the account of the answer; what it read is only logged.     *)
TextOf(msg, type) ==
  LET tlv == GetTLV(msg, type) IN IF Found(tlv) THEN tlv.value ELSE Null
GetProfile(msg) ==
  [apn |-> TextOf(msg, \h14), user |-> TextOf(msg, \h1B),
   password |-> TextOf(msg, \h1C),
   auth |-> LET tlv == GetTLV(msg, \h1D) IN IF Found(tlv) THEN tlv.value ELSE 0]

-------------------------------------------------------------------------------
(* The SIM.                                                                             *)

Pins == {"not initialised", "not verified", "verified", "disabled", "blocked",
         "blocked for ever", "unblocked", "changed"}

(* A SIM card is usable, wants a PIN or a PUK, is spoilt, or is taken for absent.       *)
OfPin(pin) ==
  CASE pin \in {"verified", "disabled", "not initialised"} -> "SIM_READY"
    [] pin = "not verified" -> "SIM_PIN"
    [] pin = "blocked" -> "SIM_PUK"
    [] pin = "blocked for ever" -> "SIM_BAD"
    [] OTHER -> "SIM_ABSENT"

(* QMIUIM_GET_CARD_STATUS: the card and the state of its PIN, the one of the            *)
(* application or, if the card uses it, the universal one.                              *)
Pin1Only(card) == card.pin1
PinOf(card) == IF card.univ THEN card.upin ELSE card.pin1

FromCardStatus(msg) ==
  LET tlv  == GetTLV(msg, \h10)
      card == IF Found(tlv) THEN tlv.value
              ELSE [state |-> 1, univ |-> FALSE, pin1 |-> "not verified"]
  IN IF card.state = 1 THEN OfPin(PinOf(card)) ELSE "SIM_ABSENT"

(* requestGetPINStatus changes the status for a PIN that stands in the way only.        *)
GetPINStatus(status, response) ==
  LET tlv == GetTLV(response.msg, \h11) IN
  IF response.how # "ok" \/ ~Found(tlv) THEN status
  ELSE IF tlv.value \in {"not verified", "blocked", "blocked for ever"}
       THEN OfPin(tlv.value) ELSE status

(* QMIDMS_UIM_GET_STATE, and a second request when the SIM is locked or failed.         *)
FromUimState(uim, response) ==
  CASE uim = 0 -> "SIM_READY"
    [] uim = 1 -> GetPINStatus("SIM_ABSENT", response)
    [] OTHER -> "SIM_ABSENT"

-------------------------------------------------------------------------------
(* The home network.  A CDMA modem packs each digit d of a code as d - 1, and 0 as 9.   *)

Digit(buf) == buf % 10
TruncatedRest(buf) == buf \div 10
Rest(buf) == IF Digit(buf) = 0 THEN (buf - 10) \div 10 ELSE buf \div 10

(* quectel_convert_cdma_mcc_2_ascii_mcc and ..._mnc.  The code is a USHORT, the sum an   *)
(* unsigned int.                                                                         *)
ConvertMcc(mcc) ==
  IF mcc = 1023 THEN 3                                        \* wildcard
  ELSE LET d3 == Digit(mcc + 111)
           b2 == Rest(mcc + 111)
           d2 == Digit(b2)
           b1 == Rest(b2)
           d1 == IF b1 = 10 THEN 0 ELSE b1
       IN IF d1 < 10 THEN 100 * d1 + 10 * d2 + d3 ELSE 0

ConvertMnc(imsi_11_12) ==
  IF imsi_11_12 = 127 THEN 7
  ELSE LET d2 == Digit(imsi_11_12 + 11)
           b1 == Rest(imsi_11_12 + 11)
           d1 == IF b1 = 10 THEN 0 ELSE b1
       IN IF d1 < 10 THEN 10 * d1 + d2 ELSE 0

(* requestGetHomeNetwork and what its callers make of it: a code of 0 is taken for one   *)
(* that was not stored, and the network stays the one of the serving system.            *)
GetHomeNetwork(response) ==
  LET tlv == GetTLV(response.msg, \h01) IN
  IF response.how = "ok" /\ Found(tlv) THEN tlv.value ELSE [mcc |-> 0, mnc |-> 0]

HomeNetwork(serving, response) ==
  LET home == GetHomeNetwork(response) IN
  IF home.mcc # 0 THEN [mcc |-> ConvertMcc(home.mcc), mnc |-> ConvertMnc(home.mnc)]
  ELSE serving

-------------------------------------------------------------------------------
(* requestGetIPAddress.                                                                  *)

V4 == 4
V6 == 6
(* Which field of the profile a TLV of the answer is stored in.                           *)
Stored == [type \in {\h15, \h16, \h20, \h21, \h1E, \h27, \h28, \h26, \h25} |->
  CASE type = \h15 -> <<V4, "DnsPrimary">>
    [] type = \h16 -> <<V4, "DnsSecondary">>
    [] type = \h20 -> <<V4, "Gateway">>
    [] type = \h21 -> <<V4, "SubnetMask">>
    [] type = \h1E -> <<V4, "Address">>
    [] type = \h27 -> <<V6, "DnsPrimary">>
    [] type = \h28 -> <<V6, "DnsSecondary">>
    [] type = \h26 -> <<V6, "Gateway">>
    [] type = \h25 -> <<V6, "Address">>]
MtuType == \h29
Settings == {"Address", "Gateway", "SubnetMask", "DnsPrimary", "DnsSecondary", "Mtu"}

(* memset of the family that is asked for; the profile is <<family, setting>> |-> value.   *)
KeepOld(ip, family) == ip
Clear(ip, family) == [at \in DOMAIN ip |-> IF at[1] = family THEN 0 ELSE ip[at]]

(* Both families are stored from one answer; the MTU goes to both.                        *)
Store(ip, msg) ==
  [at \in DOMAIN ip |->
    LET types == IF at[2] = "Mtu" THEN {MtuType}
                 ELSE {t \in DOMAIN Stored : Stored[t] = at}
        found == {t \in types : Found(GetTLV(msg, t))}
    IN IF found = {} THEN ip[at]
       ELSE GetTLV(msg, CHOOSE t \in found : TRUE).value]

GetIPAddress(ip, family, handle, response) ==
  IF handle = 0 \/ response.how # "ok" THEN Clear(ip, family)
  ELSE Store(Clear(ip, family), response.msg)

===============================================================================
