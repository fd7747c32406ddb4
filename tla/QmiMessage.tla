------------------------------ MODULE QmiMessage ------------------------------
(* How the QMI requests of src/MobileServer/src/QMIThread.c are put together and    *)
(* how an answer is taken apart: messages are headers followed by type-length-value *)
(* fields, written through packed structs (include/Gobi4G/MPQMI.h and MPQMUX.h) or  *)
(* at offsets the composer adds up, and read by GetTLV, which goes from one field   *)
(* to the next by the lengths it finds.  Text is abstracted to its length; offsets  *)
(* count from the type of the QMUX message.                                         *)
EXTENDS Integers, Sequences

(* Sizes in bytes of the basic types and of the packed headers.                     *)
UCHAR == 1
USHORT == 2
ULONG == 4
QCQMI_HDR == UCHAR + USHORT + 3 * UCHAR
QCQMUX_HDR == UCHAR + USHORT
QCQMUX_MSG_HDR == 2 * USHORT
QMI_TLV_HDR == UCHAR + USHORT
WDM_DEFAULT_BUFSIZE == 256

(* And of the packed structs that are whole requests: a header and one field.        *)
RequestSize(size) == QCQMUX_MSG_HDR + QMI_TLV_HDR + size
QMIWDS_START_NETWORK_INTERFACE_REQ_MSG == QCQMUX_MSG_HDR
QMIWDS_STOP_NETWORK_INTERFACE_REQ_MSG == RequestSize(ULONG)
QMIWDS_SET_CLIENT_IP_FAMILY_PREF_REQ_MSG == RequestSize(UCHAR)
QMIWDS_SET_AUTO_CONNECT_REQ_MSG == RequestSize(UCHAR)
QMIWDS_GET_RUNTIME_SETTINGS_REQ_MSG == RequestSize(ULONG)
QMIWDS_MODIFY_PROFILE_SETTINGS_REQ_MSG == RequestSize(2 * UCHAR)
QMIWDS_GET_PROFILE_SETTINGS_REQ_MSG == RequestSize(2 * UCHAR)
QMIDMS_SET_OPERATING_MODE_REQ_MSG == RequestSize(UCHAR)
QMIDMS_UIM_VERIFY_PIN_REQ_MSG == RequestSize(3 * UCHAR)
QMIUIM_VERIFY_PIN_REQ_MSG == RequestSize(2 * UCHAR) + QMI_TLV_HDR + 3 * UCHAR

Null == -1                       \* a text that is not given
Text == Nat \cup {Null}
Given(text) == text # Null
IsEmpty(text) == text \in {Null, 0}

(* A field at an offset, and a message: its fields in the order they are written and *)
(* the size its composer returns.                                                    *)
Field(at, type, len, value) == [at |-> at, type |-> type, len |-> len, value |-> value]

NoFields == [fields |-> <<>>, end |-> QCQMUX_MSG_HDR]

(* The next field where the last one ended: TLVLength grows by its length and header. *)
PutWithoutHeader(msg, type, len, value) ==
  [fields |-> Append(msg.fields, Field(msg.end, type, len, value)),
   end |-> msg.end + len]
Put(msg, type, len, value) ==
  [fields |-> Append(msg.fields, Field(msg.end, type, len, value)),
   end |-> msg.end + QMI_TLV_HDR + len]

PutIf(condition, msg, type, len, value) ==
  IF condition THEN Put(msg, type, len, value) ELSE msg

(* A message that is one packed struct: its fields are where the struct has them.     *)
Struct(fields, size) == [fields |-> fields, end |-> size]
OneField(type, len, value, size) ==
  Struct(<<Field(QCQMUX_MSG_HDR, type, len, value)>>, size)

-------------------------------------------------------------------------------
(* The composers.  A profile has the texts apn, user and password, and the numbers    *)
(* auth, pdp and curIpFamily.                                                         *)

CtnetUser == 15                  \* "ctnet@mycdma.cn"
CtnetPassword == 9               \* "vnet.mobi"
Chap == 2

(* On CDMA an account that is not given is that of the operator.                      *)
Account(profile, is_cdma) ==
  IF is_cdma /\ IsEmpty(profile.user) /\ IsEmpty(profile.password)
  THEN [user |-> CtnetUser, password |-> CtnetPassword, auth |-> Chap]
  ELSE [user |-> profile.user, password |-> profile.password, auth |-> profile.auth]

WdsStartNwInterfaceReq(profile, is_cdma) ==
  LET account == Account(profile, is_cdma)
      none == Struct(<<>>, QMIWDS_START_NETWORK_INTERFACE_REQ_MSG)
      tech == Put(none, \h30, UCHAR, IF is_cdma THEN 2 ELSE 1)
      apn  == PutIf(Given(profile.apn), tech, \h14, profile.apn, profile.apn)
      user == PutIf(Given(account.user), apn, \h17, account.user, account.user)
      pass == PutIf(Given(account.password), user, \h18, account.password,
                    account.password)
      auth == PutIf(Given(account.user) /\ Given(account.password), pass, \h16, UCHAR,
                    account.auth)
      fam  == Put(auth, \h19, UCHAR, profile.curIpFamily)
  IN PutIf(profile.pdp # 0 /\ ~is_cdma, fam, \h31, UCHAR, profile.pdp)

(* The profile of the modem is addressed by a struct; the rest follows it.            *)
ProfileStruct(profile) ==
  OneField(\h01, 2, profile.pdp, QMIWDS_MODIFY_PROFILE_SETTINGS_REQ_MSG)

WdsModifyProfileSettingsReq(profile) ==
  LET pdp  == Put(ProfileStruct(profile), \h11, UCHAR, 3)
      apn  == PutIf(Given(profile.apn), pdp, \h14, profile.apn, profile.apn)
      user == PutIf(Given(profile.user), apn, \h1B, profile.user, profile.user)
      pass == PutIf(Given(profile.password), user, \h1C, profile.password,
                    profile.password)
  IN PutIf(Given(profile.user) /\ Given(profile.password), pass, \h1D, UCHAR,
           profile.auth)

WdsGetProfileSettingsReqSend(profile) ==
  OneField(\h01, 2, profile.pdp, QMIWDS_GET_PROFILE_SETTINGS_REQ_MSG)
WdsStopNwInterfaceReq(handle) ==
  OneField(\h01, 4, handle, QMIWDS_STOP_NETWORK_INTERFACE_REQ_MSG)
WdsSetClientIPFamilyPref(family) ==
  OneField(\h01, 1, family, QMIWDS_SET_CLIENT_IP_FAMILY_PREF_REQ_MSG)
WdsSetAutoConnect(setting) ==
  OneField(\h01, 1, setting, QMIWDS_SET_AUTO_CONNECT_REQ_MSG)
DmsSetOperatingModeReq(mode) ==
  OneField(\h01, 1, mode, QMIDMS_SET_OPERATING_MODE_REQ_MSG)
WdsGetRuntimeSettingReq(mask) ==
  OneField(\h10, 4, mask, QMIWDS_GET_RUNTIME_SETTINGS_REQ_MSG)

(* Three structs, each behind the one before.                                         *)
TLV_QOS == QMI_TLV_HDR + UCHAR
TLV_DATA_FORMAT == QMI_TLV_HDR + ULONG
WdaSetDataFormat(link) ==
  Struct(<<Field(QCQMUX_MSG_HDR, \h10, 1, 0),
           Field(QCQMUX_MSG_HDR + TLV_QOS, \h11, 4, link),
           Field(QCQMUX_MSG_HDR + TLV_QOS + TLV_DATA_FORMAT, \h13, 4, 0)>>,
         QCQMUX_MSG_HDR + TLV_QOS + TLV_DATA_FORMAT + TLV_DATA_FORMAT)

(* The structs of the PIN requests hold the first character of the PIN.               *)
DmsUIMVerifyPinReqSend(pin) ==
  OneField(\h01, 2 + pin, pin, QMIDMS_UIM_VERIFY_PIN_REQ_MSG + (pin - 1))

UimVerifyPinReqSend(pin) ==
  Struct(<<Field(QCQMUX_MSG_HDR, \h01, 2, 0),
           Field(QCQMUX_MSG_HDR + QMI_TLV_HDR + 2 * UCHAR, \h02, 2 + pin, pin)>>,
         QMIUIM_VERIFY_PIN_REQ_MSG + (pin - 1))

(* The lengths ComposeQMUXMsg writes into the two headers, and the bytes it copies      *)
(* out of its buffer; none without a client.  A message without fields has a header.   *)
ComposeQMUXMsg(client, msg) ==
  IF client = 0 THEN [mux |-> 0, qmi |-> 0, copied |-> 0]
  ELSE LET mux == msg.end - QCQMUX_MSG_HDR
           qmi == mux + QCQMUX_MSG_HDR + QCQMUX_HDR + QCQMI_HDR - 1
       IN [mux |-> mux, qmi |-> qmi, copied |-> qmi + 1]

-------------------------------------------------------------------------------
(* GetTLV.                                                                             *)

(* Where no field begins, the walk reads the middle of one.                            *)
Astray == Field(-1, -1, 0, Null)
NotFound == Astray

(* What the walk over the message sees, from the first field to where less than a       *)
(* header is left.  A field that claims more than is left makes Length, a USHORT, wrap.  *)
Begins(msg, at) == {i \in DOMAIN msg.fields : msg.fields[i].at = at}

Walk(msg) ==
  LET from[at \in Nat] ==
        IF msg.end - at < QMI_TLV_HDR THEN <<>>
        ELSE IF Begins(msg, at) = {} THEN <<Astray>>
        ELSE LET field == msg.fields[CHOOSE i \in Begins(msg, at) : TRUE]
                 next  == at + QMI_TLV_HDR + field.len
             IN <<field>> \o (IF next > msg.end THEN <<Astray>> ELSE from[next])
  IN from[QCQMUX_MSG_HDR]

(* The first field of the type; above 0x1000 the type is an index.                      *)
FirstMatch(walk, Match(_)) ==
  LET i == CHOOSE i \in DOMAIN walk :
             Match(i) /\ \A j \in DOMAIN walk : Match(j) => i <= j IN walk[i]

GetTLV(msg, type) ==
  LET walk == Walk(msg)
      Match(i) == IF type > \h1000 THEN i + \h1000 = type ELSE walk[i].type = type
  IN IF \E i \in DOMAIN walk : Match(i) THEN FirstMatch(walk, Match) ELSE NotFound

-------------------------------------------------------------------------------
(* A message is tiled if its fields follow one another from the header to the end.      *)
End(field) == field.at + QMI_TLV_HDR + field.len
Tiled(msg) ==
  LET n == Len(msg.fields) IN
  /\ msg.end = IF n = 0 THEN QCQMUX_MSG_HDR ELSE End(msg.fields[n])
  /\ n > 0 => msg.fields[1].at = QCQMUX_MSG_HDR
  /\ \A i \in 1..(n - 1) : msg.fields[i + 1].at = End(msg.fields[i])

===============================================================================
