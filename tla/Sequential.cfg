SPECIFICATION Spec
CONSTANTS
  Requests <- MCRequests
  LeftBehind <- MCLeftBehind
  MaxCalls = 6
  Profiles <- MCProfiles
  PinLengths <- MCPinLengths
  Numbers <- MCNumbers
  Messages <- MCMessages
INVARIANTS
  RequestsAreWellFormed
  SimWaysAgree
  CdmaCodesAreDecoded
  NoStaleAddress
  SmsIsReadBack
  ConfiguredAsAsked
CHECK_DEADLOCK FALSE
