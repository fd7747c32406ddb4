SPECIFICATION FairSpec
CONSTANTS
  Users = {u1}
  Workers = {w1}
  Handles = 2
  MaxEvents = 1
  Outcomes = {"error", "fail", "phantom", "unclear", "suspended"}
INVARIANTS
  ReconnectIsWished
  HandleIsKnown
  NoForgottenDrop
PROPERTIES
  DisconnectEndsCall
  DroppedCallComesBack
