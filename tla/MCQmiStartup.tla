----------------------------- MODULE MCQmiStartup -----------------------------
(* An instance of QmiStartup for TLC: a complete modem and a device of another      *)
(* vendor whose node has a name the fallback takes.                                 *)
EXTENDS QmiStartup

MCDevices == {
  [modem |-> TRUE, at4 |-> TRUE, net |-> "usb2", node |-> "qcqmi2"],
  [modem |-> FALSE, at4 |-> FALSE, net |-> "eth2", node |-> "cdc-wdm0"]}

MCServices == <<"WDS", "NAS">>

===============================================================================
