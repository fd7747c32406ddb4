----------------------------- MODULE MCSequential -----------------------------
(* An instance of Sequential: arguments of the port and settings other programs left     *)
(* behind, and the cases of the computations, with empty, odd and long texts.             *)
EXTENDS Sequential

MCRequests ==
  {[chars |-> 3, size |-> "8", parity |-> "N", stop |-> "1", rtscts |-> FALSE, baud |-> 115200],
   [chars |-> 3, size |-> "7", parity |-> "E", stop |-> "2", rtscts |-> TRUE, baud |-> -1],
   [chars |-> 3, size |-> "6", parity |-> "O", stop |-> "1", rtscts |-> FALSE, baud |-> 9600],
   [chars |-> 3, size |-> "5", parity |-> "N", stop |-> "1", rtscts |-> FALSE, baud |-> -1],
   [chars |-> 2, size |-> "8", parity |-> "N", stop |-> "1", rtscts |-> FALSE, baud |-> -1]}

MCLeftBehind ==
  {[size |-> "8", parenb |-> FALSE, parodd |-> FALSE, cstopb |-> FALSE,
    crtscts |-> FALSE, clocal |-> FALSE, iflag |-> {"ICRNL"}, cooked |-> TRUE,
    speed |-> 9600],
   [size |-> "5", parenb |-> TRUE, parodd |-> TRUE, cstopb |-> TRUE, crtscts |-> TRUE,
    clocal |-> TRUE, iflag |-> {}, cooked |-> FALSE, speed |-> 115200]}

MCTexts == {Null, 0, 1, 60}
MCProfiles == [apn : MCTexts, user : MCTexts, password : MCTexts, auth : {0, 3},
               pdp : {0, 1}, curIpFamily : {V4, V6}]
MCPinLengths == {0, 4, 8}

MCNumbers == [plus : BOOLEAN, digits : {<<1>>, <<1, 0>>, <<8, 6, 1>>, <<0, 0, 4, 4>>,
                <<8, 6, 1, 3, 8, 0, 0, 0, 0, 0, 5, 0, 0>>,
                <<1, 3, 9, 1, 2, 3, 4, 5, 6, 7, 8, 9, 0, 1>>}]
MCPlane == {65, 255, 256, 20320, 65535}
MCMessages == {<<>>} \cup {<<p>> : p \in MCPlane} \cup (MCPlane \X MCPlane)
                \cup {[i \in 1..50 |-> 20320]}

===============================================================================
