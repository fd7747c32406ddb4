------------------------------ MODULE LineStream ------------------------------
(* What a serial port promises its readers: text is a queue.  Each read takes a     *)
(* part from its front, and nothing else removes, repeats or reorders text.         *)
EXTENDS Naturals, Sequences

CONSTANT Clients
VARIABLES
  unread,   \* text on its way to a reader
  taken     \* per client: the text of its last read

Init == unread = <<>> /\ taken = [c \in Clients |-> <<>>]

Say ==
  /\ Len(unread') >= Len(unread)
  /\ SubSeq(unread', 1, Len(unread)) = unread
  /\ UNCHANGED taken

Take(c) ==
  \E n \in 0..Len(unread) :
    /\ taken' = [taken EXCEPT ![c] = SubSeq(unread, 1, n)]
    /\ unread' = SubSeq(unread, n + 1, Len(unread))

Next == Say \/ \E c \in Clients : Take(c)

Spec == Init /\ [][Next]_<<unread, taken>>

===============================================================================
