------------------------------- MODULE QmiCall --------------------------------
(* What QmiThreadSendQMI promises a thread that issues requests one at a time:    *)
(* every request gets its own response, at most once, or fails, and the call      *)
(* ends.  It knows nothing of slots, transaction ids, timers or the modem.        *)
EXTENDS Naturals

CONSTANT MaxRequests

VARIABLE status   \* of each request: new -> open -> answered or failed

Ids == 1..MaxRequests

Init == status = [i \in Ids |-> "new"]

(* A request is issued when the one before it has ended. *)
Open(i) ==
  /\ status[i] = "new"
  /\ \A j \in Ids : IF j < i THEN status[j] \in {"answered", "failed"}
                             ELSE status[j] = "new"
  /\ status' = [status EXCEPT ![i] = "open"]

Answer(i) ==
  /\ status[i] = "open"
  /\ status' = [status EXCEPT ![i] = "answered"]

Fail(i) ==
  /\ status[i] = "open"
  /\ status' = [status EXCEPT ![i] = "failed"]

Next == \E i \in Ids : Open(i) \/ Answer(i) \/ Fail(i)

Fairness == \A i \in Ids : WF_status(Answer(i) \/ Fail(i))

Spec == Init /\ [][Next]_status /\ Fairness

===============================================================================
