------------------------------- MODULE Outbox -------------------------------
(***************************************************************************)
(* What the approval queue promises, without handlers, locks or restarts.  *)
(*                                                                         *)
(* A proposal is stored once as pending and settles once.  The phone takes *)
(* a message only after consent was given for it, and never again once the *)
(* proposal was recorded as sent or failed.  A proposal is recorded as     *)
(* sent only if the phone took it.                                         *)
(*                                                                         *)
(* The promise is as strong as the code: a denied proposal may still be    *)
(* taken, because approvals.deny does not wait for a send in progress.     *)
(***************************************************************************)
EXTENDS Naturals

CONSTANT Ids   \* proposals

VARIABLES
  status,      \* status[i]: the status column of proposal i, or "absent"
  taken,       \* taken[i]: how many times the phone took message i
  consented    \* proposals somebody asked to be sent

vars == <<status, taken, consented>>

Terminal == {"sent", "failed", "denied"}

Init ==
  /\ status = [i \in Ids |-> "absent"]
  /\ taken = [i \in Ids |-> 0]
  /\ consented = {}

Propose(i) ==
  /\ status[i] = "absent"
  /\ status' = [status EXCEPT ![i] = "pending"]
  /\ UNCHANGED <<taken, consented>>

Consent(i) ==
  /\ consented' = consented \union {i}
  /\ UNCHANGED <<status, taken>>

Transmit(i) ==
  /\ i \in consented
  /\ status[i] \in {"pending", "denied"}
  /\ taken' = [taken EXCEPT ![i] = @ + 1]
  /\ UNCHANGED <<status, consented>>

Settle(i, s) ==
  /\ status[i] = "pending"
  /\ s = "sent" => taken[i] > 0
  /\ s = "failed" => i \in consented
  /\ status' = [status EXCEPT ![i] = s]
  /\ UNCHANGED <<taken, consented>>

Next == \E i \in Ids :
  \/ Propose(i)
  \/ Consent(i)
  \/ Transmit(i)
  \/ \E s \in Terminal : Settle(i, s)

Spec == Init /\ [][Next]_vars
=============================================================================
