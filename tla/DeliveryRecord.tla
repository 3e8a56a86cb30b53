--------------------------- MODULE DeliveryRecord ---------------------------
(***************************************************************************)
(* What the README promises of webhook deliveries: each event has one      *)
(* delivery record per endpoint, created PENDING, and it ends SUCCESS or   *)
(* FAILED.  A record that has ended does not change any more.              *)
(***************************************************************************)
CONSTANT Deliveries

VARIABLE record   \* "none" before the row exists

Init == record = [d \in Deliveries |-> "none"]

Create(d) ==
  /\ record[d] = "none"
  /\ record' = [record EXCEPT ![d] = "PENDING"]

End(d, status) ==
  /\ record[d] = "PENDING"
  /\ record' = [record EXCEPT ![d] = status]

Next ==
  \E d \in Deliveries : Create(d) \/ End(d, "SUCCESS") \/ End(d, "FAILED")

Safety == Init /\ [][Next]_record

\* A record that exists ends, one way or the other.
Spec ==
  /\ Safety
  /\ \A d \in Deliveries :
       WF_record(End(d, "SUCCESS") \/ End(d, "FAILED"))
=============================================================================
