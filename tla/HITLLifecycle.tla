---------------------------- MODULE HITLLifecycle ----------------------------
(***************************************************************************)
(* What the human-in-the-loop approval service promises, whatever database *)
(* stands behind it and however many server processes share it: a request *)
(* is opened once, is settled at most once, and a settlement is final.     *)
(* HITLRouter implements this specification, and so do the approvals of a  *)
(* chat session (ChatAgent), which only its memory keeps.                  *)
(***************************************************************************)
CONSTANT Requests            \* the identifiers (UUIDs) of approval requests

VARIABLE status              \* what the service holds of each request

\* HITLRequestStatus, without "pending".
Settlements == {"approved", "rejected", "cancelled", "expired"}

\* A human settles a request in one of these ways; "expired" is the service's own.
HumanSettlements == Settlements \ {"expired"}

\* "absent" is an identifier no request has yet.
RowStates == {"absent", "pending"} \cup Settlements

Init == status = [r \in Requests |-> "absent"]

Open(r) ==
    /\ status[r] = "absent"
    /\ status' = [status EXCEPT ![r] = "pending"]

Settle(r, s) ==
    /\ status[r] = "pending"
    /\ status' = [status EXCEPT ![r] = s]

\* One sweep expires any set of pending requests together.
Expire(S) ==
    /\ \A r \in S : status[r] = "pending"
    /\ status' = [r \in Requests |-> IF r \in S THEN "expired" ELSE status[r]]

Next ==
    \/ \E r \in Requests : Open(r)
    \/ \E r \in Requests, s \in HumanSettlements : Settle(r, s)
    \/ \E S \in SUBSET Requests : Expire(S)

Spec == Init /\ [][Next]_status

=============================================================================
