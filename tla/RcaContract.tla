----------------------------- MODULE RcaContract -----------------------------
(***************************************************************************)
(* What InvestigateIncident promises its caller and the history store,     *)
(* whatever mirador-core, Weaviate and the cache do: every request is      *)
(* answered once; one attempt to keep a record is made, before the answer  *)
(* and only by an investigation that will succeed; an investigation that   *)
(* fails or is refused leaves no record, not even a late one.              *)
(***************************************************************************)
CONSTANT Rpcs

VARIABLES
    status,  \* status[r]: how far the request is
    record   \* record[r]: "none", "sent" (still on its way) or "kept"

cvars == <<status, record>>

CInit ==
    /\ status = [r \in Rpcs |-> "idle"]
    /\ record = [r \in Rpcs |-> "none"]

Accept(r) ==
    /\ status[r] = "idle"
    /\ status' = [status EXCEPT ![r] = "running"]
    /\ UNCHANGED record

Reject(r) ==
    /\ status[r] = "idle"
    /\ status' = [status EXCEPT ![r] = "invalid"]
    /\ UNCHANGED record

Fail(r) ==
    /\ status[r] = "running"
    /\ status' = [status EXCEPT ![r] = "internal"]
    /\ UNCHANGED record

\* The one attempt to keep the result.
Keep(r) ==
    /\ status[r] = "running"
    /\ status' = [status EXCEPT ![r] = "closing"]
    /\ \E how \in {"none", "sent", "kept"} : record' = [record EXCEPT ![r] = how]

Succeed(r) ==
    /\ status[r] = "closing"
    /\ status' = [status EXCEPT ![r] = "ok"]
    /\ UNCHANGED record

\* The store takes or refuses a record that was still on its way.
Arrive(r) ==
    /\ record[r] = "sent"
    /\ \E how \in {"none", "kept"} : record' = [record EXCEPT ![r] = how]
    /\ UNCHANGED status

CNext == \E r \in Rpcs : Accept(r) \/ Reject(r) \/ Fail(r) \/ Keep(r)
                          \/ Succeed(r) \/ Arrive(r)

CSpec == CInit /\ [][CNext]_cvars

=============================================================================
