------------------------------ MODULE EventLog ------------------------------
(***************************************************************************)
(* What webhook-ingest promises to the sender of a webhook and to the      *)
(* readers of the bucket, with no Lambda, no S3 and no retry in sight: a   *)
(* log of recorded requests that only grows, and one reply per request.    *)
(* "stored" is only said of a recorded request, a "rejected" request is    *)
(* never recorded, and "failed" leaves both possibilities open, also       *)
(* later.                                                                  *)
(***************************************************************************)
CONSTANT Request

VARIABLES recorded, reply

logVars == <<recorded, reply>>

LogTypeOK == /\ recorded \subseteq Request
             /\ reply \in [Request -> {"none", "stored", "rejected", "failed"}]

LogInit == /\ recorded = {}
           /\ reply = [r \in Request |-> "none"]

Record(r) == /\ r \notin recorded
             /\ reply[r] \in {"none", "failed"}
             /\ recorded' = recorded \cup {r}
             /\ UNCHANGED reply

Answer(r, verdict) == /\ reply[r] = "none"
                      /\ reply' = [reply EXCEPT ![r] = verdict]
                      /\ UNCHANGED recorded

Acknowledge(r) == r \in recorded /\ Answer(r, "stored")

Reject(r) == r \notin recorded /\ Answer(r, "rejected")

Fail(r) == Answer(r, "failed")

LogNext == \E r \in Request : Record(r) \/ Acknowledge(r) \/ Reject(r) \/ Fail(r)

LogSpec == LogInit /\ [][LogNext]_logVars

=============================================================================
