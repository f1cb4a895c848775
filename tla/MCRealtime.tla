----------------------------- MODULE MCRealtime -----------------------------
EXTENDS Realtime, TLC

CONSTANTS created, changed, ready

\* A report, an operator's decision about it, and its evaluation.
KindOf == created :> "report.created" @@ changed :> "report.verification_changed"
            @@ ready :> "report.intelligence_ready"
MCKind == [e \in Event |-> KindOf[e]]
=============================================================================
