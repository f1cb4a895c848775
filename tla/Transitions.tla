---------------------------- MODULE Transitions ----------------------------
(***************************************************************************)
(* The two status columns of a report: how the verification status may     *)
(* change, and what a decision or an evaluation makes of the processing    *)
(* status.                                                                 *)
(***************************************************************************)
Terminal == {"VERIFIED", "REJECTED", "DUPLICATE"}
Target   == Terminal \cup {"UNDER_REVIEW"}
Ready    == {"READY", "PARTIAL", "PENDING", "FAILED"}

\* Mutant: only the way back to PENDING is closed.
Allowed_Any(status) == Target

\* The transition table.
Allowed(status) == CASE status = "PENDING"      -> Target
                     [] status = "UNDER_REVIEW" -> Terminal
                     [] status \in Terminal     -> {}

\* What a decision makes of the processing status.
ProcessingFor(target) == CASE target = "VERIFIED"     -> "COMPLETED"
                           [] target = "UNDER_REVIEW" -> "IN_PROGRESS"
                           [] OTHER                   -> "CLOSED"

\* What an evaluation makes of it, by the readiness it ends with.
ProcessingOf(ready) == CASE ready = "READY"   -> "COMPLETED"
                         [] ready = "PARTIAL" -> "PARTIAL_INTELLIGENCE"
                         [] ready = "FAILED"  -> "FAILED"
                         [] OTHER             -> "PROCESSING"
=============================================================================
