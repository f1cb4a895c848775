----------------------------- MODULE MCPipeline -----------------------------
EXTENDS Pipeline

CONSTANTS full, article, gauge

\* Which trigger each run is; a configuration uses some of these runs.
RunKind == [r \in Run |-> CASE r = full    -> "incident"
                            [] r = article -> "evidence"
                            [] r = gauge   -> "observation"]
=============================================================================
