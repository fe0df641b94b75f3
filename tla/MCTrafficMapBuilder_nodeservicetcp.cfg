\* Node graph of the reviews service, TCP sent bytes only: an unserviced
\* TCP connection is reported by the source proxy alone.
CONSTANTS
    GraphType = "workload"
    InjectServiceNodes = TRUE
    IncludeIdleEdges = FALSE
    Rates <- MC_RatesTcp
    Namespace = "bookinfo"
    BuildOptions <- ServiceTargets
    Requests <- ServiceTcpScenario
SPECIFICATION Spec
INVARIANT NodeTrafficComplete
