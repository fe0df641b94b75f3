\* A request from outside the mesh whose source_service_name is set.
CONSTANTS
    GraphType = "workload"
    InjectServiceNodes = TRUE
    IncludeIdleEdges = FALSE
    Rates <- MC_RatesHttp
    Namespace = "bookinfo"
    BuildOptions <- NamespaceBuilds
    Requests <- UnknownSourceScenario
SPECIFICATION Spec
INVARIANT NoPanic
