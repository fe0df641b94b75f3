\* Both proxies report one request, each row carrying its own pod label.
CONSTANTS
    GraphType = "workload"
    InjectServiceNodes = TRUE
    IncludeIdleEdges = FALSE
    Rates <- MC_RatesHttp
    Namespace = "bookinfo"
    BuildOptions <- NamespaceBuilds
    Requests <- PodLabelScenario
SPECIFICATION Spec
INVARIANT RateConservation
