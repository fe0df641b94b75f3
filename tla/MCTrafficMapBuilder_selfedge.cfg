\* Versionless app graph: v1->v2 and v2->v2 of one app share the self edge.
CONSTANTS
    GraphType = "app"
    InjectServiceNodes = FALSE
    IncludeIdleEdges = FALSE
    Rates <- MC_RatesHttp
    Namespace = "bookinfo"
    BuildOptions <- NamespaceBuilds
    Requests <- SelfEdgeScenario
SPECIFICATION Spec
INVARIANT RateConservation
