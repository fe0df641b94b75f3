\* The bookinfo namespace graph, idle edges excluded, over one request whose
\* rate lies between zero and promQuery's rounding step.
CONSTANTS
    GraphType = "workload"
    InjectServiceNodes = TRUE
    IncludeIdleEdges = FALSE
    Rates <- MC_RatesHttp
    Namespace = "bookinfo"
    BuildOptions <- NamespaceBuilds
    Requests <- SparseScenario
SPECIFICATION Spec
INVARIANT IdleEdgesExcluded
