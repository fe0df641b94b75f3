\* The builds of MCTrafficMapBuilder_dedup.cfg (workload graph with
\* service-node injection, HTTP requests and TCP sent bytes: the bookinfo
\* namespace graph, the node graphs of reviews-v1 and of the reviews service,
\* the getReviews aggregate) and the appender over one row per key and
\* policy.
CONSTANTS
    GraphType = "workload"
    InjectServiceNodes = TRUE
    IncludeIdleEdges = FALSE
    Rates <- MC_RatesHttpTcp
    Namespace = "bookinfo"
    BuildOptions <- GraphBuilds
    Requests <- GraphScenario
SPECIFICATION GraphSpec
INVARIANTS
    TypeOK
    RateConservation
    DestServicesSound
    NoPanic
    NodeTrafficComplete
    IdleEdgesExcluded
    AppenderTypeOK
    MTLSPercentExact
    PrincipalsWithPolicy
    AppenderNoPanic
    AssemblerTypeOK
    AppendersSawEveryEdge
    GeneratorsReceiveNothing
