\* Two versions of reviews behind one service: the source -> service key
\* receives a mutual_tls rate from each version.
CONSTANTS
    GraphType = "workload"
    InjectServiceNodes = TRUE
    Rates <- MC_Rates
    Namespace = "bookinfo"
    TrafficEdges <- MapEdges
    TimeSeries <- TwoVersionSeries
SPECIFICATION Spec
INVARIANT MTLSPercentExact
