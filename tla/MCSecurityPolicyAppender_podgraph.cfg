\* A pod graph: rows reported by the reviews-v1 pod, whose edge from the
\* reviews service carries the pod's ID.
CONSTANTS
    GraphType = "pod"
    InjectServiceNodes = TRUE
    Rates <- MC_Rates
    Namespace = "bookinfo"
    TrafficEdges <- PodMapEdges
    TimeSeries <- PodSeries
SPECIFICATION Spec
INVARIANT PrincipalsWithPolicy
