---------------------------- MODULE NodeIdentity ----------------------------
(***************************************************************************)
(* Node identity resolution of the traffic graph (src/graph/types.go).    *)
(*                                                                         *)
(* Id maps a label tuple to a node ID and node type; NewNodeExplicit       *)
(* builds the node, trimming coordinates according to its type.  Labels    *)
(* are atoms (strings without "_" or ":"), so the Sprintf of an ID is      *)
(* modelled by the tuple of its parts: the ID "wl_c_ns_w" is the tuple     *)
(* <<"wl", c, ns, w>>.  Two IDs are equal exactly when the tuples are.     *)
(***************************************************************************)
EXTENDS Naturals

Unknown            == "unknown"
PassthroughCluster == "PassthroughCluster"
BlackHoleCluster   == "BlackHoleCluster"
IngressNginx       == "ingress-nginx"

GraphTypeApp          == "app"
GraphTypeService      == "service"
GraphTypeVersionedApp == "versionedApp"
GraphTypeWorkload     == "workload"
GraphTypePod          == "pod"

NodeTypeApp      == "app"
NodeTypeService  == "service"
NodeTypeUnknown  == "unknown"
NodeTypeWorkload == "workload"
NodeTypePod      == "pod"
NodeTypeAggregate == "aggregate"

\* graph.IsOK / graph.IsOKVersion (graph/util, not under src/): a label is
\* usable when it is set and not Istio's "unknown".
IsOK(s) == s \notin {"", Unknown}
IsOKVersion(v) == IsOK(v)

\* Id panics ("Failed ID gen1/gen2") when no identity can be formed.
IdPanic == [id |-> <<"panic">>, nodeType |-> "panic"]

IdRes(id, t) == [id |-> id, nodeType |-> t]

\* "prefer the workload namespace"
PreferredNamespace(serviceNamespace, workloadNamespace) ==
    IF IsOK(workloadNamespace) THEN workloadNamespace ELSE serviceNamespace

\* mutant: a versioned-app graph prefers the app+version key to the workload
IdVersionFirst(cluster, serviceNamespace, service, workloadNamespace, workload, app, version, graphType, pod) ==
  LET ns         == PreferredNamespace(serviceNamespace, workloadNamespace)
      workloadOk == IsOK(workload)
      appOk      == IsOK(app)
      serviceOk  == IsOK(service)
      podOk      == IsOK(pod)
      wlGraph    == graphType \in {GraphTypeWorkload, GraphTypeService}
  IN
  IF Unknown = ns /\ Unknown = workload /\ Unknown = app /\ service = ""
    THEN IdRes(<<cluster, "unknown_source">>, NodeTypeUnknown)
  ELSE IF Unknown = workload /\ Unknown = app /\ Unknown = service
    THEN IdRes(<<"svc", cluster, ns, Unknown>>, NodeTypeService)
  ELSE IF graphType = GraphTypePod /\ podOk
    THEN IdRes(<<"pod", cluster, ns, pod>>, NodeTypePod)
  ELSE IF graphType = GraphTypePod /\ workloadNamespace # IngressNginx
    THEN IdRes(<<"svc", cluster, ns, service>>, NodeTypeService)
  ELSE IF graphType = GraphTypePod /\ workloadOk
    THEN IdRes(<<"vapp", cluster, ns, workload>>, NodeTypeApp)
  ELSE IF ~workloadOk /\ ~appOk /\ ~serviceOk
    THEN IdPanic
  ELSE IF wlGraph /\ ~workloadOk /\ ~serviceOk
    THEN IdPanic
  ELSE IF wlGraph /\ ~workloadOk
    THEN IdRes(<<"svc", cluster, ns, service>>, NodeTypeService)
  ELSE IF wlGraph
    THEN IdRes(<<"wl", cluster, ns, workload>>, NodeTypeWorkload)
  ELSE IF appOk /\ graphType = GraphTypeVersionedApp /\ IsOKVersion(version)
    THEN IdRes(<<"vapp", cluster, ns, app, version>>, NodeTypeApp)
  ELSE IF appOk /\ graphType = GraphTypeVersionedApp /\ workloadOk
    THEN IdRes(<<"vapp", cluster, ns, workload>>, NodeTypeApp)
  ELSE IF appOk
    THEN IdRes(<<"app", cluster, ns, app>>, NodeTypeApp)
  ELSE IF workloadOk
    THEN IdRes(<<"wl", cluster, ns, workload>>, NodeTypeWorkload)
  ELSE IdRes(<<"svc", cluster, ns, service>>, NodeTypeService)

(***************************************************************************)
(* graph.Id: the decision list is first-match, so it is an IF chain.       *)
(***************************************************************************)
Id(cluster, serviceNamespace, service, workloadNamespace, workload, app, version, graphType, pod) ==
  LET ns         == PreferredNamespace(serviceNamespace, workloadNamespace)
      workloadOk == IsOK(workload)
      appOk      == IsOK(app)
      serviceOk  == IsOK(service)
      podOk      == IsOK(pod)
      wlGraph    == graphType \in {GraphTypeWorkload, GraphTypeService}
  IN
  IF Unknown = ns /\ Unknown = workload /\ Unknown = app /\ service = ""
    THEN IdRes(<<cluster, "unknown_source">>, NodeTypeUnknown)
  ELSE IF Unknown = workload /\ Unknown = app /\ Unknown = service
    THEN IdRes(<<"svc", cluster, ns, Unknown>>, NodeTypeService)
  ELSE IF graphType = GraphTypePod /\ podOk
    THEN IdRes(<<"pod", cluster, ns, pod>>, NodeTypePod)
  ELSE IF graphType = GraphTypePod /\ workloadNamespace # IngressNginx
    THEN IdRes(<<"svc", cluster, ns, service>>, NodeTypeService)
  ELSE IF graphType = GraphTypePod /\ workloadOk
    THEN IdRes(<<"vapp", cluster, ns, workload>>, NodeTypeApp)
  ELSE IF ~workloadOk /\ ~appOk /\ ~serviceOk
    THEN IdPanic
  ELSE IF wlGraph /\ ~workloadOk /\ ~serviceOk
    THEN IdPanic
  ELSE IF wlGraph /\ ~workloadOk
    THEN IdRes(<<"svc", cluster, ns, service>>, NodeTypeService)
  ELSE IF wlGraph
    THEN IdRes(<<"wl", cluster, ns, workload>>, NodeTypeWorkload)
  ELSE IF appOk /\ graphType = GraphTypeVersionedApp /\ workloadOk
    THEN IdRes(<<"vapp", cluster, ns, workload>>, NodeTypeApp)
  ELSE IF appOk /\ graphType = GraphTypeVersionedApp /\ IsOKVersion(version)
    THEN IdRes(<<"vapp", cluster, ns, app, version>>, NodeTypeApp)
  ELSE IF appOk
    THEN IdRes(<<"app", cluster, ns, app>>, NodeTypeApp)
  ELSE IF workloadOk
    THEN IdRes(<<"wl", cluster, ns, workload>>, NodeTypeWorkload)
  ELSE IdRes(<<"svc", cluster, ns, service>>, NodeTypeService)

(***************************************************************************)
(* graph.NewNodeExplicit: the node's coordinates, trimmed by node type,    *)
(* and the IsEgressCluster metadata flag of the Passthrough/BlackHole      *)
(* service nodes.                                                          *)
(***************************************************************************)
NewNodeExplicit(id, cluster, namespace, workload, app, version, service, nodeType, graphType, pod) ==
  LET isApp == nodeType = NodeTypeApp
      isSvc == nodeType = NodeTypeService
      isWl  == nodeType = NodeTypeWorkload
      isPod == nodeType = NodeTypePod
      podGraph == isPod /\ graphType = GraphTypePod
      keepWl ==
        ~(isApp /\ graphType # GraphTypeVersionedApp) /\ ~isSvc
        /\ ~(podGraph /\ namespace # IngressNginx)
      keepVer ==
        ~(isApp /\ graphType # GraphTypeVersionedApp) /\ ~isSvc
        /\ ~(isWl /\ version = Unknown) /\ ~podGraph
  IN [id        |-> id,
      nodeType  |-> nodeType,
      cluster   |-> cluster,
      namespace |-> namespace,
      workload  |-> IF keepWl THEN workload ELSE "",
      app       |-> IF isSvc \/ (isWl /\ app = Unknown) THEN "" ELSE app,
      version   |-> IF keepVer THEN version ELSE "",
      service   |-> IF isApp \/ isWl \/ isPod THEN "" ELSE service,
      pod       |-> pod,
      isEgressCluster |->
        isSvc /\ service \in {PassthroughCluster, BlackHoleCluster}]


\* graph.NewNode: Id, the preferred namespace, NewNodeExplicit; Id's panic
\* propagates
NewNode(cluster, serviceNamespace, service, workloadNamespace, workload, app, version, graphType, pod) ==
  LET res == Id(cluster, serviceNamespace, service, workloadNamespace, workload,
                app, version, graphType, pod)
  IN IF res = IdPanic THEN IdPanic
     ELSE NewNodeExplicit(res.id, cluster,
                          PreferredNamespace(serviceNamespace, workloadNamespace),
                          workload, app, version, service, res.nodeType,
                          graphType, pod)

\* graph.AggregateID: "agg_<cluster>_<ns>_<aggregate>_<value>", with
\* "_<svcName>" for a service-specific aggregate
AggregateID(cluster, namespace, aggregate, aggregateVal, svcName) ==
    IF svcName = "" THEN <<"agg", cluster, namespace, aggregate, aggregateVal>>
    ELSE <<"agg", cluster, namespace, aggregate, aggregateVal, svcName>>

\* graph.NewAggregateNode / NewAggregateNodeExplicit: an aggregate node keeps
\* the aggregate and its value as metadata
NewAggregateNode(cluster, namespace, aggregate, aggregateValue, svcName, app) ==
    [id |-> AggregateID(cluster, namespace, aggregate, aggregateValue, svcName),
     nodeType |-> NodeTypeAggregate, cluster |-> cluster,
     namespace |-> namespace, workload |-> "", app |-> app, version |-> "",
     service |-> svcName, pod |-> "", isEgressCluster |-> FALSE,
     aggregate |-> aggregate, aggregateValue |-> aggregateValue]

=============================================================================
