# TLA+ models of Kiali's traffic graph, mTLS status and config checkers

These modules model these parts of this Kiali fork:

- the builder that turns Istio telemetry from Prometheus into a traffic
  graph;
- the mTLS status decision shown for namespaces, the mesh and workloads;
- the Istio configuration checkers and their dispatchers;
- the Kubernetes client's configuration and construction.

The TLC configurations check what these parts must get right. For the
graph, each request is counted once, node graphs miss no traffic of their
node, and the mTLS share of an edge is exact. For mTLS, the status never
contradicts the configuration. For the checkers, they mark exactly the
objects that conflict.

## The system

| Part | Source | State | Operations |
|---|---|---|---|
| Namespace traffic-map build | `src/graph/telemetry/istio/istio.go` 82-466, 923-951 | traffic map (node ID -> node with `tsHash`, `destServices`), edges with `tsHashMap` and rate | buildNamespaceTrafficMap's query plan, promQuery, populateTrafficMap, addTraffic, addEdgeTraffic, addToDestServices, addNode, timeSeriesHash |
| Node and aggregate graph builds | `istio.go` 469-921, `types.go` 265-297 | the same map | buildNodeTrafficMap's query plan per node type and its selectors; buildAggregateNodeTrafficMap's single query; NewAggregateNode, AggregateID |
| Node identity | `src/graph/types.go` 95-264 | none (pure) | NewNode, Id, NewNodeExplicit |
| Security policy appender | `src/graph/telemetry/istio/appender/security_policy.go` | securityPolicyMap, principalMap | appendGraph's queries, populateSecurityPolicyMap, addSecurityPolicy, addPrincipal, applySecurityPolicy |
| mTLS status | `src/util/mtls/status.go` | none (pure) | finalStatus, NamespaceMtlsStatus, MeshMtlsStatus, OverallMtlsStatus, inheritedOverallStatus, WorkloadMtlsStatus |
| Config checkers | `src/business/checkers/destinationrules/multi_match_checker.go`, `virtualservices/single_host_checker.go` | seenHostSubsets / hostCounter, validations | MultiMatchChecker.Check, SingleHostChecker.Check |
| Checker dispatchers | `destination_rules_checker.go`, `service_entry_checker.go` | validations map (key -> checks, valid) | DestinationRulesChecker.Check (runIndividualChecks, runChecks, runGroupChecks), ServiceEntryChecker.Check (runSingleChecks) |
| Graph assembly | `istio.go` 47-77, 467-500, 853-885 | the combined map, node marks | BuildNamespacesTrafficMap's loop (build, appenders, MergeTrafficMaps), MarkOutsideOrInaccessible, MarkTrafficGenerators; BuildNodeTrafficMap, handleAggregateNodeTrafficMap |
| Kubernetes client | `src/kubernetes/client.go` 52-236 | none (pure decision) | ConfigClient, UseRemoteCreds, NewClientFromConfig, newClientForAPI |

Here is how the graph parts interact. A graph request builds a traffic map,
either one per namespace or one for a node. The security-policy appender
then adds mTLS percentages and principals to the map's edges.

- A namespace build issues up to three queries per metric: unserviced,
  incoming and outgoing.
- A node build issues the queries its node type calls for.
- Every row of every result passes through `populateTrafficMap`, which
  resolves the source and destination nodes with graph.Id.
- Istio reports one request from both proxies. `addEdgeTraffic`
  deduplicates the two reports by a per-edge set of series hashes. The
  hash is built from the endpoint nodes' `tsHash` metadata, and `addNode`
  overwrites that metadata on every visit.

The order of the rows is Prometheus' order and is never sorted.

A namespaces request runs this for each requested namespace, in the
order Go iterates the `o.Namespaces` map (random). After the appenders
run on a namespace's map, it is merged into the combined map. Once all
namespaces are merged, outside and inaccessible nodes and traffic
generators are marked on the combined map. A failed Prometheus query
panics out of the whole request.

## Modules

- **`NodeIdentity.tla`** models the node helpers of `types.go`:
  - `Id` is the code's first-match decision list written as an IF chain;
  - `NewNodeExplicit` trims a node's coordinates by node type;
  - `NewNode` combines the two, and Id's panic propagates through it.

  A Sprintf'd ID such as `wl_c_ns_w` is the tuple of its parts. The labels
  used contain no `_`, so two IDs are equal exactly when their tuples are.
  `IsOK` comes from graph/util, which is not under src/, so it is modelled
  from its specification.
- **`TrafficMapBuilder.tla`** models one traffic-map build.
  - `NodeOptions` is the build the behaviour was asked for: a namespace
    build, a node given by workload, app, version or service, or an
    aggregate node (an aggregate label such as `request_operation`, its
    value, and optionally a service). It is chosen in Init from
    `BuildOptions`.
  - `QueryPlan` is the sequence of (metric, query kind) pairs the build
    issues. For a namespace build that is `QueryKinds`. For a node build it
    is `NodeQueryKinds`, by the target's node type:
    - a workload or app node gets an incoming and an outgoing query;
    - a service node gets the unserviced query (requests only), an
      incoming query, and an empty outgoing query.

    The code repeats the two switches in the gRPC-message block, where a
    service node has no unserviced query; that block is
    `NodeMessageQueryKinds`.

    An aggregate build issues `AggregatePlan`, one destination-reported
    requests query whatever the rate selectors (`AggregateSelects`).
  - `Selects` is each query's label selector, including the idle
    condition `PassesIdle`. Rates are naturals in units of 0.0001 per
    second. promQuery wraps every query in `round(..., 0.001)`: the idle
    condition sees the unrounded rate, and the rows are populated with
    `Val(r)`, the rate rounded by `RoundRate`.
  - promQuery is split at its call to Prometheus. `SendQuery` issues a
    non-empty query and the build waits (phase `waiting`). Prometheus then
    answers with `ExecuteQuery`, a result vector that is the selected subset
    of the behaviour's `telemetry`, or with `QueryUnavailable`, the panic
    raised through CheckUnavailable. `EmptyQuery` is `promQuery("")`, which
    returns at once and cannot fail.
  - `PopulateRow(r)` is one iteration of populateTrafficMap's loop. Its
    body is the operator `Populate`, which covers:
    - the skip conditions and the inject decision;
    - `AddTraffic`: two `AddNode` calls, then the pod, injected or direct
      branch through `AddEdgeTraffic` and `AddToDestServices`.
  - Any row of the vector may be applied next, so every order Prometheus
    could return is explored.
  - md5 hashes are tuples of what they hash.
  - The ghost variable `processed` records every row applied. `Logical(r)`
    erases the reporter and the pod, so the two reports of one request have
    the same `Logical`.
- **`GraphAssembler.tla`** models the entry points that assemble the
  returned graph. A build is abstracted to its resulting map, given as
  `NsGraph[ns]` or `NodeGraph[r]`; `TrafficMapBuilder` models the build
  itself. A map is a graph `[node, edge]` as in the community `Graphs`
  module, and an appender is abstracted to the edges it has seen
  (`annotated`).
  - `BuildNamespace(ns)` takes any namespace not yet merged, which models
    Go's map iteration order. `BuildFails(ns)` is the build's panic, which
    ends the request.
  - `RunAppender` runs the next appender of `ParseAppenders(o)` on the
    namespace map. `MergeNamespace` merges it (`MergeTrafficMaps`, a
    `GraphUnion`). A node or aggregate request instead takes its one map
    as the result (`AdoptNodeMap`). An aggregate request adds the
    aggregate-node appender unless all appenders are requested.
  - `MarkAndReturn` applies `MarkOutsideOrInaccessible` and
    `MarkTrafficGenerators` (inside nodes with outgoing edges and no
    incoming edge, as the code's comment says).

  MergeTrafficMaps, the marking passes and ParseAppenders are not under
  src/ and are modelled from the specification (4.5). `MCGraphAssembler`
  requests bookinfo and travel, whose maps share the reviews node.
- **`SecurityPolicyAppender.tla`** models the appender.
  - `Query` evaluates one of the two destination-reported queries (outside
    and inside the namespace). Each is the PromQL OR of one sub-query per
    metric; OR keeps the first sub-query's series for a label set.
  - `PopulateRow` is one row of populateSecurityPolicyMap: its injected
    hops, `AddSecurityPolicy` and `AddPrincipal`.
  - `ApplySecurityPolicy` computes the isMTLS percentage and the principals
    of every edge of a given map.
- **`MtlsStatus.tla`** models the decisions of `status.go`.
  - Peer authentications and destination rules are abstracted to the mode
    that the kubernetes helpers (not under src/) report for them.
  - `FirstMode` is the scan for the first object that sets a mode.
  - The mutual recursion of `OverallMtlsStatus` and `inheritedOverallStatus`
    is written as a `RECURSIVE` pair.
  - `WorkloadStatusFrom` is WorkloadMtlsStatus's loop over peer
    authentications. `ServiceDRs` gives the destination rules of the
    services a selector picks.
- **`MultiMatchChecker.tla`** models one pass of the destination-rule loop.
  It keeps `seenHostSubsets` as a set of (host key, subset, rule) triples.
  `ComparedHosts` gives the entries a rule is compared with:
  - every host seen so far, when the rule's host is a wildcard;
  - the namespace wildcard entry;
  - the rule's own host.
- **`SingleHostChecker.tla`** models Check in two phases:
  - `StoreHosts` is one iteration of the storeHost loop. `hostCounter`
    keeps duplicates, because the code's lists do.
  - `CheckCounters` is the nested loop over the counters. Its result does
    not depend on Go's map order.
  - `SingleHostExact` says that exactly the virtual services in conflict
    with another one are marked. A virtual service with the wildcard and
    another host of its namespace violates it (`singlehost_self`).
- **`ObjectCheckers.tla`** models the two dispatchers. Each runs its
  per-object checkers on every object of the list, appending their checks
  and and-ing their verdicts. The destination-rule one then runs its group
  checkers and merges their validations into the per-object ones. With
  auto mTLS, the two mTLS checkers and TrafficPolicy are not run. The
  checkers themselves are not under src/, so each is abstracted to what it
  returns for an object: nothing, a warning or an error, chosen at the
  step. `MergeValidations` is not under src/ either; it is modelled as the
  merge the specification calls a union: a key in both maps keeps both
  checks and is valid only if both are. `reported` is a history of what
  every checker returned, so that the result can be compared with it.
- **`KubeClient.tla`** models `ConfigClient` and `UseRemoteCreds` of
  `client.go`: which of the remote secret, the kubeconfig and the in-cluster
  configuration is used, the HTTPS and port parsing of the remote server
  URL, and the QPS/Burst assignment. The loaders (`clientcmd`, `rest`) are
  outside src/ and are modelled by their success flag. Go's scoping is kept:
  `else if _, err := os.Stat(...)` declares a new `err`, so the check after
  the chain reads the outer one.
  `NewClientFromConfig` and `newClientForAPI` are modelled too. The four
  client-go constructors are modelled by an outcome flag each, and a
  clientset they build by its name. A nil `*K8SClient` is `NilClient`, a
  record with the fields of a real client so that the two compare. The
  impersonation is copied to the iter8 REST client only when it names a
  user, as the code does.
- **MC modules** instantiate the models:
  - `MCTrafficMapBuilder`: bookinfo rows and build scenarios. `Requests` maps
    each build to the rows Prometheus may hold for it.
  - `MCNodeIdentity`: pairs of label tuples.
  - `MCDecisions` composes `MCNodeIdentity`, `MCMtlsStatus` and
    `MCConfigCheckers` through `INSTANCE`. Init is the disjunction of the
    three Inits, each with the other parts' variables idle (the checkers on
    empty lists), so one run checks all three. A fourth disjunct poses
    `NewClientFromConfig` every configuration of `ClientConfigs` (with and
    without a token; impersonating nobody, a user with a group, or a group
    alone) under every outcome of its four constructors. A fifth runs
    `ObjectCheckers` on one destination rule plus one exported rule, with
    and without auto mTLS, and on two service entries. Its `autoMtls` and
    `validations` are renamed `drAutoMtls` and `ocValidations` there. The checkers' `drs` is
    renamed `ruleList` there, because `drs` is the mTLS rule list.
  - `MCKubeClient`: every environment of the client (flags, server URLs,
    host and port variables).
  - `MCSecurityPolicyAppender`: rows and a map's edges.
  - `MCGraph` extends `MCTrafficMapBuilder` and instantiates
    `MCSecurityPolicyAppender`, renaming the appender's `telemetry`,
    `phase` and `processed` to `spTelemetry`, `spPhase` and `spProcessed`.
    Each behaviour runs one of the two stages while the other sits finished
    and empty, so the state space is the sum of the two.
  - `MCMtlsStatus`: every namespace/mesh configuration and every workload
    policy/rule list. Init is a disjunction of the two kinds, so the state
    space is their sum.
  - `MCConfigCheckers`: both checkers through `INSTANCE ... WITH`. Each
    behaviour runs one of them; the other starts on an empty list.

## Runs

| Run | Expect | What it shows |
|---|---|---|
| `graph` | pass (106,438 states) | Namespace build, workload graph with injection, HTTP and TCP. For the namespace, Init picks any subset of 11 rows: duplicate reports, different codes, an unknown source, an external host, an idle row, a skipped gRPC row, a row with missing labels, and TCP from both reporters. In every order, `RateConservation` holds: the edges are exactly those the rows stand for, and each rate sums the distinct requests once. `DestServicesSound`, `NoPanic` and `TypeOK` also hold, and `IdleEdgesExcluded`: no edge has rate 0. The same run builds node graphs of the reviews-v1 workload and of the reviews service over every subset and order of nine requests: `NodeTrafficComplete`, every request touching the target node reaches the map through one of its reports. It builds the getReviews aggregate graph of the reviews service over six requests under the same properties. It also runs the security-policy appender with one row per key and policy. In every subset and order of rows, each edge gets the exact mTLS share of its traffic (`MTLSPercentExact`). Every edge with rates also gets principals (`PrincipalsWithPolicy`). The appender's `AppenderTypeOK` and `AppenderNoPanic` also hold. Finally it assembles the bookinfo and travel namespaces, in both orders and with a failing build at each point, and the node and aggregate requests. Every returned edge went through the whole appender pipeline (`AppendersSawEveryEdge`). A node marked a traffic generator receives traffic in no namespace's map (`GeneratorsReceiveNothing`), which requires marking after the last merge. `AssemblerTypeOK` also holds. |
| `podlabel` | violation | Both reports of one request carry their own `pod` label, which is in the group-by. The endpoint tsHash values differ, so the edge counts the request twice (`RateConservation`). |
| `selfedge` | violation | In an app graph, reviews v1 -> v2 and v2 -> v2 are the same edge. The edge hash reads the source's tsHash after the destination's addNode has overwritten it, so the two requests share a hash and one is dropped. |
| `sparse` | violation | `IdleEdgesExcluded`: a request at 0.0003 per second passes the idle condition `> 0`, which sits inside promQuery's `round(..., 0.001)`, and comes back as 0. The namespace graph built without idle edges has an edge of rate 0. |
| `unknownsource` | violation | A source with unknown namespaces and `source_service_name` set makes addNode return nil. addTraffic dereferences it at istio.go:364 (`NoPanic`). |
| `decisions` | pass (443,943 states) | `WorkloadsNotCollapsed`: two workloads of one namespace with the same app and version (a canary) never share a node in the workload, service or versioned-app graph. `StatusNeverContradictsConfig`: the overall mTLS status never contradicts the peer authentication or destination rule in force. `EmptyNamespaceShowsMesh`: a namespace without its own config shows the mesh status. `WorkloadStatusJustified`: a workload status follows from the first policy that selects it, and from rules of services that policy selects. In the same run, for every list and order of five destination rules and of five virtual services of one namespace, `MultiMatchExact` and `SingleHostExact` hold: each checker marks exactly the pairs of distinct objects that conflict, with exactly those references. The virtual services of this run each name one kind of host; one that names both the wildcard and a host of its namespace is marked on its own (`singlehost_self`). `ClientMatchesConfig`: `NewClientFromConfig` returns a client exactly when all four constructors succeed, and that client carries the configuration's token, and its iter8 REST client the same host, token, TLS, rate limits and (when a user is named) impersonation. `ValidationsMatchReports`: `DestinationRulesChecker.Check` and `ServiceEntryChecker.Check` return, for every object, the findings of every per-object and group checker. The object is valid exactly when none of them found an error, so a rule's group findings are merged with its own and never replace them. |
| `policy_podgraph` | violation | `PrincipalsWithPolicy`: in a pod graph, addSecurityPolicy keys the service -> pod edge with the pod's ID, but addPrincipal passes no pod and keys it service -> service. The edge gets rates and never principals, while the spec (4.4) says both are attached to every matching edge. |
| `policy_twoversions` | violation | Calls to two versions behind one service share the source -> service key. addSecurityPolicy keeps the last rate instead of adding, so the percentage is wrong and depends on row order. |
| `nodeservicetcp` | violation | For TCP a service node issues only the destination-reported incoming query. A connection to the service that no workload served is missing from the node graph. |
| `multimatch_crossns` | violation | A namespace wildcard rule listed after a rule for a host of another namespace is compared with every host seen, and both rules are marked. In the other order they are not. |
| `kubeclient_shadow` | violation | `ConfigClientSound`: ConfigClient returns a usable configuration or an error, never a panic. With no remote secret and no kubeconfig file, `rest.InClusterConfig` fails (client.go:128), but its error goes to the `err` that the `:=` of line 125 declares, so the check at line 130 sees nil and `incluster.QPS = ...` dereferences nil (line 133). A kubeconfig file that fails to load (line 126) meets the same shadowing. |
| `singlehost_self` | violation | `SingleHostExact`: one virtual service with hosts `*` and `reviews` of bookinfo fills two service counters of its namespace, so the wildcard condition (single_host_checker.go:44) marks it with no reference, while the comment above it speaks of other virtual services. |

Each property of a passing run has a mutant in PROJECT.json. A mutant is a
plausible bug in the mapped code, and TLC finds the property violated.

### Bounds

- **Graph.** One cluster; the bookinfo namespace plus the outside; two
  versions of reviews.
  - Every branch of Id that the rows reach is covered: workload, service,
    unknown-source and injected service nodes.
  - Every query kind is covered, both for namespaces and for workload and
    service nodes.
  - The same edge gets both a duplicate and a non-duplicate report.
  - Rates are small naturals in units of 0.0001 per second. The scenarios'
    rates are multiples of the rounding step 0.001, except the one sparse
    request, because only sums, equality, zero and rounding matter.
- **Assembly.** Two requested namespaces are enough for the three
  things order can change: both merge orders, a node shared by the two
  maps with different edges in each, and a node that sends traffic in one
  map and receives traffic in the other. A build can fail at either
  namespace, before or after the first merge. An outside node (the
  istio-system gateway) has outgoing edges only, so the marks interact.
- **mTLS.**
  - A namespace has up to two rules and two policies, over every mode
    including unset and SIMPLE.
  - The mesh has up to one of each, and both flags take both values.
  - So "the first that sets a mode" meets an unset first object, and
    every branch of OverallMtlsStatus is reached.
- **Dispatchers.** One rule is enough for the stage merge. The exported
  rule adds a key that only the group stage reports. Every result of
  every checker is enumerated, and two service entries exercise the loop.
- **Checkers.** Five objects give every kind of pair:
  - same host with different subsets;
  - a rule without subsets;
  - wildcard with a specific host;
  - a skipped mTLS wildcard;
  - a gateway-bound and a mesh virtual service.

  Every order is checked.

### Fairness

No run assumes fairness, and no liveness property is checked; see
"Not modelled".

## Not modelled

- **ReduceToServiceGraph.** It is not under src/, and the specification
  does not say what the service-graph reduction keeps, so service graphs
  are not assembled.
- **Edge rates in the merge.** GraphAssembler's maps carry edge keys
  without rates. Which rate survives when two namespace maps hold the same
  edge is left open by the specification, and PROJECT.json lists this as a
  hazard.
- **Termination and refinement.** promQuery's context has no deadline
  (istio.go:928), so a build waits as long as Prometheus does. Any
  eventually-returns property would hold only under a fairness assumption
  about the server that the code does not enforce. PROJECT.json lists this
  as a hazard, and no liveness property is checked.
- **Namespace order in the merge.** The merge of namespace maps
  (`MergeTrafficMaps`, not under src/) is modelled as a graph union, so
  the model cannot judge whether the result depends on the order of the
  namespaces.
- **The aggregate appender.** The aggregate node itself is added by an
  appender that is not under src/; the model builds the aggregate's map.
- **The appender's promQuery failure.** A Prometheus error in the appender
  is not modelled; only the builder's panic is.
- **The per-object checkers.** The checkers the dispatchers run (except
  MultiMatchChecker) are not under src/. They are modelled only by what
  they return.
- **Helpers outside src/.** `util.HandleClusters`, `HandleDestination`,
  `IsBad*Telemetry`, `HandleResponseCode` and `AddToMetadata` are not under
  src/. The rows are chosen so that these functions leave them unchanged,
  and `AddToMetadata` is the rate addition.
