------------------------- MODULE MCTrafficMapBuilder -------------------------
(***************************************************************************)
(* Model-checking instances of TrafficMapBuilder: one cluster, the        *)
(* bookinfo namespace, and time series between productpage, reviews v1/v2 *)
(* and the outside.  Init picks any subset of the candidate rows as what  *)
(* Prometheus holds, and every vector is populated in every order.        *)
(***************************************************************************)
EXTENDS TrafficMapBuilder

Cl == "east"
BI == "bookinfo"

\* a source workload: the source_* labels and source_service_name
Src(ns, wl, app, ver, svc) ==
    [cluster |-> Cl, ns |-> ns, wl |-> wl, app |-> app, ver |-> ver, svc |-> svc]

\* a destination: the destination_* labels; host is destination_service
Dst(svcNs, host, svcName, wlNs, wl, app, ver) ==
    [cluster |-> Cl, svcNs |-> svcNs, host |-> host, svcName |-> svcName,
     wlNs |-> wlNs, wl |-> wl, app |-> app, ver |-> ver]

ProductPage   == Src(BI, "productpage-v1", "productpage", "v1", "")
ReviewsV2Src  == Src(BI, "reviews-v2", "reviews", "v2", "")
ReviewsV1Src  == Src(BI, "reviews-v1", "reviews", "v1", "")
UnknownSource == Src(Unknown, Unknown, Unknown, Unknown, "")
\* an unknown source whose custom source_service_name label is set
UnknownNamedSource == Src(Unknown, Unknown, Unknown, Unknown, Unknown)

ReviewsV1 == Dst(BI, <<"reviews", BI>>, "reviews", BI, "reviews-v1", "reviews", "v1")
ReviewsV2 == Dst(BI, <<"reviews", BI>>, "reviews", BI, "reviews-v2", "reviews", "v2")
ProductPageDst ==
    Dst(BI, <<"productpage", BI>>, "productpage", BI, "productpage-v1", "productpage", "v1")
External ==
    Dst(Unknown, <<"httpbin", "org">>, "httpbin.org", Unknown, Unknown, Unknown, Unknown)

\* row values are given in thousandths per second: promQuery's rounding step
RateUnit == RoundStep

Row(metric, reporter, pod, s, d, proto, code, val, labelsOk) ==
    [metric |-> metric, reporter |-> reporter, pod |-> pod,
     sourceCluster |-> s.cluster, sourceWlNs |-> s.ns, sourceWl |-> s.wl,
     sourceApp |-> s.app, sourceVer |-> s.ver, sourceSvc |-> s.svc,
     destCluster |-> d.cluster, destSvcNs |-> d.svcNs, destSvc |-> d.host,
     destSvcName |-> d.svcName, destWlNs |-> d.wlNs, destWl |-> d.wl,
     destApp |-> d.app, destVer |-> d.ver,
     requestProtocol |-> proto, code |-> code, flags |-> "-",
     operation |-> "", val |-> val * RateUnit, labelsOk |-> labelsOk]

Http(reporter, pod, s, d, code, val) ==
    Row(RequestsMetric, reporter, pod, s, d, "http", code, val, TRUE)

\* the pass scenario: no pod label on the series
DedupSeries == {
    Http("destination", "", ProductPage, ReviewsV1, "200", 1),
    Http("source",      "", ProductPage, ReviewsV1, "200", 1),
    Http("source",      "", ProductPage, ReviewsV2, "200", 2),
    Http("destination", "", ProductPage, ReviewsV1, "500", 1),
    Http("destination", "", UnknownSource, ProductPageDst, "200", 1),
    Http("source",      "", ProductPage, External, "200", 1),
    Http("source",      "", ProductPage, ReviewsV2, "404", 0),
    Row(RequestsMetric, "source", "", ProductPage, ReviewsV2, "grpc", "0", 1, TRUE),
    Row(RequestsMetric, "source", "", ProductPage, ReviewsV1, "http", "200", 2, FALSE),
    Row(TcpSentMetric, "source", "", ProductPage, ReviewsV1, "", "", 3, TRUE),
    Row(TcpSentMetric, "destination", "", ProductPage, ReviewsV1, "", "", 3, TRUE)}

\* the same request reported by both proxies, each carrying its pod label
PodLabelSeries == {
    Http("source",      "productpage-v1-7d9", ProductPage, ReviewsV1, "200", 1),
    Http("destination", "reviews-v1-5c4",     ProductPage, ReviewsV1, "200", 1)}

\* two different requests into one versionless app node: v1 -> v2, v2 -> v2
SelfEdgeSeries == {
    Http("destination", "", ReviewsV1Src, ReviewsV2, "200", 1),
    Http("destination", "", ReviewsV2Src, ReviewsV2, "200", 1)}

\* a request from outside the mesh with source_service_name="unknown"
UnknownNamedSourceSeries == {
    Http("destination", "", UnknownNamedSource, ProductPageDst, "200", 1)}

\* one request to reviews-v1 in a long window: 0.0003 per second, above
\* zero and below promQuery's rounding step
SparseRequest == {[Http("destination", "", ProductPage, ReviewsV1, "200", 0)
                     EXCEPT !.val = 3]}

\* each row a request of its own (a report whose twin is missing is legal:
\* a source or destination without a sidecar reports alone)
Each(S) == {{r} : r \in S}

DedupRequests              == Each(DedupSeries)
PodLabelRequests           == {PodLabelSeries}
SelfEdgeRequests           == Each(SelfEdgeSeries)
UnknownNamedSourceRequests == Each(UnknownNamedSourceSeries)

NamespaceBuild == [kind |-> "namespace"]

(***************************************************************************)
(* Node graphs.                                                            *)
(***************************************************************************)
RatingsDst ==
    Dst(BI, <<"ratings", BI>>, "ratings", BI, "ratings-v1", "ratings", "v1")
\* a request to the reviews service that no workload served (no endpoints):
\* only the source proxy reports it, with destination_workload="unknown"
ReviewsUnserviced ==
    Dst(BI, <<"reviews", BI>>, "reviews", Unknown, Unknown, Unknown, Unknown)

\* one request reported by both proxies
Both(metric, s, d, proto, code, val) ==
    {Row(metric, rep, "", s, d, proto, code, val, TRUE) : rep \in {"source", "destination"}}
\* one request reported by one proxy only
Alone(metric, rep, s, d, proto, code, val) ==
    {Row(metric, rep, "", s, d, proto, code, val, TRUE)}

\* requests around the reviews-v1 workload, and one that does not touch it
NodeWorkloadRequests == {
    Both(RequestsMetric, ProductPage, ReviewsV1, "http", "200", 1),
    Both(RequestsMetric, ProductPage, ReviewsV1, "http", "500", 1),
    Both(RequestsMetric, ReviewsV1Src, RatingsDst, "http", "200", 2),
    Alone(RequestsMetric, "destination", UnknownSource, ReviewsV1, "http", "200", 1),
    Alone(RequestsMetric, "source", ReviewsV1Src, External, "http", "200", 1),
    Both(RequestsMetric, ProductPage, ReviewsV2, "http", "200", 1),
    Both(TcpSentMetric, ProductPage, ReviewsV1, "", "", 3)}

\* requests to the reviews service: served, unserviced, unattributed, and
\* one that does not touch it
NodeServiceRequests == {
    Both(RequestsMetric, ProductPage, ReviewsV1, "http", "200", 1),
    Alone(RequestsMetric, "source", ProductPage, ReviewsUnserviced, "http", "503", 1),
    Alone(RequestsMetric, "destination", UnknownSource, ReviewsV2, "http", "200", 2),
    Both(RequestsMetric, ReviewsV1Src, RatingsDst, "http", "200", 2)}

\* the unserviced request again, as TCP bytes
NodeServiceTcpRequests == {
    Both(TcpSentMetric, ProductPage, ReviewsV1, "", "", 3),
    Alone(TcpSentMetric, "source", ProductPage, ReviewsUnserviced, "", "", 1)}

Target(wl, app, ver, svc) ==
    [kind |-> "node", cluster |-> Cl, queryCluster |-> Cl,
     workload |-> wl, app |-> app, version |-> ver, service |-> svc]
ReviewsV1Node  == Target("reviews-v1", "", "", "")
ReviewsService == Target("", "", "", "reviews")

\* the node graph of either target, over the requests of both scenarios
NodeRequests == NodeWorkloadRequests \cup NodeServiceRequests

(***************************************************************************)
(* The aggregate node of the getReviews request operation of the reviews  *)
(* service: the same request classified, unclassified, reported by the    *)
(* destination alone, and unserviced (reported by the source alone).      *)
(***************************************************************************)
Classified(request, op) == {[r EXCEPT !.operation = op] : r \in request}

AggregateRequests == {
    Classified(Both(RequestsMetric, ProductPage, ReviewsV1, "http", "200", 1), "getReviews"),
    Classified(Both(RequestsMetric, ProductPage, ReviewsV2, "http", "200", 0), "getReviews"),
    Classified(Alone(RequestsMetric, "destination", UnknownSource, ReviewsV2, "http", "200", 2),
               "getReviews"),
    Both(RequestsMetric, ProductPage, ReviewsV1, "http", "500", 1),
    Classified(Alone(RequestsMetric, "source", ProductPage, ReviewsUnserviced, "http", "503", 1),
               "getReviews"),
    Classified(Both(RequestsMetric, ReviewsV1Src, RatingsDst, "http", "200", 2), "getReviews")}

GetReviews ==
    [kind |-> "aggregate", cluster |-> Cl, aggregate |-> "request_operation",
     aggregateValue |-> "getReviews", service |-> "reviews", app |-> ""]

NamespaceBuilds == {NamespaceBuild}
ServiceTargets  == {ReviewsService}

\* the requests Prometheus may hold, per build
For(builds, requests) == [o \in builds |-> requests]
PodLabelScenario      == For(NamespaceBuilds, PodLabelRequests)
SelfEdgeScenario      == For(NamespaceBuilds, SelfEdgeRequests)
UnknownSourceScenario == For(NamespaceBuilds, UnknownNamedSourceRequests)
ServiceTcpScenario    == For(ServiceTargets, NodeServiceTcpRequests)
SparseScenario        == For(NamespaceBuilds, {SparseRequest})

\* the bookinfo namespace graph over the dedup rows, the node graphs of
\* reviews-v1 and of the reviews service over the node requests, and the
\* getReviews aggregate over the aggregate requests
GraphBuilds   == {NamespaceBuild, ReviewsV1Node, ReviewsService, GetReviews}
\* the three builds over the requests to and around the reviews service
LoopScenario == For(GraphBuilds, NodeServiceRequests)

GraphScenario ==
    [o \in GraphBuilds |-> CASE o = NamespaceBuild -> DedupRequests
                              [] o = GetReviews     -> AggregateRequests
                              [] OTHER              -> NodeRequests]

MC_RatesTcp     == [http |-> RateNone, grpc |-> RateNone, tcp |-> RateSent]
MC_RatesHttpTcp == [http |-> RateRequests, grpc |-> RateNone, tcp |-> RateSent]
MC_RatesHttp    == [http |-> RateRequests, grpc |-> RateNone, tcp |-> RateNone]
\* HTTP requests, gRPC messages sent and TCP bytes sent: every block of the
\* query plans
MC_RatesAll     == [http |-> RateRequests, grpc |-> RateSent, tcp |-> RateSent]

=============================================================================
