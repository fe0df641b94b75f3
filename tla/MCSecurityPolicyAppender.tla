--------------------- MODULE MCSecurityPolicyAppender ---------------------
(***************************************************************************)
(* Model-checking instances of SecurityPolicyAppender: one cluster, the   *)
(* bookinfo namespace, destination-reported rows into productpage and     *)
(* reviews.  Init picks any subset of the candidate rows.                 *)
(***************************************************************************)
EXTENDS SecurityPolicyAppender

Cl == "east"
BI == "bookinfo"

\* the source_* labels and the source principal
Src(ns, wl, app, ver, principal) ==
    [cluster |-> Cl, ns |-> ns, wl |-> wl, app |-> app, ver |-> ver,
     principal |-> principal]

\* the destination_* labels and the destination principal
Dst(svcName, wl, app, ver, principal) ==
    [cluster |-> Cl, svcNs |-> BI, svcName |-> svcName, wlNs |-> BI,
     wl |-> wl, app |-> app, ver |-> ver, principal |-> principal]

Gateway     == Src("istio-system", "istio-ingressgateway", "istio-ingressgateway",
                   Unknown, "sa/ingress")
ProductPage == Src(BI, "productpage-v1", "productpage", "v1", "sa/productpage")
ProductPageDst == Dst("productpage", "productpage-v1", "productpage", "v1",
                      "sa/productpage")
ReviewsV1 == Dst("reviews", "reviews-v1", "reviews", "v1", "sa/reviews")
ReviewsV2 == Dst("reviews", "reviews-v2", "reviews", "v2", "sa/reviews")

Row(metric, reporter, s, d, csp, cspOk, val, labelsOk) ==
    [metric |-> metric, reporter |-> reporter, pod |-> "",
     sourceCluster |-> s.cluster, sourceWlNs |-> s.ns, sourceWl |-> s.wl,
     sourceApp |-> s.app, sourceVer |-> s.ver, sourcePrincipal |-> s.principal,
     destCluster |-> d.cluster, destSvcNs |-> d.svcNs, destSvcName |-> d.svcName,
     destWlNs |-> d.wlNs, destWl |-> d.wl, destApp |-> d.app, destVer |-> d.ver,
     destPrincipal |-> d.principal, csp |-> csp, cspOk |-> cspOk, val |-> val,
     labelsOk |-> labelsOk]

Req(s, d, csp, val) == Row("istio_requests_total", "destination", s, d, csp, TRUE, val, TRUE)

\* workload-graph node IDs
WlId(wl)   == <<"wl", Cl, BI, wl>>
SvcId(svc) == <<"svc", Cl, BI, svc>>

\* the edges buildNamespaceTrafficMap gives these rows (service injection)
MapEdges == {
    <<<<"wl", Cl, "istio-system", "istio-ingressgateway">>, SvcId("productpage"), "http">>,
    <<SvcId("productpage"), WlId("productpage-v1"), "http">>,
    <<WlId("productpage-v1"), SvcId("reviews"), "http">>,
    <<WlId("productpage-v1"), SvcId("reviews"), "grpc">>,
    <<WlId("productpage-v1"), SvcId("reviews"), "tcp">>,
    <<SvcId("reviews"), WlId("reviews-v1"), "http">>,
    <<SvcId("reviews"), WlId("reviews-v2"), "http">>}

\* one destination workload per service: every key has one row per policy
SingleVersionSeries == {
    Req(Gateway, ProductPageDst, PolicyMTLS, 2),
    Req(Gateway, ProductPageDst, "none", 1),
    Req(ProductPage, ReviewsV1, PolicyMTLS, 3),
    Req(ProductPage, ReviewsV1, "none", 1),
    Row("istio_request_messages_total", "destination", ProductPage, ReviewsV1,
        "", FALSE, 2, TRUE),
    Row("istio_tcp_sent_bytes_total", "destination", ProductPage, ReviewsV1,
        PolicyMTLS, TRUE, 5, TRUE),
    Req(ProductPage, ReviewsV2, PolicyMTLS, 0),
    Row("istio_requests_total", "source", ProductPage, ReviewsV1, "none", TRUE, 4, TRUE),
    Row("istio_requests_total", "destination", ProductPage, ReviewsV1, "none",
        TRUE, 2, FALSE)}

\* productpage calls both versions of reviews over mutual TLS, v1 also in
\* plain text: the productpage -> reviews service edge sees three rows
TwoVersionSeries == {
    Req(ProductPage, ReviewsV1, PolicyMTLS, 3),
    Req(ProductPage, ReviewsV1, "none", 1),
    Req(ProductPage, ReviewsV2, PolicyMTLS, 1)}

\* the pod graph: the destination-reported rows carry the serving pod
PodReq(s, d, csp, val, pod) == [Req(s, d, csp, val) EXCEPT !.pod = pod]
PodId(pod) == <<"pod", Cl, BI, pod>>

PodSeries == {
    PodReq(ProductPage, ReviewsV1, PolicyMTLS, 3, "reviews-v1-pod"),
    PodReq(ProductPage, ReviewsV1, "none", 1, "reviews-v1-pod")}

\* the pod graph's edge from the reviews service to the pod that served it
PodMapEdges == {<<SvcId("reviews"), PodId("reviews-v1-pod"), "http">>}

MC_Rates == [http |-> RateRequests, grpc |-> RateTotal, tcp |-> RateSent]

=============================================================================
