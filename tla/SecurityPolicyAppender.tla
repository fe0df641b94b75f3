------------------------ MODULE SecurityPolicyAppender ------------------------
(***************************************************************************)
(* The security-policy appender of the traffic graph                      *)
(* (src/graph/telemetry/istio/appender/security_policy.go).  appendGraph  *)
(* runs two destination-reported queries (traffic into the namespace from *)
(* outside it, traffic from inside it), each the OR of one sub-query per  *)
(* selected metric; populateSecurityPolicyMap applies every row of the    *)
(* outside result, then of the inside result, recording a rate per        *)
(* connection_security_policy and the first principals seen for each      *)
(* (source ID, destination ID) key; applySecurityPolicy then sets the     *)
(* isMTLS percentage and the principals of every edge of the map.         *)
(*                                                                         *)
(* A row is a record of its labels; IDs are those of NodeIdentity, and    *)
(* the key "<sourceID> <destID>" is the pair of the two IDs.               *)
(***************************************************************************)
EXTENDS Naturals, SequencesExt, FiniteSetsExt, NodeIdentity

CONSTANTS
    GraphType,           \* a.GraphType
    InjectServiceNodes,  \* a.InjectServiceNodes
    Rates,               \* a.Rates: [http, grpc, tcp] rate selectors
    Namespace,           \* the namespace being appended
    TrafficEdges,        \* edges of the traffic map: <<sourceID, destID, protocol>>
    TimeSeries           \* the rows Prometheus may hold for the window

VARIABLES
    telemetry,     \* the rows Prometheus holds in this behaviour
    phase,         \* "query" | "populate" | "done" | "crashed"
    outVector,     \* rows of the outside-in result not yet applied
    inVector,      \* rows of the inside result not yet applied
    policyMap,     \* securityPolicyMap: key -> (csp -> rate)
    principalMap,  \* principalMap: key -> [source, dest]
    isMTLS,        \* edge -> <<mtls, mtls + other>>, the percentage's ratio
    principals,    \* edge -> [source, dest] principal metadata
    processed      \* ghost: the rows applied so far

vars == <<telemetry, phase, outVector, inVector, policyMap, principalMap,
          isMTLS, principals, processed>>

PolicyMTLS == "mutual_tls"

RateRequests == "requests"
RateSent     == "sent"
RateReceived == "received"
RateTotal    == "total"

\* the metrics OR-ed into each query, in the order the query names them
QueryMetrics ==
    SelectSeq(<<"istio_requests_total", "istio_request_messages_total",
                "istio_response_messages_total", "istio_tcp_sent_bytes_total",
                "istio_tcp_received_bytes_total">>,
              LAMBDA m :
                \/ m = "istio_requests_total"
                     /\ (Rates.grpc = RateRequests \/ Rates.http = RateRequests)
                \/ m = "istio_request_messages_total"
                     /\ Rates.grpc \in {RateSent, RateTotal}
                \/ m = "istio_response_messages_total"
                     /\ Rates.grpc \in {RateReceived, RateTotal}
                \/ m = "istio_tcp_sent_bytes_total"
                     /\ Rates.tcp \in {RateSent, RateTotal}
                \/ m = "istio_tcp_received_bytes_total"
                     /\ Rates.tcp \in {RateReceived, RateTotal})

\* the labels "sum(...) by (groupBy)" keeps: everything but metric and value
LabelSet(r) == [r EXCEPT !.metric = "", !.val = 0]

\* one sub-query: destination reported, the namespace selector, "> 0"
SubQuery(outside, m) ==
    {r \in telemetry :
        /\ r.metric = m /\ r.reporter = "destination" /\ r.val > 0
        /\ IF outside THEN r.sourceWlNs # Namespace /\ r.destSvcNs = Namespace
           ELSE r.sourceWlNs = Namespace}

\* "(q1) OR (q2) OR ...": a row of a later sub-query is dropped when an
\* earlier one returned a row with the same label set
QueryResult(outside) ==
    {r \in UNION {SubQuery(outside, QueryMetrics[i]) : i \in DOMAIN QueryMetrics} :
        ~\E i, j \in DOMAIN QueryMetrics :
            /\ i < j /\ r.metric = QueryMetrics[j]
            /\ \E q \in SubQuery(outside, QueryMetrics[i]) :
                  LabelSet(q) = LabelSet(r)}

------------------------------------------------------------------------------
(* populateSecurityPolicyMap: what a row says *)

SourcePod(r) == IF r.reporter = "source" THEN r.pod ELSE ""
DestPod(r)   == IF r.reporter = "source" THEN "" ELSE r.pod

\* connection_security_policy is not set on gRPC message metrics
Csp(r) == IF r.cspOk THEN r.csp ELSE Unknown

\* a node's labels as addSecurityPolicy / addPrincipal pass them to graph.Id
Ep(cluster, svcNs, svc, wlNs, wl, app, ver, pod) ==
    [cluster |-> cluster, svcNs |-> svcNs, svc |-> svc, wlNs |-> wlNs,
     wl |-> wl, app |-> app, ver |-> ver, pod |-> pod]

\* graph.Id(sourceCluster, sourceNs, sourceSvc, sourceNs, ...) of the source
SourceIdOf(e) == Id(e.cluster, e.svcNs, e.svc, e.svcNs, e.wl, e.app, e.ver,
                    GraphType, e.pod)
DestIdOf(e)   == Id(e.cluster, e.svcNs, e.svc, e.wlNs, e.wl, e.app, e.ver,
                    GraphType, e.pod)

SrcEp(r, pod)  == Ep(r.sourceCluster, r.sourceWlNs, "", "", r.sourceWl,
                     r.sourceApp, r.sourceVer, pod)
DestEp(r, pod) == Ep(r.destCluster, r.destSvcNs, r.destSvcName, r.destWlNs,
                     r.destWl, r.destApp, r.destVer, pod)
\* mutant: the injected service node is addressed without its name
SvcEpNoName(r, pod) == Ep(r.destCluster, r.destSvcNs, "", "", "", "", "", pod)

SvcEp(r, pod)  == Ep(r.destCluster, r.destSvcNs, r.destSvcName, "", "", "",
                     "", pod)

Inject(r) ==
    /\ InjectServiceNodes
    /\ IsOK(r.destSvcName) /\ r.destSvcName # PassthroughCluster
    /\ DestIdOf(DestEp(r, DestPod(r))).nodeType # NodeTypeService

\* the (source, dest) pairs given to addSecurityPolicy, in call order
PolicyHops(r) ==
    IF GraphType = GraphTypePod
      THEN (IF DestPod(r) # ""
              THEN <<<<SvcEp(r, SourcePod(r)), DestEp(r, DestPod(r))>>>>
              ELSE <<>>)
           \o (IF SourcePod(r) # "" \/ r.sourceApp = IngressNginx
                 THEN <<<<SrcEp(r, SourcePod(r)), SvcEp(r, "")>>>>
                 ELSE <<>>)
    ELSE IF Inject(r)
      THEN <<<<SrcEp(r, ""), SvcEp(r, "")>>, <<SvcEp(r, ""), DestEp(r, "")>>>>
    ELSE <<<<SrcEp(r, ""), DestEp(r, "")>>>>

\* mutant: the injected branch's second addPrincipal repeats the first hop
PrincipalHopsRepeatFirst(r) ==
    [i \in DOMAIN PolicyHops(r) |->
        [j \in 1 .. 2 |-> [PolicyHops(r)[1][j] EXCEPT !.pod = ""]]]

\* the (source, dest) pairs given to addPrincipal (which passes no pod)
PrincipalHops(r) ==
    [i \in DOMAIN PolicyHops(r) |->
        [j \in 1 .. 2 |-> [PolicyHops(r)[i][j] EXCEPT !.pod = ""]]]

HopIds(h) == <<SourceIdOf(h[1]), DestIdOf(h[2])>>

\* graph.Id panics ("Failed ID gen") on one of the row's calls
Panics(r) ==
    \/ /\ InjectServiceNodes
       /\ IsOK(r.destSvcName) /\ r.destSvcName # PassthroughCluster
       /\ DestIdOf(DestEp(r, DestPod(r))) = IdPanic
    \/ \E i \in DOMAIN PolicyHops(r) :
          IdPanic \in {HopIds(PolicyHops(r)[i])[1], HopIds(PolicyHops(r)[i])[2],
                       HopIds(PrincipalHops(r)[i])[1], HopIds(PrincipalHops(r)[i])[2]}

HopKey(h) == <<SourceIdOf(h[1]).id, DestIdOf(h[2]).id>>

SetKey(f, k, v) == [x \in DOMAIN f \cup {k} |-> IF x = k THEN v ELSE f[x]]

\* addSecurityPolicy: policyRates[csp] = val
AddSecurityPolicy(pm, h, csp, val) ==
    SetKey(pm, HopKey(h),
           SetKey(IF HopKey(h) \in DOMAIN pm THEN pm[HopKey(h)] ELSE <<>>,
                  csp, val))

\* addPrincipal: only the first principals seen for a key are kept
AddPrincipal(prm, h, sourcePrincipal, destPrincipal) ==
    IF HopKey(h) \in DOMAIN prm THEN prm
    ELSE SetKey(prm, HopKey(h), [source |-> sourcePrincipal, dest |-> destPrincipal])

------------------------------------------------------------------------------
(* applySecurityPolicy *)

MTLSRate(rates)  == IF PolicyMTLS \in DOMAIN rates THEN rates[PolicyMTLS] ELSE 0
\* mutant: "other = rate" keeps a single non-mTLS policy's rate
OtherRateLast(rates) ==
    IF DOMAIN rates \ {PolicyMTLS} = {} THEN 0
    ELSE rates[CHOOSE p \in DOMAIN rates \ {PolicyMTLS} : TRUE]

OtherRate(rates) == MapThenSumSet(LAMBDA p : rates[p], DOMAIN rates \ {PolicyMTLS})

EdgeKey(e) == <<e[1], e[2]>>

\* the edges whose key has rates with a positive mutual_tls rate
\* mutant: isMTLS is set without the "mtls > 0" guard
MTLSEdgesUnguarded(pm) ==
    {e \in TrafficEdges : EdgeKey(e) \in DOMAIN pm}

MTLSEdges(pm) ==
    {e \in TrafficEdges : EdgeKey(e) \in DOMAIN pm /\ MTLSRate(pm[EdgeKey(e)]) > 0}

ApplyIsMTLS(pm) ==
    [e \in MTLSEdges(pm) |->
        <<MTLSRate(pm[EdgeKey(e)]),
          MTLSRate(pm[EdgeKey(e)]) + OtherRate(pm[EdgeKey(e)])>>]

ApplyPrincipals(prm) ==
    [e \in {x \in TrafficEdges : EdgeKey(x) \in DOMAIN prm} |-> prm[EdgeKey(e)]]

------------------------------------------------------------------------------
(* appendGraph *)

Init ==
    /\ telemetry \in SUBSET TimeSeries
    /\ phase = IF TrafficEdges = {} THEN "done" ELSE "query"
    /\ outVector = {}
    /\ inVector = {}
    /\ policyMap = <<>>
    /\ principalMap = <<>>
    /\ isMTLS = <<>>
    /\ principals = <<>>
    /\ processed = {}

\* both promQuery calls, outside-in first
Query ==
    /\ phase = "query"
    /\ outVector' = QueryResult(TRUE)
    /\ inVector' = QueryResult(FALSE)
    /\ phase' = "populate"
    /\ UNCHANGED <<telemetry, policyMap, principalMap, isMTLS, principals, processed>>

\* one iteration of populateSecurityPolicyMap: the outside vector first
PopulateRow(r) ==
    /\ phase = "populate"
    /\ r \in IF outVector # {} THEN outVector ELSE inVector
    /\ IF ~r.labelsOk
         THEN UNCHANGED <<phase, policyMap, principalMap>>
       ELSE IF Panics(r)
         THEN phase' = "crashed" /\ UNCHANGED <<policyMap, principalMap>>
       ELSE /\ policyMap' = FoldLeft(LAMBDA pm, h :
                                       AddSecurityPolicy(pm, h, Csp(r), r.val),
                                     policyMap, PolicyHops(r))
            /\ principalMap' = FoldLeft(LAMBDA prm, h :
                                          AddPrincipal(prm, h, r.sourcePrincipal,
                                                       r.destPrincipal),
                                        principalMap, PrincipalHops(r))
            /\ UNCHANGED phase
    /\ outVector' = outVector \ {r}
    /\ inVector' = IF outVector # {} THEN inVector ELSE inVector \ {r}
    /\ processed' = processed \cup {r}
    /\ UNCHANGED <<telemetry, isMTLS, principals>>

\* both vectors are exhausted: applySecurityPolicy over the map's edges
ApplySecurityPolicy ==
    /\ phase = "populate"
    /\ outVector = {} /\ inVector = {}
    /\ isMTLS' = ApplyIsMTLS(policyMap)
    /\ principals' = ApplyPrincipals(principalMap)
    /\ phase' = "done"
    /\ UNCHANGED <<telemetry, outVector, inVector, policyMap, principalMap, processed>>

Terminated ==
    /\ phase \in {"done", "crashed"}
    /\ UNCHANGED vars

Next ==
    \/ Query
    \/ \E r \in TimeSeries : PopulateRow(r)
    \/ ApplySecurityPolicy
    \/ Terminated

Spec == Init /\ [][Next]_vars

------------------------------------------------------------------------------
(* Properties *)

TypeOK ==
    /\ telemetry \subseteq TimeSeries
    /\ phase \in {"query", "populate", "done", "crashed"}
    /\ outVector \subseteq telemetry /\ inVector \subseteq telemetry
    /\ processed \subseteq telemetry
    /\ DOMAIN isMTLS \subseteq TrafficEdges
    /\ DOMAIN principals \subseteq TrafficEdges
    /\ \A e \in DOMAIN isMTLS : 0 < isMTLS[e][1] /\ isMTLS[e][1] <= isMTLS[e][2]

\* the applied rows some addSecurityPolicy call of which hits the edge's key
RowsOf(e) ==
    {r \in processed :
        r.labelsOk /\ \E h \in Range(PolicyHops(r)) : HopKey(h) = EdgeKey(e)}

TrueMTLS(e)  == MapThenSumSet(LAMBDA r : r.val,
                              {r \in RowsOf(e) : Csp(r) = PolicyMTLS})
TrueTotal(e) == MapThenSumSet(LAMBDA r : r.val, RowsOf(e))

\* applySecurityPolicy's isMTLS is the share of the edge's traffic that used
\* mutual TLS: once the appender is done, an edge has the metadata exactly
\* when some of its traffic was mTLS, and mtls / (mtls + other) equals the
\* mTLS rate over the total rate of every row the two queries returned for
\* it (populateSecurityPolicyMap's per-policy bookkeeping loses nothing).
MTLSPercentExact ==
    phase = "done" =>
      \A e \in TrafficEdges :
        IF TrueMTLS(e) > 0
          THEN /\ e \in DOMAIN isMTLS
               /\ isMTLS[e][1] * TrueTotal(e) = TrueMTLS(e) * isMTLS[e][2]
          ELSE e \notin DOMAIN isMTLS

\* appendGraph annotates every edge whose key populateSecurityPolicyMap
\* recorded rates for with both the rates' mTLS share and the principals:
\* addSecurityPolicy and addPrincipal are called in pairs, and once the
\* appender is done no edge of the map has a security-policy entry without
\* a principal entry.
PrincipalsWithPolicy ==
    phase = "done" =>
      \A e \in TrafficEdges :
        EdgeKey(e) \in DOMAIN policyMap => e \in DOMAIN principals

\* No row makes graph.Id panic inside the appender.
NoPanic == phase # "crashed"

=============================================================================
