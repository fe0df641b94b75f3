---------------------------- MODULE MCNodeIdentity ----------------------------
(***************************************************************************)
(* Checks graph.Id over every pair of label tuples drawn from a small     *)
(* label space of one cluster: two workloads of the same app and version  *)
(* (a canary beside the main deployment), unknown and empty labels.  The  *)
(* initial state picks the graph type and two tuples; the system then     *)
(* stutters, so the invariants range over all pairs.                      *)
(***************************************************************************)
EXTENDS NodeIdentity

VARIABLES graphType, t1, t2

vars == <<graphType, t1, t2>>

Cl == "east"

\* the label tuples a destination or a source of a time series can carry
Tuples ==
    [serviceNamespace  : {"bookinfo"},
     service           : {"reviews", Unknown, ""},
     workloadNamespace : {"bookinfo", Unknown},
     workload          : {"reviews-v1", "reviews-v1-canary", Unknown},
     app               : {"reviews", Unknown},
     version           : {"v1", Unknown}]

IdOf(t) == Id(Cl, t.serviceNamespace, t.service, t.workloadNamespace,
              t.workload, t.app, t.version, graphType, "")

Init ==
    /\ graphType \in {GraphTypeWorkload, GraphTypeService, GraphTypeVersionedApp}
    /\ t1 \in Tuples
    /\ t2 \in Tuples

Next == UNCHANGED vars

Spec == Init /\ [][Next]_vars

\* Two deployments of one namespace with distinct workload names never share
\* a node in the workload, service and versioned-app graphs, even when they
\* carry the same app and version labels (Id's workload-keyed versioned-app
\* branch precedes the app+version one).
WorkloadsNotCollapsed ==
    (/\ IsOK(t1.workload) /\ IsOK(t2.workload)
     /\ t1.workload # t2.workload
     /\ PreferredNamespace(t1.serviceNamespace, t1.workloadNamespace)
          = PreferredNamespace(t2.serviceNamespace, t2.workloadNamespace))
    => IdOf(t1).id # IdOf(t2).id

=============================================================================
