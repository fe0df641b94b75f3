--------------------------- MODULE MCDecisions ---------------------------
(***************************************************************************)
(* The decisions of the graph, the mTLS badge, the config checkers and   *)
(* the Kubernetes client checked together: graph.Id over the label pairs *)
(* of MCNodeIdentity, the mTLS status over the configurations of         *)
(* MCMtlsStatus, the two checkers of MCConfigCheckers over every list of  *)
(* one namespace's objects, the dispatchers of ObjectCheckers over every  *)
(* result of the checkers they run, and NewClientFromConfig over every   *)
(* outcome of its constructors.  Each initial state poses one question of *)
(* one of the five; the others' variables start at a fixed default (the  *)
(* checkers then run their few steps on empty lists), so the state space *)
(* is about the sum of the five and not their product.                   *)
(***************************************************************************)
VARIABLES graphType, t1, t2,
          nsDr, nsPa, meshDr, meshPa, autoMtls, allowPermissive, pas, drs,
          ruleList, i, seenHostSubsets, validations,
          vss, j, hostCounter, flagged, references, phase,
          restConfig, calls,
          checker, drAutoMtls, individual, group, ocValidations, idx, stage,
          reported

idVars == <<graphType, t1, t2>>
mtVars == <<nsDr, nsPa, meshDr, meshPa, autoMtls, allowPermissive, pas, drs>>
ccVars == <<ruleList, i, seenHostSubsets, validations,
            vss, j, hostCounter, flagged, references, phase>>
kcVars == <<restConfig, calls>>
ocVars == <<checker, drAutoMtls, individual, group, ocValidations, idx,
            stage, reported>>
vars == <<idVars, mtVars, ccVars, kcVars, ocVars>>

ID == INSTANCE MCNodeIdentity
MT == INSTANCE MCMtlsStatus

\* MCConfigCheckers' destination-rule list is ruleList here, drs being the
\* mTLS rules; CCScenarios only supplies its object lists
CCScenarios == INSTANCE MCConfigCheckers
                   WITH MMLists <- {}, SHLists <- {}, drs <- ruleList
CC  == INSTANCE MCConfigCheckers
           WITH MMLists <- CCScenarios!OneNamespaceLists,
                SHLists <- CCScenarios!BookinfoLists, drs <- ruleList
CC0 == INSTANCE MCConfigCheckers
           WITH MMLists <- {<<>>}, SHLists <- {<<>>}, drs <- ruleList

KC == INSTANCE KubeClient

\* one destination rule of the namespace and one exported to it; two
\* service entries.  MTLSDetails.EnabledAutoMtls is drAutoMtls here, the
\* dispatcher's own copy, since the sum keeps MCMtlsStatus' idle.
OC == INSTANCE ObjectCheckers
          WITH DestinationRules <- <<"reviews.bookinfo">>,
               ExportedDestinationRules <- {"reviews.other"},
               ServiceEntries <- <<"api.bookinfo", "db.bookinfo">>,
               autoMtls <- drAutoMtls, validations <- ocValidations

\* ServiceEntryChecker.Check has returned on an empty list
DispatchIdle ==
    /\ checker = "serviceentry" /\ drAutoMtls = FALSE
    /\ individual = OC!NoValidations /\ group = OC!NoValidations
    /\ ocValidations = OC!NoValidations
    /\ idx = 1 /\ stage = "done" /\ reported = {}

\* the configurations NewClientFromConfig may get: with or without a bearer
\* token, and impersonating nobody, a user with a group, or a group alone
ClientConfigs ==
    [host : {"api:6443"}, token : {"", "sa-token"}, tls : {"ca"},
     qps : {175}, burst : {200},
     impersonate : {KC!NoImpersonation,
                    [user |-> "alice", groups |-> {"dev"}, extra |-> {}],
                    [user |-> "", groups |-> {"dev"}, extra |-> {}]}]

\* every outcome of kube.NewForConfig, AddToScheme, rest.RESTClientFor and
\* istio.NewForConfig
ConstructorOutcomes ==
    [kubeOk : BOOLEAN, schemeOk : BOOLEAN, restOk : BOOLEAN, istioOk : BOOLEAN]

ClientIdle ==
    /\ restConfig = CHOOSE c \in ClientConfigs : TRUE
    /\ calls = [kubeOk |-> TRUE, schemeOk |-> TRUE, restOk |-> TRUE,
                istioOk |-> TRUE]

IdentityIdle ==
    /\ graphType = ID!GraphTypeWorkload
    /\ t1 = CHOOSE t \in ID!Tuples : TRUE
    /\ t2 = t1

MtlsIdle ==
    /\ nsDr = <<>> /\ nsPa = <<>> /\ meshDr = <<>> /\ meshPa = <<>>
    /\ autoMtls = FALSE /\ allowPermissive = FALSE
    /\ pas = <<>> /\ drs = <<>>

\* both checkers on an empty list, before their first step
CheckersIdle == CC0!Init

Init ==
    \/ ID!Init /\ MtlsIdle /\ CheckersIdle /\ ClientIdle /\ DispatchIdle
    \/ IdentityIdle /\ MT!Init /\ CheckersIdle /\ ClientIdle /\ DispatchIdle
    \/ IdentityIdle /\ MtlsIdle /\ CC!Init /\ ClientIdle /\ DispatchIdle
    \/ IdentityIdle /\ MtlsIdle /\ CheckersIdle /\ DispatchIdle
       /\ restConfig \in ClientConfigs /\ calls \in ConstructorOutcomes
    \/ IdentityIdle /\ MtlsIdle /\ CheckersIdle /\ ClientIdle /\ OC!Init

\* the pure decisions stutter; the checkers run their loops
Next ==
    \/ UNCHANGED vars
    \/ CC!Next /\ UNCHANGED <<idVars, mtVars, kcVars, ocVars>>
    \/ OC!Next /\ UNCHANGED <<idVars, mtVars, ccVars, kcVars>>

Spec == Init /\ [][Next]_vars

\* graph.Id never collapses two workloads of one namespace into one node
\* (MCNodeIdentity).
WorkloadsNotCollapsed == ID!WorkloadsNotCollapsed

\* OverallMtlsStatus never contradicts the settings in force (MCMtlsStatus).
StatusNeverContradictsConfig == MT!StatusNeverContradictsConfig

\* A namespace without its own config shows MeshMtlsStatus (MCMtlsStatus).
EmptyNamespaceShowsMesh == MT!EmptyNamespaceShowsMesh

\* WorkloadMtlsStatus follows from the first selecting policy (MCMtlsStatus).
WorkloadStatusJustified == MT!WorkloadStatusJustified

\* MultiMatchChecker.Check marks exactly the destination rules that target a
\* common host and subset, whatever the order (MCConfigCheckers).
MultiMatchExact == CC!MultiMatchExact

\* SingleHostChecker.Check marks exactly the virtual services that claim a
\* host of another on a common gateway, with those references
\* (MCConfigCheckers).
SingleHostExact == CC!SingleHostExact

\* DestinationRulesChecker.Check and ServiceEntryChecker.Check return, for
\* every object a checker spoke of, the findings of every per-object and
\* group checker, and the object is valid exactly when none found an error:
\* a rule's group findings are merged into its own, never replace them.
ValidationsMatchReports == OC!ValidationsMatchReports

\* NewClientFromConfig "returns an error on any problem": it returns a
\* client exactly when every constructor succeeded, and that client is
\* whole and speaks for the configuration: its token is the config's and
\* its iter8 REST client (newClientForAPI) reaches the same host with the
\* same token, TLS settings, rate limits and impersonated user.
ClientMatchesConfig ==
  LET r == KC!NewClientFromConfig(restConfig, calls)
      api == r.client.iter8Api
  IN /\ (r.err = KC!Nil) <=> (r.client # KC!NilClient)
     /\ (r.err = KC!Nil) <=> \A c \in DOMAIN calls : calls[c]
     /\ r.err = KC!Nil =>
          /\ r.client.token = restConfig.token
          /\ "nil" \notin {r.client.k8s, r.client.istioClientset, r.client.ctx}
          /\ api.host = restConfig.host /\ api.token = restConfig.token
          /\ api.tls = restConfig.tls
          /\ api.qps = restConfig.qps /\ api.burst = restConfig.burst
          /\ restConfig.impersonate.user # "" =>
               api.impersonate = restConfig.impersonate

=============================================================================
