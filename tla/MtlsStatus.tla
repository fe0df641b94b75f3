----------------------------- MODULE MtlsStatus -----------------------------
(***************************************************************************)
(* The mTLS status decision of src/util/mtls/status.go.                    *)
(*                                                                         *)
(* An MtlsStatus value is a record of the objects it was built from and   *)
(* two flags.  A PeerAuthentication or DestinationRule is abstracted to    *)
(* the mode kubernetes.PeerAuthnHasMTLSEnabled /                           *)
(* DestinationRuleHas*MTLSEnabled* report for it ("" when it does not      *)
(* apply); those helpers are not under src/, the loops over them are.      *)
(*   m.drModes, m.paModes : Seq of modes, in list order                    *)
(*   m.autoMtls, m.allowPermissive : BOOLEAN                               *)
(* For WorkloadMtlsStatus also                                             *)
(*   m.pas      : Seq of [hasSelector, selector, mode]; hasSelector is    *)
(*                FALSE when Spec.Selector is nil, selector is a set of    *)
(*                label pairs                                              *)
(*   m.labels   : the workload's matching labels (set of label pairs)      *)
(*   m.services : Seq of [name, selector] (Service and registry services)  *)
(*   m.drs      : Seq of [host, mode]                                      *)
(***************************************************************************)
EXTENDS Naturals, SequencesExt

MTLSEnabled          == "MTLS_ENABLED"
MTLSPartiallyEnabled == "MTLS_PARTIALLY_ENABLED"
MTLSNotEnabled       == "MTLS_NOT_ENABLED"
MTLSDisabled         == "MTLS_DISABLED"

Statuses == {MTLSEnabled, MTLSPartiallyEnabled, MTLSNotEnabled, MTLSDisabled}

\* TlsStatus{DestinationRuleStatus, PeerAuthenticationStatus, OverallStatus}
TlsStatus(dr, pa, overall) == [dr |-> dr, pa |-> pa, overall |-> overall]

EmptyTlsStatus == TlsStatus("", "", "")

\* hasPeerAuthnNamespacemTLSDefinition, hasDesinationRuleEnablingNamespacemTLS,
\* hasPeerAuthnMeshTLSDefinition, hasDestinationRuleMeshTLSDefinition: the
\* mode of the first object that has one
RECURSIVE FirstMode(_)
FirstMode(modes) ==
    IF modes = <<>> THEN ""
    ELSE IF Head(modes) # "" THEN Head(modes)
    ELSE FirstMode(Tail(modes))

\* mutant: "no config" tested with || instead of &&
FinalStatusOrNotEnabled(m, drStatus, paStatus) ==
  LET mtlsEnabled  == drStatus \in {"ISTIO_MUTUAL", "MUTUAL"} \/ (drStatus = "" /\ m.autoMtls)
      mtlsDisabled == drStatus = "DISABLE" \/ (drStatus = "" /\ m.autoMtls)
  IN TlsStatus(drStatus, paStatus,
       IF /\ \/ paStatus = "STRICT"
             \/ paStatus = "PERMISSIVE" /\ m.allowPermissive
          /\ mtlsEnabled
         THEN MTLSEnabled
       ELSE IF paStatus = "DISABLE" /\ mtlsDisabled THEN MTLSDisabled
       ELSE IF paStatus = "" \/ drStatus = "" THEN MTLSNotEnabled
       ELSE MTLSPartiallyEnabled)

\* finalStatus
FinalStatus(m, drStatus, paStatus) ==
  LET mtlsEnabled  == drStatus \in {"ISTIO_MUTUAL", "MUTUAL"} \/ (drStatus = "" /\ m.autoMtls)
      mtlsDisabled == drStatus = "DISABLE" \/ (drStatus = "" /\ m.autoMtls)
  IN TlsStatus(drStatus, paStatus,
       IF /\ \/ paStatus = "STRICT"
             \/ paStatus = "PERMISSIVE" /\ m.allowPermissive
          /\ mtlsEnabled
         THEN MTLSEnabled
       ELSE IF paStatus = "DISABLE" /\ mtlsDisabled THEN MTLSDisabled
       ELSE IF paStatus = "" /\ drStatus = "" THEN MTLSNotEnabled
       ELSE MTLSPartiallyEnabled)

NamespaceMtlsStatus(m) == FinalStatus(m, FirstMode(m.drModes), FirstMode(m.paModes))

\* mutant: a "not enabled" status counts as defined
HasDefinedTlsAnyFinal(t) == t.overall \in {MTLSEnabled, MTLSDisabled, MTLSNotEnabled}

HasDefinedTls(t) == t.overall \in {MTLSEnabled, MTLSDisabled}

HasPartialTlsConfig(t) == t.overall = MTLSPartiallyEnabled

HasHalfTlsConfigDefined(t, autoMtls, allowPermissive) ==
    /\ autoMtls
    /\ \/ t.pa = "STRICT" /\ t.dr = ""
       \/ t.dr \in {"ISTIO_MUTUAL", "MUTUAL"} /\ t.pa = ""
       \/ allowPermissive /\ t.pa = "PERMISSIVE" /\ t.dr = ""

HasNoConfig(t) == t.pa = "" /\ t.dr = ""

HasPartialDisabledConfig(t) ==
    \/ t.pa = "DISABLE" /\ t.dr = ""
    \/ t.dr = "DISABLE" /\ t.pa = ""

\* OverallMtlsStatus and inheritedOverallStatus call each other; the inner
\* call passes an empty namespace status, so the recursion is two deep.
\* The last two branches of the code (partial config without auto mTLS, and
\* the default) both give MTLSPartiallyEnabled.
RECURSIVE OverallMtlsStatus(_, _, _), InheritedOverallStatus(_, _, _)
OverallMtlsStatus(m, nsStatus, meshStatus) ==
    IF HasDefinedTls(nsStatus) THEN nsStatus.overall
    ELSE IF HasPartialTlsConfig(nsStatus) THEN InheritedOverallStatus(m, nsStatus, meshStatus)
    ELSE IF HasDefinedTls(meshStatus) THEN meshStatus.overall
    ELSE IF HasNoConfig(meshStatus) THEN MTLSNotEnabled
    ELSE IF HasPartialDisabledConfig(meshStatus) THEN MTLSDisabled
    ELSE IF HasHalfTlsConfigDefined(meshStatus, m.autoMtls, m.allowPermissive) THEN MTLSEnabled
    ELSE MTLSPartiallyEnabled

\* the namespace's own setting on each side, the mesh's where it has none
InheritedOverallStatus(m, nsStatus, meshStatus) ==
    OverallMtlsStatus(m, EmptyTlsStatus,
        FinalStatus(m, IF nsStatus.dr = "" THEN meshStatus.dr ELSE nsStatus.dr,
                       IF nsStatus.pa = "" THEN meshStatus.pa ELSE nsStatus.pa))

\* MeshMtlsStatus
MeshMtlsStatus(m) ==
  LET drStatus == FirstMode(m.drModes)
      paStatus == FirstMode(m.paModes)
  IN TlsStatus(drStatus, paStatus,
               OverallMtlsStatus(m, EmptyTlsStatus, FinalStatus(m, drStatus, paStatus)))

(***************************************************************************)
(* WorkloadMtlsStatus                                                      *)
(***************************************************************************)

\* labels.Set(sel).AsSelector().Matches(lbls)
Matches(sel, lbls) == sel \subseteq lbls

\* mutant: the rules are not filtered by the service's host
ServiceDRsAnyHost(m, sel) ==
  LET svcs == SelectSeq(m.services, LAMBDA s : Matches(sel, s.selector))
  IN FlattenSeq([i \in DOMAIN svcs |-> m.drs])

\* the destination rules of the services the selector picks
\* (FilterServicesForSelector, FilterRegistryServicesBySelector, then
\* FilterDestinationRulesByService per service, in order)
ServiceDRs(m, sel) ==
  LET svcs == SelectSeq(m.services, LAMBDA s : Matches(sel, s.selector))
  IN FlattenSeq([i \in DOMAIN svcs |->
                   SelectSeq(m.drs, LAMBDA d : d.host = svcs[i].name)])

\* the PERMISSIVE branch: the first rule enabling or disabling mTLS decides
\* (DestinationRuleHasMTLSEnabled: enabled means ISTIO_MUTUAL)
RECURSIVE PermissiveStatus(_)
PermissiveStatus(drs) ==
    IF drs = <<>> THEN MTLSNotEnabled
    ELSE IF Head(drs).mode \in {"ISTIO_MUTUAL", "MUTUAL"} THEN MTLSEnabled
    ELSE IF Head(drs).mode = "DISABLE" THEN MTLSDisabled
    ELSE PermissiveStatus(Tail(drs))

\* the loop over m.PeerAuthentications, from the given position on: a
\* policy without a selector, not matching, or with an unset mode is passed
RECURSIVE WorkloadStatusFrom(_, _)
WorkloadStatusFrom(m, pas) ==
  IF pas = <<>> THEN MTLSNotEnabled
  ELSE LET pa == Head(pas) IN
    IF ~pa.hasSelector \/ ~Matches(pa.selector, m.labels)
      THEN WorkloadStatusFrom(m, Tail(pas))
    ELSE IF pa.mode = "STRICT" THEN MTLSEnabled
    ELSE IF pa.mode = "DISABLE" THEN MTLSDisabled
    ELSE IF pa.mode = "PERMISSIVE"
      THEN IF m.drs = <<>> THEN MTLSNotEnabled
           ELSE PermissiveStatus(ServiceDRs(m, pa.selector))
    ELSE WorkloadStatusFrom(m, Tail(pas))

WorkloadMtlsStatus(m) == WorkloadStatusFrom(m, m.pas)

=============================================================================
