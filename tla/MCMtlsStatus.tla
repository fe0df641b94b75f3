---------------------------- MODULE MCMtlsStatus ----------------------------
(***************************************************************************)
(* Checks the namespace and mesh mTLS status over every configuration of  *)
(* a namespace with up to two destination rules and two peer              *)
(* authentications, a mesh with at most one of each, and both flags; and *)
(* WorkloadMtlsStatus for the reviews-v1 workload over every list of up   *)
(* to two peer authentications and two destination rules.  The initial   *)
(* state picks one configuration of either kind (the other kind's lists   *)
(* empty); the system then stutters.                                      *)
(***************************************************************************)
EXTENDS MtlsStatus

VARIABLES nsDr, nsPa, meshDr, meshPa, autoMtls, allowPermissive, pas, drs

vars == <<nsDr, nsPa, meshDr, meshPa, autoMtls, allowPermissive, pas, drs>>

DRModes == {"", "ISTIO_MUTUAL", "MUTUAL", "DISABLE", "SIMPLE"}
PAModes == {"", "STRICT", "PERMISSIVE", "DISABLE"}

Labels == {"app=reviews", "version=v1"}

Services == <<[name |-> "reviews", selector |-> {"app=reviews"}],
              [name |-> "ratings", selector |-> {"app=ratings"}]>>

Selectors == {{}, {"app=reviews"}, {"app=reviews", "version=v2"}}

\* a policy without a selector carries none
PolicyChoices ==
    [hasSelector : {TRUE}, selector : Selectors,
     mode : {"", "STRICT", "PERMISSIVE", "DISABLE"}]
    \cup [hasSelector : {FALSE}, selector : {{}}, mode : {"STRICT", "PERMISSIVE"}]
RuleChoices   == [host : {"reviews", "ratings"}, mode : {"ISTIO_MUTUAL", "DISABLE", "SIMPLE"}]

UpTo2(S) == {<<>>} \cup {<<x>> : x \in S} \cup {<<x, y>> : x, y \in S}

NamespaceInit ==
    /\ nsDr \in UpTo2(DRModes)
    /\ nsPa \in UpTo2(PAModes)
    /\ meshDr \in {<<x>> : x \in DRModes} \cup {<<>>}
    /\ meshPa \in {<<x>> : x \in PAModes} \cup {<<>>}
    /\ autoMtls \in BOOLEAN
    /\ allowPermissive \in BOOLEAN
    /\ pas = <<>> /\ drs = <<>>

WorkloadInit ==
    /\ nsDr = <<>> /\ nsPa = <<>> /\ meshDr = <<>> /\ meshPa = <<>>
    /\ autoMtls = FALSE /\ allowPermissive = FALSE
    /\ pas \in UpTo2(PolicyChoices)
    /\ drs \in UpTo2(RuleChoices)

Init == NamespaceInit \/ WorkloadInit

Next == UNCHANGED vars

Spec == Init /\ [][Next]_vars

NsConfig(drModes, paModes) ==
    [drModes |-> drModes, paModes |-> paModes,
     autoMtls |-> autoMtls, allowPermissive |-> allowPermissive]

\* the status the namespace's page shows: its own, completed by the mesh's
Overall ==
    OverallMtlsStatus(NsConfig(nsDr, nsPa), NamespaceMtlsStatus(NsConfig(nsDr, nsPa)),
                      MeshMtlsStatus(NsConfig(meshDr, meshPa)))

\* the setting in force on one side: the first object of the namespace that
\* sets a mode, else the first of the mesh
InForce(ns, mesh) ==
  LET set == SelectSeq(ns \o mesh, LAMBDA x : x # "")
  IN IF set = <<>> THEN "" ELSE Head(set)

\* The overall status never contradicts the settings in force:
\* OverallMtlsStatus / inheritedOverallStatus show MTLS_DISABLED only when a
\* peer authentication or destination rule in force disables mTLS,
\* MTLS_NOT_ENABLED only when no STRICT or DISABLE peer authentication is in
\* force, and MTLS_ENABLED never when the peer authentication in force or the
\* namespace's own destination rule disables mTLS.
StatusNeverContradictsConfig ==
  LET pa == InForce(nsPa, meshPa)
      dr == InForce(nsDr, meshDr)
  IN /\ Overall = MTLSDisabled => "DISABLE" \in {pa, dr}
     /\ Overall = MTLSNotEnabled => pa \in {"", "PERMISSIVE"}
     /\ Overall = MTLSEnabled =>
          /\ pa # "DISABLE"
          /\ InForce(nsDr, <<>>) \notin {"DISABLE", "SIMPLE"}

\* A namespace with no rule or policy of its own shows exactly the mesh's
\* overall status (MeshMtlsStatus), through OverallMtlsStatus's fall-through
\* to the mesh branches.
EmptyNamespaceShowsMesh ==
    (nsDr = <<>> /\ nsPa = <<>>) =>
      Overall = MeshMtlsStatus(NsConfig(meshDr, meshPa)).overall

Config ==
    [pas |-> pas, labels |-> Labels, services |-> Services, drs |-> drs,
     autoMtls |-> autoMtls, allowPermissive |-> allowPermissive]

\* a policy that selects the workload and sets a mode
Selecting(p) == p.hasSelector /\ Matches(p.selector, Labels) /\ p.mode # ""

\* some rule for a service that the policy's selector picks sets one of modes
RuleFor(p, modes) ==
    \E d \in Range(drs), i \in DOMAIN Services :
        /\ d.host = Services[i].name
        /\ Matches(p.selector, Services[i].selector)
        /\ d.mode \in modes

\* WorkloadMtlsStatus is justified by the first policy selecting the
\* workload: MTLS_ENABLED only under STRICT, or under PERMISSIVE with an
\* ISTIO_MUTUAL/MUTUAL destination rule of one of the selected services;
\* MTLS_DISABLED only under DISABLE, or PERMISSIVE with a DISABLE rule of a
\* selected service -- never from a rule of a service the policy does not
\* select, nor from a later or non-matching policy.
WorkloadStatusJustified ==
  LET sel    == SelectSeq(pas, Selecting)
      status == WorkloadMtlsStatus(Config)
  IN /\ status = MTLSEnabled =>
          /\ sel # <<>>
          /\ \/ Head(sel).mode = "STRICT"
             \/ Head(sel).mode = "PERMISSIVE" /\ RuleFor(Head(sel), {"ISTIO_MUTUAL", "MUTUAL"})
     /\ status = MTLSDisabled =>
          /\ sel # <<>>
          /\ \/ Head(sel).mode = "DISABLE"
             \/ Head(sel).mode = "PERMISSIVE" /\ RuleFor(Head(sel), {"DISABLE"})

=============================================================================
