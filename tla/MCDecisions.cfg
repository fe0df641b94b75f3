\* Every pair of label tuples in the workload, service and versioned-app
\* graphs, every namespace/mesh and workload mTLS configuration, and every
\* list and order of one namespace's destination rules and virtual services.
SPECIFICATION Spec
INVARIANTS
    WorkloadsNotCollapsed
    StatusNeverContradictsConfig
    EmptyNamespaceShowsMesh
    WorkloadStatusJustified
    MultiMatchExact
    SingleHostExact
    ClientMatchesConfig
    ValidationsMatchReports
