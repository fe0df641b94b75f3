--------------------------- MODULE ObjectCheckers ---------------------------
(***************************************************************************)
(* The two dispatchers of src/business/checkers: DestinationRulesChecker  *)
(* (destination_rules_checker.go) and ServiceEntryChecker                 *)
(* (service_entry_checker.go).  Each runs a list of per-object checkers   *)
(* on every object of its namespace and folds their results into one      *)
(* validation per object; the destination-rule one then runs the group    *)
(* checkers over all rules and merges their validations into the same     *)
(* map, so one rule's validation gathers the findings of both stages.     *)
(*                                                                         *)
(* The per-object and group checkers are not under src/ (MultiMatchChecker *)
(* is, and MultiMatchChecker.tla models it): each is abstracted to what it *)
(* returns for an object, "none" (no check, valid), "warning" (a check,   *)
(* still valid) or "error" (a check, invalid), chosen at the step.  An    *)
(* object is its key (name, namespace, type); a validation is             *)
(* [checks, valid], with a check <<checker, severity>>.  EmptyValidValidation *)
(* and IstioValidations.MergeValidations are not under src/ either.       *)
(***************************************************************************)
EXTENDS Naturals, Sequences, TLC

CONSTANTS
    DestinationRules,          \* keys of the namespace's rules, in list order
    ExportedDestinationRules,  \* keys of the rules exported to it
    ServiceEntries             \* keys of the namespace's service entries

VARIABLES
    checker,      \* the Check being run: "destinationrule" | "serviceentry"
    autoMtls,     \* MTLSDetails.EnabledAutoMtls
    individual,   \* the validations of the per-object loop so far
    group,        \* the validations of runGroupChecks so far
    validations,  \* what Check returns
    idx,          \* the object, or group checker, the loop is at
    stage,        \* "individual" | "group" | "done"
    reported      \* history: every <<key, checker, result>> a checker gave

ocVars == <<checker, autoMtls, individual, group, validations, idx, stage,
            reported>>

Results == {"none", "warning", "error"}

NoValidations == [k \in {} |-> {}]

\* the per-object checkers of runChecks; the last two only without auto mTLS
DRCheckers(auto) ==
    <<"DisabledNamespaceWideMTLS", "DisabledMeshWideMTLS", "ExportToNamespace">>
      \o (IF auto THEN <<>> ELSE <<"NamespaceWideMTLS", "MeshWideMTLS">>)

\* the group checkers of runGroupChecks; TrafficPolicy only without auto mTLS
DRGroupCheckers(auto) ==
    <<"MultiMatch">> \o (IF auto THEN <<>> ELSE <<"TrafficPolicy">>)

\* the per-object checkers of runSingleChecks
SECheckers == <<"ExportToNamespace", "HasMatchingWorkloadEntryAddress">>

\* EmptyValidValidation: no checks, valid
EmptyValid == [checks |-> {}, valid |-> TRUE]

\* mutant: Valid takes the last checker's verdict instead of the conjunction
ApplyAssign(v, name, res) ==
    [checks |-> v.checks \cup (IF res = "none" THEN {} ELSE {<<name, res>>}),
     valid |-> res # "error"]

\* one checker's checks are appended, and Valid is and-ed with its verdict
Apply(v, name, res) ==
    [checks |-> v.checks \cup (IF res = "none" THEN {} ELSE {<<name, res>>}),
     valid |-> v.valid /\ res # "error"]

\* the loop over the enabled checkers, res[n] being what checker cs[n] gave
RECURSIVE RunCheckers(_, _, _)
RunCheckers(v, cs, res) ==
    IF cs = <<>> THEN v
    ELSE RunCheckers(Apply(v, Head(cs), Head(res)), Tail(cs), Tail(res))

\* MergeValidations: a key of one map only is added; a key of both keeps
\* the checks of both and is valid only if both are
MergeValidations(iv, vs) ==
    [k \in DOMAIN iv \cup DOMAIN vs |->
       IF k \notin DOMAIN vs THEN iv[k]
       ELSE IF k \notin DOMAIN iv THEN vs[k]
       ELSE [checks |-> iv[k].checks \cup vs[k].checks,
             valid |-> iv[k].valid /\ vs[k].valid]]

Reports(key, cs, res) == {<<key, cs[n], res[n]>> : n \in DOMAIN cs}

------------------------------------------------------------------------------

Init ==
    /\ checker \in {"destinationrule", "serviceentry"}
    /\ autoMtls \in IF checker = "destinationrule" THEN BOOLEAN ELSE {FALSE}
    /\ individual = NoValidations
    /\ group = NoValidations
    /\ validations = NoValidations
    /\ idx = 1
    /\ stage = "individual"
    /\ reported = {}

\* the checkers cs run on the next object of the list, its validation
\* merged into the loop's map
CheckObject(objects, cs) ==
    /\ stage = "individual"
    /\ idx <= Len(objects)
    /\ \E res \in [1 .. Len(cs) -> Results] :
         /\ individual' = MergeValidations(individual,
              objects[idx] :> RunCheckers(EmptyValid, cs, res))
         /\ reported' = reported \cup Reports(objects[idx], cs, res)
    /\ idx' = idx + 1
    /\ UNCHANGED <<checker, autoMtls, group, validations, stage>>

\* runIndividualChecks: runChecks on the next destination rule
RunChecks ==
    /\ checker = "destinationrule"
    /\ CheckObject(DestinationRules, DRCheckers(autoMtls))

\* Check: runIndividualChecks' validations merged into the empty map
EndIndividual ==
    /\ checker = "destinationrule" /\ stage = "individual"
    /\ idx > Len(DestinationRules)
    /\ validations' = MergeValidations(validations, individual)
    /\ idx' = 1
    /\ stage' = "group"
    /\ UNCHANGED <<checker, autoMtls, individual, group, reported>>

\* runGroupChecks: the next group checker, over the rules and the exported
\* ones; it returns a validation for the keys it has something to say of
RunGroupChecker ==
    LET name == DRGroupCheckers(autoMtls)[idx] IN
    /\ stage = "group"
    /\ idx <= Len(DRGroupCheckers(autoMtls))
    /\ \E r \in [{DestinationRules[n] : n \in DOMAIN DestinationRules}
                   \cup ExportedDestinationRules -> {"absent", "warning", "error"}] :
         LET vs == [k \in {x \in DOMAIN r : r[x] # "absent"} |->
                      Apply(EmptyValid, name, r[k])]
         IN /\ group' = MergeValidations(group, vs)
            /\ reported' = reported \cup {<<k, name, r[k]>> : k \in DOMAIN vs}
    /\ idx' = idx + 1
    /\ UNCHANGED <<checker, autoMtls, individual, validations, stage>>

\* Check: runGroupChecks' validations merged into the individual ones
EndGroup ==
    /\ stage = "group"
    /\ idx > Len(DRGroupCheckers(autoMtls))
    /\ validations' = MergeValidations(validations, group)
    /\ stage' = "done"
    /\ UNCHANGED <<checker, autoMtls, individual, group, idx, reported>>

\* ServiceEntryChecker.Check: runSingleChecks on the next service entry
RunSingleChecks ==
    /\ checker = "serviceentry"
    /\ CheckObject(ServiceEntries, SECheckers)

\* ServiceEntryChecker.Check returns the loop's validations
ReturnEntries ==
    /\ checker = "serviceentry" /\ stage = "individual"
    /\ idx > Len(ServiceEntries)
    /\ validations' = individual
    /\ stage' = "done"
    /\ UNCHANGED <<checker, autoMtls, individual, group, idx, reported>>

Done ==
    /\ stage = "done"
    /\ UNCHANGED ocVars

Next ==
    \/ RunChecks \/ EndIndividual \/ RunGroupChecker \/ EndGroup
    \/ RunSingleChecks \/ ReturnEntries \/ Done

Spec == Init /\ [][Next]_ocVars

------------------------------------------------------------------------------

TypeOK ==
    /\ stage \in {"individual", "group", "done"}
    /\ \A k \in DOMAIN validations :
         validations[k].valid \in BOOLEAN

\* A returned validation gathers, for every object either stage spoke of,
\* the findings of every checker of both stages, and the object is valid
\* exactly when none of them found an error.
ValidationsMatchReports ==
    stage = "done" =>
      /\ DOMAIN validations = {r[1] : r \in reported}
      /\ \A k \in DOMAIN validations :
           /\ validations[k].valid <=>
                ~\E r \in reported : r[1] = k /\ r[3] = "error"
           /\ validations[k].checks =
                {<<r[2], r[3]>> : r \in {x \in reported : x[1] = k /\ x[3] # "none"}}
=============================================================================
