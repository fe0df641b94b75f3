------------------------------ MODULE MCGraph ------------------------------
(***************************************************************************)
(* The three stages of a graph request checked in one run: the traffic-  *)
(* map builds of MCTrafficMapBuilder, the security-policy appender of     *)
(* MCSecurityPolicyAppender, and the assembly of builds into the returned *)
(* graph of MCGraphAssembler.  Each initial state runs one of the three;  *)
(* the others sit in a finished state, so the state space is the sum of   *)
(* the three.  The appender's variables that share a name with the        *)
(* builder's are renamed with the prefix sp, the assembler's map is gaMap. *)
(***************************************************************************)
EXTENDS MCTrafficMapBuilder

VARIABLES spTelemetry, spPhase, outVector, inVector, policyMap, principalMap,
          isMTLS, principals, spProcessed,
          request, appenders, todo, current, nsMap, appIdx, gaMap, outsiders,
          generators, aPhase

builderVars == <<NodeOptions, telemetry, step, phase, vector, trafficMap,
                 edges, processed>>
spVars == <<spTelemetry, spPhase, outVector, inVector, policyMap,
            principalMap, isMTLS, principals, spProcessed>>
gaVars == <<request, appenders, todo, current, nsMap, appIdx, gaMap,
            outsiders, generators, aPhase>>

\* the appender's scenario definitions (they use none of its constants)
SPScenario == INSTANCE MCSecurityPolicyAppender
                  WITH TrafficEdges <- {}, TimeSeries <- {}, Rates <- {},
                       telemetry <- spTelemetry, phase <- spPhase,
                       processed <- spProcessed

SP == INSTANCE MCSecurityPolicyAppender
          WITH TrafficEdges <- SPScenario!MapEdges,
               TimeSeries <- SPScenario!SingleVersionSeries,
               Rates <- SPScenario!MC_Rates,
               telemetry <- spTelemetry, phase <- spPhase,
               processed <- spProcessed

\* a namespace build that has returned an empty map
BuilderIdle ==
    /\ NodeOptions = NamespaceBuild /\ telemetry = {} /\ step = 1
    /\ phase = "done" /\ vector = {} /\ trafficMap = <<>> /\ edges = <<>>
    /\ processed = {}

\* an appender that has annotated nothing
AppenderIdle ==
    /\ spTelemetry = {} /\ spPhase = "done" /\ outVector = {} /\ inVector = {}
    /\ policyMap = <<>> /\ principalMap = <<>> /\ isMTLS = <<>>
    /\ principals = <<>> /\ spProcessed = {}

\* the assembler's scenario definitions (they use none of its constants)
GAScenario == INSTANCE MCGraphAssembler
                  WITH Requested <- {}, Accessible <- {}, NsGraph <- <<>>,
                       NodeRequests <- {}, NodeGraph <- <<>>,
                       AppenderOrder <- <<>>, AppenderNames <- {},
                       AllAppenders <- FALSE, AggregateNodeAppenderName <- "",
                       trafficMap <- gaMap

GA == INSTANCE MCGraphAssembler
          WITH Requested <- GAScenario!MC_Requested,
               Accessible <- GAScenario!MC_Accessible,
               NsGraph <- GAScenario!MC_NsGraph,
               NodeRequests <- GAScenario!MC_NodeRequests,
               NodeGraph <- GAScenario!MC_NodeGraph,
               AppenderOrder <- GAScenario!MC_AppenderOrder,
               AppenderNames <- GAScenario!MC_AppenderNames,
               AllAppenders <- FALSE,
               AggregateNodeAppenderName <- "aggregateNode",
               trafficMap <- gaMap

\* a namespaces request whose first build failed
AssemblerIdle ==
    /\ request = GA!NamespacesRequest
    /\ appenders = GA!ParseAppenders(GA!NamespacesRequest)
    /\ todo = GAScenario!MC_Requested /\ current = GA!NoNamespace
    /\ nsMap = GA!NewTrafficMap /\ appIdx = 1 /\ gaMap = GA!NewTrafficMap
    /\ outsiders = {} /\ generators = {} /\ aPhase = "failed"

GraphInit ==
    \/ Init /\ AppenderIdle /\ AssemblerIdle
    \/ BuilderIdle /\ SP!Init /\ AssemblerIdle
    \/ BuilderIdle /\ AppenderIdle /\ GA!Init

GraphNext ==
    \/ Next /\ UNCHANGED <<spVars, gaVars>>
    \/ SP!Next /\ UNCHANGED <<builderVars, gaVars>>
    \/ GA!Next /\ UNCHANGED <<builderVars, spVars>>

GraphSpec == GraphInit /\ [][GraphNext]_<<builderVars, spVars, gaVars>>

\* The appender's variables have their types and isMTLS is a ratio of at
\* most one (SecurityPolicyAppender's TypeOK).
AppenderTypeOK == SP!TypeOK

\* applySecurityPolicy's isMTLS is the exact mTLS share of each edge's
\* traffic (MCSecurityPolicyAppender).
MTLSPercentExact == SP!MTLSPercentExact

\* Every edge with security-policy rates also gets principals.
PrincipalsWithPolicy == SP!PrincipalsWithPolicy

\* No row makes graph.Id panic inside the appender.
AppenderNoPanic == SP!NoPanic

\* The assembler's variables have their types; marks name nodes of the map.
AssemblerTypeOK == GA!TypeOK

\* Every returned edge went through the whole appender pipeline.
AppendersSawEveryEdge == GA!AppendersSawEveryEdge

\* A traffic generator receives traffic in no requested namespace's map.
GeneratorsReceiveNothing == GA!GeneratorsReceiveNothing

=============================================================================
