------------------------- MODULE MCConfigCheckers -------------------------
(***************************************************************************)
(* The destination-rule MultiMatchChecker and the virtual-service         *)
(* SingleHostChecker, each over every list of distinct objects of a       *)
(* scenario of one cluster.  Each behaviour runs one of the two checks;   *)
(* the other starts on an empty list and only stutters, so the state      *)
(* space is the sum of the two checkers' and not their product.           *)
(***************************************************************************)
EXTENDS Naturals, FiniteSets

CONSTANTS
    MMLists,   \* the destination-rule lists MultiMatchChecker may get
    SHLists    \* the virtual-service lists SingleHostChecker may get

VARIABLES
    drs, i, seenHostSubsets, validations,               \* MultiMatchChecker
    vss, j, hostCounter, flagged, references, phase     \* SingleHostChecker

mmVars == <<drs, i, seenHostSubsets, validations>>
shVars == <<vss, j, hostCounter, flagged, references, phase>>
vars == <<mmVars, shVars>>

MM  == INSTANCE MultiMatchChecker WITH RuleLists <- MMLists
MM0 == INSTANCE MultiMatchChecker WITH RuleLists <- {<<>>}
SH  == INSTANCE SingleHostChecker WITH ServiceLists <- SHLists, i <- j
SH0 == INSTANCE SingleHostChecker WITH ServiceLists <- {<<>>}, i <- j

Cl == "cluster.local"
BI == "bookinfo"

Host(svc, ns) == [service |-> svc, namespace |-> ns, cluster |-> Cl]

\* every list of distinct elements of S
Lists(S) ==
    UNION {{f \in [1 .. n -> S] : \A a, b \in 1 .. n : a # b => f[a] # f[b]} :
             n \in 0 .. Cardinality(S)}

(* Destination rules: for the reviews host of bookinfo (subsets v1, v2, or *)
(* none), for the bookinfo wildcard (subset v1, and one with ISTIO_MUTUAL *)
(* that Check skips), and for reviews in a second namespace.             *)
DR(name, ns, host, subsets, mtls) ==
    [name |-> name, namespace |-> ns, host |-> host, subsets |-> subsets, mtls |-> mtls]
ReviewsV1    == DR("reviews-v1", BI, Host("reviews", BI), {"v1"}, FALSE)
ReviewsV2    == DR("reviews-v2", BI, Host("reviews", BI), {"v2"}, FALSE)
ReviewsAll   == DR("reviews-all", BI, Host("reviews", BI), {}, FALSE)
WildcardV1   == DR("wild-v1", BI, Host("*", BI), {"v1"}, FALSE)
WildcardTls  == DR("wild-mtls", BI, Host("*", BI), {}, TRUE)
OtherReviews == DR("reviews", "other", Host("reviews", "other"), {"v1"}, FALSE)

OneNamespaceLists == Lists({ReviewsV1, ReviewsV2, ReviewsAll, WildcardV1, WildcardTls})
TwoNamespaceLists == Lists({OtherReviews, WildcardV1})

(* Virtual services of bookinfo: two for the reviews host (one bound to a *)
(* gateway), one for ratings and details, a namespace wildcard, and a     *)
(* wildcard on the gateway and the mesh.                                  *)
VS(name, hosts, gateways) ==
    [name |-> name, namespace |-> BI, hosts |-> hosts, gateways |-> gateways]
ReviewsVS       == VS("reviews", <<Host("reviews", BI)>>, <<>>)
ReviewsGateway  == VS("reviews-gw", <<Host("reviews", BI)>>, <<"bookinfo-gateway">>)
RatingsDetails  == VS("ratings-details", <<Host("ratings", BI), Host("details", BI)>>, <<>>)
Wildcard        == VS("all", <<Host("*", BI)>>, <<>>)
WildcardGateway == VS("all-gw", <<Host("*", BI)>>, <<"bookinfo-gateway", "mesh">>)

BookinfoLists == Lists({ReviewsVS, ReviewsGateway, RatingsDetails, Wildcard, WildcardGateway})
NoLists == {<<>>}

\* one virtual service naming both the namespace wildcard and a host of it
SelfWildcard == VS("reviews-and-all", <<Host("*", BI), Host("reviews", BI)>>, <<>>)
SelfLists == {<<SelfWildcard>>}

Init ==
    \/ MM!Init /\ SH0!Init
    \/ MM0!Init /\ SH!Init

Next ==
    \/ MM!Next /\ UNCHANGED shVars
    \/ SH!Next /\ UNCHANGED mmVars

Spec == Init /\ [][Next]_vars

\* MultiMatchChecker.Check marks exactly the pairs of destination rules that
\* target a common host and subset, whatever the order of the list.
MultiMatchExact == MM!MultiMatchExact

\* SingleHostChecker.Check marks exactly the virtual services that claim a
\* host of another one on a common gateway, with exactly those references.
SingleHostExact == SH!SingleHostExact

=============================================================================
