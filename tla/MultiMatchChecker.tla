-------------------------- MODULE MultiMatchChecker --------------------------
(***************************************************************************)
(* destinationrules.MultiMatchChecker.Check                                *)
(* (src/business/checkers/destinationrules/multi_match_checker.go): one    *)
(* pass over the exported destination rules in list order, keeping        *)
(* seenHostSubsets and adding "destinationrules.multimatch" errors.        *)
(*                                                                         *)
(* A destination rule is a record                                          *)
(*   [name, namespace, host, subsets, mtls]                                *)
(* where host is the fqdn kubernetes.GetHost returns (not under src/),     *)
(* abstracted to [service, namespace, cluster] with service "*" for a      *)
(* namespace wildcard, so fqdn.String() and the "*.<ns>.<cluster>" key are *)
(* the tuples of their parts; subsets is the set of subset names and mtls  *)
(* says whether the traffic policy's TLS mode is ISTIO_MUTUAL.             *)
(* The validations are the set of pairs <<key, reference>> addError        *)
(* merges; the rule keys with a pair are those marked invalid.             *)
(***************************************************************************)
EXTENDS Naturals, SequencesExt

CONSTANT RuleLists   \* the lists of exported destination rules Check may get

VARIABLES
    drs,             \* m.ExportedDestinationRules, in list order
    i,               \* the position of the loop
    seenHostSubsets, \* set of <<host key, subset name, rule key>>
    validations      \* set of <<rule key, referenced rule key>>

vars == <<drs, i, seenHostSubsets, validations>>

Key(dr) == <<dr.name, dr.namespace>>

\* fqdn.String()
HostKey(h) == <<h.service, h.namespace, h.cluster>>

\* fmt.Sprintf("*.%s.%s", fqdn.Namespace, fqdn.Cluster)
WildcardKey(h) == <<"*", h.namespace, h.cluster>>

IsWildcard(h) == h.service = "*"

\* isNonLocalmTLSForServiceEnabled: a wildcard host with ISTIO_MUTUAL
NonLocalMTLS(dr) == IsWildcard(dr.host) /\ dr.mtls

\* extractSubsets: the subset names, or "~" (all subsets) when there are none
Found(dr) == IF dr.subsets = {} THEN {"~"} ELSE dr.subsets

\* seenHostSubsets[hostKey], as a set of <<subset, rule>>
Existing(seen, hk) == {<<e[2], e[3]>> : e \in {x \in seen : x[1] = hk}}

\* checkCollisions: the rules of the existing host entry the new rule collides
\* with -- all of them when the new rule has "~", those with "~", and those
\* of a subset of the same name
Collisions(found, existing) ==
    {e[2] : e \in {x \in existing : \/ found = {"~"}
                                     \/ x[1] = "~"
                                     \/ x[1] \in found}}

\* mutant: a specific host is not compared with its namespace's wildcard
ComparedHostsNoWildcard(seen, h) ==
  LET seenHosts == {x[1] : x \in seen}
  IN (IF IsWildcard(h) THEN seenHosts ELSE {}) \cup ({HostKey(h)} \cap seenHosts)

\* the host entries Check compares a rule with: every host seen so far when
\* its host is a wildcard, then "*.<ns>.<cluster>", then its own host
ComparedHosts(seen, h) ==
  LET seenHosts == {x[1] : x \in seen}
  IN (IF IsWildcard(h) THEN seenHosts ELSE {})
     \cup ({WildcardKey(h), HostKey(h)} \cap seenHosts)

\* addError, for every collision: both rules are marked, each referencing
\* the other
AddErrors(vals, k, others) ==
    vals \cup {<<k, o>> : o \in others} \cup {<<o, k>> : o \in others}

Init ==
    /\ drs \in RuleLists
    /\ i = 1
    /\ seenHostSubsets = {}
    /\ validations = {}

\* one iteration of the loop over m.ExportedDestinationRules
CheckRule ==
  /\ i <= Len(drs)
  /\ LET dr == drs[i]
         found == Found(dr)
         hits == UNION {Collisions(found, Existing(seenHostSubsets, hk)) :
                          hk \in ComparedHosts(seenHostSubsets, dr.host)}
     IN IF NonLocalMTLS(dr)
          THEN UNCHANGED <<seenHostSubsets, validations>>
        ELSE /\ validations' = AddErrors(validations, Key(dr), hits)
             /\ seenHostSubsets' =
                  seenHostSubsets \cup {<<HostKey(dr.host), s, Key(dr)>> : s \in found}
  /\ i' = i + 1
  /\ UNCHANGED drs

\* Check has returned its validations
Done ==
  /\ i > Len(drs)
  /\ UNCHANGED vars

Next == CheckRule \/ Done

Spec == Init /\ [][Next]_vars

------------------------------------------------------------------------------
(* Properties *)

\* Two rules target a common host: the same host, or a namespace wildcard
\* and a host of that namespace and cluster.
HostsOverlap(h1, h2) ==
    \/ HostKey(h1) = HostKey(h2)
    \/ /\ h1.namespace = h2.namespace /\ h1.cluster = h2.cluster
       /\ IsWildcard(h1) \/ IsWildcard(h2)

\* ... and a common subset ("~", no subsets, covers every subset).
SubsetsOverlap(f1, f2) == "~" \in f1 \cup f2 \/ f1 \cap f2 # {}

Collide(a, b) ==
    /\ Key(a) # Key(b)
    /\ ~NonLocalMTLS(a) /\ ~NonLocalMTLS(b)
    /\ HostsOverlap(a.host, b.host)
    /\ SubsetsOverlap(Found(a), Found(b))

\* "Check validates that no two destinationRules target the same
\* host+subset combination": once the loop is over, the rules marked and
\* their references are exactly the pairs of rules that target a common
\* host and subset -- whatever the order of the list, and never a rule
\* referencing itself.
MultiMatchExact ==
    i > Len(drs) =>
      validations = {<<Key(a), Key(b)>> :
                       <<a, b>> \in {p \in Range(drs) \X Range(drs) : Collide(p[1], p[2])}}

=============================================================================
