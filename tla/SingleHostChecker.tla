-------------------------- MODULE SingleHostChecker --------------------------
(***************************************************************************)
(* virtualservices.SingleHostChecker.Check                                 *)
(* (src/business/checkers/virtualservices/single_host_checker.go).         *)
(*                                                                         *)
(* A virtual service is a record [name, namespace, hosts, gateways]: hosts *)
(* is the sequence of fqdns getHosts returns (kubernetes.GetHost is not    *)
(* under src/), each [service, namespace, cluster] with service "*" for a  *)
(* namespace wildcard; gateways is the sequence of Spec.Gateways.          *)
(* hostCounter[gw][cluster][namespace][service] is a list; it is the       *)
(* sequence of entries <<gw, cluster, namespace, service, vs key>> in the  *)
(* order storeHost appended them, so a list keeps its duplicates.          *)
(***************************************************************************)
EXTENDS Naturals, SequencesExt

CONSTANT ServiceLists   \* the lists of exported virtual services Check may get

VARIABLES
    vss,          \* s.ExportedVirtualServices, in list order
    i,            \* the position of the first loop
    hostCounter,  \* Seq of <<gw, cluster, namespace, service, vs key>>
    flagged,      \* the keys with a "virtualservices.singlehost" check
    references,   \* set of <<key, referenced key>>
    phase         \* "store", "check" or "done"

vars == <<vss, i, hostCounter, flagged, references, phase>>

Key(vs) == <<vs.name, vs.namespace>>

\* storeHost: a virtual service without gateways counts for "no-gateway"
Gateways(vs) == IF vs.gateways = <<>> THEN <<"no-gateway">> ELSE vs.gateways

\* the entries storeHost appends for every host of one virtual service
HostEntries(vs) ==
    FlattenSeq([h \in DOMAIN vs.hosts |->
                  [g \in DOMAIN Gateways(vs) |->
                     <<Gateways(vs)[g], vs.hosts[h].cluster, vs.hosts[h].namespace,
                       vs.hosts[h].service, Key(vs)>>]])

\* hostCounter[gw][cluster][namespace][service]
ServiceCounter(gw, c, ns, svc) ==
    [j \in DOMAIN SelectSeq(hostCounter, LAMBDA e : e[1] = gw /\ e[2] = c /\ e[3] = ns /\ e[4] = svc)
       |-> SelectSeq(hostCounter, LAMBDA e : e[1] = gw /\ e[2] = c /\ e[3] = ns /\ e[4] = svc)[j][5]]

\* the services of hostCounter[gw][cluster][namespace]
NamespaceServices(gw, c, ns) ==
    {e[4] : e \in {x \in Range(hostCounter) : x[1] = gw /\ x[2] = c /\ x[3] = ns}}

\* mutant: every virtual service of the namespace references all the others
\* (the containsVirtualService test dropped)
MarksNoStarCase(gw, c, ns, svc) ==
  LET sc        == ServiceCounter(gw, c, ns, svc)
      star      == Range(ServiceCounter(gw, c, ns, "*"))
      nsAll     == UNION {Range(ServiceCounter(gw, c, ns, s)) : s \in NamespaceServices(gw, c, ns)}
      sameHost  == Len(sc) > 1
      wildcard  == star # {} /\ Cardinality(NamespaceServices(gw, c, ns)) > 1
      Refs(v)   == (IF sameHost THEN Range(sc) ELSE {}) \cup (IF wildcard THEN nsAll ELSE {})
  IN {<<v, Refs(v)>> : v \in {x \in Range(sc) : sameHost \/ wildcard}}

\* multipleVirtualServiceCheck, for every virtual service of one service
\* counter: the flags and references of the two "Marking virtualService as
\* invalid" conditions
Marks(gw, c, ns, svc) ==
  LET sc        == ServiceCounter(gw, c, ns, svc)
      star      == Range(ServiceCounter(gw, c, ns, "*"))
      nsAll     == UNION {Range(ServiceCounter(gw, c, ns, s)) : s \in NamespaceServices(gw, c, ns)}
      sameHost  == Len(sc) > 1
      wildcard  == star # {} /\ Cardinality(NamespaceServices(gw, c, ns)) > 1
      Refs(v)   == (IF sameHost THEN Range(sc) ELSE {})
                   \cup (IF wildcard THEN (IF v \in star THEN nsAll ELSE star) ELSE {})
  IN {<<v, Refs(v)>> : v \in {x \in Range(sc) : sameHost \/ wildcard}}

Init ==
    /\ vss \in ServiceLists
    /\ i = 1
    /\ hostCounter = <<>>
    /\ flagged = {}
    /\ references = {}
    /\ phase = "store"

\* one iteration of the first loop: storeHost for every host of vss[i]
StoreHosts ==
    /\ phase = "store"
    /\ i <= Len(vss)
    /\ hostCounter' = hostCounter \o HostEntries(vss[i])
    /\ i' = i + 1
    /\ UNCHANGED <<vss, flagged, references, phase>>

StoreDone ==
    /\ phase = "store"
    /\ i > Len(vss)
    /\ phase' = "check"
    /\ UNCHANGED <<vss, i, hostCounter, flagged, references>>

\* the nested loops over hostCounter: every service counter is visited once
\* and the validations are merged, so the map iteration order is immaterial
CheckCounters ==
  /\ phase = "check"
  /\ LET marks == UNION {Marks(e[1], e[2], e[3], e[4]) : e \in Range(hostCounter)}
     IN /\ flagged' = {m[1] : m \in marks}
        /\ references' = UNION {{<<m[1], r>> : r \in m[2] \ {m[1]}} : m \in marks}
  /\ phase' = "done"
  /\ UNCHANGED <<vss, i, hostCounter>>

Done ==
    /\ phase = "done"
    /\ UNCHANGED vars

Next == StoreHosts \/ StoreDone \/ CheckCounters \/ Done

Spec == Init /\ [][Next]_vars

------------------------------------------------------------------------------
(* Properties *)

\* two hosts name a common service: the same host, or a namespace wildcard
\* and a host of its namespace and cluster
HostsOverlap(h1, h2) ==
    /\ h1.namespace = h2.namespace /\ h1.cluster = h2.cluster
    /\ h1.service = h2.service \/ "*" \in {h1.service, h2.service}

\* two different virtual services bound to a common gateway claim a common
\* host
Conflict(a, b) ==
    /\ Key(a) # Key(b)
    /\ Range(Gateways(a)) \cap Range(Gateways(b)) # {}
    /\ \E h1 \in Range(a.hosts), h2 \in Range(b.hosts) : HostsOverlap(h1, h2)

\* "Marking virtualService as invalid if there is more than one virtual
\* service per a host, or one virtual service with wildcard and other
\* virtual services pointing a host for that namespace": once Check is done,
\* the virtual services marked are exactly those in conflict with another
\* one, and each references exactly the ones it conflicts with.
SingleHostExact ==
    phase = "done" =>
      /\ flagged = {Key(a) : a \in {x \in Range(vss) : \E y \in Range(vss) : Conflict(x, y)}}
      /\ references = {<<Key(a), Key(b)>> :
                         <<a, b>> \in {p \in Range(vss) \X Range(vss) : Conflict(p[1], p[2])}}

=============================================================================
