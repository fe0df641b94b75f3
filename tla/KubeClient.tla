----------------------------- MODULE KubeClient -----------------------------
(***************************************************************************)
(* The client configuration of src/kubernetes/client.go: ConfigClient and *)
(* UseRemoteCreds.  What the calls outside src/ return (kialiConfig, the  *)
(* remote secret, os.Stat, the kubeconfig loader, rest.InClusterConfig,  *)
(* the environment) is an input record env; each of those calls yields   *)
(* either a value or (nil, an error).  A *rest.Config is a record, a nil *)
(* one is NilConfig, a nil error is Nil, and a panic (a nil pointer       *)
(* dereference) is the result Panic.                                      *)
(* strings.Split(server, ":") is given as the sequence of its parts: the  *)
(* scheme, the host part as <<"//", host>> (or <<host>> without slashes)  *)
(* and, when present, the port.                                           *)
(***************************************************************************)
EXTENDS Naturals, Sequences

RestConfig(scheme, host, port, qps, burst) ==
    [scheme |-> scheme, host |-> host, port |-> port, qps |-> qps, burst |-> burst]

\* a nil error, a nil *rest.Config
Nil       == "nil"
NilConfig == RestConfig("nil", "", "", 0, 0)

Ret(cfg, err) == [cfg |-> cfg, err |-> err]

Panic == Ret(RestConfig("panic", "", "", 0, 0), "panic")

\* strings.TrimPrefix(part, "//")
TrimSlashes(part) == IF Len(part) = 2 /\ part[1] = "//" THEN part[2] ELSE part[Len(part)]

\* strings.EqualFold(scheme, "https")
IsHttps(scheme) == scheme \in {"https", "HTTPS", "Https"}

\* UseRemoteCreds: the CA data is decoded first, then the server URL parsed
UseRemoteCreds(rs) ==
  LET parts == rs.server
  IN IF ~rs.caOk THEN Ret(NilConfig, "base64 error")
     ELSE IF Len(parts) \notin {2, 3} THEN Ret(NilConfig, "Invalid remote API server URL")
     ELSE IF ~IsHttps(parts[1])
       THEN Ret(NilConfig, "Only HTTPS protocol is allowed in remote API server URL")
     ELSE Ret(RestConfig("https", TrimSlashes(parts[2]),
                         IF Len(parts) = 3 THEN parts[3] ELSE "443", 0, 0),
              Nil)

\* what a loader outside src/ returns: a config, or (nil, an error)
Loaded(ok, scheme) ==
    IF ok THEN Ret(RestConfig(scheme, "api", "6443", 0, 0), Nil)
    ELSE Ret(NilConfig, "load error")

\* incluster.QPS = ...; incluster.Burst = ...: a nil incluster panics
WithLimits(c, env) ==
    IF c = NilConfig THEN Panic
    ELSE Ret([c EXCEPT !.qps = env.qps, !.burst = env.burst], Nil)

\* ConfigClient.  The else-if declares its own err with :=, which is in
\* scope in that branch and in the final else; the assignments there set
\* that err, and the check after the if chain reads the outer one.
ConfigClient(env) ==
  IF env.inCluster
    THEN
      IF env.remoteSecretOk
        THEN LET r == UseRemoteCreds(env.remoteSecret)   \* sets the outer err
             IN IF r.err # Nil THEN Ret(NilConfig, r.err) ELSE WithLimits(r.cfg, env)
      ELSE LET r == IF env.statOk                          \* sets the inner err
                      THEN Loaded(env.kubeconfigOk, "https")
                      ELSE Loaded(env.inClusterOk, "https")
               outerErr == Nil
           IN IF outerErr # Nil THEN Ret(NilConfig, outerErr) ELSE WithLimits(r.cfg, env)
  ELSE IF env.host = "" \/ env.port = ""
    THEN Ret(NilConfig, "unable to load in-cluster configuration")
  ELSE Ret(RestConfig("http", env.host, env.port, env.qps, env.burst), Nil)

------------------------------------------------------------------------------
(***************************************************************************)
(* NewClientFromConfig.  Its input is a *rest.Config with the fields the  *)
(* clients are made from: host, bearer token, TLS settings, rate limits  *)
(* and impersonation [user, groups, extra].  What kube.NewForConfig,       *)
(* AddToScheme, rest.RESTClientFor and istio.NewForConfig do is an input  *)
(* record calls of four outcomes; a clientset they build is named after  *)
(* its API.                                                              *)
(***************************************************************************)

NoImpersonation == [user |-> "", groups |-> {}, extra |-> {}]

\* a nil *Client (and the nil REST client inside it), with the fields of a
\* real one so that the two compare
NilRestClient == [host |-> "", apiPath |-> "", groupVersion |-> "",
                  token |-> "", tls |-> "", qps |-> 0, burst |-> 0,
                  impersonate |-> NoImpersonation]

NilClient == [token |-> "", k8s |-> "nil", iter8Api |-> NilRestClient,
              istioClientset |-> "nil", ctx |-> "nil"]

ClientRet(client, err) == [client |-> client, err |-> err]

\* mutant: only the impersonated user name is copied, not its groups
NewClientForAPIUserOnly(from, groupVersion) ==
    [host |-> from.host, apiPath |-> "/apis", groupVersion |-> groupVersion,
     token |-> from.token, tls |-> from.tls, qps |-> from.qps,
     burst |-> from.burst,
     impersonate |-> IF from.impersonate.user # ""
                       THEN [NoImpersonation EXCEPT !.user = from.impersonate.user]
                     ELSE NoImpersonation]

\* newClientForAPI: the REST client's config for one group version, made
\* from the caller's; the impersonation is copied when it names a user
NewClientForAPI(from, groupVersion) ==
    [host |-> from.host, apiPath |-> "/apis", groupVersion |-> groupVersion,
     token |-> from.token, tls |-> from.tls, qps |-> from.qps,
     burst |-> from.burst,
     impersonate |-> IF from.impersonate.user # "" THEN from.impersonate
                     ELSE NoImpersonation]

\* NewClientFromConfig: each constructor in turn; the first error is
\* returned with a nil client
NewClientFromConfig(config, calls) ==
    IF ~calls.kubeOk THEN ClientRet(NilClient, "kube error")
    ELSE IF ~calls.schemeOk THEN ClientRet(NilClient, "scheme error")
    ELSE IF ~calls.restOk THEN ClientRet(NilClient, "rest error")
    ELSE IF ~calls.istioOk THEN ClientRet(NilClient, "istio error")
    ELSE ClientRet([token |-> config.token, k8s |-> "k8s",
                    iter8Api |-> NewClientForAPI(config, "Iter8GroupVersion"),
                    istioClientset |-> "istio", ctx |-> "background"], Nil)

=============================================================================
