---------------------------- MODULE MCKubeClient ----------------------------
(***************************************************************************)
(* ConfigClient over every outcome of the calls it makes: in or out of    *)
(* the cluster, a remote secret or not (with a valid, a port-less, a      *)
(* plain-http and a malformed server URL, and bad CA data), the kubeconfig *)
(* file present or not and loading or not, rest.InClusterConfig working  *)
(* or not, and the service host and port set or not.                     *)
(***************************************************************************)
EXTENDS KubeClient

VARIABLE env

Servers ==
    {<<"https", <<"//", "api">>, "6443">>, <<"https", <<"//", "api">>>>,
     <<"http", <<"//", "api">>, "80">>, <<"https">>}

Envs ==
    [inCluster : BOOLEAN, remoteSecretOk : BOOLEAN,
     remoteSecret : [caOk : BOOLEAN, server : Servers],
     statOk : BOOLEAN, kubeconfigOk : BOOLEAN, inClusterOk : BOOLEAN,
     host : {"", "10.0.0.1"}, port : {"", "443"}, qps : {175}, burst : {200}]

Init == env \in Envs

Next == UNCHANGED env

Spec == Init /\ [][Next]_env

\* "It returns an error on any problem": ConfigClient either returns an
\* error, or returns a configuration and no error; it never dereferences a
\* nil configuration, whichever call fails.
ConfigClientSound ==
  LET r == ConfigClient(env)
  IN r # Panic /\ (r.err = Nil <=> r.cfg # NilConfig)

=============================================================================
