--------------------------- MODULE NetworkMatrix ---------------------------
(***************************************************************************)
(* Who may talk to whom in the cluster: the NetworkPolicies a profile is   *)
(* rendered to, what Kubernetes makes of them, the calls the deployed      *)
(* programs are configured to make, and the matrix in the header of        *)
(* NetworkPolicies.ts.  Pods are told apart as the policies' selectors do, *)
(* by their role.                                                          *)
(***************************************************************************)
EXTENDS Naturals

\* The pods of each namespace, by role: SELECTORS.
PodsOf ==
  [teleport  |-> {"proxy", "auth", "operator"},
   access    |-> {"mcp", "broker", "agent", "portal", "harness"},
   kubeagent |-> {"kubeAgent"},
   dummies   |-> {"ssh", "db", "app"}]

Owned == UNION {PodsOf[ns] : ns \in DOMAIN PodsOf}

\* Outside the namespaces of this project: no policy of ours selects these.  The front is the
\* load balancer that has the public address of the proxy.
Outside == {"front", "internet"}
Foreign == {"dns", "backstage", "stranger", "kubeAPI"} \cup Outside
Peer == Owned \cup Foreign

AUTH == 3025
PROXY == 3080
SSH == 3022
MCP == 8080
BROKER == 8081
AGENT == 8082
PUBLIC == 8083
PORTAL == 8084
DummyDbPorts == {5432, 3306}
DummyAppPorts == {80, 8080, 4566}
Port == {53, 443, 6443, SSH, AUTH, PROXY, MCP, BROKER, AGENT, PUBLIC, PORTAL}
          \cup DummyDbPorts \cup DummyAppPorts

When(c, S) == IF c THEN S ELSE {}

-----------------------------------------------------------------------------
(* renderNetworkPolicies *)

\* 0.0.0.0/0 is everybody.
KubeApiEgress == Peer \X {443, 6443}

\* Variant: the private ranges are not left out.
Anywhere443Egress == Peer \X {443}

\* 0.0.0.0/0 except the private ranges: what is outside the cluster is left.
Internet443Egress == Outside \X {443}

\* A rule is a set of peers with ports: whom the pods may call, or who may call them.
Policy(name, ns, pods, ingress, egress) ==
  [name |-> name, ns |-> ns, pods |-> pods, types |-> {"Ingress", "Egress"},
   ingress |-> ingress, egress |-> egress]

\* Teams and Google Chat call the agent; Slack is called.
HttpAdapters(p) == p.adapters \cap {"teams", "gchat"} # {}

Baseline(ns) ==
  {Policy("default-deny", ns, PodsOf[ns], {}, {}),
   [Policy("allow-dns", ns, PodsOf[ns], {}, {<<"dns", 53>>}) EXCEPT !.types = {"Egress"}]}

ToAuth == {<<"auth", AUTH>>}
ToProxy == {<<"proxy", PROXY>>}

\* Variant: the operator is forgotten, which brings every token to Teleport.
AgentsAndProxy == {"proxy"} \cup PodsOf.access \cup PodsOf.kubeagent \cup PodsOf.dummies

AuthCallers == {"proxy", "operator"} \cup PodsOf.access \cup PodsOf.kubeagent \cup PodsOf.dummies

ControlPlanePolicies(p) ==
  Baseline("teleport") \cup
  {Policy("proxy", "teleport", {"proxy"}, Peer \X {PROXY},
          ToAuth \cup When(p.dummies, {<<"ssh", SSH>>}) \cup When(p.acme, Internet443Egress)),
   Policy("auth", "teleport", {"auth"},
          AuthCallers \X {AUTH}, KubeApiEgress),
   Policy("operator", "teleport", {"operator"}, {}, ToAuth \cup KubeApiEgress)}

AccessPolicies(p) ==
  Baseline("access") \cup
  {Policy("mcp", "access", {"mcp"}, {<<"agent", MCP>>}, ToAuth \cup ToProxy),
   Policy("broker", "access", {"broker"},
          ({"agent"} \cup When(p.portal, {"portal"})) \X {BROKER},
          ToAuth \cup ToProxy \cup {<<"agent", AGENT>>}),
   Policy("agent", "access", {"agent"},
          {<<"broker", AGENT>>} \cup When(HttpAdapters(p), Peer \X {PUBLIC}),
          {<<"mcp", MCP>>, <<"broker", BROKER>>} \cup Internet443Egress)}
  \cup When(p.portal,
         {Policy("portal", "access", {"portal"}, When(p.backstage, {<<"backstage", PORTAL>>}),
                 ToAuth \cup ToProxy \cup {<<"broker", BROKER>>})})
  \cup When(p.harness,
         {Policy("harness", "access", {"harness"}, {}, ToAuth \cup KubeApiEgress)})

KubeAgentPolicies(p) ==
  Baseline("kubeagent") \cup
  {Policy("kube-agent", "kubeagent", {"kubeAgent"}, {},
          ToProxy \cup KubeApiEgress
            \cup When(p.dummies, PodsOf.dummies \X (DummyDbPorts \cup DummyAppPorts)))}

DummyPolicies ==
  Baseline("dummies") \cup
  {Policy("ssh-nodes", "dummies", {"ssh"}, {<<"proxy", SSH>>}, ToAuth),
   Policy("databases", "dummies", {"db"}, {"kubeAgent"} \X DummyDbPorts, ToProxy),
   Policy("apps", "dummies", {"app"}, {"kubeAgent"} \X DummyAppPorts, {})}

RenderedPolicies(p) ==
  ControlPlanePolicies(p) \cup AccessPolicies(p) \cup KubeAgentPolicies(p)
    \cup When(p.dummies, DummyPolicies)

-----------------------------------------------------------------------------
(* Kubernetes: a pod that no policy of a type selects is open in that      *)
(* direction; one that some select may do what one of them allows.  A call *)
(* needs the leave of both ends.                                           *)

Selecting(policies, pod, type) == {q \in policies : pod \in q.pods /\ type \in q.types}

MayCall(policies, from, to, port) ==
  LET mine == Selecting(policies, from, "Egress")
  IN mine = {} \/ \E q \in mine : <<to, port>> \in q.egress

MayBeCalled(policies, from, to, port) ==
  LET mine == Selecting(policies, to, "Ingress")
  IN mine = {} \/ \E q \in mine : <<from, port>> \in q.ingress

Admitted(policies, from, to, port) ==
  MayCall(policies, from, to, port) /\ MayBeCalled(policies, from, to, port)

-----------------------------------------------------------------------------
(* The calls that the programs deployed for a profile are set up to make.  *)

BrokerDeployed(p) == p.broker /\ (~ p.enterprise \/ p.force)

\* A tbot beside the service joins Teleport, and the service logs in with what it was given.
BotPods(p) ==
  When(p.mcp, {"mcp"}) \cup When(BrokerDeployed(p), {"broker"})
    \cup When(p.portal, {"portal"}) \cup When(p.harness, {"harness"})

\* inClusterProxyAddr is the public address.  Where the cluster itself turns it into the proxy's
\* pods (CoreDNS on kind; kube-proxy, for a load balancer known by an IP address) the policies see
\* a call of the proxy; elsewhere they see one that leaves the cluster.
FrontDoor(p) == IF p.direct THEN <<"proxy", PROXY>> ELSE <<"front", 443>>
CallsFrontDoor(p, pod) == <<pod, FrontDoor(p)[1], FrontDoor(p)[2]>>

\* Roles that a profile does not deploy have no pods.
Deployed(p) ==
  PodsOf.teleport \cup PodsOf.kubeagent \cup BotPods(p)
    \cup When(p.agent, {"agent"}) \cup When(p.dummies, PodsOf.dummies)

DummyCalls(p) ==
  {<<"ssh", "auth", AUTH>>, <<"proxy", "ssh", SSH>>}
    \cup When(p.postgres, {CallsFrontDoor(p, "db"), <<"kubeAgent", "db", 5432>>})
    \cup When(p.mysql, {CallsFrontDoor(p, "db"), <<"kubeAgent", "db", 3306>>})
    \cup When(p.httpbin \/ p.standin = "static", {<<"kubeAgent", "app", 8080>>})
    \cup When(p.standin = "localstack", {<<"kubeAgent", "app", 4566>>})

AgentCalls(p) ==
  {<<"agent", "mcp", MCP>>, <<"agent", "internet", 443>>}
    \cup When(BrokerDeployed(p), {<<"agent", "broker", BROKER>>, <<"broker", "agent", AGENT>>})
    \cup When(HttpAdapters(p), {<<"stranger", "agent", PUBLIC>>})

PortalCalls(p) ==
  When(BrokerDeployed(p), {<<"portal", "broker", BROKER>>})
    \cup When(p.backstage, {<<"backstage", "portal", PORTAL>>})

\* The official plugins of Enterprise (slack, msteams) are left out, and so are their calls.
Plugins(p) == When(p.enterprise, p.adapters \cap {"slack", "teams"})

NeededFlows(p) ==
  {<<"proxy", "auth", AUTH>>, <<"operator", "auth", AUTH>>, <<"auth", "kubeAPI", 443>>,
   <<"kubeAgent", "kubeAPI", 443>>, CallsFrontDoor(p, "kubeAgent"),
   <<"front", "proxy", PROXY>>, <<"stranger", "proxy", PROXY>>}
    \cup {<<pod, "auth", AUTH>> : pod \in BotPods(p)}
    \cup When(p.acme, {<<"proxy", "internet", 443>>})
    \cup When(p.harness, {<<"harness", "kubeAPI", 443>>})
    \cup When(p.dummies, DummyCalls(p))
    \cup When(p.agent, AgentCalls(p))
    \cup When(p.portal, PortalCalls(p))
    \cup {<<pod, "dns", 53>> : pod \in Deployed(p)}

\* What a database fetches through the public address when that leads out of the cluster: the
\* policy "databases" lets it reach the proxy's pods only.
CutOff(p) ==
  When(p.dummies /\ (p.postgres \/ p.mysql) /\ ~ p.direct, {CallsFrontDoor(p, "db")})

-----------------------------------------------------------------------------
(* The matrix as the header of NetworkPolicies.ts documents it. *)

DocumentedFlows(p) ==
  {<<from, "proxy", PROXY>> : from \in PodsOf.access \ {"agent", "harness"}}
    \cup {<<"kubeAgent", "proxy", PROXY>>, <<"db", "proxy", PROXY>>}
    \cup Foreign \X {"proxy"} \X {PROXY}
    \cup {"proxy", "operator", "mcp", "broker", "portal", "harness", "ssh"} \X {"auth"} \X {AUTH}
    \cup {"auth", "operator", "kubeAgent", "harness"} \X Foreign \X {443, 6443}
    \cup When(p.acme, {"proxy"} \X Outside \X {443})
    \cup {<<"proxy", "ssh", SSH>>}
    \cup {"kubeAgent"} \X {"db"} \X DummyDbPorts
    \cup {"kubeAgent"} \X {"app"} \X DummyAppPorts
    \cup {<<"agent", "mcp", MCP>>}
    \cup {"agent"} \X Outside \X {443}
    \cup {"agent", "portal"} \X {"broker"} \X {BROKER}
    \cup {<<"broker", "agent", AGENT>>}
    \cup When(HttpAdapters(p), Foreign \X {"agent"} \X {PUBLIC})
    \cup When(p.backstage, {<<"backstage", "portal", PORTAL>>})
    \cup Owned \X {"dns"} \X {53}

\* What the pods of this project take part in, once every policy is in place.
AdmittedFlows(p) ==
  LET live == Deployed(p) \cup Foreign
      policies == RenderedPolicies(p)
  IN {f \in {<<from, to, port>> : from \in live, to \in live, port \in Port} :
        /\ f[1] \in Owned \/ f[2] \in Owned
        /\ Admitted(policies, f[1], f[2], f[3])}
=============================================================================
