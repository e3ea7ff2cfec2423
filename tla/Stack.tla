------------------------------- MODULE Stack -------------------------------
(***************************************************************************)
(* One stack of the Teleport infrastructure coming up: Pulumi creates what *)
(* a profile calls for as soon as what it depends on is there, waits for   *)
(* the pods of what it creates, may fail half way and be run again, while  *)
(* pods wait for each other, join Teleport, are cut off by NetworkPolicies *)
(* and are lost.  Pulumi, Kubernetes, Helm's charts and Teleport's         *)
(* operator are outside; the program is what they are given.               *)
(*                                                                         *)
(* What can happen at once happens in rounds: creations only add to what   *)
(* there is, so only what comes late matters, and the resource whose       *)
(* creation fails (broken) stands for whatever comes last.                 *)
(***************************************************************************)
EXTENDS NetworkMatrix

CONSTANTS
  Profile,     \* the profile of each stack: what buildProfile lets through, and whether its
               \* cluster turns the public address into the proxy's pods (direct)
  None,
  Refusable,   \* the names of the policies whose creation may fail
  Outages,     \* the sets of roles whose pods are lost together
  MaxMishaps   \* bound: creations that fail, and outages

ASSUME StackAssumption == MaxMishaps \in Nat /\ Outages \subseteq SUBSET Owned

VARIABLES
  stack,       \* the stack that comes up
  made,        \* what the API server has
  done,        \* what Pulumi waits for no more
  applied,     \* the Teleport resources the operator has brought to Teleport
  serving,     \* the pods that are ready
  broken,      \* what cannot be created before somebody repairs it, or None
  mishaps

vars == <<stack, made, done, applied, serving, broken, mishaps>>

-----------------------------------------------------------------------------
(* enforceInvariants, as far as it concerns what is deployed. *)
Valid(p) ==
  /\ p.tlsFiles => p.kind
  /\ p.nodeport => p.kind
  /\ p.agent => p.mcp
  /\ p.env = "prod" => ~ p.dummies
  /\ p.harness => p.kind

\* On kind it is LocalDns that does.
ASSUME ProfileAssumption ==
  \A s \in DOMAIN Profile : Valid(Profile[s]) /\ (Profile[s].kind => Profile[s].direct)

-----------------------------------------------------------------------------
(* Resources.  Each has a name, the namespace it lives in ("" for none),   *)
(* what Pulumi creates first (dependsOn, the parent's dependsOn and the    *)
(* outputs among its inputs), its pods, what these mount or run as, and    *)
(* the pods that Pulumi waits for: a workload's own, a service's targets.  *)

Res(kind, name, ns, needs) ==
  [id |-> <<kind, name>>, ns |-> ns, needs |-> needs, pods |-> {}, mounts |-> {}, awaits |-> {}]

Work(kind, name, ns, needs, pods, mounts) ==
  [id |-> <<kind, name>>, ns |-> ns, needs |-> needs, pods |-> pods, mounts |-> mounts, awaits |-> pods]

Service(name, ns, needs, targets) ==
  [id |-> <<"service", name>>, ns |-> ns, needs |-> needs, pods |-> {}, mounts |-> {}, awaits |-> targets]

Namespace(name) == <<"ns", name>>
CLUSTER == <<"chart", "teleport">>
CRKinds == {"role", "bot", "token", "sshtoken", "user", "github", "rule", "database", "app"}

Guardrails(ns, needs) ==
  {Res("limits", ns, ns, needs \cup {Namespace(ns)}), Res("quota", ns, ns, needs \cup {Namespace(ns)})}

-----------------------------------------------------------------------------
(* TeleportCluster, LocalDns *)

ClusterSecrets(p) ==
  When(p.enterprise, {<<"secret", "license">>}) \cup When(p.tlsFiles, {<<"secret", "tls">>})

TeleportCluster(p) ==
  {Res("ns", "teleport", "", {})}
  \cup {Res(s[1], s[2], "teleport", {Namespace("teleport")}) : s \in ClusterSecrets(p)}
  \cup {Work("chart", "teleport", "teleport", {Namespace("teleport")} \cup ClusterSecrets(p),
             {<<role, role>> : role \in PodsOf.teleport}, ClusterSecrets(p))}
  \cup When(p.nodeport, {Service("nodeport", "teleport", {Namespace("teleport"), CLUSTER}, {<<"proxy", "proxy">>})})

LocalDns(p) == When(p.kind, {Res("patch", "coredns", "", {CLUSTER})})
AgentDeps(p) == When(p.kind, {<<"patch", "coredns">>})

-----------------------------------------------------------------------------
(* AccessPolicy, KubeRbac.  "catalog" stands for the roles no bot has. *)

EnabledBots(p) == {"mcp", "broker", "agent"} \cup When(p.harness, {"harness"}) \cup When(p.portal, {"portal"})
RoleNames(p) == {"catalog", "mcp", "broker", "agent", "portal"} \cup When(p.harness, {"harness"})
AllRoles(p) == {<<"role", r>> : r \in RoleNames(p)}
AgentTokens(p) ==
  {<<"token", "kube-agent">>} \cup When(p.dummies, {<<"sshtoken", e>> : e \in DOMAIN p.sshNodes})

AccessPolicy(p) ==
  LET Child(kind, name, needs) == Res(kind, name, "teleport", {CLUSTER, Namespace("teleport")} \cup needs)
  IN {Child("role", r, {}) : r \in RoleNames(p)}
     \cup {Child("bot", b, {<<"role", b>>}) : b \in EnabledBots(p)}
     \cup {Child("token", b, {<<"bot", b>>}) : b \in EnabledBots(p)}
     \cup {Child(t[1], t[2], {}) : t \in AgentTokens(p)}
     \cup When(p.users, {Child("user", "local", AllRoles(p))})
     \cup When(p.github, {Child("secret", "github-oauth", {}),
                          Child("github", "github", {<<"secret", "github-oauth">>} \cup AllRoles(p))})

\* Variant: the developers' binding does not wait for its namespace.
BindAtOnce(p) ==
  {Res("clusterrolebinding", g, "", {CLUSTER}) : g \in {"cluster-admin", "prod-viewer"}}
  \cup When(p.dummies, {Res("rolebinding", "dev", "dummies", {CLUSTER})})

KubeRbac(p) ==
  {Res("clusterrolebinding", g, "", {CLUSTER}) : g \in {"cluster-admin", "prod-viewer"}}
  \cup When(p.dummies, {Res("rolebinding", "dev", "dummies", {CLUSTER, Namespace("dummies")})})

-----------------------------------------------------------------------------
(* TeleportKubeAgent: a release for every environment; the first has the service account. *)

KubeAgentEnvs(p) == {p.env} \cup When(p.dummies, DOMAIN p.sshNodes)
KubeAgentPods(e) == {<<"kubeAgent", e>>}

TeleportKubeAgent(p) ==
  LET primary == <<"release", p.env>>
  IN {Res("ns", "kubeagent", "", AgentDeps(p))}
     \cup Guardrails("kubeagent", AgentDeps(p))
     \cup {Work("release", p.env, "kubeagent",
                {r.id : r \in Guardrails("kubeagent", {})} \cup
                  {Namespace("kubeagent"), CLUSTER, <<"token", "kube-agent">>} \cup AgentDeps(p),
                KubeAgentPods(p.env), {})}
     \cup {Work("release", e, "kubeagent", {Namespace("kubeagent"), primary}, KubeAgentPods(e), {primary})
             : e \in KubeAgentEnvs(p) \ {p.env}}

-----------------------------------------------------------------------------
(* DummyResources *)

DummyRes(p, kind, name, needs) == Res(kind, name, "dummies", {Namespace("dummies")} \cup AgentDeps(p) \cup needs)
DummyCR(p, kind, name, needs) ==
  Res(kind, name, "teleport", {CLUSTER, Namespace("teleport")} \cup AgentDeps(p) \cup needs)

\* The service is headless: Pulumi does not wait for its targets.
SshService(p, e) == DummyRes(p, "sshservice", e, {})

\* An environment with no servers still has its token and its kube-agent release.
SshServers(p, e) ==
  LET parts == {<<"sshaccount", e>>, <<"sshconfig", e>>}
      all == parts \cup {<<"sshservice", e>>}
  IN {SshService(p, e)} \cup {DummyRes(p, r[1], r[2], {}) : r \in parts}
     \cup {Work("sshnodes", e, "dummies",
                all \cup {Namespace("dummies"), <<"sshtoken", e>>, CLUSTER} \cup AgentDeps(p),
                {<<"ssh", e>>}, parts)}

\* postgres-<env> and mysql-dev: an init container fetches Teleport's CA before the server starts.
Database(p, name) ==
  LET key == <<"tlskey", name>>
      cert == <<"tlscert", name>>
      password == <<"password", name>>
      tls == <<"tlssecret", name>>
      auth == <<"authsecret", name>>
      config == <<"configmap", name>>
  IN {Res(key[1], name, "", AgentDeps(p)), Res(cert[1], name, "", AgentDeps(p) \cup {key}),
      Res(password[1], name, "", AgentDeps(p)),
      DummyRes(p, tls[1], tls[2], {key, cert}), DummyRes(p, auth[1], auth[2], {password}),
      DummyRes(p, config[1], config[2], {}),
      Service(name, "dummies", {Namespace("dummies")} \cup AgentDeps(p), {<<"db", name>>}),
      Work("statefulset", name, "dummies", {tls, auth, config, Namespace("dummies")} \cup AgentDeps(p),
           {<<"db", name>>}, {tls, auth, config}),
      DummyCR(p, "database", name, {cert})}

App(p, name, content) ==
  {Work("deployment", name, "dummies", {Namespace("dummies")} \cup AgentDeps(p) \cup content,
        {<<"app", name>>}, content),
   Service(name, "dummies", {Namespace("dummies")} \cup AgentDeps(p), {<<"app", name>>}),
   DummyCR(p, "app", name, {})}

DummyResources(p) ==
  LET console == <<"configmap", "cloud-console">>
  IN {Res("ns", "dummies", "", AgentDeps(p))}
     \cup Guardrails("dummies", AgentDeps(p))
     \cup (UNION {SshServers(p, e) : e \in {e \in DOMAIN p.sshNodes : p.sshNodes[e] > 0}})
     \cup When(p.postgres, Database(p, "postgres-dev") \cup Database(p, "postgres-prod"))
     \cup When(p.mysql, Database(p, "mysql-dev"))
     \cup When(p.httpbin, App(p, "httpbin", {}))
     \cup When(p.standin = "static", {DummyRes(p, console[1], console[2], {})} \cup App(p, console[2], {console}))
     \cup When(p.standin = "localstack", App(p, "localstack", {}))

-----------------------------------------------------------------------------
(* AccessServices *)

ServiceDeps(p) == {CLUSTER} \cup AgentDeps(p)
ServiceRes(p, kind, name, needs) == Res(kind, name, "access", {Namespace("access")} \cup ServiceDeps(p) \cup needs)

SharedSecrets == {"mcp-token", "broker-token", "webhook-secret", "identity-signing-key", "portal-token"}
ServiceSecrets == <<"secret", "access-services">>
BrokerPolicy == <<"configmap", "broker-policy">>

\* A service with a tbot beside it; extra is what it mounts besides.
DeployBot(p, bot, extra) ==
  LET own == {<<"serviceaccount", bot>>, <<"tbotconfig", bot>>}
  IN {ServiceRes(p, r[1], r[2], {}) : r \in own}
     \cup {Service(bot, "access", {Namespace("access")} \cup ServiceDeps(p), {<<bot, bot>>}),
           Work("deployment", bot, "access",
                own \cup {ServiceSecrets, BrokerPolicy, <<"bot", bot>>, <<"token", bot>>, Namespace("access")}
                  \cup ServiceDeps(p) \cup extra,
                {<<bot, bot>>}, own \cup {ServiceSecrets, BrokerPolicy} \cup extra)}

\* The harness writes its identity into a secret that is there before it.
DeployHarness(p) ==
  LET sa == <<"serviceaccount", "harness">>
      identity == <<"secret", "ci-harness-identity">>
      config == <<"tbotconfig", "harness">>
      writer == <<"role.rbac", "harness">>
  IN {ServiceRes(p, r[1], r[2], {}) : r \in {sa, identity, config, writer}}
     \cup {ServiceRes(p, "rolebinding", "harness", {writer, sa}),
           Work("deployment", "harness", "access",
                {sa, config, identity, <<"bot", "harness">>, <<"token", "harness">>, Namespace("access")}
                  \cup ServiceDeps(p),
                {<<"harness", "harness">>}, {sa, config, identity, <<"rolebinding", "harness">>})}

ChatSecrets(p) ==
  {<<"chatsecret", "llm">>} \cup {<<"chatsecret", a>> : a \in p.adapters \ {"cli"}}

DeployAgent(p) ==
  LET sa == <<"serviceaccount", "agent">>
      state == When(p.persist, {<<"pvc", "agent-state">>})
  IN {ServiceRes(p, r[1], r[2], {}) : r \in {sa} \cup ChatSecrets(p) \cup state}
     \cup {Service("agent", "access", {Namespace("access")} \cup ServiceDeps(p), {<<"agent", "agent">>}),
           Work("deployment", "agent", "access",
                {sa, ServiceSecrets, Namespace("access")} \cup ChatSecrets(p) \cup state \cup ServiceDeps(p),
                {<<"agent", "agent">>}, {sa, ServiceSecrets} \cup ChatSecrets(p) \cup state)}

AccessServices(p) ==
  LET identities == <<"configmap", "portal-identities">>
  IN {Res("ns", "access", "", {})}
     \cup Guardrails("access", ServiceDeps(p))
     \cup {Res("password", s, "", {}) : s \in SharedSecrets}
     \cup {ServiceRes(p, ServiceSecrets[1], ServiceSecrets[2], {<<"password", s>> : s \in SharedSecrets}),
           ServiceRes(p, BrokerPolicy[1], BrokerPolicy[2], {})}
     \cup When(p.mcp, DeployBot(p, "mcp", {}))
     \cup When(BrokerDeployed(p), DeployBot(p, "broker", {}))
     \cup When(p.portal, {ServiceRes(p, identities[1], identities[2], {})} \cup DeployBot(p, "portal", {identities}))
     \cup When(p.harness, DeployHarness(p))
     \cup When(p.agent, DeployAgent(p))

\* EnterpriseAccess, but for the plugins of the adapters: the rules wait for all of AccessPolicy.
MonitoringRules(p) ==
  When(p.enterprise,
    {Res("rule", r, "teleport", {CLUSTER, Namespace("teleport")} \cup {c.id : c \in AccessPolicy(p) \cup KubeRbac(p)})
       : r \in {"auto-approve-low-risk", "notify-high-risk"}})

-----------------------------------------------------------------------------
(* NetworkPolicies, and the whole program *)

OwnNamespaces(p) == {"teleport", "kubeagent", "access"} \cup When(p.dummies, {"dummies"})
PolicyId(q) == <<"policy", <<q.name, q.ns>>>>

NetworkPolicies(p) ==
  {Res("policy", <<q.name, q.ns>>, q.ns, {Namespace(ns) : ns \in OwnNamespaces(p)})
     : q \in RenderedPolicies(p)}

Program(p) ==
  TeleportCluster(p) \cup AccessPolicy(p) \cup KubeRbac(p) \cup LocalDns(p) \cup TeleportKubeAgent(p)
    \cup When(p.dummies, DummyResources(p)) \cup AccessServices(p) \cup NetworkPolicies(p)
    \cup MonitoringRules(p)

\* What a stack consists of: its resources by name, and its policies.
ByName(resources) == [id \in {r.id : r \in resources} |-> CHOOSE r \in resources : r.id = id]
Plan == [s \in DOMAIN Profile |-> ByName(Program(Profile[s]))]
ASSUME NoneAssumption == \A s \in DOMAIN Profile : None \notin DOMAIN Plan[s]
Policies == [s \in DOMAIN Profile |-> RenderedPolicies(Profile[s])]

profile == Profile[stack]
Resources == DOMAIN Plan[stack]
Resource(id) == Plan[stack][id]
IsCR(id) == id[1] \in CRKinds
Pods == UNION {Resource(id).pods : id \in Resources}

-----------------------------------------------------------------------------
(* Pods.  What a pod has to reach before it is ready: /readyz of the       *)
(* services and the join of every Teleport agent; the chat agent's         *)
(* /healthz and the apps ask nobody.                                       *)
Reaches(p, role) ==
  CASE role \in {"proxy", "operator"} \cup {"ssh", "mcp", "broker", "portal", "harness"} -> ToAuth
    [] role \in {"kubeAgent", "db"} -> {FrontDoor(p)}
    [] OTHER -> {}

\* The token a pod joins with.
TokenOf(pod) ==
  CASE pod[1] = "kubeAgent" -> {<<"token", "kube-agent">>}
    [] pod[1] = "ssh" -> {<<"sshtoken", pod[2]>>}
    [] pod[1] \in {"mcp", "broker", "portal", "harness"} -> {<<"token", pod[2]>>}
    [] OTHER -> {}

\* The proxy is called at its public address, which CoreDNS must rewrite to a service on kind.
PublicAddress ==
  AgentDeps(profile) \cup When(profile.nodeport, {<<"service", "nodeport">>})

InPlace == {q \in Policies[stack] : PolicyId(q) \in made}

\* The front passes a call on to the proxy.
Target(call) == IF call[1] = "front" THEN <<"proxy", PROXY>> ELSE call

Reachable(from, call) ==
  /\ \E pod \in serving : pod[1] = Target(call)[1]
  /\ Target(call)[1] = "proxy" => PublicAddress \subseteq made
  /\ LET policies == InPlace
     IN /\ Admitted(policies, from, call[1], call[2])
        /\ Admitted(policies, from, "dns", 53)
        /\ call[1] = "front" => Admitted(policies, "front", "proxy", PROXY)

CanServe(id, pod) ==
  /\ Resource(id).mounts \subseteq made
  /\ TokenOf(pod) \subseteq applied
  /\ \A call \in Reaches(profile, pod[1]) : Reachable(pod[1], call)

-----------------------------------------------------------------------------
Init ==
  /\ stack \in DOMAIN Profile
  /\ made = {} /\ done = {} /\ applied = {} /\ serving = {}
  /\ broken = None /\ mishaps = 0

\* Pulumi waits for the pods of a workload and for the targets of a service to be ready.
Awaited == {id \in made \ done : Resource(id).awaits \subseteq serving}
Creatable ==
  LET ready == done \cup Awaited
  IN {id \in Resources \ made : Resource(id).needs \subseteq ready /\ id # broken}

Create ==
  LET new == Creatable
      ready == Awaited
  IN /\ new \cup ready # {}
     /\ made' = made \cup new
     /\ done' = done \cup ready \cup {id \in new : Resource(id).awaits = {}}
     /\ UNCHANGED <<stack, applied, serving, broken, mishaps>>

\* The API server, or what stands before it, does not take a resource that others wait for, or a
\* policy, so that only some of the policies are in force.
Needed ==
  UNION {Resource(id).needs \cup Resource(id).mounts : id \in Resources}
    \cup {PolicyId(q) : q \in {q \in Policies[stack] : q.name \in Refusable}}
Fail ==
  /\ mishaps < MaxMishaps /\ broken = None
  /\ broken' \in Creatable \cap Needed
  /\ mishaps' = mishaps + 1
  /\ UNCHANGED <<stack, made, done, applied, serving>>

\* pulumi up ends with an error when it has nothing left to create or a wait runs out; run again
\* with the cause removed, it goes on where it was.
Rerun ==
  /\ broken # None /\ Creatable \cup Awaited = {}
  /\ broken' = None
  /\ UNCHANGED <<stack, made, done, applied, serving, mishaps>>

\* The operator brings a Teleport resource to Teleport after those it names.
Applicable ==
  {id \in made \ applied : IsCR(id) /\ \A r \in Resource(id).needs : IsCR(r) => r \in applied}

Apply ==
  /\ Applicable # {}
  /\ <<"operator", "operator">> \in serving /\ Reachable("operator", <<"auth", AUTH>>)
  /\ applied' = applied \cup Applicable
  /\ UNCHANGED <<stack, made, done, serving, broken, mishaps>>

Startable ==
  UNION {{pod \in Resource(id).pods \ serving : CanServe(id, pod)} : id \in made}

Serve ==
  LET ready == Startable
  IN /\ ready # {}
     /\ serving' = serving \cup ready
     /\ UNCHANGED <<stack, made, done, applied, broken, mishaps>>

\* The pods of some roles are lost at once; new ones take their place.
Outage ==
  /\ mishaps < MaxMishaps
  /\ \E lost \in {{pod \in serving : pod[1] \in roles} : roles \in Outages} :
       /\ lost # {}
       /\ serving' = serving \ lost
  /\ mishaps' = mishaps + 1
  /\ UNCHANGED <<stack, made, done, applied, broken>>

Next == Create \/ Fail \/ Rerun \/ Apply \/ Serve \/ Outage

\* Pulumi, the operator and the kubelet go on; somebody runs pulumi up again.
Fairness ==
  /\ WF_vars(Create) /\ WF_vars(Rerun) /\ WF_vars(Apply) /\ WF_vars(Serve)

Spec == Init /\ [][Next]_vars /\ Fairness

-----------------------------------------------------------------------------
\* Every variable has its type, and what Pulumi is done with exists.
TypeOK ==
  /\ stack \in DOMAIN Profile
  /\ made \subseteq Resources /\ done \subseteq made
  /\ applied \subseteq {id \in made : IsCR(id)}
  /\ serving \subseteq Pods
  /\ broken \in {None} \cup Resources
  /\ mishaps \in 0..MaxMishaps

\* What the API server asks for: the namespace of the resource, and the kinds that the chart of
\* the cluster brings.
Refers(id) ==
  When(Resource(id).ns # "", {Namespace(Resource(id).ns)}) \cup When(IsCR(id), {CLUSTER})

\* In whatever order things are created, and whichever creation fails in a first pulumi up,
\* nothing is ever sent to the API server before its namespace or its kind is there.
NothingRefused == [][\A id \in made' \ made : Refers(id) \subseteq made]_vars

\* However pulumi up is interrupted, whichever policy is missing for a while and whatever pods are
\* lost, everything comes up in the end but the pods that a call of theirs is cut off for, and what
\* Pulumi waits for and what the pods wait for never wait for each other.
Hindered == {pod \in Pods : \E call \in CutOff(profile) : call[1] = pod[1]}
AllUp ==
  /\ made = Resources /\ Pods \ Hindered \subseteq serving
  /\ {id \in Resources : Resource(id).awaits \cap Hindered = {}} \subseteq done
  /\ \A id \in made : IsCR(id) => id \in applied
StackComesUp == <>[]AllUp

\* With all policies in place, every call that the deployed programs are set up to make is
\* admitted, but for the databases' through a public address outside the cluster, and nothing is
\* that the header of NetworkPolicies.ts does not list.  Where Enterprise's plugins are deployed
\* only the second is said: their calls are not among those counted.
Flows == [s \in DOMAIN Profile |-> AdmittedFlows(Profile[s])]
FlowsAreTheMatrix ==
  InPlace = Policies[stack] =>
    /\ Plugins(profile) = {} => NeededFlows(profile) \ Flows[stack] = CutOff(profile)
    /\ Flows[stack] \subseteq DocumentedFlows(profile)
=============================================================================
