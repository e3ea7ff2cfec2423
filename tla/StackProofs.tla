----------------------------- MODULE StackProofs -----------------------------
(***************************************************************************)
(* Proofs about Stack.  That nothing is refused rests on the program: of   *)
(* every component it is shown, for every profile, that what it registers  *)
(* waits for the namespace it lives in and, where it is of a kind that the *)
(* cluster's chart brings, for that chart.  That flows are the documented  *)
(* ones rests on the policies together, and that a stack at rest is up on  *)
(* both: what waits for something waits for what is of a lower rank, and   *)
(* no policy stands between them.                                          *)
(***************************************************************************)
EXTENDS Stack, TLAPS

\* What a resource says of itself is enough to create it.
SaysEnough(r) ==
  /\ r.ns # "" => Namespace(r.ns) \in r.needs
  /\ r.id[1] \in CRKinds => CLUSTER \in r.needs

AllSay(resources) == \A r \in resources : SaysEnough(r)

-----------------------------------------------------------------------------
LEMMA ResSays ==
  ASSUME NEW kind, NEW name, NEW ns, NEW needs,
         ns = "" \/ Namespace(ns) \in needs,
         kind \notin CRKinds \/ CLUSTER \in needs
  PROVE  SaysEnough(Res(kind, name, ns, needs))
  BY DEF Res, SaysEnough

LEMMA WorkSays ==
  ASSUME NEW kind, NEW name, NEW ns, NEW needs, NEW pods, NEW mounts,
         ns = "" \/ Namespace(ns) \in needs,
         kind \notin CRKinds \/ CLUSTER \in needs
  PROVE  SaysEnough(Work(kind, name, ns, needs, pods, mounts))
  BY DEF Work, SaysEnough

LEMMA ServiceSays ==
  ASSUME NEW name, NEW ns, NEW needs, NEW targets, Namespace(ns) \in needs
  PROVE  SaysEnough(Service(name, ns, needs, targets))
  BY DEF Service, SaysEnough, CRKinds

LEMMA WhenSays ==
  ASSUME NEW c, NEW R, AllSay(R)
  PROVE  AllSay(When(c, R))
  BY DEF AllSay, When

LEMMA BothSay ==
  ASSUME NEW R, NEW S, AllSay(R), AllSay(S)
  PROVE  AllSay(R \cup S)
  BY DEF AllSay

\* The other ways the program writes its resources down.
LEMMA DummySays ==
  ASSUME NEW p, NEW kind, NEW name, NEW needs, kind \notin CRKinds
  PROVE  SaysEnough(DummyRes(p, kind, name, needs))
  BY ResSays DEF DummyRes

LEMMA DummyCRSays ==
  ASSUME NEW p, NEW kind, NEW name, NEW needs
  PROVE  SaysEnough(DummyCR(p, kind, name, needs))
  BY ResSays DEF DummyCR

LEMMA ServiceResSays ==
  ASSUME NEW p, NEW kind, NEW name, NEW needs
  PROVE  SaysEnough(ServiceRes(p, kind, name, needs))
  BY ResSays DEF ServiceRes, ServiceDeps

-----------------------------------------------------------------------------
(* The components. *)
LEMMA GuardrailsSay ==
  ASSUME NEW ns, NEW needs
  PROVE  AllSay(Guardrails(ns, needs))
<1>1. "limits" \notin CRKinds /\ "quota" \notin CRKinds  BY DEF CRKinds
<1>2. SaysEnough(Res("limits", ns, ns, needs \cup {Namespace(ns)}))  BY <1>1, ResSays
<1>3. SaysEnough(Res("quota", ns, ns, needs \cup {Namespace(ns)}))   BY <1>1, ResSays
<1> QED  BY <1>2, <1>3 DEF Guardrails, AllSay

LEMMA ClusterSays == ASSUME NEW p PROVE AllSay(TeleportCluster(p))
<1> DEFINE Own == {Namespace("teleport")}
           Ready == {<<role, role>> : role \in PodsOf.teleport}
           Chart == Work("chart", "teleport", "teleport", Own \cup ClusterSecrets(p), Ready, ClusterSecrets(p))
           Secrets == {Res(s[1], s[2], "teleport", {Namespace("teleport")}) : s \in ClusterSecrets(p)}
           NodePort == Service("nodeport", "teleport", {Namespace("teleport"), CLUSTER}, {<<"proxy", "proxy">>})
<1>1. SaysEnough(Res("ns", "teleport", "", {}))  BY ResSays DEF CRKinds
<1>2. \A s \in ClusterSecrets(p) : s[1] \notin CRKinds
  BY DEF ClusterSecrets, When, CRKinds
<1>3. AllSay(Secrets)  BY <1>2, ResSays DEF AllSay
<1>4. SaysEnough(Chart)
  <2>1. "chart" \notin CRKinds  BY DEF CRKinds
  <2>2. Namespace("teleport") \in Own \cup ClusterSecrets(p)  OBVIOUS
  <2> HIDE DEF Own, Ready
  <2> QED  BY <2>1, <2>2, WorkSays
<1>5. SaysEnough(NodePort)  BY ServiceSays
<1> HIDE DEF Chart, Secrets, NodePort
<1>6. AllSay(When(p.nodeport, {NodePort}))  BY <1>5, WhenSays DEF AllSay
<1>7. TeleportCluster(p) = {Res("ns", "teleport", "", {})} \cup Secrets \cup {Chart} \cup When(p.nodeport, {NodePort})
  BY DEF TeleportCluster, Secrets, Chart, NodePort, Own, Ready
<1> QED  BY <1>1, <1>3, <1>4, <1>6, <1>7 DEF AllSay

LEMMA LocalDnsSays == ASSUME NEW p PROVE AllSay(LocalDns(p))
<1>1. SaysEnough(Res("patch", "coredns", "", {CLUSTER}))  BY ResSays
<1> QED  BY <1>1, WhenSays DEF LocalDns, AllSay

\* Everything of the policy waits for the cluster and its namespace.
LEMMA AccessPolicySays == ASSUME NEW p PROVE AllSay(AccessPolicy(p))
<1> DEFINE Child(kind, name, needs) == Res(kind, name, "teleport", {CLUSTER, Namespace("teleport")} \cup needs)
           Roles == {Child("role", r, {}) : r \in RoleNames(p)}
           Bots == {Child("bot", b, {<<"role", b>>}) : b \in EnabledBots(p)}
           BotTokens == {Child("token", b, {<<"bot", b>>}) : b \in EnabledBots(p)}
           Tokens == {Child(t[1], t[2], {}) : t \in AgentTokens(p)}
           Users == When(p.users, {Child("user", "local", AllRoles(p))})
           GitHub == When(p.github, {Child("secret", "github-oauth", {}),
                              Child("github", "github", {<<"secret", "github-oauth">>} \cup AllRoles(p))})
<1>1. \A kind, name, needs : SaysEnough(Child(kind, name, needs))  BY ResSays
<1>2. AccessPolicy(p) = Roles \cup Bots \cup BotTokens \cup Tokens \cup Users \cup GitHub
  BY DEF AccessPolicy
<1> HIDE DEF Child
<1>3. AllSay(Roles) /\ AllSay(Bots) /\ AllSay(BotTokens) /\ AllSay(Tokens)  BY <1>1 DEF AllSay
<1>4. AllSay(Users)  BY <1>1 DEF AllSay, When
<1>5. AllSay(GitHub)  BY <1>1 DEF AllSay, When
<1> QED  BY <1>2, <1>3, <1>4, <1>5 DEF AllSay

LEMMA KubeRbacSays == ASSUME NEW p PROVE AllSay(KubeRbac(p))
<1>1. \A g : SaysEnough(Res("clusterrolebinding", g, "", {CLUSTER}))  BY ResSays
<1>2. SaysEnough(Res("rolebinding", "dev", "dummies", {CLUSTER, Namespace("dummies")}))  BY ResSays
<1> QED  BY <1>1, <1>2 DEF KubeRbac, AllSay, When

LEMMA KubeAgentSays == ASSUME NEW p PROVE AllSay(TeleportKubeAgent(p))
<1> DEFINE primary == <<"release", p.env>>
           FirstNeeds == {r.id : r \in Guardrails("kubeagent", {})} \cup
                  {Namespace("kubeagent"), CLUSTER, <<"token", "kube-agent">>} \cup AgentDeps(p)
           First == Work("release", p.env, "kubeagent", FirstNeeds, KubeAgentPods(p.env), {})
           Other(e) == Work("release", e, "kubeagent", {Namespace("kubeagent"), primary}, KubeAgentPods(e), {primary})
<1>1. "release" \notin CRKinds /\ "ns" \notin CRKinds  BY DEF CRKinds
<1>2. SaysEnough(Res("ns", "kubeagent", "", AgentDeps(p)))  BY <1>1, ResSays
<1>3. AllSay(Guardrails("kubeagent", AgentDeps(p)))  BY GuardrailsSay
<1>4. SaysEnough(First)
  <2>1. Namespace("kubeagent") \in FirstNeeds  OBVIOUS
  <2> HIDE DEF FirstNeeds
  <2> QED  BY <1>1, <2>1, WorkSays
<1>5. \A e : SaysEnough(Other(e))  BY <1>1, WorkSays
<1>6. TeleportKubeAgent(p) =
        {Res("ns", "kubeagent", "", AgentDeps(p))} \cup Guardrails("kubeagent", AgentDeps(p))
          \cup {First} \cup {Other(e) : e \in KubeAgentEnvs(p) \ {p.env}}
  BY DEF TeleportKubeAgent
<1> HIDE DEF First, Other
<1> QED  BY <1>2, <1>3, <1>4, <1>5, <1>6 DEF AllSay

-----------------------------------------------------------------------------
(* DummyResources *)
LEMMA SshSay == ASSUME NEW p, NEW e PROVE AllSay(SshServers(p, e))
<1> DEFINE parts == {<<"sshaccount", e>>, <<"sshconfig", e>>}
           SetNeeds == (parts \cup {<<"sshservice", e>>})
                         \cup {Namespace("dummies"), <<"sshtoken", e>>, CLUSTER} \cup AgentDeps(p)
           Set == Work("sshnodes", e, "dummies", SetNeeds, {<<"ssh", e>>}, parts)
<1>1. {"sshaccount", "sshconfig", "sshservice", "sshnodes"} \cap CRKinds = {}  BY DEF CRKinds
<1>2. SaysEnough(SshService(p, e))  BY <1>1, DummySays DEF SshService
<1>3. \A r \in parts : SaysEnough(DummyRes(p, r[1], r[2], {}))  BY <1>1, DummySays
<1>4. SaysEnough(Set)
  <2>1. Namespace("dummies") \in SetNeeds  OBVIOUS
  <2> HIDE DEF SetNeeds, parts
  <2> QED  BY <1>1, <2>1, WorkSays
<1>5. SshServers(p, e) = {SshService(p, e)} \cup {DummyRes(p, r[1], r[2], {}) : r \in parts} \cup {Set}
  BY DEF SshServers
<1> HIDE DEF Set, parts
<1> QED  BY <1>2, <1>3, <1>4, <1>5 DEF AllSay

LEMMA DatabaseSays == ASSUME NEW p, NEW name PROVE AllSay(Database(p, name))
<1> DEFINE key == <<"tlskey", name>>
           cert == <<"tlscert", name>>
           password == <<"password", name>>
           tls == <<"tlssecret", name>>
           auth == <<"authsecret", name>>
           config == <<"configmap", name>>
           Front == Service(name, "dummies", {Namespace("dummies")} \cup AgentDeps(p), {<<"db", name>>})
           SetNeeds == {tls, auth, config, Namespace("dummies")} \cup AgentDeps(p)
           Set == Work("statefulset", name, "dummies", SetNeeds, {<<"db", name>>}, {tls, auth, config})
<1>1. {"tlskey", "tlscert", "password", "tlssecret", "authsecret", "configmap", "statefulset"} \cap CRKinds = {}
  BY DEF CRKinds
<1>2. /\ SaysEnough(Res("tlskey", name, "", AgentDeps(p)))
      /\ SaysEnough(Res("tlscert", name, "", AgentDeps(p) \cup {key}))
      /\ SaysEnough(Res("password", name, "", AgentDeps(p)))
  BY <1>1, ResSays
<1>3. /\ SaysEnough(DummyRes(p, "tlssecret", name, {key, cert}))
      /\ SaysEnough(DummyRes(p, "authsecret", name, {password}))
      /\ SaysEnough(DummyRes(p, "configmap", name, {}))
  BY <1>1, DummySays
<1>4. SaysEnough(Front)  BY ServiceSays
<1>5. SaysEnough(Set)
  <2>1. Namespace("dummies") \in SetNeeds  OBVIOUS
  <2> HIDE DEF SetNeeds
  <2> QED  BY <1>1, <2>1, WorkSays
<1>6. SaysEnough(DummyCR(p, "database", name, {cert}))  BY DummyCRSays
<1>7. Database(p, name) =
        {Res("tlskey", name, "", AgentDeps(p)), Res("tlscert", name, "", AgentDeps(p) \cup {key}),
         Res("password", name, "", AgentDeps(p)),
         DummyRes(p, "tlssecret", name, {key, cert}), DummyRes(p, "authsecret", name, {password}),
         DummyRes(p, "configmap", name, {}), Front, Set, DummyCR(p, "database", name, {cert})}
  BY DEF Database
<1> HIDE DEF Front, Set
<1> QED  BY <1>2, <1>3, <1>4, <1>5, <1>6, <1>7 DEF AllSay

LEMMA AppSays == ASSUME NEW p, NEW name, NEW content PROVE AllSay(App(p, name, content))
<1> DEFINE Needs == {Namespace("dummies")} \cup AgentDeps(p) \cup content
           Server == Work("deployment", name, "dummies", Needs, {<<"app", name>>}, content)
           Front == Service(name, "dummies", {Namespace("dummies")} \cup AgentDeps(p), {<<"app", name>>})
<1>1. SaysEnough(Server)
  <2>1. "deployment" \notin CRKinds /\ Namespace("dummies") \in Needs  BY DEF CRKinds
  <2> HIDE DEF Needs
  <2> QED  BY <2>1, WorkSays
<1>2. SaysEnough(Front)  BY ServiceSays
<1>3. SaysEnough(DummyCR(p, "app", name, {}))  BY DummyCRSays
<1>4. App(p, name, content) = {Server, Front, DummyCR(p, "app", name, {})}  BY DEF App
<1> HIDE DEF Server, Front
<1> QED  BY <1>1, <1>2, <1>3, <1>4 DEF AllSay

LEMMA DummiesSay == ASSUME NEW p PROVE AllSay(DummyResources(p))
<1> DEFINE Base == {Res("ns", "dummies", "", AgentDeps(p))} \cup Guardrails("dummies", AgentDeps(p))
           Ssh == UNION {SshServers(p, e) : e \in {e \in DOMAIN p.sshNodes : p.sshNodes[e] > 0}}
           Postgres == When(p.postgres, Database(p, "postgres-dev") \cup Database(p, "postgres-prod"))
           MySQL == When(p.mysql, Database(p, "mysql-dev"))
           Httpbin == When(p.httpbin, App(p, "httpbin", {}))
           Console == <<"configmap", "cloud-console">>
           Static == When(p.standin = "static",
                       {DummyRes(p, Console[1], Console[2], {})} \cup App(p, Console[2], {Console}))
           Localstack == When(p.standin = "localstack", App(p, "localstack", {}))
<1>1. "ns" \notin CRKinds /\ "configmap" \notin CRKinds  BY DEF CRKinds
<1>2. SaysEnough(Res("ns", "dummies", "", AgentDeps(p)))  BY <1>1, ResSays
<1>3. AllSay(Base)  BY <1>2, GuardrailsSay DEF AllSay
<1>4. AllSay(Ssh)  BY SshSay DEF AllSay
<1>5. AllSay(Postgres)  BY DatabaseSays, BothSay, WhenSays
<1>6. AllSay(MySQL)  BY DatabaseSays, WhenSays
<1>7. AllSay(Httpbin) /\ AllSay(Localstack)  BY AppSays, WhenSays
<1>8. AllSay(Static)
  <2>1. SaysEnough(DummyRes(p, Console[1], Console[2], {}))  BY <1>1, DummySays
  <2>2. AllSay({DummyRes(p, Console[1], Console[2], {})})  BY <2>1 DEF AllSay
  <2> QED  BY <2>2, AppSays, BothSay, WhenSays
<1>9. DummyResources(p) = Base \cup Ssh \cup Postgres \cup MySQL \cup Httpbin \cup Static \cup Localstack
  BY DEF DummyResources
<1> HIDE DEF Base, Ssh, Postgres, MySQL, Httpbin, Static, Localstack
<1> QED  BY <1>3, <1>4, <1>5, <1>6, <1>7, <1>8, <1>9 DEF AllSay

-----------------------------------------------------------------------------
(* AccessServices *)
LEMMA BotSays == ASSUME NEW p, NEW bot, NEW extra PROVE AllSay(DeployBot(p, bot, extra))
<1> DEFINE own == {<<"serviceaccount", bot>>, <<"tbotconfig", bot>>}
           Parts == {ServiceRes(p, r[1], r[2], {}) : r \in own}
           Front == Service(bot, "access", {Namespace("access")} \cup ServiceDeps(p), {<<bot, bot>>})
           Needs == own \cup {ServiceSecrets, BrokerPolicy, <<"bot", bot>>, <<"token", bot>>, Namespace("access")}
                      \cup ServiceDeps(p) \cup extra
           Server == Work("deployment", bot, "access", Needs, {<<bot, bot>>},
                          own \cup {ServiceSecrets, BrokerPolicy} \cup extra)
<1>1. AllSay(Parts)  BY ServiceResSays DEF AllSay
<1>2. SaysEnough(Front)  BY ServiceSays
<1>3. SaysEnough(Server)
  <2>1. "deployment" \notin CRKinds /\ Namespace("access") \in Needs  BY DEF CRKinds
  <2> HIDE DEF Needs, own
  <2> QED  BY <2>1, WorkSays
<1>4. DeployBot(p, bot, extra) = Parts \cup {Front, Server}  BY DEF DeployBot
<1> HIDE DEF Parts, Front, Server
<1> QED  BY <1>1, <1>2, <1>3, <1>4 DEF AllSay

LEMMA HarnessSays == ASSUME NEW p PROVE AllSay(DeployHarness(p))
<1> DEFINE sa == <<"serviceaccount", "harness">>
           identity == <<"secret", "ci-harness-identity">>
           config == <<"tbotconfig", "harness">>
           writer == <<"role.rbac", "harness">>
           Parts == {ServiceRes(p, r[1], r[2], {}) : r \in {sa, identity, config, writer}}
           Binding == ServiceRes(p, "rolebinding", "harness", {writer, sa})
           Needs == {sa, config, identity, <<"bot", "harness">>, <<"token", "harness">>, Namespace("access")}
                      \cup ServiceDeps(p)
           Server == Work("deployment", "harness", "access", Needs, {<<"harness", "harness">>},
                          {sa, config, identity, <<"rolebinding", "harness">>})
<1>1. AllSay(Parts)  BY ServiceResSays DEF AllSay
<1>2. SaysEnough(Binding)  BY ServiceResSays
<1>3. SaysEnough(Server)
  <2>1. "deployment" \notin CRKinds /\ Namespace("access") \in Needs  BY DEF CRKinds
  <2> HIDE DEF Needs
  <2> QED  BY <2>1, WorkSays
<1>4. DeployHarness(p) = Parts \cup {Binding, Server}  BY DEF DeployHarness
<1> HIDE DEF Parts, Binding, Server
<1> QED  BY <1>1, <1>2, <1>3, <1>4 DEF AllSay

LEMMA AgentSays == ASSUME NEW p PROVE AllSay(DeployAgent(p))
<1> DEFINE sa == <<"serviceaccount", "agent">>
           state == When(p.persist, {<<"pvc", "agent-state">>})
           Parts == {ServiceRes(p, r[1], r[2], {}) : r \in {sa} \cup ChatSecrets(p) \cup state}
           Front == Service("agent", "access", {Namespace("access")} \cup ServiceDeps(p), {<<"agent", "agent">>})
           Needs == {sa, ServiceSecrets, Namespace("access")} \cup ChatSecrets(p) \cup state \cup ServiceDeps(p)
           Server == Work("deployment", "agent", "access", Needs, {<<"agent", "agent">>},
                          {sa, ServiceSecrets} \cup ChatSecrets(p) \cup state)
<1>1. AllSay(Parts)  BY ServiceResSays DEF AllSay
<1>2. SaysEnough(Front)  BY ServiceSays
<1>3. SaysEnough(Server)
  <2>1. "deployment" \notin CRKinds /\ Namespace("access") \in Needs  BY DEF CRKinds
  <2> HIDE DEF Needs
  <2> QED  BY <2>1, WorkSays
<1>4. DeployAgent(p) = Parts \cup {Front, Server}  BY DEF DeployAgent
<1> HIDE DEF Parts, Front, Server
<1> QED  BY <1>1, <1>2, <1>3, <1>4 DEF AllSay

LEMMA ServicesSay == ASSUME NEW p PROVE AllSay(AccessServices(p))
<1> DEFINE identities == <<"configmap", "portal-identities">>
           Base == {Res("ns", "access", "", {})} \cup Guardrails("access", ServiceDeps(p))
           Passwords == {Res("password", s, "", {}) : s \in SharedSecrets}
           Shared == {ServiceRes(p, ServiceSecrets[1], ServiceSecrets[2], {<<"password", s>> : s \in SharedSecrets}),
                      ServiceRes(p, BrokerPolicy[1], BrokerPolicy[2], {})}
           Bots == When(p.mcp, DeployBot(p, "mcp", {})) \cup When(BrokerDeployed(p), DeployBot(p, "broker", {}))
           Portal == When(p.portal,
                       {ServiceRes(p, identities[1], identities[2], {})} \cup DeployBot(p, "portal", {identities}))
           Others == When(p.harness, DeployHarness(p)) \cup When(p.agent, DeployAgent(p))
<1>1. "ns" \notin CRKinds /\ "password" \notin CRKinds  BY DEF CRKinds
<1>2. SaysEnough(Res("ns", "access", "", {}))  BY <1>1, ResSays
<1>3. AllSay(Base)  BY <1>2, GuardrailsSay DEF AllSay
<1>4. AllSay(Passwords)  BY <1>1, ResSays DEF AllSay
<1>5. AllSay(Shared)  BY ServiceResSays DEF AllSay
<1>6. AllSay(Bots)  BY BotSays, WhenSays, BothSay
<1>7. AllSay(Portal)
  <2>1. AllSay({ServiceRes(p, identities[1], identities[2], {})})  BY ServiceResSays DEF AllSay
  <2> QED  BY <2>1, BotSays, BothSay, WhenSays
<1>8. AllSay(Others)  BY HarnessSays, AgentSays, WhenSays, BothSay
<1>9. AccessServices(p) = Base \cup Passwords \cup Shared \cup Bots \cup Portal \cup Others
  BY DEF AccessServices
<1> HIDE DEF Base, Passwords, Shared, Bots, Portal, Others
<1> QED  BY <1>3, <1>4, <1>5, <1>6, <1>7, <1>8, <1>9 DEF AllSay

LEMMA MonitoringSays == ASSUME NEW p PROVE AllSay(MonitoringRules(p))
<1> DEFINE Needs == {CLUSTER, Namespace("teleport")} \cup {c.id : c \in AccessPolicy(p) \cup KubeRbac(p)}
<1>1. CLUSTER \in Needs /\ Namespace("teleport") \in Needs  OBVIOUS
<1>2. MonitoringRules(p) = When(p.enterprise,
        {Res("rule", r, "teleport", Needs) : r \in {"auto-approve-low-risk", "notify-high-risk"}})
  BY DEF MonitoringRules
<1> HIDE DEF Needs
<1>3. \A r : SaysEnough(Res("rule", r, "teleport", Needs))  BY <1>1, ResSays
<1> QED  BY <1>2, <1>3 DEF AllSay, When

-----------------------------------------------------------------------------
(* NetworkPolicies *)

\* A rendered policy lives in a namespace of ours.
OfOurs(p, policies) == \A q \in policies : q.ns \in OwnNamespaces(p)

LEMMA BaselineIsOfOurs ==
  ASSUME NEW p, NEW ns \in OwnNamespaces(p)
  PROVE  OfOurs(p, Baseline(ns))
<1> DEFINE Dns == Policy("allow-dns", ns, PodsOf[ns], {}, {<<"dns", 53>>})
           DnsOut == [Dns EXCEPT !.types = {"Egress"}]
<1>1. DnsOut.ns = ns  BY DEF Policy
<1>2. Policy("default-deny", ns, PodsOf[ns], {}, {}).ns = ns  BY DEF Policy
<1>3. Baseline(ns) = {Policy("default-deny", ns, PodsOf[ns], {}, {}), DnsOut}  BY DEF Baseline
<1> HIDE DEF DnsOut
<1> QED  BY <1>1, <1>2, <1>3 DEF OfOurs

LEMMA RenderedIsOfOurs == ASSUME NEW p PROVE OfOurs(p, RenderedPolicies(p))
<1>1. {"teleport", "kubeagent", "access"} \subseteq OwnNamespaces(p) /\ (p.dummies => "dummies" \in OwnNamespaces(p))
  BY DEF OwnNamespaces, When
<1>2. OfOurs(p, ControlPlanePolicies(p))
  BY <1>1, BaselineIsOfOurs DEF ControlPlanePolicies, OfOurs, Policy
<1>3. OfOurs(p, AccessPolicies(p))
  BY <1>1, BaselineIsOfOurs DEF AccessPolicies, OfOurs, Policy, When
<1>4. OfOurs(p, KubeAgentPolicies(p))
  BY <1>1, BaselineIsOfOurs DEF KubeAgentPolicies, OfOurs, Policy
<1>5. ASSUME p.dummies PROVE OfOurs(p, DummyPolicies)
  BY <1>1, <1>5, BaselineIsOfOurs DEF DummyPolicies, OfOurs, Policy
<1> QED  BY <1>2, <1>3, <1>4, <1>5 DEF RenderedPolicies, OfOurs, When

LEMMA PoliciesSay == ASSUME NEW p PROVE AllSay(NetworkPolicies(p))
<1> DEFINE Needs == {Namespace(ns) : ns \in OwnNamespaces(p)}
           Rendered(q) == Res("policy", <<q.name, q.ns>>, q.ns, Needs)
<1>1. ASSUME NEW q \in RenderedPolicies(p) PROVE SaysEnough(Rendered(q))
  <2>1. "policy" \notin CRKinds  BY DEF CRKinds
  <2>2. Namespace(q.ns) \in Needs  BY RenderedIsOfOurs DEF OfOurs
  <2> HIDE DEF Needs
  <2> QED  BY <2>1, <2>2, ResSays
<1>2. NetworkPolicies(p) = {Rendered(q) : q \in RenderedPolicies(p)}  BY DEF NetworkPolicies
<1> HIDE DEF Rendered
<1> QED  BY <1>1, <1>2 DEF AllSay

-----------------------------------------------------------------------------
(* The program, and what a stack consists of. *)

LEMMA ProgramSays == ASSUME NEW p PROVE AllSay(Program(p))
<1>1. AllSay(When(p.dummies, DummyResources(p)))  BY DummiesSay, WhenSays
<1> QED
  BY <1>1, ClusterSays, AccessPolicySays, KubeRbacSays, LocalDnsSays, KubeAgentSays, ServicesSay,
     PoliciesSay, MonitoringSays
  DEF Program, AllSay

\* Looking a resource up by its name gives one of the program's, of that name.
LEMMA ByNameFinds ==
  ASSUME NEW R, NEW id \in DOMAIN ByName(R)
  PROVE  ByName(R)[id] \in R /\ ByName(R)[id].id = id
<1>1. PICK r \in R : r.id = id  BY DEF ByName
<1>2. ByName(R)[id] = CHOOSE x \in R : x.id = id  BY DEF ByName
<1> QED  BY <1>1, <1>2

\* What the API server asks of a resource of the stack, the resource waits for.
LEMMA RefersToNeeds ==
  ASSUME stack \in DOMAIN Profile, NEW id \in Resources
  PROVE  Refers(id) \subseteq Resource(id).needs
<1>1. Plan[stack] = ByName(Program(profile))  BY DEF Plan, profile
<1>2. Resource(id) \in Program(profile) /\ Resource(id).id = id
  BY <1>1, ByNameFinds DEF Resource, Resources
<1>3. SaysEnough(Resource(id))  BY <1>2, ProgramSays DEF AllSay
<1>4. IsCR(id) => CLUSTER \in Resource(id).needs  BY <1>2, <1>3 DEF SaysEnough, IsCR
<1>5. Resource(id).ns # "" => Namespace(Resource(id).ns) \in Resource(id).needs  BY <1>3 DEF SaysEnough
<1> HIDE DEF Resource, IsCR, Namespace, CLUSTER
<1> QED  BY <1>4, <1>5 DEF Refers, When

-----------------------------------------------------------------------------
LEMMA Typing == TypeOK /\ [Next]_vars => TypeOK'
<1> SUFFICES ASSUME TypeOK, [Next]_vars PROVE TypeOK'
  OBVIOUS
<1> USE DEF TypeOK
<1>1. CASE UNCHANGED vars  BY <1>1 DEF vars, Resources, Resource, Pods
<1>2. CASE Create
  <2>1. Creatable \subseteq Resources  BY DEF Creatable
  <2>2. Awaited \subseteq made  BY DEF Awaited
  <2>3. made' = made \cup Creatable /\ done' \subseteq made \cup Creatable  BY <1>2, <2>1, <2>2 DEF Create
  <2> QED  BY <1>2, <2>1, <2>3 DEF Create, Resources, Resource, Pods
<1>3. CASE Fail
  <2>1. broken' \in Resources  BY <1>3 DEF Fail, Creatable
  <2>2. mishaps' \in 0..MaxMishaps  BY <1>3, StackAssumption DEF Fail, StackAssumption
  <2> QED  BY <1>3, <2>1, <2>2 DEF Fail, Resources, Resource, Pods
<1>4. CASE Rerun  BY <1>4 DEF Rerun, Resources, Resource, Pods
<1>5. CASE Apply
  <2>1. Applicable \subseteq {id \in made : IsCR(id)}  BY DEF Applicable
  <2> QED  BY <1>5, <2>1 DEF Apply, Resources, Resource, Pods
<1>6. CASE Serve
  <2>1. Startable \subseteq Pods  BY DEF Startable, Pods
  <2> QED  BY <1>6, <2>1 DEF Serve, Resources, Resource, Pods
<1>7. CASE Outage
  <2>1. serving' \subseteq serving  BY <1>7 DEF Outage
  <2>2. mishaps' \in 0..MaxMishaps  BY <1>7, StackAssumption DEF Outage, StackAssumption
  <2> QED  BY <1>7, <2>1, <2>2 DEF Outage, Resources, Resource, Pods
<1> QED  BY <1>1, <1>2, <1>3, <1>4, <1>5, <1>6, <1>7 DEF Next

\* Pulumi is done only with what there is, the operator only brings Teleport resources that
\* were created, and only pods of the program ever serve.
THEOREM TypeCorrect == Spec => []TypeOK
<1>1. Init => TypeOK  BY StackAssumption DEF Init, TypeOK, StackAssumption
<1> QED  BY <1>1, Typing, PTL DEF Spec

\* However a stack of whatever profile comes up, nothing is sent to the API server before its
\* namespace, and the chart that brings its kind, are there: Pulumi's dependencies, which the
\* program declares resource by resource, say so for each of them.
THEOREM NothingIsRefused == Spec => NothingRefused
<1>1. ASSUME TypeOK, [Next]_vars PROVE [\A id \in made' \ made : Refers(id) \subseteq made]_vars
  <2>1. SUFFICES ASSUME NEW id \in made' \ made PROVE Refers(id) \subseteq made
    OBVIOUS
  <2>2. Create  BY <1>1, <2>1 DEF Next, Fail, Rerun, Apply, Serve, Outage, vars
  <2>3. id \in Creatable  BY <2>1, <2>2 DEF Create
  <2>4. id \in Resources /\ Resource(id).needs \subseteq done \cup Awaited  BY <2>3 DEF Creatable
  <2>5. done \cup Awaited \subseteq made  BY <1>1 DEF TypeOK, Awaited
  <2> QED  BY <1>1, <2>4, <2>5, RefersToNeeds DEF TypeOK
<1> QED  BY <1>1, TypeCorrect, PTL DEF Spec, NothingRefused

-----------------------------------------------------------------------------
(* Who may call whom: what a set of policies lets a pod call, and be called by. *)

Lets(q, pod, c) == pod \in q.pods /\ "Egress" \in q.types /\ c \in q.egress
Takes(q, pod, c) == pod \in q.pods /\ "Ingress" \in q.types /\ c \in q.ingress

SomeLets(S, pod, c) == \E q \in S : Lets(q, pod, c)
SomeTakes(S, pod, c) == \E q \in S : Takes(q, pod, c)
Closed(S, pod) == \E q \in S : pod \in q.pods /\ q.types = {"Ingress", "Egress"}

LEMMA PolicyLets ==
  ASSUME NEW name, NEW ns, NEW pods, NEW ingress, NEW egress, NEW pod, NEW c
  PROVE  /\ Lets(Policy(name, ns, pods, ingress, egress), pod, c) <=> pod \in pods /\ c \in egress
         /\ Takes(Policy(name, ns, pods, ingress, egress), pod, c) <=> pod \in pods /\ c \in ingress
  BY DEF Lets, Takes, Policy

LEMMA BaselineLets ==
  ASSUME NEW ns, NEW pod, NEW c
  PROVE  /\ SomeLets(Baseline(ns), pod, c) <=> pod \in PodsOf[ns] /\ c = <<"dns", 53>>
         /\ ~ SomeTakes(Baseline(ns), pod, c)
         /\ pod \in PodsOf[ns] => Closed(Baseline(ns), pod)
<1> DEFINE Deny == Policy("default-deny", ns, PodsOf[ns], {}, {})
           Open == [Policy("allow-dns", ns, PodsOf[ns], {}, {<<"dns", 53>>}) EXCEPT !.types = {"Egress"}]
<1>1. Lets(Open, pod, c) <=> pod \in PodsOf[ns] /\ c = <<"dns", 53>>
  BY DEF Lets, Policy
<1>2. ~ Takes(Open, pod, c)
  BY DEF Takes, Policy
<1>3. Deny.pods = PodsOf[ns] /\ Deny.types = {"Ingress", "Egress"}
  BY DEF Policy
<1>4. ~ Lets(Deny, pod, c) /\ ~ Takes(Deny, pod, c)
  BY PolicyLets
<1>5. Baseline(ns) = {Deny, Open}
  BY DEF Baseline
<1> HIDE DEF Deny, Open
<1> QED  BY <1>1, <1>2, <1>3, <1>4, <1>5 DEF SomeLets, SomeTakes, Closed

LEMMA UnionLets ==
  ASSUME NEW A, NEW B, NEW pod, NEW c
  PROVE  /\ SomeLets(A \cup B, pod, c) <=> SomeLets(A, pod, c) \/ SomeLets(B, pod, c)
         /\ SomeTakes(A \cup B, pod, c) <=> SomeTakes(A, pod, c) \/ SomeTakes(B, pod, c)
         /\ Closed(A \cup B, pod) <=> Closed(A, pod) \/ Closed(B, pod)
  BY DEF SomeLets, SomeTakes, Closed

LEMMA WhenLets ==
  ASSUME NEW b, NEW A, NEW pod, NEW c
  PROVE  /\ SomeLets(When(b, A), pod, c) <=> b /\ SomeLets(A, pod, c)
         /\ SomeTakes(When(b, A), pod, c) <=> b /\ SomeTakes(A, pod, c)
         /\ Closed(When(b, A), pod) <=> b /\ Closed(A, pod)
  BY DEF SomeLets, SomeTakes, Closed, When
\* What the pods of each component may call, and may be called by.
ControlPlaneLets(p, pod, c) ==
  \/ pod \in PodsOf.teleport /\ c = <<"dns", 53>>
  \/ /\ pod = "proxy"
     /\ \/ c = <<"auth", AUTH>> \/ (p.dummies /\ c = <<"ssh", SSH>>) \/ (p.acme /\ c \in Internet443Egress)
  \/ pod = "auth" /\ c \in KubeApiEgress
  \/ pod = "operator" /\ (c = <<"auth", AUTH>> \/ c \in KubeApiEgress)

ControlPlaneTakes(p, pod, c) ==
  \/ pod = "proxy" /\ c \in Peer \X {PROXY}
  \/ pod = "auth" /\ c \in AuthCallers \X {AUTH}

LEMMA ControlPlaneFlows ==
  ASSUME NEW p, NEW pod, NEW c
  PROVE  /\ SomeLets(ControlPlanePolicies(p), pod, c) <=> ControlPlaneLets(p, pod, c)
         /\ SomeTakes(ControlPlanePolicies(p), pod, c) <=> ControlPlaneTakes(p, pod, c)
         /\ pod \in PodsOf.teleport => Closed(ControlPlanePolicies(p), pod)
<1> DEFINE Proxy == Policy("proxy", "teleport", {"proxy"}, Peer \X {PROXY},
                      ToAuth \cup When(p.dummies, {<<"ssh", SSH>>}) \cup When(p.acme, Internet443Egress))
           Auth == Policy("auth", "teleport", {"auth"}, AuthCallers \X {AUTH}, KubeApiEgress)
           Operator == Policy("operator", "teleport", {"operator"}, {}, ToAuth \cup KubeApiEgress)
           Own == {Proxy, Auth, Operator}
<1>1. /\ Lets(Proxy, pod, c) <=>
            /\ pod = "proxy"
            /\ \/ c = <<"auth", AUTH>> \/ (p.dummies /\ c = <<"ssh", SSH>>)
               \/ (p.acme /\ c \in Internet443Egress)
      /\ Takes(Proxy, pod, c) <=> pod = "proxy" /\ c \in Peer \X {PROXY}
  BY PolicyLets DEF ToAuth, When
<1>2. /\ Lets(Auth, pod, c) <=> pod = "auth" /\ c \in KubeApiEgress
      /\ Takes(Auth, pod, c) <=> pod = "auth" /\ c \in AuthCallers \X {AUTH}
  BY PolicyLets
<1>3. /\ Lets(Operator, pod, c) <=> pod = "operator" /\ (c = <<"auth", AUTH>> \/ c \in KubeApiEgress)
      /\ ~ Takes(Operator, pod, c)
  BY PolicyLets DEF ToAuth
<1>4. ControlPlanePolicies(p) = Baseline("teleport") \cup Own
  BY DEF ControlPlanePolicies
<1> HIDE DEF Proxy, Auth, Operator
<1>5. /\ SomeLets(Own, pod, c) <=> Lets(Proxy, pod, c) \/ Lets(Auth, pod, c) \/ Lets(Operator, pod, c)
      /\ SomeTakes(Own, pod, c) <=> Takes(Proxy, pod, c) \/ Takes(Auth, pod, c) \/ Takes(Operator, pod, c)
  BY DEF SomeLets, SomeTakes
<1> HIDE DEF Own
<1>6. PodsOf["teleport"] = PodsOf.teleport
  OBVIOUS
<1> QED  BY <1>1, <1>2, <1>3, <1>4, <1>5, <1>6, UnionLets, BaselineLets DEF ControlPlaneLets, ControlPlaneTakes
AccessLets(p, pod, c) ==
  \/ pod \in PodsOf.access /\ c = <<"dns", 53>>
  \/ pod = "mcp" /\ c \in ToAuth \cup ToProxy
  \/ pod = "broker" /\ c \in ToAuth \cup ToProxy \cup {<<"agent", AGENT>>}
  \/ pod = "agent" /\ c \in {<<"mcp", MCP>>, <<"broker", BROKER>>} \cup Internet443Egress
  \/ p.portal /\ pod = "portal" /\ c \in ToAuth \cup ToProxy \cup {<<"broker", BROKER>>}
  \/ p.harness /\ pod = "harness" /\ c \in ToAuth \cup KubeApiEgress

AccessTakes(p, pod, c) ==
  \/ pod = "mcp" /\ c = <<"agent", MCP>>
  \/ pod = "broker" /\ (c = <<"agent", BROKER>> \/ (p.portal /\ c = <<"portal", BROKER>>))
  \/ pod = "agent" /\ (c = <<"broker", AGENT>> \/ (HttpAdapters(p) /\ c \in Peer \X {PUBLIC}))
  \/ p.portal /\ pod = "portal" /\ p.backstage /\ c = <<"backstage", PORTAL>>

LEMMA AccessFlows ==
  ASSUME NEW p, NEW pod, NEW c
  PROVE  /\ SomeLets(AccessPolicies(p), pod, c) <=> AccessLets(p, pod, c)
         /\ SomeTakes(AccessPolicies(p), pod, c) <=> AccessTakes(p, pod, c)
         /\ pod \in PodsOf.access => Closed(AccessPolicies(p), pod)
<1> DEFINE Mcp == Policy("mcp", "access", {"mcp"}, {<<"agent", MCP>>}, ToAuth \cup ToProxy)
           Broker == Policy("broker", "access", {"broker"},
                       ({"agent"} \cup When(p.portal, {"portal"})) \X {BROKER},
                       ToAuth \cup ToProxy \cup {<<"agent", AGENT>>})
           Agent == Policy("agent", "access", {"agent"},
                      {<<"broker", AGENT>>} \cup When(HttpAdapters(p), Peer \X {PUBLIC}),
                      {<<"mcp", MCP>>, <<"broker", BROKER>>} \cup Internet443Egress)
           Portal == Policy("portal", "access", {"portal"}, When(p.backstage, {<<"backstage", PORTAL>>}),
                       ToAuth \cup ToProxy \cup {<<"broker", BROKER>>})
           Harness == Policy("harness", "access", {"harness"}, {}, ToAuth \cup KubeApiEgress)
           Own == {Mcp, Broker, Agent}
<1>1. /\ Lets(Mcp, pod, c) <=> pod = "mcp" /\ c \in ToAuth \cup ToProxy
      /\ Takes(Mcp, pod, c) <=> pod = "mcp" /\ c = <<"agent", MCP>>
  BY PolicyLets
<1>2. /\ Lets(Broker, pod, c) <=> pod = "broker" /\ c \in ToAuth \cup ToProxy \cup {<<"agent", AGENT>>}
      /\ Takes(Broker, pod, c) <=>
           pod = "broker" /\ (c = <<"agent", BROKER>> \/ (p.portal /\ c = <<"portal", BROKER>>))
  BY PolicyLets DEF When
<1>3. /\ Lets(Agent, pod, c) <=>
           pod = "agent" /\ c \in {<<"mcp", MCP>>, <<"broker", BROKER>>} \cup Internet443Egress
      /\ Takes(Agent, pod, c) <=>
           pod = "agent" /\ (c = <<"broker", AGENT>> \/ (HttpAdapters(p) /\ c \in Peer \X {PUBLIC}))
  BY PolicyLets DEF When
<1>4. /\ Lets(Portal, pod, c) <=> pod = "portal" /\ c \in ToAuth \cup ToProxy \cup {<<"broker", BROKER>>}
      /\ Takes(Portal, pod, c) <=> pod = "portal" /\ p.backstage /\ c = <<"backstage", PORTAL>>
  BY PolicyLets DEF When
<1>5. /\ Lets(Harness, pod, c) <=> pod = "harness" /\ c \in ToAuth \cup KubeApiEgress
      /\ ~ Takes(Harness, pod, c)
  BY PolicyLets
<1>6. AccessPolicies(p) =
        Baseline("access") \cup Own \cup When(p.portal, {Portal}) \cup When(p.harness, {Harness})
  BY DEF AccessPolicies
<1> HIDE DEF Mcp, Broker, Agent, Portal, Harness
<1>7. /\ SomeLets(Own, pod, c) <=> Lets(Mcp, pod, c) \/ Lets(Broker, pod, c) \/ Lets(Agent, pod, c)
      /\ SomeTakes(Own, pod, c) <=> Takes(Mcp, pod, c) \/ Takes(Broker, pod, c) \/ Takes(Agent, pod, c)
  BY DEF SomeLets, SomeTakes
<1>8. \A q : /\ SomeLets({q}, pod, c) <=> Lets(q, pod, c)
             /\ SomeTakes({q}, pod, c) <=> Takes(q, pod, c)
  BY DEF SomeLets, SomeTakes
<1> DEFINE Base == Baseline("access")
           Both == Base \cup Own
           Three == Both \cup When(p.portal, {Portal})
<1>9. AccessPolicies(p) = Three \cup When(p.harness, {Harness})
  BY <1>6
<1>10. /\ SomeLets(Three, pod, c) <=> SomeLets(Both, pod, c) \/ (p.portal /\ Lets(Portal, pod, c))
       /\ SomeTakes(Three, pod, c) <=> SomeTakes(Both, pod, c) \/ (p.portal /\ Takes(Portal, pod, c))
       /\ Closed(Both, pod) => Closed(Three, pod)
  <2> DEFINE More == When(p.portal, {Portal})
  <2>1. /\ SomeLets(More, pod, c) <=> p.portal /\ SomeLets({Portal}, pod, c)
        /\ SomeTakes(More, pod, c) <=> p.portal /\ SomeTakes({Portal}, pod, c)
    BY WhenLets
  <2>2. Three = Both \cup More
    OBVIOUS
  <2> HIDE DEF Both, Three, More
  <2> QED  BY <1>8, <2>1, <2>2, UnionLets
<1>11. /\ SomeLets(AccessPolicies(p), pod, c) <=>
            SomeLets(Three, pod, c) \/ (p.harness /\ Lets(Harness, pod, c))
       /\ SomeTakes(AccessPolicies(p), pod, c) <=> SomeTakes(Three, pod, c)
       /\ Closed(Three, pod) => Closed(AccessPolicies(p), pod)
  <2> DEFINE More == When(p.harness, {Harness})
  <2>1. /\ SomeLets(More, pod, c) <=> p.harness /\ SomeLets({Harness}, pod, c)
        /\ SomeTakes(More, pod, c) <=> p.harness /\ SomeTakes({Harness}, pod, c)
    BY WhenLets
  <2>2. AccessPolicies(p) = Three \cup More
    BY <1>9
  <2> HIDE DEF Three, More
  <2> QED  BY <1>5, <1>8, <2>1, <2>2, UnionLets
<1>12. /\ SomeLets(Both, pod, c) <=>
            (pod \in PodsOf.access /\ c = <<"dns", 53>>) \/ SomeLets(Own, pod, c)
       /\ SomeTakes(Both, pod, c) <=> SomeTakes(Own, pod, c)
       /\ pod \in PodsOf.access => Closed(Both, pod)
  <2> HIDE DEF Own
  <2>1. PodsOf["access"] = PodsOf.access
    OBVIOUS
  <2>2. /\ SomeLets(Base, pod, c) <=> pod \in PodsOf["access"] /\ c = <<"dns", 53>>
        /\ ~ SomeTakes(Base, pod, c)
        /\ pod \in PodsOf["access"] => Closed(Base, pod)
    BY BaselineLets
  <2> HIDE DEF Base
  <2> QED  BY <2>1, <2>2, UnionLets
<1> HIDE DEF Own, Base, Both, Three
<1>13. SomeLets(AccessPolicies(p), pod, c) <=> AccessLets(p, pod, c)
  BY <1>1, <1>2, <1>3, <1>4, <1>5, <1>7, <1>10, <1>11, <1>12 DEF AccessLets
<1>14. SomeTakes(AccessPolicies(p), pod, c) <=> AccessTakes(p, pod, c)
  BY <1>1, <1>2, <1>3, <1>4, <1>7, <1>10, <1>11, <1>12 DEF AccessTakes
<1> QED  BY <1>10, <1>11, <1>12, <1>13, <1>14

KubeAgentLets(p, pod, c) ==
  /\ pod = "kubeAgent"
  /\ \/ c = <<"dns", 53>> \/ c \in ToProxy \/ c \in KubeApiEgress
     \/ (p.dummies /\ c \in PodsOf.dummies \X (DummyDbPorts \cup DummyAppPorts))

LEMMA KubeAgentFlows ==
  ASSUME NEW p, NEW pod, NEW c
  PROVE  /\ SomeLets(KubeAgentPolicies(p), pod, c) <=> KubeAgentLets(p, pod, c)
         /\ ~ SomeTakes(KubeAgentPolicies(p), pod, c)
         /\ pod \in PodsOf.kubeagent => Closed(KubeAgentPolicies(p), pod)
<1> DEFINE Own == Policy("kube-agent", "kubeagent", {"kubeAgent"}, {},
                    ToProxy \cup KubeApiEgress
                      \cup When(p.dummies, PodsOf.dummies \X (DummyDbPorts \cup DummyAppPorts)))
<1>1. /\ Lets(Own, pod, c) <=>
           /\ pod = "kubeAgent"
           /\ \/ c \in ToProxy \/ c \in KubeApiEgress
              \/ (p.dummies /\ c \in PodsOf.dummies \X (DummyDbPorts \cup DummyAppPorts))
      /\ ~ Takes(Own, pod, c)
  BY PolicyLets DEF When
<1>2. KubeAgentPolicies(p) = Baseline("kubeagent") \cup {Own}
  BY DEF KubeAgentPolicies
<1> HIDE DEF Own
<1>3. /\ SomeLets({Own}, pod, c) <=> Lets(Own, pod, c)
      /\ SomeTakes({Own}, pod, c) <=> Takes(Own, pod, c)
  BY DEF SomeLets, SomeTakes
<1>4. PodsOf["kubeagent"] = {"kubeAgent"} /\ PodsOf.kubeagent = {"kubeAgent"}
  BY DEF PodsOf
<1> DEFINE Base == Baseline("kubeagent")
<1>5. /\ SomeLets(Base, pod, c) <=> pod \in PodsOf["kubeagent"] /\ c = <<"dns", 53>>
      /\ ~ SomeTakes(Base, pod, c)
      /\ pod \in PodsOf["kubeagent"] => Closed(Base, pod)
  BY BaselineLets
<1> HIDE DEF Base
<1>6. /\ SomeLets(KubeAgentPolicies(p), pod, c) <=> SomeLets(Base, pod, c) \/ Lets(Own, pod, c)
      /\ ~ SomeTakes(KubeAgentPolicies(p), pod, c)
      /\ Closed(Base, pod) => Closed(KubeAgentPolicies(p), pod)
  BY <1>1, <1>2, <1>3, <1>5, UnionLets DEF Base
<1> QED  BY <1>1, <1>4, <1>5, <1>6 DEF KubeAgentLets

DummyLets(pod, c) ==
  \/ pod \in PodsOf.dummies /\ c = <<"dns", 53>>
  \/ pod = "ssh" /\ c \in ToAuth
  \/ pod = "db" /\ c \in ToProxy

DummyTakes(pod, c) ==
  \/ pod = "ssh" /\ c = <<"proxy", SSH>>
  \/ pod = "db" /\ c \in {"kubeAgent"} \X DummyDbPorts
  \/ pod = "app" /\ c \in {"kubeAgent"} \X DummyAppPorts

LEMMA DummyFlows ==
  ASSUME NEW pod, NEW c
  PROVE  /\ SomeLets(DummyPolicies, pod, c) <=> DummyLets(pod, c)
         /\ SomeTakes(DummyPolicies, pod, c) <=> DummyTakes(pod, c)
         /\ pod \in PodsOf.dummies => Closed(DummyPolicies, pod)
<1> DEFINE Ssh == Policy("ssh-nodes", "dummies", {"ssh"}, {<<"proxy", SSH>>}, ToAuth)
           Db == Policy("databases", "dummies", {"db"}, {"kubeAgent"} \X DummyDbPorts, ToProxy)
           Apps == Policy("apps", "dummies", {"app"}, {"kubeAgent"} \X DummyAppPorts, {})
           Own == {Ssh, Db, Apps}
<1>1. /\ Lets(Ssh, pod, c) <=> pod = "ssh" /\ c \in ToAuth
      /\ Takes(Ssh, pod, c) <=> pod = "ssh" /\ c = <<"proxy", SSH>>
  BY PolicyLets
<1>2. /\ Lets(Db, pod, c) <=> pod = "db" /\ c \in ToProxy
      /\ Takes(Db, pod, c) <=> pod = "db" /\ c \in {"kubeAgent"} \X DummyDbPorts
  BY PolicyLets
<1>3. /\ ~ Lets(Apps, pod, c)
      /\ Takes(Apps, pod, c) <=> pod = "app" /\ c \in {"kubeAgent"} \X DummyAppPorts
  BY PolicyLets
<1>4. DummyPolicies = Baseline("dummies") \cup Own
  BY DEF DummyPolicies
<1> HIDE DEF Ssh, Db, Apps
<1>5. /\ SomeLets(Own, pod, c) <=> Lets(Ssh, pod, c) \/ Lets(Db, pod, c) \/ Lets(Apps, pod, c)
      /\ SomeTakes(Own, pod, c) <=> Takes(Ssh, pod, c) \/ Takes(Db, pod, c) \/ Takes(Apps, pod, c)
  BY DEF SomeLets, SomeTakes
<1> HIDE DEF Own
<1> QED  BY <1>1, <1>2, <1>3, <1>4, <1>5, UnionLets, BaselineLets DEF DummyLets, DummyTakes
RenderedLets(p, pod, c) ==
  \/ ControlPlaneLets(p, pod, c) \/ AccessLets(p, pod, c) \/ KubeAgentLets(p, pod, c)
  \/ (p.dummies /\ DummyLets(pod, c))

RenderedTakes(p, pod, c) ==
  \/ ControlPlaneTakes(p, pod, c) \/ AccessTakes(p, pod, c)
  \/ (p.dummies /\ DummyTakes(pod, c))

LEMMA RenderedFlows ==
  ASSUME NEW p, NEW pod, NEW c
  PROVE  /\ SomeLets(RenderedPolicies(p), pod, c) <=> RenderedLets(p, pod, c)
         /\ SomeTakes(RenderedPolicies(p), pod, c) <=> RenderedTakes(p, pod, c)
         /\ pod \in Deployed(p) => Closed(RenderedPolicies(p), pod)
<1> DEFINE A == ControlPlanePolicies(p)  B == AccessPolicies(p)  C == KubeAgentPolicies(p)
           D == When(p.dummies, DummyPolicies)
           AB == A \cup B
           ABC == AB \cup C
<1>1. RenderedPolicies(p) = ABC \cup D
  BY DEF RenderedPolicies
<1>2. /\ SomeLets(D, pod, c) <=> p.dummies /\ SomeLets(DummyPolicies, pod, c)
      /\ SomeTakes(D, pod, c) <=> p.dummies /\ SomeTakes(DummyPolicies, pod, c)
      /\ Closed(D, pod) <=> p.dummies /\ Closed(DummyPolicies, pod)
  BY WhenLets
<1>3. pod \in Deployed(p) => \/ pod \in PodsOf.teleport \/ pod \in PodsOf.kubeagent \/ pod \in PodsOf.access
                             \/ (p.dummies /\ pod \in PodsOf.dummies)
  BY DEF Deployed, BotPods, When, PodsOf
<1>4. /\ SomeLets(AB, pod, c) <=> SomeLets(A, pod, c) \/ SomeLets(B, pod, c)
      /\ SomeTakes(AB, pod, c) <=> SomeTakes(A, pod, c) \/ SomeTakes(B, pod, c)
      /\ Closed(AB, pod) <=> Closed(A, pod) \/ Closed(B, pod)
  <2> HIDE DEF A, B
  <2> QED  BY UnionLets
<1>5. /\ SomeLets(ABC, pod, c) <=> SomeLets(AB, pod, c) \/ SomeLets(C, pod, c)
      /\ SomeTakes(ABC, pod, c) <=> SomeTakes(AB, pod, c) \/ SomeTakes(C, pod, c)
      /\ Closed(ABC, pod) <=> Closed(AB, pod) \/ Closed(C, pod)
  <2> HIDE DEF AB, C
  <2> QED  BY UnionLets
<1>6. /\ SomeLets(RenderedPolicies(p), pod, c) <=> SomeLets(ABC, pod, c) \/ SomeLets(D, pod, c)
      /\ SomeTakes(RenderedPolicies(p), pod, c) <=> SomeTakes(ABC, pod, c) \/ SomeTakes(D, pod, c)
      /\ Closed(RenderedPolicies(p), pod) <=> Closed(ABC, pod) \/ Closed(D, pod)
  <2> HIDE DEF ABC, D
  <2> QED  BY <1>1, UnionLets
<1>7. /\ SomeLets(A, pod, c) <=> ControlPlaneLets(p, pod, c)
      /\ SomeTakes(A, pod, c) <=> ControlPlaneTakes(p, pod, c)
      /\ pod \in PodsOf.teleport => Closed(A, pod)
  BY ControlPlaneFlows
<1>8. /\ SomeLets(B, pod, c) <=> AccessLets(p, pod, c)
      /\ SomeTakes(B, pod, c) <=> AccessTakes(p, pod, c)
      /\ pod \in PodsOf.access => Closed(B, pod)
  BY AccessFlows
<1>9. /\ SomeLets(C, pod, c) <=> KubeAgentLets(p, pod, c)
      /\ ~ SomeTakes(C, pod, c)
      /\ pod \in PodsOf.kubeagent => Closed(C, pod)
  BY KubeAgentFlows
<1> HIDE DEF A, B, C, D, AB, ABC
<1>10. SomeLets(RenderedPolicies(p), pod, c) <=> RenderedLets(p, pod, c)
  BY <1>2, <1>4, <1>5, <1>6, <1>7, <1>8, <1>9, DummyFlows DEF RenderedLets
<1>11. SomeTakes(RenderedPolicies(p), pod, c) <=> RenderedTakes(p, pod, c)
  BY <1>2, <1>4, <1>5, <1>6, <1>7, <1>8, <1>9, DummyFlows DEF RenderedTakes
<1>12. pod \in Deployed(p) => Closed(RenderedPolicies(p), pod)
  BY <1>2, <1>3, <1>4, <1>5, <1>6, <1>7, <1>8, <1>9, DummyFlows
<1> QED  BY <1>10, <1>11, <1>12

\* No policy selects a pod of somebody else's.
OnOwn(S) == \A q \in S : q.pods \subseteq Owned

LEMMA RenderedOnOwn == ASSUME NEW p PROVE OnOwn(RenderedPolicies(p))
<1>1. \A name, ns, pods, ingress, egress : Policy(name, ns, pods, ingress, egress).pods = pods
  BY DEF Policy
<1>2. ASSUME NEW ns \in DOMAIN PodsOf PROVE OnOwn(Baseline(ns))
  <2> DEFINE Open == [Policy("allow-dns", ns, PodsOf[ns], {}, {<<"dns", 53>>}) EXCEPT !.types = {"Egress"}]
             Deny == Policy("default-deny", ns, PodsOf[ns], {}, {})
  <2>1. Open.pods = PodsOf[ns] /\ Deny.pods = PodsOf[ns] /\ PodsOf[ns] \subseteq Owned
    BY <1>2 DEF Policy, Owned
  <2>2. Baseline(ns) = {Deny, Open}
    BY DEF Baseline
  <2> HIDE DEF Open, Deny
  <2> QED  BY <2>1, <2>2 DEF OnOwn
<1>3. \A role \in {"proxy", "auth", "operator", "mcp", "broker", "agent", "portal", "harness", "kubeAgent",
                   "ssh", "db", "app"} : {role} \subseteq Owned
  BY DEF Owned, PodsOf
<1>4. \A ns \in {"teleport", "access", "kubeagent", "dummies"} : OnOwn(Baseline(ns))
  BY <1>2 DEF PodsOf
<1>5. OnOwn(ControlPlanePolicies(p))
  BY <1>1, <1>3, <1>4 DEF ControlPlanePolicies, OnOwn
<1>6. OnOwn(AccessPolicies(p))
  BY <1>1, <1>3, <1>4 DEF AccessPolicies, OnOwn, When
<1>7. OnOwn(KubeAgentPolicies(p))
  BY <1>1, <1>3, <1>4 DEF KubeAgentPolicies, OnOwn
<1>8. OnOwn(DummyPolicies)
  BY <1>1, <1>3, <1>4 DEF DummyPolicies, OnOwn
<1> QED  BY <1>5, <1>6, <1>7, <1>8 DEF RenderedPolicies, OnOwn, When

LEMMA ForeignIsOther == Owned \cap Foreign = {}
  BY DEF Owned, PodsOf, Foreign, Outside

LEMMA DeployedIsOwned == ASSUME NEW p PROVE Deployed(p) \subseteq Owned
  BY DEF Deployed, BotPods, When, Owned, PodsOf

\* A call needs the leave of those of its ends that are pods of this project.
LEMMA AdmittedIs ==
  ASSUME NEW p, NEW from \in Deployed(p) \cup Foreign, NEW to \in Deployed(p) \cup Foreign, NEW port
  PROVE  Admitted(RenderedPolicies(p), from, to, port) <=>
           /\ from \in Foreign \/ RenderedLets(p, from, <<to, port>>)
           /\ to \in Foreign \/ RenderedTakes(p, to, <<from, port>>)
<1> DEFINE R == RenderedPolicies(p)
<1>1. ASSUME NEW pod \in Foreign, NEW type PROVE Selecting(R, pod, type) = {}
  BY RenderedOnOwn, ForeignIsOther DEF Selecting, OnOwn
<1>2. \A pod \in Foreign : \A x, n : MayCall(R, pod, x, n) /\ MayBeCalled(R, x, pod, n)
  BY <1>1 DEF MayCall, MayBeCalled
<1>3. ASSUME NEW pod \in Deployed(p), NEW x, NEW n
      PROVE  MayCall(R, pod, x, n) <=> RenderedLets(p, pod, <<x, n>>)
  <2>1. PICK q \in R : pod \in q.pods /\ q.types = {"Ingress", "Egress"}
    BY RenderedFlows DEF Closed
  <2>2. Selecting(R, pod, "Egress") # {}
    BY <2>1 DEF Selecting
  <2>3. MayCall(R, pod, x, n) <=> SomeLets(R, pod, <<x, n>>)
    BY <2>2 DEF MayCall, Selecting, SomeLets, Lets
  <2> QED  BY <2>3, RenderedFlows
<1>4. ASSUME NEW pod \in Deployed(p), NEW x, NEW n
      PROVE  MayBeCalled(R, x, pod, n) <=> RenderedTakes(p, pod, <<x, n>>)
  <2>1. PICK q \in R : pod \in q.pods /\ q.types = {"Ingress", "Egress"}
    BY RenderedFlows DEF Closed
  <2>2. Selecting(R, pod, "Ingress") # {}
    BY <2>1 DEF Selecting
  <2>3. MayBeCalled(R, x, pod, n) <=> SomeTakes(R, pod, <<x, n>>)
    BY <2>2 DEF MayBeCalled, Selecting, SomeTakes, Takes
  <2> QED  BY <2>3, RenderedFlows
<1>5. MayCall(R, from, to, port) <=> from \in Foreign \/ RenderedLets(p, from, <<to, port>>)
  BY <1>2, <1>3, DeployedIsOwned, ForeignIsOther
<1>6. MayBeCalled(R, from, to, port) <=> to \in Foreign \/ RenderedTakes(p, to, <<from, port>>)
  BY <1>2, <1>4, DeployedIsOwned, ForeignIsOther
<1> QED  BY <1>5, <1>6 DEF Admitted
\* The same, call by call.
MayGo(p, from, to, port) ==
  \/ from \in Owned \ PodsOf.dummies /\ to = "dns" /\ port = 53
  \/ from \in {"proxy", "operator", "mcp", "broker"} /\ to = "auth" /\ port = AUTH
  \/ p.portal /\ from = "portal" /\ to = "auth" /\ port = AUTH
  \/ p.harness /\ from = "harness" /\ to = "auth" /\ port = AUTH
  \/ p.dummies /\ from = "ssh" /\ to = "auth" /\ port = AUTH
  \/ from \in {"auth", "operator", "kubeAgent"} /\ to \in Peer /\ port \in {443, 6443}
  \/ p.harness /\ from = "harness" /\ to \in Peer /\ port \in {443, 6443}
  \/ from \in {"mcp", "broker", "kubeAgent"} /\ to = "proxy" /\ port = PROXY
  \/ p.portal /\ from = "portal" /\ to = "proxy" /\ port = PROXY
  \/ p.dummies /\ from = "db" /\ to = "proxy" /\ port = PROXY
  \/ p.dummies /\ from = "proxy" /\ to = "ssh" /\ port = SSH
  \/ p.acme /\ from = "proxy" /\ to \in Outside /\ port = 443
  \/ from = "broker" /\ to = "agent" /\ port = AGENT
  \/ from = "agent" /\ to = "mcp" /\ port = MCP
  \/ from = "agent" /\ to = "broker" /\ port = BROKER
  \/ from = "agent" /\ to \in Outside /\ port = 443
  \/ p.portal /\ from = "portal" /\ to = "broker" /\ port = BROKER
  \/ p.dummies /\ from = "kubeAgent" /\ to \in PodsOf.dummies /\ port \in DummyDbPorts \cup DummyAppPorts
  \/ p.dummies /\ from \in PodsOf.dummies /\ to = "dns" /\ port = 53

MayCome(p, from, to, port) ==
  \/ to = "proxy" /\ from \in Peer /\ port = PROXY
  \/ to = "auth" /\ from \in AuthCallers /\ port = AUTH
  \/ to = "mcp" /\ from = "agent" /\ port = MCP
  \/ to = "broker" /\ from = "agent" /\ port = BROKER
  \/ p.portal /\ to = "broker" /\ from = "portal" /\ port = BROKER
  \/ to = "agent" /\ from = "broker" /\ port = AGENT
  \/ HttpAdapters(p) /\ to = "agent" /\ from \in Peer /\ port = PUBLIC
  \/ p.portal /\ p.backstage /\ to = "portal" /\ from = "backstage" /\ port = PORTAL
  \/ p.dummies /\ to = "ssh" /\ from = "proxy" /\ port = SSH
  \/ p.dummies /\ to = "db" /\ from = "kubeAgent" /\ port \in DummyDbPorts
  \/ p.dummies /\ to = "app" /\ from = "kubeAgent" /\ port \in DummyAppPorts

LEMMA LetsIsMayGo ==
  ASSUME NEW p, NEW from, NEW to, NEW port
  PROVE  RenderedLets(p, from, <<to, port>>) <=> MayGo(p, from, to, port)
<1>1. ControlPlaneLets(p, from, <<to, port>>) <=>
        \/ from \in PodsOf.teleport /\ to = "dns" /\ port = 53
        \/ from = "proxy" /\ to = "auth" /\ port = AUTH
        \/ p.dummies /\ from = "proxy" /\ to = "ssh" /\ port = SSH
        \/ p.acme /\ from = "proxy" /\ to \in Outside /\ port = 443
        \/ from = "auth" /\ to \in Peer /\ port \in {443, 6443}
        \/ from = "operator" /\ to = "auth" /\ port = AUTH
        \/ from = "operator" /\ to \in Peer /\ port \in {443, 6443}
  BY DEF ControlPlaneLets, KubeApiEgress, Internet443Egress
<1>2. AccessLets(p, from, <<to, port>>) <=>
        \/ from \in PodsOf.access /\ to = "dns" /\ port = 53
        \/ from \in {"mcp", "broker"} /\ ((to = "auth" /\ port = AUTH) \/ (to = "proxy" /\ port = PROXY))
        \/ from = "broker" /\ to = "agent" /\ port = AGENT
        \/ from = "agent" /\ to = "mcp" /\ port = MCP
        \/ from = "agent" /\ to = "broker" /\ port = BROKER
        \/ from = "agent" /\ to \in Outside /\ port = 443
        \/ p.portal /\ from = "portal" /\ ((to = "auth" /\ port = AUTH) \/ (to = "proxy" /\ port = PROXY))
        \/ p.portal /\ from = "portal" /\ to = "broker" /\ port = BROKER
        \/ p.harness /\ from = "harness" /\ to = "auth" /\ port = AUTH
        \/ p.harness /\ from = "harness" /\ to \in Peer /\ port \in {443, 6443}
  BY DEF AccessLets, KubeApiEgress, Internet443Egress, ToAuth, ToProxy
<1>3. KubeAgentLets(p, from, <<to, port>>) <=>
        /\ from = "kubeAgent"
        /\ \/ to = "dns" /\ port = 53
           \/ to = "proxy" /\ port = PROXY
           \/ to \in Peer /\ port \in {443, 6443}
           \/ p.dummies /\ to \in PodsOf.dummies /\ port \in DummyDbPorts \cup DummyAppPorts
  BY DEF KubeAgentLets, KubeApiEgress, ToProxy
<1>4. DummyLets(from, <<to, port>>) <=>
        \/ from \in PodsOf.dummies /\ to = "dns" /\ port = 53
        \/ from = "ssh" /\ to = "auth" /\ port = AUTH
        \/ from = "db" /\ to = "proxy" /\ port = PROXY
  BY DEF DummyLets, ToAuth, ToProxy
<1>5. Owned \ PodsOf.dummies = PodsOf.teleport \cup PodsOf.access \cup {"kubeAgent"}
  BY DEF Owned, PodsOf
<1> QED  BY <1>1, <1>2, <1>3, <1>4, <1>5 DEF RenderedLets, MayGo

LEMMA TakesIsMayCome ==
  ASSUME NEW p, NEW from, NEW to, NEW port
  PROVE  RenderedTakes(p, to, <<from, port>>) <=> MayCome(p, from, to, port)
<1>1. ControlPlaneTakes(p, to, <<from, port>>) <=>
        \/ to = "proxy" /\ from \in Peer /\ port = PROXY
        \/ to = "auth" /\ from \in AuthCallers /\ port = AUTH
  BY DEF ControlPlaneTakes
<1>2. AccessTakes(p, to, <<from, port>>) <=>
        \/ to = "mcp" /\ from = "agent" /\ port = MCP
        \/ to = "broker" /\ from = "agent" /\ port = BROKER
        \/ p.portal /\ to = "broker" /\ from = "portal" /\ port = BROKER
        \/ to = "agent" /\ from = "broker" /\ port = AGENT
        \/ HttpAdapters(p) /\ to = "agent" /\ from \in Peer /\ port = PUBLIC
        \/ p.portal /\ p.backstage /\ to = "portal" /\ from = "backstage" /\ port = PORTAL
  BY DEF AccessTakes
<1>3. DummyTakes(to, <<from, port>>) <=>
        \/ to = "ssh" /\ from = "proxy" /\ port = SSH
        \/ to = "db" /\ from = "kubeAgent" /\ port \in DummyDbPorts
        \/ to = "app" /\ from = "kubeAgent" /\ port \in DummyAppPorts
  BY DEF DummyTakes
<1> QED  BY <1>1, <1>2, <1>3 DEF RenderedTakes, MayCome
LEMMA PeersAre ==
  /\ Owned = {"proxy", "auth", "operator", "mcp", "broker", "agent", "portal", "harness",
              "kubeAgent", "ssh", "db", "app"}
  /\ Foreign = {"dns", "backstage", "stranger", "kubeAPI", "front", "internet"}
  /\ Outside = {"front", "internet"}
  /\ Peer = Owned \cup Foreign
  BY DEF Owned, PodsOf, Foreign, Outside, Peer

\* What both ends allow is in the matrix.
LEMMA AdmittedIsListed ==
  ASSUME NEW p, NEW from \in Peer, NEW to \in Peer, NEW port, from \in Owned \/ to \in Owned,
         from \in Foreign \/ MayGo(p, from, to, port),
         to \in Foreign \/ MayCome(p, from, to, port)
  PROVE  <<from, to, port>> \in DocumentedFlows(p)
<1> USE PeersAre
<1>1. CASE to \in Foreign
  <2>1. MayGo(p, from, to, port) /\ from \in Owned
    BY <1>1
  <2>2. \/ from \in Owned /\ to = "dns" /\ port = 53
        \/ from \in {"auth", "operator", "kubeAgent", "harness"} /\ port \in {443, 6443}
        \/ p.acme /\ from = "proxy" /\ to \in Outside /\ port = 443
        \/ from = "agent" /\ to \in Outside /\ port = 443
    BY <1>1, <2>1 DEF MayGo, PodsOf
  <2> QED  BY <1>1, <2>2 DEF DocumentedFlows, When
<1>2. CASE to = "proxy"
  <2>1. port = PROXY
    BY <1>2 DEF MayCome
  <2>2. from \in Foreign \/ from \in {"mcp", "broker", "portal", "kubeAgent", "db"}
    BY <1>2, <2>1 DEF MayGo, PROXY, SSH, AUTH, MCP, BROKER, AGENT, DummyDbPorts, DummyAppPorts, PodsOf
  <2> QED  BY <1>2, <2>1, <2>2 DEF DocumentedFlows, PodsOf
<1>3. CASE to = "auth"
  <2>1. port = AUTH /\ from \in AuthCallers
    BY <1>3 DEF MayCome
  <2>2. from \in {"proxy", "operator", "mcp", "broker", "portal", "harness", "ssh"}
    BY <1>3, <2>1 DEF MayGo, PROXY, SSH, AUTH, MCP, BROKER, AGENT, DummyDbPorts, DummyAppPorts, PodsOf,
                      AuthCallers
  <2> QED  BY <1>3, <2>1, <2>2 DEF DocumentedFlows
<1>4. CASE to \in {"mcp", "broker", "agent", "portal"}
  <2>1. \/ to = "mcp" /\ from = "agent" /\ port = MCP
        \/ to = "broker" /\ from \in {"agent", "portal"} /\ port = BROKER
        \/ to = "agent" /\ from = "broker" /\ port = AGENT
        \/ p.backstage /\ to = "portal" /\ from = "backstage" /\ port = PORTAL
        \/ HttpAdapters(p) /\ to = "agent" /\ port = PUBLIC
    BY <1>4 DEF MayCome
  <2>2. to = "agent" /\ port = PUBLIC => from \in Foreign
    BY DEF MayGo, PUBLIC, PROXY, SSH, AUTH, MCP, BROKER, AGENT, DummyDbPorts, DummyAppPorts, PodsOf
  <2> QED  BY <2>1, <2>2 DEF DocumentedFlows, When
<1>5. CASE to \in {"ssh", "db", "app"}
  <2>1. \/ to = "ssh" /\ from = "proxy" /\ port = SSH
        \/ to = "db" /\ from = "kubeAgent" /\ port \in DummyDbPorts
        \/ to = "app" /\ from = "kubeAgent" /\ port \in DummyAppPorts
    BY <1>5 DEF MayCome
  <2> QED  BY <2>1 DEF DocumentedFlows
<1>6. CASE to \in {"operator", "harness", "kubeAgent"}
  BY <1>6 DEF MayCome
<1> QED  BY <1>1, <1>2, <1>3, <1>4, <1>5, <1>6

\* What the deployed programs are set up to call is deployed, or outside, and may be called.
Goes(p, from, to, port) ==
  /\ from \in Deployed(p) \cup Foreign /\ to \in Deployed(p) \cup Foreign /\ port \in Port
  /\ from \in Owned \/ to \in Owned
  /\ from \in Foreign \/ MayGo(p, from, to, port)
  /\ to \in Foreign \/ MayCome(p, from, to, port)

LEMMA NeededIsAdmitted ==
  ASSUME NEW p, Valid(p), NEW f \in NeededFlows(p) \ CutOff(p)
  PROVE  \E from, to, port : f = <<from, to, port>> /\ Goes(p, from, to, port)
<1> USE PeersAre
<1>1. /\ {"proxy", "auth", "operator", "kubeAgent"} \subseteq Deployed(p)
      /\ p.mcp => "mcp" \in Deployed(p)
      /\ BrokerDeployed(p) => "broker" \in Deployed(p)
      /\ p.portal => "portal" \in Deployed(p)
      /\ p.harness => "harness" \in Deployed(p)
      /\ p.agent => "agent" \in Deployed(p)
      /\ p.dummies => {"ssh", "db", "app"} \subseteq Deployed(p)
  BY DEF Deployed, BotPods, When, PodsOf
<1>2. p.agent => "mcp" \in Deployed(p)
  BY <1>1 DEF Valid
<1>3. {53, 443, 6443, SSH, AUTH, PROXY, MCP, BROKER, AGENT, PUBLIC, PORTAL, 5432, 3306, 8080, 4566} \subseteq Port
  BY DEF Port, DummyDbPorts, DummyAppPorts
<1>4. CASE f \in {<<"proxy", "auth", AUTH>>, <<"operator", "auth", AUTH>>, <<"auth", "kubeAPI", 443>>,
                  <<"kubeAgent", "kubeAPI", 443>>, CallsFrontDoor(p, "kubeAgent"),
                  <<"front", "proxy", PROXY>>, <<"stranger", "proxy", PROXY>>}
  <2>1. PICK from, to, port : f = <<from, to, port>> /\
          \/ from \in {"proxy", "operator"} /\ to = "auth" /\ port = AUTH
          \/ from \in {"auth", "kubeAgent"} /\ to = "kubeAPI" /\ port = 443
          \/ from \in {"kubeAgent", "front", "stranger"} /\ to = "proxy" /\ port = PROXY
          \/ from = "kubeAgent" /\ to = "front" /\ port = 443
    BY <1>4 DEF CallsFrontDoor, FrontDoor
  <2>2. MayGo(p, from, to, port) \/ from \in Foreign
    BY <2>1 DEF MayGo
  <2>3. MayCome(p, from, to, port) \/ to \in Foreign
    BY <2>1 DEF MayCome, AuthCallers
  <2> QED  BY <1>1, <1>3, <2>1, <2>2, <2>3 DEF Goes
<1>5. CASE f \in {<<pod, "auth", AUTH>> : pod \in BotPods(p)}
  <2>1. PICK pod \in BotPods(p) : f = <<pod, "auth", AUTH>>
    BY <1>5
  <2>2. pod \in Deployed(p)
    BY DEF Deployed
  <2>3. pod \in {"mcp", "broker"} \/ (p.portal /\ pod = "portal") \/ (p.harness /\ pod = "harness")
    BY DEF BotPods, When
  <2>4. MayGo(p, pod, "auth", AUTH)
    BY <2>3 DEF MayGo
  <2>5. MayCome(p, pod, "auth", AUTH)
    BY <2>3 DEF MayCome, AuthCallers, PodsOf
  <2> QED  BY <1>1, <1>3, <2>1, <2>2, <2>4, <2>5 DEF Goes
<1>6. CASE f \in When(p.acme, {<<"proxy", "internet", 443>>}) \cup When(p.harness, {<<"harness", "kubeAPI", 443>>})
  <2>1. \/ p.acme /\ f = <<"proxy", "internet", 443>>
        \/ p.harness /\ f = <<"harness", "kubeAPI", 443>>
    BY <1>6 DEF When
  <2>2. p.acme => MayGo(p, "proxy", "internet", 443)
    BY DEF MayGo
  <2>3. p.harness => MayGo(p, "harness", "kubeAPI", 443)
    BY DEF MayGo
  <2> QED  BY <1>1, <1>3, <2>1, <2>2, <2>3 DEF Goes
<1>7. CASE f \in When(p.dummies, DummyCalls(p))
  <2>1. p.dummies /\ f \in DummyCalls(p)
    BY <1>7 DEF When
  <2>2. PICK from, to, port : f = <<from, to, port>> /\
          \/ from = "ssh" /\ to = "auth" /\ port = AUTH
          \/ from = "proxy" /\ to = "ssh" /\ port = SSH
          \/ from = "db" /\ to = "proxy" /\ port = PROXY
          \/ from = "kubeAgent" /\ to = "db" /\ port \in {5432, 3306}
          \/ from = "kubeAgent" /\ to = "app" /\ port \in {8080, 4566}
    <3>1. CASE f = CallsFrontDoor(p, "db") /\ (p.postgres \/ p.mysql)
      <4>1. p.direct
        BY <2>1, <3>1 DEF CutOff, When
      <4> QED  BY <3>1, <4>1 DEF CallsFrontDoor, FrontDoor
    <3> QED  BY <2>1, <3>1 DEF DummyCalls, When
  <2>3. MayGo(p, from, to, port)
    BY <2>1, <2>2 DEF MayGo, PodsOf, DummyDbPorts, DummyAppPorts
  <2>4. MayCome(p, from, to, port)
    BY <2>1, <2>2 DEF MayCome, AuthCallers, PodsOf, DummyDbPorts, DummyAppPorts
  <2> QED  BY <1>1, <1>3, <2>1, <2>2, <2>3, <2>4 DEF Goes
<1>8. CASE f \in When(p.agent, AgentCalls(p))
  <2>1. p.agent /\ f \in AgentCalls(p)
    BY <1>8 DEF When
  <2>2. PICK from, to, port : f = <<from, to, port>> /\
          \/ from = "agent" /\ to = "mcp" /\ port = MCP
          \/ from = "agent" /\ to \in Outside /\ port = 443
          \/ BrokerDeployed(p) /\ from = "agent" /\ to = "broker" /\ port = BROKER
          \/ BrokerDeployed(p) /\ from = "broker" /\ to = "agent" /\ port = AGENT
          \/ HttpAdapters(p) /\ from = "stranger" /\ to = "agent" /\ port = PUBLIC
    BY <2>1 DEF AgentCalls, When
  <2>3. MayGo(p, from, to, port) \/ from \in Foreign
    BY <2>2 DEF MayGo
  <2>4. MayCome(p, from, to, port) \/ to \in Foreign
    BY <2>2 DEF MayCome
  <2> QED  BY <1>1, <1>2, <1>3, <2>1, <2>2, <2>3, <2>4 DEF Goes
<1>9. CASE f \in When(p.portal, PortalCalls(p))
  <2>1. p.portal /\ f \in PortalCalls(p)
    BY <1>9 DEF When
  <2>2. PICK from, to, port : f = <<from, to, port>> /\
          \/ BrokerDeployed(p) /\ from = "portal" /\ to = "broker" /\ port = BROKER
          \/ p.backstage /\ from = "backstage" /\ to = "portal" /\ port = PORTAL
    BY <2>1 DEF PortalCalls, When
  <2>3. MayGo(p, from, to, port) \/ from \in Foreign
    BY <2>1, <2>2 DEF MayGo
  <2>4. MayCome(p, from, to, port)
    BY <2>1, <2>2 DEF MayCome
  <2> QED  BY <1>1, <1>3, <2>1, <2>2, <2>3, <2>4 DEF Goes
<1>10. CASE f \in {<<pod, "dns", 53>> : pod \in Deployed(p)}
  <2>1. PICK pod \in Deployed(p) : f = <<pod, "dns", 53>>
    BY <1>10
  <2>2. pod \in Owned /\ (pod \in PodsOf.dummies => p.dummies)
    BY DeployedIsOwned DEF Deployed, BotPods, When, PodsOf
  <2>3. MayGo(p, pod, "dns", 53)
    BY <2>2 DEF MayGo
  <2> QED  BY <1>3, <2>1, <2>2, <2>3 DEF Goes
<1> QED  BY <1>4, <1>5, <1>6, <1>7, <1>8, <1>9, <1>10 DEF NeededFlows

\* The policies, rendered for any valid profile, are the matrix.
LEMMA MatrixHolds ==
  ASSUME NEW p, Valid(p)
  PROVE  /\ NeededFlows(p) \ AdmittedFlows(p) = CutOff(p)
         /\ AdmittedFlows(p) \subseteq DocumentedFlows(p)
<1> DEFINE live == Deployed(p) \cup Foreign
<1>1. \A f : f \in AdmittedFlows(p) <=>
               /\ f \in live \X live \X Port
               /\ f[1] \in Owned \/ f[2] \in Owned
               /\ Admitted(RenderedPolicies(p), f[1], f[2], f[3])
  <2>1. live \X live \X Port = {<<from, to, port>> : from \in live, to \in live, port \in Port}
    OBVIOUS
  <2> HIDE DEF live
  <2> QED  BY <2>1 DEF AdmittedFlows, live
<1>2. ASSUME NEW f \in NeededFlows(p) \ CutOff(p) PROVE f \in AdmittedFlows(p)
  <2>1. PICK from, to, port : f = <<from, to, port>> /\ Goes(p, from, to, port)
    BY NeededIsAdmitted
  <2>2. from \in live /\ to \in live /\ port \in Port
    BY <2>1 DEF Goes
  <2>3. f \in live \X live \X Port /\ f[1] = from /\ f[2] = to /\ f[3] = port
    BY <2>1, <2>2
  <2>4. Admitted(RenderedPolicies(p), from, to, port)
    BY <2>1, <2>2, AdmittedIs, LetsIsMayGo, TakesIsMayCome DEF Goes
  <2> QED  BY <1>1, <2>1, <2>3, <2>4 DEF Goes
<1>3. ASSUME NEW f \in AdmittedFlows(p) PROVE f \in DocumentedFlows(p)
  <2>1. /\ f \in live \X live \X Port
        /\ f[1] \in Owned \/ f[2] \in Owned
        /\ Admitted(RenderedPolicies(p), f[1], f[2], f[3])
    BY <1>1
  <2>2. f[1] \in live /\ f[2] \in live /\ f = <<f[1], f[2], f[3]>>
    BY <2>1
  <2>3. f[1] \in Peer /\ f[2] \in Peer
    BY <2>2, DeployedIsOwned DEF Peer
  <2>4. /\ f[1] \in Foreign \/ MayGo(p, f[1], f[2], f[3])
        /\ f[2] \in Foreign \/ MayCome(p, f[1], f[2], f[3])
    BY <2>1, <2>2, AdmittedIs, LetsIsMayGo, TakesIsMayCome
  <2>5. <<f[1], f[2], f[3]>> \in DocumentedFlows(p)
    BY <2>1, <2>3, <2>4, AdmittedIsListed
  <2> QED  BY <2>2, <2>5
<1>4. ASSUME NEW f \in CutOff(p) PROVE f \in NeededFlows(p) /\ f \notin AdmittedFlows(p)
  <2>1. p.dummies /\ (p.postgres \/ p.mysql) /\ ~ p.direct /\ f = CallsFrontDoor(p, "db")
    BY <1>4 DEF CutOff, When
  <2>2. f = <<"db", "front", 443>> /\ f[1] = "db" /\ f[2] = "front" /\ f[3] = 443
    BY <2>1 DEF CallsFrontDoor, FrontDoor
  <2>3. f \in DummyCalls(p)
    BY <2>1 DEF DummyCalls, When
  <2>4. f \in NeededFlows(p)
    BY <2>1, <2>3 DEF NeededFlows, When
  <2>5. ~ MayGo(p, "db", "front", 443)
    BY DEF MayGo, PodsOf, Outside
  <2>6. ASSUME f \in AdmittedFlows(p) PROVE FALSE
    <3>1. "db" \in live /\ "front" \in live /\ Admitted(RenderedPolicies(p), "db", "front", 443)
      BY <1>1, <2>2, <2>6
    <3>2. "db" \notin Foreign
      BY PeersAre
    <3>3. RenderedLets(p, "db", <<"front", 443>>)
      BY <3>1, <3>2, AdmittedIs
    <3> QED  BY <2>5, <3>3, LetsIsMayGo
  <2> QED  BY <2>4, <2>6
<1> QED  BY <1>2, <1>3, <1>4

\* However a stack of whatever profile comes up, and whatever pods are lost: where every policy
\* is in place, the calls that the deployed programs are set up to make are admitted, all but those
\* that the databases make through a public address outside the cluster, and these are not; and
\* nothing is admitted that the matrix of NetworkPolicies.ts does not list.  A profile that deploys
\* Enterprise's plugins is promised the second only.
THEOREM FlowsAreListed == Spec => []FlowsAreTheMatrix
<1>1. TypeOK => FlowsAreTheMatrix
  <2>1. SUFFICES ASSUME stack \in DOMAIN Profile PROVE FlowsAreTheMatrix
    BY DEF TypeOK
  <2>2. Valid(profile)
    BY <2>1, ProfileAssumption DEF profile
  <2>3. Flows[stack] = AdmittedFlows(profile)
    BY <2>1 DEF Flows, profile
  <2> QED  BY <2>2, <2>3, MatrixHolds DEF FlowsAreTheMatrix
<1> QED  BY <1>1, TypeCorrect, PTL

-----------------------------------------------------------------------------
(* Nothing waits in a circle.  Every resource has a rank, above those of   *)
(* all it waits for: what it depends on and mounts, what its pods join     *)
(* Teleport with and call, and the workloads of the pods it awaits.        *)

Rank(p, id) ==
  IF id = <<"ns", "teleport">> THEN 0
  ELSE IF id \in {<<"secret", "license">>, <<"secret", "tls">>} THEN 1
  ELSE IF id = CLUSTER THEN 2
  ELSE IF id \in {<<"patch", "coredns">>, <<"service", "nodeport">>} THEN 3
  ELSE IF id[1] \in {"ns", "password", "tlskey"} THEN 4
  ELSE IF id[1] \in {"bot", "secret", "tlssecret", "authsecret", "rolebinding", "database", "app"} THEN 6
  ELSE IF id[1] \in {"token", "sshtoken", "user", "github"} THEN 7
  ELSE IF id[1] \in {"sshnodes", "deployment", "rule"} \/ id = <<"release", p.env>> THEN 8
  ELSE IF id[1] = "release" THEN 9
  ELSE IF id[1] = "statefulset" THEN 10
  ELSE IF id[1] = "service" THEN 11
  ELSE 5

ServicePods == {"mcp", "broker", "portal", "harness", "agent"}

\* The pods of a resource, by its name.
PodsFor(id) ==
  IF id = CLUSTER THEN {<<role, role>> : role \in PodsOf.teleport}
  ELSE IF id[1] = "release" THEN KubeAgentPods(id[2])
  ELSE IF id[1] = "sshnodes" THEN {<<"ssh", id[2]>>}
  ELSE IF id[1] = "statefulset" THEN {<<"db", id[2]>>}
  ELSE IF id[1] = "deployment" THEN {IF id[2] \in ServicePods THEN <<id[2], id[2]>> ELSE <<"app", id[2]>>}
  ELSE {}

Names(p) == {r.id : r \in Program(p)}

\* Resources of the program, of a lower rank than k.  Nothing waits for a database to be ready.
Below(p, k, S) == \A id \in S : id \in Names(p) /\ Rank(p, id) < k /\ Rank(p, id) < 10

\* A pod is of a role that is deployed, joins with a token from below, and may make its calls.
CanJoin(p, k, pod) ==
  /\ pod[1] \in Deployed(p)
  /\ Below(p, k, TokenOf(pod)) /\ \A id \in TokenOf(pod) : IsCR(id)
  /\ \A call \in Reaches(p, pod[1]) : <<pod[1], call[1], call[2]>> \in NeededFlows(p)

Founded(p, r) ==
  /\ Below(p, Rank(p, r.id), r.needs \cup r.mounts)
  /\ r.pods = PodsFor(r.id)
  /\ \A pod \in r.pods : CanJoin(p, Rank(p, r.id), pod)
  /\ \A pod \in r.awaits \ r.pods :
       \E id \in Names(p) : pod \in PodsFor(id) /\ Rank(p, id) < Rank(p, r.id)
  /\ r.id[1] = "policy" => r.needs = {Namespace(ns) : ns \in OwnNamespaces(p)}

AllFounded(p, R) == \A r \in R : Founded(p, r)

LEMMA RankType == \A p, id : Rank(p, id) \in 0 .. 11
  BY DEF Rank

LEMMA Ranks ==
  ASSUME NEW p
  PROVE  /\ Rank(p, Namespace("teleport")) = 0 /\ Rank(p, CLUSTER) = 2
         /\ Rank(p, <<"secret", "license">>) = 1 /\ Rank(p, <<"secret", "tls">>) = 1
         /\ Rank(p, <<"patch", "coredns">>) = 3 /\ Rank(p, <<"service", "nodeport">>) = 3
         /\ Rank(p, <<"release", p.env>>) = 8
  BY DEF Rank, Namespace, CLUSTER

LEMMA NameRanks ==
  ASSUME NEW p, NEW n
  PROVE  /\ n # "teleport" => Rank(p, Namespace(n)) = 4
         /\ n \notin {"license", "tls"} => Rank(p, <<"secret", n>>) = 6
         /\ n # "nodeport" => Rank(p, <<"service", n>>) = 11
         /\ n # p.env => Rank(p, <<"release", n>>) = 9
  BY DEF Rank, Namespace, CLUSTER

LEMMA KindRanks ==
  ASSUME NEW p, NEW n, NEW kind
  PROVE  /\ kind \in {"password", "tlskey"} => Rank(p, <<kind, n>>) = 4
         /\ kind \in {"limits", "quota", "role", "clusterrolebinding", "sshaccount", "sshconfig", "sshservice",
                      "tlscert", "configmap", "serviceaccount", "tbotconfig", "role.rbac", "chatsecret", "pvc",
                      "policy"} => Rank(p, <<kind, n>>) = 5
         /\ kind \in {"bot", "tlssecret", "authsecret", "rolebinding", "database", "app"} => Rank(p, <<kind, n>>) = 6
         /\ kind \in {"token", "sshtoken", "user", "github"} => Rank(p, <<kind, n>>) = 7
         /\ kind \in {"sshnodes", "deployment", "rule"} => Rank(p, <<kind, n>>) = 8
         /\ kind = "statefulset" => Rank(p, <<kind, n>>) = 10
<1>1. <<kind, n>>[1] = kind
  OBVIOUS
<1>2. kind \notin {"ns", "secret", "chart", "patch", "service", "release"} =>
        <<kind, n>> \notin {<<"ns", "teleport">>, <<"secret", "license">>, <<"secret", "tls">>, CLUSTER,
                            <<"patch", "coredns">>, <<"service", "nodeport">>, <<"release", p.env>>}
  BY DEF CLUSTER
<1>3. CASE kind \in {"password", "tlskey"}
  BY <1>1, <1>2, <1>3 DEF Rank
<1>4. CASE kind \in {"limits", "quota", "role", "clusterrolebinding", "sshaccount", "sshconfig", "sshservice",
                     "tlscert", "configmap", "serviceaccount", "tbotconfig", "role.rbac", "chatsecret", "pvc",
                     "policy"}
  BY <1>1, <1>2, <1>4 DEF Rank
<1>5. CASE kind \in {"bot", "tlssecret", "authsecret", "rolebinding", "database", "app"}
  BY <1>1, <1>2, <1>5 DEF Rank
<1>6. CASE kind \in {"token", "sshtoken", "user", "github"}
  BY <1>1, <1>2, <1>6 DEF Rank
<1>7. CASE kind \in {"sshnodes", "deployment", "rule"}
  BY <1>1, <1>2, <1>7 DEF Rank
<1>8. CASE kind = "statefulset"
  BY <1>1, <1>2, <1>8 DEF Rank
<1> QED  BY <1>3, <1>4, <1>5, <1>6, <1>7, <1>8

LEMMA PodsByKind ==
  ASSUME NEW n, NEW kind
  PROVE  /\ kind \notin {"chart", "release", "sshnodes", "statefulset", "deployment"} => PodsFor(<<kind, n>>) = {}
         /\ PodsFor(CLUSTER) = {<<"proxy", "proxy">>, <<"auth", "auth">>, <<"operator", "operator">>}
         /\ PodsFor(<<"release", n>>) = {<<"kubeAgent", n>>}
         /\ PodsFor(<<"sshnodes", n>>) = {<<"ssh", n>>}
         /\ PodsFor(<<"statefulset", n>>) = {<<"db", n>>}
         /\ n \in ServicePods => PodsFor(<<"deployment", n>>) = {<<n, n>>}
         /\ n \notin ServicePods => PodsFor(<<"deployment", n>>) = {<<"app", n>>}
<1>1. PodsFor(CLUSTER) = {<<role, role>> : role \in PodsOf.teleport}
  BY DEF PodsFor
<1>2. PodsOf.teleport = {"proxy", "auth", "operator"}
  BY DEF PodsOf
<1> QED  BY <1>1, <1>2 DEF PodsFor, CLUSTER, KubeAgentPods

LEMMA BelowAll ==
  ASSUME NEW p, NEW k \in Nat, NEW j \in Nat, j <= k, NEW S, NEW T, Below(p, j, S), Below(p, k, T)
  PROVE  Below(p, k, S \cup T)
  BY RankType DEF Below

LEMMA NoneBelow == \A p, k : Below(p, k, {})
  BY DEF Below

LEMMA ResFounded ==
  ASSUME NEW p, NEW kind, NEW name, NEW ns, NEW needs,
         kind \notin {"policy", "chart", "release", "sshnodes", "statefulset", "deployment"},
         Below(p, Rank(p, <<kind, name>>), needs)
  PROVE  Founded(p, Res(kind, name, ns, needs))
<1>1. PodsFor(<<kind, name>>) = {}
  BY PodsByKind
<1>2. <<kind, name>>[1] # "policy"
  OBVIOUS
<1> QED  BY <1>1, <1>2 DEF Founded, Res, Below

LEMMA WorkFounded ==
  ASSUME NEW p, NEW kind, NEW name, NEW ns, NEW needs, NEW pods, NEW mounts, kind # "policy",
         Below(p, Rank(p, <<kind, name>>), needs \cup mounts),
         pods = PodsFor(<<kind, name>>),
         \A pod \in pods : CanJoin(p, Rank(p, <<kind, name>>), pod)
  PROVE  Founded(p, Work(kind, name, ns, needs, pods, mounts))
<1>1. <<kind, name>>[1] # "policy"
  OBVIOUS
<1> QED  BY <1>1 DEF Founded, Work

\* A service awaits the pods of one workload.
LEMMA ServiceFounded ==
  ASSUME NEW p, NEW name, NEW ns, NEW needs, NEW id \in Names(p),
         Below(p, Rank(p, <<"service", name>>), needs), Rank(p, id) < Rank(p, <<"service", name>>),
         NEW targets \in SUBSET PodsFor(id)
  PROVE  Founded(p, Service(name, ns, needs, targets))
<1>1. PodsFor(<<"service", name>>) = {} /\ <<"service", name>>[1] # "policy"
  BY PodsByKind
<1> QED  BY <1>1 DEF Founded, Service, Below

LEMMA BothFounded ==
  ASSUME NEW p, NEW R, NEW S, AllFounded(p, R), AllFounded(p, S)
  PROVE  AllFounded(p, R \cup S)
  BY DEF AllFounded

LEMMA WhenFounded ==
  ASSUME NEW p, NEW c, NEW R, c => AllFounded(p, R)
  PROVE  AllFounded(p, When(c, R))
  BY DEF AllFounded, When

LEMMA ResNamed ==
  ASSUME NEW p, NEW kind, NEW name, NEW ns, NEW needs, Res(kind, name, ns, needs) \in Program(p)
  PROVE  <<kind, name>> \in Names(p)
  BY DEF Names, Res

LEMMA WorkNamed ==
  ASSUME NEW p, NEW kind, NEW name, NEW ns, NEW needs, NEW pods, NEW mounts,
         Work(kind, name, ns, needs, pods, mounts) \in Program(p)
  PROVE  <<kind, name>> \in Names(p)
  BY DEF Names, Work

LEMMA Parts ==
  ASSUME NEW p
  PROVE  /\ TeleportCluster(p) \subseteq Program(p) /\ AccessPolicy(p) \subseteq Program(p)
         /\ KubeRbac(p) \subseteq Program(p) /\ LocalDns(p) \subseteq Program(p)
         /\ TeleportKubeAgent(p) \subseteq Program(p) /\ AccessServices(p) \subseteq Program(p)
         /\ NetworkPolicies(p) \subseteq Program(p) /\ MonitoringRules(p) \subseteq Program(p)
         /\ p.dummies => DummyResources(p) \subseteq Program(p)
  BY DEF Program, When

\* What many resources wait for.
LEMMA Grounds ==
  ASSUME NEW p
  PROVE  /\ Below(p, 1, {Namespace("teleport")}) /\ Below(p, 3, {CLUSTER}) /\ Below(p, 4, AgentDeps(p))
         /\ Below(p, 5, {Namespace("kubeagent")}) /\ Below(p, 5, {Namespace("access")})
         /\ p.dummies => Below(p, 5, {Namespace("dummies")})
<1>1. Namespace("teleport") \in Names(p)
  <2>1. Res("ns", "teleport", "", {}) \in Program(p)
    BY Parts DEF TeleportCluster
  <2> QED  BY <2>1, ResNamed DEF Namespace
<1>2. CLUSTER \in Names(p)
  <2>1. Work("chart", "teleport", "teleport", {Namespace("teleport")} \cup ClusterSecrets(p),
             {<<role, role>> : role \in PodsOf.teleport}, ClusterSecrets(p)) \in Program(p)
    BY Parts DEF TeleportCluster
  <2> QED  BY <2>1, WorkNamed DEF CLUSTER
<1>3. AgentDeps(p) \subseteq Names(p)
  <2>1. p.kind => Res("patch", "coredns", "", {CLUSTER}) \in Program(p)
    BY Parts DEF LocalDns, When
  <2> QED  BY <2>1, ResNamed DEF AgentDeps, When
<1>4. Namespace("kubeagent") \in Names(p)
  <2>1. Res("ns", "kubeagent", "", AgentDeps(p)) \in Program(p)
    BY Parts DEF TeleportKubeAgent
  <2> QED  BY <2>1, ResNamed DEF Namespace
<1>5. Namespace("access") \in Names(p)
  <2>1. Res("ns", "access", "", {}) \in Program(p)
    BY Parts DEF AccessServices
  <2> QED  BY <2>1, ResNamed DEF Namespace
<1>6. p.dummies => Namespace("dummies") \in Names(p)
  <2>1. p.dummies => Res("ns", "dummies", "", AgentDeps(p)) \in Program(p)
    BY Parts DEF DummyResources
  <2> QED  BY <2>1, ResNamed DEF Namespace
<1>7. Below(p, 1, {Namespace("teleport")}) /\ Below(p, 3, {CLUSTER})
  <2>1. Rank(p, Namespace("teleport")) = 0 /\ Rank(p, CLUSTER) = 2
    BY Ranks
  <2>2. Below(p, 1, {Namespace("teleport")})
    BY <1>1, <2>1 DEF Below
  <2> QED  BY <1>2, <2>1, <2>2 DEF Below
<1>8. Below(p, 4, AgentDeps(p))
  <2>1. Rank(p, <<"patch", "coredns">>) = 3
    BY Ranks
  <2>2. \A id \in AgentDeps(p) : id = <<"patch", "coredns">>
    BY DEF AgentDeps, When
  <2> QED  BY <1>3, <2>1, <2>2 DEF Below
<1>9. Rank(p, Namespace("kubeagent")) = 4 /\ Rank(p, Namespace("access")) = 4 /\ Rank(p, Namespace("dummies")) = 4
  BY NameRanks
<1> QED  BY <1>4, <1>5, <1>6, <1>7, <1>8, <1>9 DEF Below

\* What is above the ground may wait for it.
LEMMA AboveGround ==
  ASSUME NEW p, NEW k \in Nat, k >= 5
  PROVE  /\ Below(p, k, {CLUSTER}) /\ Below(p, k, {Namespace("teleport")}) /\ Below(p, k, AgentDeps(p))
         /\ Below(p, k, ServiceDeps(p))
         /\ Below(p, k, {Namespace("kubeagent")}) /\ Below(p, k, {Namespace("access")})
         /\ p.dummies => Below(p, k, {Namespace("dummies")})
<1>1. ASSUME NEW j \in 0 .. 5, NEW S, Below(p, j, S) PROVE Below(p, k, S)
  BY <1>1, RankType DEF Below
<1>2. Below(p, k, {CLUSTER}) /\ Below(p, k, AgentDeps(p))
  BY <1>1, Grounds
<1>3. Below(p, k, ServiceDeps(p))
  BY <1>2 DEF Below, ServiceDeps
<1> QED  BY <1>1, <1>2, <1>3, Grounds

LEMMA GuardrailsFounded ==
  ASSUME NEW p, NEW ns, NEW needs, Below(p, 5, {Namespace(ns)}), Below(p, 5, needs)
  PROVE  AllFounded(p, Guardrails(ns, needs))
<1>1. Below(p, 5, needs \cup {Namespace(ns)})
  BY BelowAll
<1>2. Rank(p, <<"limits", ns>>) = 5 /\ Rank(p, <<"quota", ns>>) = 5
  BY KindRanks
<1> QED  BY <1>1, <1>2, ResFounded DEF Guardrails, AllFounded

-----------------------------------------------------------------------------
LEMMA ClusterFounded == ASSUME NEW p PROVE AllFounded(p, TeleportCluster(p))
<1> DEFINE Own == {Namespace("teleport")}
           Ready == {<<role, role>> : role \in PodsOf.teleport}
           Secret(s) == Res(s[1], s[2], "teleport", Own)
           Chart == Work("chart", "teleport", "teleport", Own \cup ClusterSecrets(p), Ready, ClusterSecrets(p))
           Node == Service("nodeport", "teleport", Own \cup {CLUSTER}, {<<"proxy", "proxy">>})
<1>1. Founded(p, Res("ns", "teleport", "", {}))
  BY NoneBelow, ResFounded
<1>2. ClusterSecrets(p) \subseteq {<<"secret", "license">>, <<"secret", "tls">>}
  BY DEF ClusterSecrets, When
<1>3. \A s \in ClusterSecrets(p) : Founded(p, Secret(s))
  <2>1. ASSUME NEW n \in {"license", "tls"} PROVE Founded(p, Secret(<<"secret", n>>))
    <3>1. Rank(p, <<"secret", n>>) = 1
      BY Ranks
    <3>2. Below(p, Rank(p, <<"secret", n>>), Own)
      BY <3>1, Grounds
    <3> HIDE DEF Own
    <3> QED  BY <3>2, ResFounded
  <2> QED  BY <1>2, <2>1
<1>4. Below(p, 2, ClusterSecrets(p))
  <2>1. \A s \in ClusterSecrets(p) : Secret(s) \in Program(p)
    BY Parts DEF TeleportCluster
  <2>2. \A s \in ClusterSecrets(p) : s = <<s[1], s[2]>>
    BY <1>2
  <2>3. \A s \in ClusterSecrets(p) : s \in Names(p)
    BY <2>1, <2>2, ResNamed
  <2>4. Rank(p, <<"secret", "license">>) = 1 /\ Rank(p, <<"secret", "tls">>) = 1
    BY Ranks
  <2>5. ASSUME NEW s \in ClusterSecrets(p) PROVE Rank(p, s) < 2
    BY <1>2, <2>4
  <2>6. \A s \in ClusterSecrets(p) : Rank(p, s) < 10
    BY <2>5, RankType
  <2> QED  BY <2>3, <2>5, <2>6 DEF Below
<1>5. Ready = PodsFor(CLUSTER)
  BY DEF PodsFor
<1>6. \A pod \in Ready : CanJoin(p, 2, pod)
  <2>1. Ready = {<<"proxy", "proxy">>, <<"auth", "auth">>, <<"operator", "operator">>}
    BY <1>5, PodsByKind
  <2>2. ASSUME NEW role \in {"proxy", "auth", "operator"} PROVE CanJoin(p, 2, <<role, role>>)
    <3>1. TokenOf(<<role, role>>) = {}
      BY <2>2 DEF TokenOf
    <3>2. role \in Deployed(p)
      BY DEF Deployed, PodsOf
    <3>3. Reaches(p, role) \subseteq {<<"auth", AUTH>>} /\ (role = "auth" => Reaches(p, role) = {})
      BY <2>2 DEF Reaches, ToAuth
    <3>4. {<<"proxy", "auth", AUTH>>, <<"operator", "auth", AUTH>>} \subseteq NeededFlows(p)
      BY DEF NeededFlows
    <3> QED  BY <3>1, <3>2, <3>3, <3>4 DEF CanJoin, Below
  <2> QED  BY <2>1, <2>2
<1>7. Founded(p, Chart)
  <2>1. Below(p, 2, Own \cup ClusterSecrets(p))
    BY <1>4, Grounds, BelowAll
  <2>2. Below(p, 2, (Own \cup ClusterSecrets(p)) \cup ClusterSecrets(p))
    BY <2>1 DEF Below
  <2>3. Rank(p, <<"chart", "teleport">>) = 2
    BY Ranks DEF CLUSTER
  <2> HIDE DEF Own, Ready
  <2> QED  BY <1>5, <1>6, <2>2, <2>3, WorkFounded DEF CLUSTER
<1>8. Founded(p, Node)
  <2>1. Below(p, 3, Own \cup {CLUSTER})
    BY Grounds, BelowAll
  <2>2. CLUSTER \in Names(p) /\ Rank(p, CLUSTER) = 2 /\ Rank(p, <<"service", "nodeport">>) = 3
    BY Grounds, Ranks DEF Below
  <2>3. {<<"proxy", "proxy">>} \in SUBSET PodsFor(CLUSTER)
    BY PodsByKind
  <2> HIDE DEF Own
  <2> QED  BY <2>1, <2>2, <2>3, ServiceFounded
<1>9. TeleportCluster(p) =
        {Res("ns", "teleport", "", {})} \cup {Secret(s) : s \in ClusterSecrets(p)} \cup {Chart}
          \cup When(p.nodeport, {Node})
  BY DEF TeleportCluster
<1> HIDE DEF Secret, Chart, Node
<1> QED  BY <1>1, <1>3, <1>7, <1>8, <1>9 DEF AllFounded, When

LEMMA LocalDnsFounded == ASSUME NEW p PROVE AllFounded(p, LocalDns(p))
<1>1. Rank(p, <<"patch", "coredns">>) = 3
  BY Ranks
<1>2. Founded(p, Res("patch", "coredns", "", {CLUSTER}))
  BY <1>1, Grounds, ResFounded
<1> QED  BY <1>2 DEF LocalDns, AllFounded, When

-----------------------------------------------------------------------------
PolicyChild(kind, name, needs) == Res(kind, name, "teleport", {CLUSTER, Namespace("teleport")} \cup needs)

LEMMA ChildFounded ==
  ASSUME NEW p, NEW kind, NEW name, NEW needs, NEW k \in Nat, k >= 3, Rank(p, <<kind, name>>) = k,
         kind \notin {"policy", "chart", "release", "sshnodes", "statefulset", "deployment"},
         Below(p, k, needs)
  PROVE  Founded(p, PolicyChild(kind, name, needs))
<1>1. Below(p, k, {CLUSTER, Namespace("teleport")})
  <2>1. /\ CLUSTER \in Names(p) /\ Rank(p, CLUSTER) = 2
        /\ Namespace("teleport") \in Names(p) /\ Rank(p, Namespace("teleport")) = 0
    BY Grounds, Ranks DEF Below
  <2> QED  BY <2>1 DEF Below
<1>2. Below(p, k, {CLUSTER, Namespace("teleport")} \cup needs)
  BY <1>1 DEF Below
<1> QED  BY <1>2, ResFounded DEF PolicyChild

LEMMA PolicyNames ==
  ASSUME NEW p
  PROVE  /\ AllRoles(p) \subseteq Names(p) /\ AgentTokens(p) \subseteq Names(p)
         /\ \A b \in EnabledBots(p) : <<"bot", b>> \in Names(p) /\ <<"token", b>> \in Names(p)
         /\ p.github => <<"secret", "github-oauth">> \in Names(p)
<1>1. /\ \A r \in RoleNames(p) : PolicyChild("role", r, {}) \in Program(p)
      /\ \A b \in EnabledBots(p) : /\ PolicyChild("bot", b, {<<"role", b>>}) \in Program(p)
                                   /\ PolicyChild("token", b, {<<"bot", b>>}) \in Program(p)
      /\ \A t \in AgentTokens(p) : PolicyChild(t[1], t[2], {}) \in Program(p)
      /\ p.github => PolicyChild("secret", "github-oauth", {}) \in Program(p)
  BY Parts DEF AccessPolicy, When, PolicyChild
<1>2. \A t \in AgentTokens(p) : t = <<t[1], t[2]>>
  BY DEF AgentTokens, When
<1>3. AgentTokens(p) \subseteq Names(p)
  BY <1>1, <1>2, ResNamed DEF PolicyChild
<1>4. \A r \in RoleNames(p) : <<"role", r>> \in Names(p)
  BY <1>1, ResNamed DEF PolicyChild
<1>5. \A b \in EnabledBots(p) : <<"bot", b>> \in Names(p) /\ <<"token", b>> \in Names(p)
  BY <1>1, ResNamed DEF PolicyChild
<1>6. p.github => <<"secret", "github-oauth">> \in Names(p)
  BY <1>1, ResNamed DEF PolicyChild
<1> QED  BY <1>3, <1>4, <1>5, <1>6 DEF AllRoles

LEMMA AccessPolicyFounded == ASSUME NEW p PROVE AllFounded(p, AccessPolicy(p))
<1>1. \A n : /\ Rank(p, <<"role", n>>) = 5 /\ Rank(p, <<"bot", n>>) = 6 /\ Rank(p, <<"token", n>>) = 7
             /\ Rank(p, <<"sshtoken", n>>) = 7 /\ Rank(p, <<"user", n>>) = 7 /\ Rank(p, <<"github", n>>) = 7
  BY KindRanks
<1>2. Rank(p, <<"secret", "github-oauth">>) = 6
  BY NameRanks
<1>3. ASSUME NEW r PROVE Founded(p, PolicyChild("role", r, {}))
  <2>1. Rank(p, <<"role", r>>) = 5 /\ Below(p, 5, {})
    BY <1>1, NoneBelow
  <2> QED  BY <2>1, ChildFounded
<1>4. ASSUME NEW b \in EnabledBots(p)
      PROVE  Founded(p, PolicyChild("bot", b, {<<"role", b>>})) /\ Founded(p, PolicyChild("token", b, {<<"bot", b>>}))
  <2>1. b \in RoleNames(p)
    BY <1>4 DEF EnabledBots, RoleNames, When
  <2>2. <<"role", b>> \in Names(p) /\ <<"bot", b>> \in Names(p)
    BY <1>4, <2>1, PolicyNames DEF AllRoles
  <2>3. Below(p, 6, {<<"role", b>>}) /\ Below(p, 7, {<<"bot", b>>})
    BY <1>1, <2>2 DEF Below
  <2>4. Rank(p, <<"bot", b>>) = 6 /\ Rank(p, <<"token", b>>) = 7
    BY <1>1
  <2>5. Founded(p, PolicyChild("bot", b, {<<"role", b>>}))
    BY <2>3, <2>4, ChildFounded
  <2>6. Founded(p, PolicyChild("token", b, {<<"bot", b>>}))
    BY <2>3, <2>4, ChildFounded
  <2> QED  BY <2>5, <2>6
<1>5. ASSUME NEW t \in AgentTokens(p) PROVE Founded(p, PolicyChild(t[1], t[2], {}))
  <2>1. t[1] \in {"token", "sshtoken"}
    BY <1>5 DEF AgentTokens, When
  <2>2. Rank(p, <<t[1], t[2]>>) = 7
    BY <2>1, <1>1
  <2> QED  BY <2>1, <2>2, ChildFounded, NoneBelow
<1>6. Below(p, 7, AllRoles(p))
  BY <1>1, PolicyNames DEF Below, AllRoles
<1>7. Founded(p, PolicyChild("user", "local", AllRoles(p)))
  <2>1. Rank(p, <<"user", "local">>) = 7
    BY <1>1
  <2> QED  BY <1>6, <2>1, ChildFounded
<1>8. Founded(p, PolicyChild("secret", "github-oauth", {}))
  BY <1>2, ChildFounded, NoneBelow
<1>9. p.github => Founded(p, PolicyChild("github", "github", {<<"secret", "github-oauth">>} \cup AllRoles(p)))
  <2>1. p.github => Below(p, 7, {<<"secret", "github-oauth">>} \cup AllRoles(p))
    BY <1>2, <1>6, PolicyNames DEF Below
  <2>2. Rank(p, <<"github", "github">>) = 7
    BY <1>1
  <2> QED  BY <2>1, <2>2, ChildFounded
<1>10. AccessPolicy(p) =
         {PolicyChild("role", r, {}) : r \in RoleNames(p)}
           \cup {PolicyChild("bot", b, {<<"role", b>>}) : b \in EnabledBots(p)}
           \cup {PolicyChild("token", b, {<<"bot", b>>}) : b \in EnabledBots(p)}
           \cup {PolicyChild(t[1], t[2], {}) : t \in AgentTokens(p)}
           \cup When(p.users, {PolicyChild("user", "local", AllRoles(p))})
           \cup When(p.github, {PolicyChild("secret", "github-oauth", {}),
                                PolicyChild("github", "github", {<<"secret", "github-oauth">>} \cup AllRoles(p))})
  BY DEF AccessPolicy, PolicyChild
<1> QED  BY <1>3, <1>4, <1>5, <1>7, <1>8, <1>9, <1>10 DEF AllFounded, When

LEMMA KubeRbacFounded == ASSUME NEW p PROVE AllFounded(p, KubeRbac(p))
<1>1. \A g : Founded(p, Res("clusterrolebinding", g, "", {CLUSTER}))
  <2>1. \A g : Rank(p, <<"clusterrolebinding", g>>) = 5
    BY KindRanks
  <2>2. Below(p, 5, {CLUSTER})
    BY AboveGround
  <2> QED  BY <2>1, <2>2, ResFounded
<1>2. p.dummies => Founded(p, Res("rolebinding", "dev", "dummies", {CLUSTER, Namespace("dummies")}))
  <2>1. Rank(p, <<"rolebinding", "dev">>) = 6
    BY KindRanks
  <2>2. p.dummies => Below(p, 6, {CLUSTER, Namespace("dummies")})
    BY RankType, Grounds DEF Below
  <2> QED  BY <2>1, <2>2, ResFounded
<1>3. AllFounded(p, {Res("clusterrolebinding", g, "", {CLUSTER}) : g \in {"cluster-admin", "prod-viewer"}})
  BY <1>1 DEF AllFounded
<1>4. AllFounded(p, When(p.dummies, {Res("rolebinding", "dev", "dummies", {CLUSTER, Namespace("dummies")})}))
  BY <1>2 DEF AllFounded, When
<1> QED  BY <1>3, <1>4, BothFounded DEF KubeRbac

LEMMA KubeAgentFounded == ASSUME NEW p PROVE AllFounded(p, TeleportKubeAgent(p))
<1> DEFINE primary == <<"release", p.env>>
           Guards == {r.id : r \in Guardrails("kubeagent", {})}
           Others == {Namespace("kubeagent"), CLUSTER, <<"token", "kube-agent">>}
           First == Work("release", p.env, "kubeagent", Guards \cup Others \cup AgentDeps(p),
                         KubeAgentPods(p.env), {})
           Other(e) == Work("release", e, "kubeagent", {Namespace("kubeagent"), primary}, KubeAgentPods(e), {primary})
<1>1. TeleportKubeAgent(p) =
        {Res("ns", "kubeagent", "", AgentDeps(p))} \cup Guardrails("kubeagent", AgentDeps(p))
          \cup {First} \cup {Other(e) : e \in KubeAgentEnvs(p) \ {p.env}}
  BY DEF TeleportKubeAgent
<1>2. Rank(p, Namespace("kubeagent")) = 4 /\ Rank(p, CLUSTER) = 2 /\ Rank(p, primary) = 8
  BY Ranks, NameRanks
<1>3. Rank(p, <<"token", "kube-agent">>) = 7
  BY KindRanks
<1>4. Founded(p, Res("ns", "kubeagent", "", AgentDeps(p)))
  BY <1>2, Grounds, ResFounded DEF Namespace
<1>5. Below(p, 5, AgentDeps(p))
  BY RankType, Grounds DEF Below
<1>6. AllFounded(p, Guardrails("kubeagent", AgentDeps(p)))
  BY <1>5, Grounds, GuardrailsFounded
<1>7. <<"token", "kube-agent">> \in Names(p)
  BY PolicyNames DEF AgentTokens
<1>8. ASSUME NEW e, NEW k \in {8, 9} PROVE \A pod \in KubeAgentPods(e) : CanJoin(p, k, pod)
  <2>1. KubeAgentPods(e) = {<<"kubeAgent", e>>}
    BY DEF KubeAgentPods
  <2>2. TokenOf(<<"kubeAgent", e>>) = {<<"token", "kube-agent">>}
    BY DEF TokenOf
  <2>3. IsCR(<<"token", "kube-agent">>)
    BY DEF IsCR, CRKinds
  <2>4. "kubeAgent" \in Deployed(p)
    BY DEF Deployed, PodsOf
  <2>5. Reaches(p, "kubeAgent") = {FrontDoor(p)}
    BY DEF Reaches
  <2>6. CallsFrontDoor(p, "kubeAgent") \in NeededFlows(p)
    BY DEF NeededFlows
  <2>7. Below(p, k, TokenOf(<<"kubeAgent", e>>))
    BY <1>3, <1>7, <1>8, <2>2 DEF Below
  <2> QED  BY <2>1, <2>2, <2>3, <2>4, <2>5, <2>6, <2>7 DEF CanJoin, CallsFrontDoor
<1>9. \A e : KubeAgentPods(e) = PodsFor(<<"release", e>>)
  BY PodsByKind DEF KubeAgentPods
<1>10. Founded(p, First)
  <2>1. Guards = {<<"limits", "kubeagent">>, <<"quota", "kubeagent">>}
    BY DEF Guardrails, Res
  <2>2. /\ Res("limits", "kubeagent", "kubeagent", AgentDeps(p) \cup {Namespace("kubeagent")}) \in Program(p)
        /\ Res("quota", "kubeagent", "kubeagent", AgentDeps(p) \cup {Namespace("kubeagent")}) \in Program(p)
    BY <1>1, Parts DEF Guardrails
  <2>3. Guards \subseteq Names(p)
    BY <2>1, <2>2, ResNamed
  <2>4. Rank(p, <<"limits", "kubeagent">>) = 5 /\ Rank(p, <<"quota", "kubeagent">>) = 5
    BY KindRanks
  <2>5. Below(p, 8, Guards)
    BY <2>1, <2>3, <2>4 DEF Below
  <2>6. Below(p, 8, Others)
    BY <1>2, <1>3, <1>7, Grounds DEF Below
  <2>7. Below(p, 8, AgentDeps(p))
    BY RankType, Grounds DEF Below
  <2>8. Below(p, 8, (Guards \cup Others \cup AgentDeps(p)) \cup {})
    BY <2>5, <2>6, <2>7 DEF Below
  <2> HIDE DEF Guards, Others
  <2> QED  BY <1>2, <1>8, <1>9, <2>8, WorkFounded
<1>11. ASSUME NEW e \in KubeAgentEnvs(p) \ {p.env} PROVE Founded(p, Other(e))
  <2>1. primary \in Names(p)
    <3>1. First \in Program(p)
      BY <1>1, Parts
    <3> HIDE DEF Guards, Others
    <3> QED  BY <3>1, WorkNamed
  <2>2. Rank(p, <<"release", e>>) = 9
    BY <1>11, NameRanks
  <2>3. Below(p, 9, {Namespace("kubeagent"), primary} \cup {primary})
    BY <1>2, <2>1, Grounds DEF Below
  <2> HIDE DEF primary
  <2> QED  BY <1>8, <1>9, <2>2, <2>3, WorkFounded
<1> HIDE DEF First, Other
<1> QED  BY <1>1, <1>4, <1>6, <1>10, <1>11 DEF AllFounded

-----------------------------------------------------------------------------
LEMMA DummyFounded ==
  ASSUME NEW p, NEW kind, NEW name, NEW needs, NEW k \in Nat, k >= 5, Rank(p, <<kind, name>>) = k,
         kind \notin {"policy", "chart", "release", "sshnodes", "statefulset", "deployment"},
         p.dummies, Below(p, k, needs)
  PROVE  Founded(p, DummyRes(p, kind, name, needs))
<1>1. Below(p, k, {Namespace("dummies")}) /\ Below(p, k, AgentDeps(p))
  BY AboveGround
<1>2. Below(p, k, {Namespace("dummies")} \cup AgentDeps(p) \cup needs)
  BY <1>1 DEF Below
<1> QED  BY <1>2, ResFounded DEF DummyRes

LEMMA DummyCRFounded ==
  ASSUME NEW p, NEW kind, NEW name, NEW needs, NEW k \in Nat, k >= 5, Rank(p, <<kind, name>>) = k,
         kind \notin {"policy", "chart", "release", "sshnodes", "statefulset", "deployment"},
         Below(p, k, needs)
  PROVE  Founded(p, DummyCR(p, kind, name, needs))
<1>1. Below(p, k, {CLUSTER}) /\ Below(p, k, {Namespace("teleport")}) /\ Below(p, k, AgentDeps(p))
  BY AboveGround
<1>2. Below(p, k, {CLUSTER, Namespace("teleport")} \cup AgentDeps(p) \cup needs)
  BY <1>1 DEF Below
<1> QED  BY <1>2, ResFounded DEF DummyCR

LEMMA ServiceResFounded ==
  ASSUME NEW p, NEW kind, NEW name, NEW needs, NEW k \in Nat, k >= 5, Rank(p, <<kind, name>>) = k,
         kind \notin {"policy", "chart", "release", "sshnodes", "statefulset", "deployment"},
         Below(p, k, needs)
  PROVE  Founded(p, ServiceRes(p, kind, name, needs))
<1>1. Below(p, k, {Namespace("access")}) /\ Below(p, k, ServiceDeps(p))
  BY AboveGround
<1>2. Below(p, k, {Namespace("access")} \cup ServiceDeps(p) \cup needs)
  BY <1>1 DEF Below
<1> QED  BY <1>2, ResFounded DEF ServiceRes

\* A workload of the third wave: its one kind of pod comes with it.
LEMMA WorkloadFounded ==
  ASSUME NEW p, NEW kind \in {"sshnodes", "statefulset", "deployment"}, NEW name, NEW ns, NEW needs, NEW mounts,
         NEW pod, PodsFor(<<kind, name>>) = {pod},
         kind = "statefulset" => CanJoin(p, 10, pod), kind # "statefulset" => CanJoin(p, 8, pod),
         Below(p, 8, needs), Below(p, 8, mounts)
  PROVE  Founded(p, Work(kind, name, ns, needs, {pod}, mounts))
<1>1. Rank(p, <<kind, name>>) = (IF kind = "statefulset" THEN 10 ELSE 8)
  BY KindRanks
<1>2. Below(p, 8, needs \cup mounts)
  BY DEF Below
<1>3. Below(p, Rank(p, <<kind, name>>), needs \cup mounts)
  BY <1>1, <1>2, RankType DEF Below
<1>4. CanJoin(p, Rank(p, <<kind, name>>), pod)
  BY <1>1
<1> QED  BY <1>3, <1>4, WorkFounded

\* A service other than the node port, before the workload of its target.
LEMMA TargetFounded ==
  ASSUME NEW p, NEW kind \in {"statefulset", "deployment"}, NEW name, NEW ns, NEW needs, NEW pod,
         name # "nodeport", <<kind, name>> \in Names(p), PodsFor(<<kind, name>>) = {pod}, Below(p, 9, needs)
  PROVE  Founded(p, Service(name, ns, needs, {pod}))
<1>1. Rank(p, <<kind, name>>) \in {8, 10} /\ Rank(p, <<"service", name>>) = 11
  <2>1. kind = "statefulset" => Rank(p, <<kind, name>>) = 10
    BY KindRanks
  <2>2. kind = "deployment" => Rank(p, <<kind, name>>) = 8
    BY KindRanks
  <2> QED  BY <2>1, <2>2, NameRanks
<1>2. {pod} \in SUBSET PodsFor(<<kind, name>>)
  OBVIOUS
<1>3. Below(p, 11, needs)
  BY RankType DEF Below
<1> QED  BY <1>1, <1>2, <1>3, ServiceFounded

LEMMA DummyNamed ==
  ASSUME NEW p, NEW kind, NEW name, NEW needs, DummyRes(p, kind, name, needs) \in Program(p)
  PROVE  <<kind, name>> \in Names(p)
  BY ResNamed DEF DummyRes

LEMMA ServiceResNamed ==
  ASSUME NEW p, NEW kind, NEW name, NEW needs, ServiceRes(p, kind, name, needs) \in Program(p)
  PROVE  <<kind, name>> \in Names(p)
  BY ResNamed DEF ServiceRes

-----------------------------------------------------------------------------
LEMMA SshFounded ==
  ASSUME NEW p, NEW e \in DOMAIN p.sshNodes, p.dummies, SshServers(p, e) \subseteq Program(p)
  PROVE  AllFounded(p, SshServers(p, e))
<1> DEFINE parts == {<<"sshaccount", e>>, <<"sshconfig", e>>}
           all == parts \cup {<<"sshservice", e>>}
           needs == all \cup {Namespace("dummies"), <<"sshtoken", e>>, CLUSTER} \cup AgentDeps(p)
           pod == <<"ssh", e>>
           Nodes == Work("sshnodes", e, "dummies", needs, {pod}, parts)
<1>1. SshServers(p, e) = {SshService(p, e)} \cup {DummyRes(p, r[1], r[2], {}) : r \in parts} \cup {Nodes}
  BY DEF SshServers
<1>2. Rank(p, <<"sshaccount", e>>) = 5 /\ Rank(p, <<"sshconfig", e>>) = 5 /\ Rank(p, <<"sshservice", e>>) = 5
  BY KindRanks
<1>3. Rank(p, <<"sshtoken", e>>) = 7
  BY KindRanks
<1>4. /\ Founded(p, DummyRes(p, "sshaccount", e, {})) /\ Founded(p, DummyRes(p, "sshconfig", e, {}))
      /\ Founded(p, DummyRes(p, "sshservice", e, {}))
  BY <1>2, NoneBelow, DummyFounded
<1>5. /\ DummyRes(p, "sshaccount", e, {}) \in Program(p) /\ DummyRes(p, "sshconfig", e, {}) \in Program(p)
      /\ DummyRes(p, "sshservice", e, {}) \in Program(p)
  BY DEF SshServers, SshService
<1>6. <<"sshaccount", e>> \in Names(p) /\ <<"sshconfig", e>> \in Names(p) /\ <<"sshservice", e>> \in Names(p)
  BY <1>5, DummyNamed
<1>7. <<"sshtoken", e>> \in Names(p)
  <2>1. <<"sshtoken", e>> \in AgentTokens(p)
    BY DEF AgentTokens, When
  <2> QED  BY <2>1, PolicyNames
<1>8. Below(p, 8, parts) /\ Below(p, 8, all) /\ Below(p, 8, {<<"sshtoken", e>>})
  BY <1>2, <1>3, <1>6, <1>7 DEF Below
<1>9. Below(p, 8, needs)
  <2>1. Below(p, 8, {Namespace("dummies")}) /\ Below(p, 8, {CLUSTER}) /\ Below(p, 8, AgentDeps(p))
    BY AboveGround
  <2> HIDE DEF all
  <2> QED  BY <1>8, <2>1 DEF Below
<1>10. CanJoin(p, 8, pod)
  <2>1. TokenOf(pod) = {<<"sshtoken", e>>}
    BY DEF TokenOf
  <2>2. IsCR(<<"sshtoken", e>>)
    BY DEF IsCR, CRKinds
  <2>3. "ssh" \in Deployed(p)
    BY DEF Deployed, PodsOf, When
  <2>4. Reaches(p, "ssh") = {<<"auth", AUTH>>}
    BY DEF Reaches, ToAuth
  <2>5. <<"ssh", "auth", AUTH>> \in NeededFlows(p)
    BY DEF NeededFlows, DummyCalls, When
  <2> QED  BY <1>8, <2>1, <2>2, <2>3, <2>4, <2>5 DEF CanJoin
<1>11. Founded(p, Nodes)
  <2>1. PodsFor(<<"sshnodes", e>>) = {pod}
    BY PodsByKind
  <2> HIDE DEF needs, parts, pod
  <2> QED  BY <1>8, <1>9, <1>10, <2>1, WorkloadFounded
<1> HIDE DEF Nodes
<1> QED  BY <1>1, <1>4, <1>11 DEF AllFounded, SshService

LEMMA DatabaseFounded ==
  ASSUME NEW p, NEW name, name # "nodeport", p.dummies, p.postgres \/ p.mysql, Database(p, name) \subseteq Program(p)
  PROVE  AllFounded(p, Database(p, name))
<1> DEFINE key == <<"tlskey", name>>
           cert == <<"tlscert", name>>
           password == <<"password", name>>
           tls == <<"tlssecret", name>>
           auth == <<"authsecret", name>>
           config == <<"configmap", name>>
           pod == <<"db", name>>
           mounts == {tls, auth, config}
           needs == {tls, auth, config, Namespace("dummies")} \cup AgentDeps(p)
           Set == Work("statefulset", name, "dummies", needs, {pod}, mounts)
           Svc == Service(name, "dummies", {Namespace("dummies")} \cup AgentDeps(p), {pod})
<1>1. Database(p, name) =
        {Res("tlskey", name, "", AgentDeps(p)), Res("tlscert", name, "", AgentDeps(p) \cup {key}),
         Res("password", name, "", AgentDeps(p)),
         DummyRes(p, "tlssecret", name, {key, cert}), DummyRes(p, "authsecret", name, {password}),
         DummyRes(p, "configmap", name, {}), Svc, Set, DummyCR(p, "database", name, {cert})}
  BY DEF Database
<1>2. /\ Res("tlskey", name, "", AgentDeps(p)) \in Program(p)
      /\ Res("tlscert", name, "", AgentDeps(p) \cup {key}) \in Program(p)
      /\ Res("password", name, "", AgentDeps(p)) \in Program(p)
      /\ DummyRes(p, "tlssecret", name, {key, cert}) \in Program(p)
      /\ DummyRes(p, "authsecret", name, {password}) \in Program(p)
      /\ DummyRes(p, "configmap", name, {}) \in Program(p)
      /\ Set \in Program(p)
  BY <1>1
<1>3. key \in Names(p) /\ cert \in Names(p) /\ password \in Names(p)
  BY <1>2, ResNamed
<1>4. tls \in Names(p) /\ auth \in Names(p) /\ config \in Names(p)
  BY <1>2, DummyNamed
<1>5. Rank(p, key) = 4 /\ Rank(p, cert) = 5 /\ Rank(p, password) = 4
  BY KindRanks
<1>6. Rank(p, tls) = 6 /\ Rank(p, auth) = 6 /\ Rank(p, config) = 5 /\ Rank(p, <<"database", name>>) = 6
  BY KindRanks
<1>7. /\ Below(p, 5, {key}) /\ Below(p, 6, {key, cert}) /\ Below(p, 6, {cert}) /\ Below(p, 6, {password})
      /\ Below(p, 8, mounts)
  BY <1>3, <1>4, <1>5, <1>6 DEF Below
<1>8. Below(p, 4, AgentDeps(p)) /\ Below(p, 5, AgentDeps(p) \cup {key})
  <2>1. Below(p, 4, AgentDeps(p)) /\ Below(p, 5, AgentDeps(p))
    BY Grounds, AboveGround
  <2> QED  BY <1>7, <2>1 DEF Below
<1> HIDE DEF key, cert, password, tls, auth, config
<1>9. Founded(p, Res("tlskey", name, "", AgentDeps(p))) /\ Founded(p, Res("password", name, "", AgentDeps(p)))
  BY <1>5, <1>8, ResFounded DEF key, password
<1>10. Founded(p, Res("tlscert", name, "", AgentDeps(p) \cup {key}))
  BY <1>5, <1>8, ResFounded DEF cert
<1>11. Founded(p, DummyRes(p, "tlssecret", name, {key, cert}))
  BY <1>6, <1>7, DummyFounded DEF tls
<1>12. Founded(p, DummyRes(p, "authsecret", name, {password}))
  BY <1>6, <1>7, DummyFounded DEF auth
<1>13. Founded(p, DummyRes(p, "configmap", name, {}))
  BY <1>6, NoneBelow, DummyFounded DEF config
<1>14. Founded(p, DummyCR(p, "database", name, {cert}))
  BY <1>6, <1>7, DummyCRFounded
<1>15. PodsFor(<<"statefulset", name>>) = {pod}
  BY PodsByKind
<1>16. CanJoin(p, 10, pod)
  <2>1. TokenOf(pod) = {}
    BY DEF TokenOf
  <2>2. "db" \in Deployed(p)
    BY DEF Deployed, PodsOf, When
  <2>3. Reaches(p, "db") = {FrontDoor(p)}
    BY DEF Reaches
  <2>4. CallsFrontDoor(p, "db") \in DummyCalls(p)
    BY DEF DummyCalls, When
  <2>5. CallsFrontDoor(p, "db") \in NeededFlows(p)
    BY <2>4 DEF NeededFlows, When
  <2> QED  BY <2>1, <2>2, <2>3, <2>5 DEF CanJoin, Below, CallsFrontDoor
<1>17. Below(p, 8, {Namespace("dummies")}) /\ Below(p, 8, AgentDeps(p))
  BY AboveGround
<1>18. Founded(p, Set)
  <2>1. Below(p, 8, needs)
    <3> HIDE DEF mounts
    <3>1. needs = mounts \cup {Namespace("dummies")} \cup AgentDeps(p)
      BY DEF mounts
    <3> HIDE DEF needs
    <3> QED  BY <1>7, <1>17, <3>1 DEF Below
  <2> HIDE DEF needs, mounts, pod
  <2> QED  BY <1>7, <1>15, <1>16, <2>1, WorkloadFounded
<1>19. Founded(p, Svc)
  <2>1. <<"statefulset", name>> \in Names(p)
    <3> HIDE DEF needs, mounts, pod
    <3> QED  BY <1>2, WorkNamed
  <2>2. Below(p, 9, {Namespace("dummies")} \cup AgentDeps(p))
    BY <1>17, RankType DEF Below
  <2> HIDE DEF pod
  <2> QED  BY <1>15, <2>1, <2>2, TargetFounded
<1> HIDE DEF Set, Svc
<1> QED  BY <1>1, <1>9, <1>10, <1>11, <1>12, <1>13, <1>14, <1>18, <1>19 DEF AllFounded

LEMMA AppFounded ==
  ASSUME NEW p, NEW name, NEW content, name \notin ServicePods \cup {"nodeport"}, p.dummies,
         Below(p, 8, content), App(p, name, content) \subseteq Program(p)
  PROVE  AllFounded(p, App(p, name, content))
<1> DEFINE ground == {Namespace("dummies")} \cup AgentDeps(p)
           pod == <<"app", name>>
           Server == Work("deployment", name, "dummies", ground \cup content, {pod}, content)
           Svc == Service(name, "dummies", ground, {pod})
<1>1. App(p, name, content) = {Server, Svc, DummyCR(p, "app", name, {})}
  BY DEF App
<1>2. Below(p, 8, ground) /\ Below(p, 9, ground)
  <2>1. /\ Below(p, 8, {Namespace("dummies")}) /\ Below(p, 8, AgentDeps(p))
        /\ Below(p, 9, {Namespace("dummies")}) /\ Below(p, 9, AgentDeps(p))
    BY AboveGround
  <2> QED  BY <2>1 DEF Below
<1>3. Below(p, 8, ground \cup content)
  BY <1>2 DEF Below
<1>4. PodsFor(<<"deployment", name>>) = {pod}
  BY PodsByKind
<1>5. CanJoin(p, 8, pod)
  <2>1. TokenOf(pod) = {} /\ Reaches(p, "app") = {}
    BY DEF TokenOf, Reaches
  <2>2. "app" \in Deployed(p)
    BY DEF Deployed, PodsOf, When
  <2> QED  BY <2>1, <2>2 DEF CanJoin, Below
<1> HIDE DEF ground, pod
<1>6. Founded(p, Server)
  BY <1>3, <1>4, <1>5, WorkloadFounded
<1>7. <<"deployment", name>> \in Names(p)
  BY <1>1, WorkNamed
<1>8. Founded(p, Svc)
  BY <1>2, <1>4, <1>7, TargetFounded
<1>9. Founded(p, DummyCR(p, "app", name, {}))
  <2>1. Rank(p, <<"app", name>>) = 6
    BY KindRanks
  <2> QED  BY <2>1, NoneBelow, DummyCRFounded
<1> HIDE DEF Server, Svc
<1> QED  BY <1>1, <1>6, <1>8, <1>9 DEF AllFounded

LEMMA DummiesFounded ==
  ASSUME NEW p, p.dummies
  PROVE  AllFounded(p, DummyResources(p))
<1> DEFINE Console == DummyRes(p, "configmap", "cloud-console", {})
           Static == {Console} \cup App(p, "cloud-console", {<<"configmap", "cloud-console">>})
           Servers == UNION {SshServers(p, e) : e \in {e \in DOMAIN p.sshNodes : p.sshNodes[e] > 0}}
           Postgres == Database(p, "postgres-dev") \cup Database(p, "postgres-prod")
           Own == {Res("ns", "dummies", "", AgentDeps(p))}
<1>1. DummyResources(p) =
        Own \cup Guardrails("dummies", AgentDeps(p)) \cup Servers
          \cup When(p.postgres, Postgres) \cup When(p.mysql, Database(p, "mysql-dev"))
          \cup When(p.httpbin, App(p, "httpbin", {})) \cup When(p.standin = "static", Static)
          \cup When(p.standin = "localstack", App(p, "localstack", {}))
  BY DEF DummyResources
<1>2. DummyResources(p) \subseteq Program(p)
  BY Parts
<1>3. AllFounded(p, Own)
  <2>1. Rank(p, <<"ns", "dummies">>) = 4
    BY NameRanks DEF Namespace
  <2>2. Below(p, 4, AgentDeps(p))
    BY Grounds
  <2>3. Founded(p, Res("ns", "dummies", "", AgentDeps(p)))
    BY <2>1, <2>2, ResFounded
  <2> QED  BY <2>3 DEF AllFounded
<1>4. AllFounded(p, Guardrails("dummies", AgentDeps(p)))
  <2>1. Below(p, 5, {Namespace("dummies")}) /\ Below(p, 5, AgentDeps(p))
    BY AboveGround
  <2> QED  BY <2>1, GuardrailsFounded
<1>5. AllFounded(p, Servers)
  <2>1. ASSUME NEW e \in DOMAIN p.sshNodes, p.sshNodes[e] > 0 PROVE AllFounded(p, SshServers(p, e))
    <3>1. SshServers(p, e) \subseteq Servers
      BY <2>1
    <3>2. SshServers(p, e) \subseteq Program(p)
      BY <1>1, <1>2, <3>1
    <3> QED  BY <3>2, SshFounded
  <2> QED  BY <2>1 DEF AllFounded
<1> HIDE DEF Own, Servers
<1>6. AllFounded(p, When(p.postgres, Postgres))
  <2>1. ASSUME p.postgres PROVE AllFounded(p, Postgres)
    <3>1. Postgres \subseteq Program(p)
      BY <1>1, <1>2, <2>1 DEF When
    <3>2. AllFounded(p, Database(p, "postgres-dev")) /\ AllFounded(p, Database(p, "postgres-prod"))
      BY <2>1, <3>1, DatabaseFounded
    <3> QED  BY <3>2, BothFounded
  <2> QED  BY <2>1, WhenFounded
<1> HIDE DEF Postgres
<1>7. AllFounded(p, When(p.mysql, Database(p, "mysql-dev")))
  <2>1. ASSUME p.mysql PROVE AllFounded(p, Database(p, "mysql-dev"))
    <3>1. Database(p, "mysql-dev") \subseteq Program(p)
      BY <1>1, <1>2, <2>1 DEF When
    <3> QED  BY <2>1, <3>1, DatabaseFounded
  <2> QED  BY <2>1, WhenFounded
<1>8. AllFounded(p, When(p.httpbin, App(p, "httpbin", {})))
  <2>1. ASSUME p.httpbin PROVE AllFounded(p, App(p, "httpbin", {}))
    <3>1. App(p, "httpbin", {}) \subseteq Program(p)
      BY <1>1, <1>2, <2>1 DEF When
    <3> QED  BY <3>1, NoneBelow, AppFounded DEF ServicePods
  <2> QED  BY <2>1, WhenFounded
<1>9. AllFounded(p, When(p.standin = "static", Static))
  <2>1. ASSUME p.standin = "static" PROVE AllFounded(p, Static)
    <3>1. Static \subseteq Program(p)
      BY <1>1, <1>2, <2>1 DEF When
    <3>2. <<"configmap", "cloud-console">> \in Names(p)
      BY <3>1, DummyNamed
    <3>3. Rank(p, <<"configmap", "cloud-console">>) = 5
      BY KindRanks
    <3>4. Below(p, 8, {<<"configmap", "cloud-console">>})
      BY <3>2, <3>3 DEF Below
    <3>5. AllFounded(p, App(p, "cloud-console", {<<"configmap", "cloud-console">>}))
      BY <3>1, <3>4, AppFounded DEF ServicePods
    <3>6. Founded(p, Console)
      BY <3>3, NoneBelow, DummyFounded
    <3> QED  BY <3>5, <3>6 DEF AllFounded
  <2> QED  BY <2>1, WhenFounded
<1> HIDE DEF Static
<1>10. AllFounded(p, When(p.standin = "localstack", App(p, "localstack", {})))
  <2>1. ASSUME p.standin = "localstack" PROVE AllFounded(p, App(p, "localstack", {}))
    <3>1. App(p, "localstack", {}) \subseteq Program(p)
      BY <1>1, <1>2, <2>1 DEF When
    <3> QED  BY <3>1, NoneBelow, AppFounded DEF ServicePods
  <2> QED  BY <2>1, WhenFounded
<1> QED  BY <1>1, <1>3, <1>4, <1>5, <1>6, <1>7, <1>8, <1>9, <1>10 DEF AllFounded

-----------------------------------------------------------------------------
LEMMA ServiceNames ==
  ASSUME NEW p
  PROVE  /\ Below(p, 8, {ServiceSecrets, BrokerPolicy})
         /\ Founded(p, ServiceRes(p, "secret", "access-services", {<<"password", s>> : s \in SharedSecrets}))
         /\ Founded(p, ServiceRes(p, "configmap", "broker-policy", {}))
<1> DEFINE passwords == {<<"password", s>> : s \in SharedSecrets}
<1>1. /\ ServiceRes(p, "secret", "access-services", passwords) \in Program(p)
      /\ ServiceRes(p, "configmap", "broker-policy", {}) \in Program(p)
      /\ \A s \in SharedSecrets : Res("password", s, "", {}) \in Program(p)
  BY Parts DEF AccessServices, ServiceSecrets, BrokerPolicy
<1>2. passwords \subseteq Names(p)
  BY <1>1, ResNamed
<1>3. \A s \in SharedSecrets : Rank(p, <<"password", s>>) = 4
  BY KindRanks
<1>4. Below(p, 6, passwords)
  BY <1>2, <1>3 DEF Below
<1> HIDE DEF passwords
<1>5. ServiceSecrets \in Names(p) /\ BrokerPolicy \in Names(p)
  BY <1>1, ServiceResNamed DEF ServiceSecrets, BrokerPolicy
<1>6. Rank(p, <<"secret", "access-services">>) = 6 /\ Rank(p, <<"configmap", "broker-policy">>) = 5
  BY KindRanks, NameRanks
<1>7. Below(p, 8, {ServiceSecrets, BrokerPolicy})
  BY <1>5, <1>6 DEF Below, ServiceSecrets, BrokerPolicy
<1>8. Founded(p, ServiceRes(p, "secret", "access-services", passwords))
  BY <1>4, <1>6, ServiceResFounded
<1>9. Founded(p, ServiceRes(p, "configmap", "broker-policy", {}))
  BY <1>6, NoneBelow, ServiceResFounded
<1> QED  BY <1>7, <1>8, <1>9 DEF passwords

\* What a workload of the access services waits for besides its own.
LEMMA ServiceGround ==
  ASSUME NEW p, NEW k \in {8, 9}
  PROVE  Below(p, k, {Namespace("access")} \cup ServiceDeps(p))
<1>1. Below(p, k, {Namespace("access")}) /\ Below(p, k, ServiceDeps(p))
  BY AboveGround
<1> QED  BY <1>1 DEF Below

\* A service whose tbot joins with the token of its bot.
LEMMA BotJoins ==
  ASSUME NEW p, NEW bot \in BotPods(p)
  PROVE  CanJoin(p, 8, <<bot, bot>>) /\ Below(p, 8, {<<"bot", bot>>, <<"token", bot>>})
<1>1. bot \in {"mcp", "broker", "portal", "harness"} /\ bot \in EnabledBots(p)
  BY DEF BotPods, EnabledBots, When
<1>2. <<"bot", bot>> \in Names(p) /\ <<"token", bot>> \in Names(p)
  BY <1>1, PolicyNames
<1>3. Rank(p, <<"bot", bot>>) = 6 /\ Rank(p, <<"token", bot>>) = 7
  BY KindRanks
<1>4. Below(p, 8, {<<"bot", bot>>, <<"token", bot>>}) /\ Below(p, 8, {<<"token", bot>>})
  BY <1>2, <1>3 DEF Below
<1>5. TokenOf(<<bot, bot>>) = {<<"token", bot>>}
  BY <1>1 DEF TokenOf
<1>6. IsCR(<<"token", bot>>)
  BY DEF IsCR, CRKinds
<1>7. bot \in Deployed(p)
  BY DEF Deployed
<1>8. Reaches(p, bot) = {<<"auth", AUTH>>}
  BY <1>1 DEF Reaches, ToAuth
<1>9. <<bot, "auth", AUTH>> \in NeededFlows(p)
  BY DEF NeededFlows
<1> QED  BY <1>4, <1>5, <1>6, <1>7, <1>8, <1>9 DEF CanJoin

LEMMA BotFounded ==
  ASSUME NEW p, NEW bot \in BotPods(p), NEW extra, Below(p, 8, extra), DeployBot(p, bot, extra) \subseteq Program(p)
  PROVE  AllFounded(p, DeployBot(p, bot, extra))
<1> DEFINE own == {<<"serviceaccount", bot>>, <<"tbotconfig", bot>>}
           names == {<<"bot", bot>>, <<"token", bot>>}
           shared == {ServiceSecrets, BrokerPolicy}
           ground == {Namespace("access")} \cup ServiceDeps(p)
           needs == own \cup {ServiceSecrets, BrokerPolicy, <<"bot", bot>>, <<"token", bot>>, Namespace("access")}
                      \cup ServiceDeps(p) \cup extra
           mounts == own \cup shared \cup extra
           pod == <<bot, bot>>
           Server == Work("deployment", bot, "access", needs, {pod}, mounts)
           Svc == Service(bot, "access", ground, {pod})
<1>1. DeployBot(p, bot, extra) = {ServiceRes(p, r[1], r[2], {}) : r \in own} \cup {Svc, Server}
  BY DEF DeployBot
<1>2. bot \in ServicePods /\ bot # "nodeport"
  BY DEF BotPods, ServicePods, When
<1>3. Rank(p, <<"serviceaccount", bot>>) = 5 /\ Rank(p, <<"tbotconfig", bot>>) = 5
  BY KindRanks
<1>4. \A r \in own : r = <<r[1], r[2]>> /\ r[1] \in {"serviceaccount", "tbotconfig"} /\ Rank(p, r) = 5
  BY <1>3
<1>5. ASSUME NEW r \in own PROVE Founded(p, ServiceRes(p, r[1], r[2], {})) /\ r \in Names(p)
  <2>1. ServiceRes(p, r[1], r[2], {}) \in Program(p)
    BY <1>1
  <2> HIDE DEF own
  <2>2. Rank(p, <<r[1], r[2]>>) = 5
    BY <1>4
  <2>3. r[1] \in {"serviceaccount", "tbotconfig"}
    BY <1>4
  <2>4. Founded(p, ServiceRes(p, r[1], r[2], {}))
    BY <2>2, <2>3, NoneBelow, ServiceResFounded
  <2>5. <<r[1], r[2]>> \in Names(p)
    BY <2>1, ServiceResNamed
  <2>6. r \in Names(p)
    BY <1>4, <2>5
  <2> QED  BY <2>4, <2>6
<1>6. Below(p, 8, own)
  BY <1>4, <1>5 DEF Below
<1> HIDE DEF own
<1>7. Below(p, 8, shared)
  BY ServiceNames
<1>8. Below(p, 8, names) /\ CanJoin(p, 8, pod)
  BY BotJoins
<1>9. Below(p, 8, ground) /\ Below(p, 9, ground)
  BY ServiceGround
<1>10. needs = own \cup shared \cup names \cup ground \cup extra
  OBVIOUS
<1> HIDE DEF shared, names, ground, needs, pod
<1>11. Below(p, 8, needs)
  BY <1>6, <1>7, <1>8, <1>9, <1>10 DEF Below
<1>12. Below(p, 8, mounts)
  BY <1>6, <1>7 DEF Below
<1>13. PodsFor(<<"deployment", bot>>) = {pod}
  BY <1>2, PodsByKind DEF pod
<1> HIDE DEF mounts
<1>14. Founded(p, Server)
  BY <1>8, <1>11, <1>12, <1>13, WorkloadFounded
<1>15. <<"deployment", bot>> \in Names(p)
  BY <1>1, WorkNamed
<1>16. Founded(p, Svc)
  BY <1>2, <1>9, <1>13, <1>15, TargetFounded
<1> HIDE DEF Server, Svc
<1> QED  BY <1>1, <1>5, <1>14, <1>16 DEF AllFounded

LEMMA HarnessFounded ==
  ASSUME NEW p, p.harness, DeployHarness(p) \subseteq Program(p)
  PROVE  AllFounded(p, DeployHarness(p))
<1> DEFINE sa == <<"serviceaccount", "harness">>
           identity == <<"secret", "ci-harness-identity">>
           config == <<"tbotconfig", "harness">>
           writer == <<"role.rbac", "harness">>
           binding == <<"rolebinding", "harness">>
           own == {sa, identity, config, writer}
           names == {<<"bot", "harness">>, <<"token", "harness">>}
           ground == {Namespace("access")} \cup ServiceDeps(p)
           needs == {sa, config, identity, <<"bot", "harness">>, <<"token", "harness">>, Namespace("access")}
                      \cup ServiceDeps(p)
           mounts == {sa, config, identity, binding}
           pod == <<"harness", "harness">>
           Server == Work("deployment", "harness", "access", needs, {pod}, mounts)
           Binding == ServiceRes(p, "rolebinding", "harness", {writer, sa})
<1>1. DeployHarness(p) = {ServiceRes(p, r[1], r[2], {}) : r \in own} \cup {Binding, Server}
  BY DEF DeployHarness
<1>2. Rank(p, sa) = 5 /\ Rank(p, config) = 5 /\ Rank(p, writer) = 5 /\ Rank(p, binding) = 6
  BY KindRanks
<1>3. Rank(p, identity) = 6
  BY NameRanks
<1>4. \A r \in own : /\ r = <<r[1], r[2]>> /\ r[1] \in {"serviceaccount", "tbotconfig", "secret", "role.rbac"}
                     /\ Rank(p, r) \in {5, 6}
  BY <1>2, <1>3
<1>5. ASSUME NEW r \in own PROVE Founded(p, ServiceRes(p, r[1], r[2], {})) /\ r \in Names(p)
  <2>1. ServiceRes(p, r[1], r[2], {}) \in Program(p)
    BY <1>1
  <2> HIDE DEF own
  <2>2. Rank(p, <<r[1], r[2]>>) \in {5, 6}
    BY <1>4
  <2>3. r[1] \in {"serviceaccount", "tbotconfig", "secret", "role.rbac"}
    BY <1>4
  <2>4. Founded(p, ServiceRes(p, r[1], r[2], {}))
    BY <2>2, <2>3, NoneBelow, ServiceResFounded
  <2>5. <<r[1], r[2]>> \in Names(p)
    BY <2>1, ServiceResNamed
  <2>6. r \in Names(p)
    BY <1>4, <2>5
  <2> QED  BY <2>4, <2>6
<1>6. sa \in Names(p) /\ identity \in Names(p) /\ config \in Names(p) /\ writer \in Names(p)
  BY <1>5
<1>7. binding \in Names(p)
  <2>1. Binding \in Program(p)
    BY <1>1
  <2> QED  BY <2>1, ServiceResNamed
<1>8. Founded(p, Binding)
  <2>1. Below(p, 6, {writer, sa})
    BY <1>2, <1>6 DEF Below
  <2> HIDE DEF writer, sa
  <2> QED  BY <1>2, <2>1, ServiceResFounded
<1>9. Below(p, 8, {sa, config, identity}) /\ Below(p, 8, mounts)
  BY <1>2, <1>3, <1>6, <1>7 DEF Below
<1>10. Below(p, 8, names) /\ CanJoin(p, 8, pod)
  <2>1. "harness" \in BotPods(p)
    BY DEF BotPods, When
  <2> QED  BY <2>1, BotJoins
<1>11. needs = {sa, config, identity} \cup names \cup ground
  OBVIOUS
<1>12. Below(p, 8, ground)
  BY ServiceGround
<1>13. PodsFor(<<"deployment", "harness">>) = {pod}
  BY PodsByKind DEF ServicePods
<1> HIDE DEF sa, config, identity, names, ground, needs, mounts, pod
<1>14. Below(p, 8, needs)
  BY <1>9, <1>10, <1>11, <1>12 DEF Below
<1>15. Founded(p, Server)
  BY <1>9, <1>10, <1>13, <1>14, WorkloadFounded
<1> HIDE DEF Server, Binding, own
<1> QED  BY <1>1, <1>5, <1>8, <1>15 DEF AllFounded

LEMMA AgentFounded ==
  ASSUME NEW p, p.agent, DeployAgent(p) \subseteq Program(p)
  PROVE  AllFounded(p, DeployAgent(p))
<1> DEFINE sa == <<"serviceaccount", "agent">>
           state == When(p.persist, {<<"pvc", "agent-state">>})
           own == {sa} \cup ChatSecrets(p) \cup state
           ground == {Namespace("access")} \cup ServiceDeps(p)
           needs == {sa, ServiceSecrets, Namespace("access")} \cup ChatSecrets(p) \cup state \cup ServiceDeps(p)
           mounts == {sa, ServiceSecrets} \cup ChatSecrets(p) \cup state
           pod == <<"agent", "agent">>
           Server == Work("deployment", "agent", "access", needs, {pod}, mounts)
           Svc == Service("agent", "access", ground, {pod})
<1>1. DeployAgent(p) = {ServiceRes(p, r[1], r[2], {}) : r \in own} \cup {Svc, Server}
  BY DEF DeployAgent
<1>2. \A r \in own : r = <<r[1], r[2]>> /\ r[1] \in {"serviceaccount", "chatsecret", "pvc"}
  BY DEF ChatSecrets, When
<1> HIDE DEF own
<1>3. \A r \in own : Rank(p, <<r[1], r[2]>>) = 5
  BY <1>2, KindRanks
<1>4. ASSUME NEW r \in own PROVE Founded(p, ServiceRes(p, r[1], r[2], {})) /\ r \in Names(p)
  <2>1. ServiceRes(p, r[1], r[2], {}) \in Program(p)
    BY <1>1
  <2>2. Rank(p, <<r[1], r[2]>>) = 5
    BY <1>3
  <2>3. r[1] \in {"serviceaccount", "chatsecret", "pvc"}
    BY <1>2
  <2>4. Founded(p, ServiceRes(p, r[1], r[2], {}))
    BY <2>2, <2>3, NoneBelow, ServiceResFounded
  <2>5. <<r[1], r[2]>> \in Names(p)
    BY <2>1, ServiceResNamed
  <2>6. r \in Names(p)
    BY <1>2, <2>5
  <2> QED  BY <2>4, <2>6
<1>5. Below(p, 8, own)
  <2>1. \A r \in own : Rank(p, r) = 5
    BY <1>2, <1>3
  <2> QED  BY <1>4, <2>1 DEF Below
<1>6. Below(p, 8, {ServiceSecrets})
  BY ServiceNames DEF Below
<1>7. Below(p, 8, ground) /\ Below(p, 9, ground)
  BY ServiceGround
<1>8. needs = own \cup {ServiceSecrets} \cup ground /\ mounts = own \cup {ServiceSecrets}
  BY DEF own
<1>9. PodsFor(<<"deployment", "agent">>) = {pod}
  BY PodsByKind DEF ServicePods
<1>10. CanJoin(p, 8, pod)
  <2>1. TokenOf(pod) = {} /\ Reaches(p, "agent") = {}
    BY DEF TokenOf, Reaches
  <2>2. "agent" \in Deployed(p)
    BY DEF Deployed, When
  <2> QED  BY <2>1, <2>2 DEF CanJoin, Below
<1> HIDE DEF needs, mounts, ground, pod
<1>11. Below(p, 8, needs) /\ Below(p, 8, mounts)
  BY <1>5, <1>6, <1>7, <1>8 DEF Below
<1>12. Founded(p, Server)
  BY <1>9, <1>10, <1>11, WorkloadFounded
<1>13. <<"deployment", "agent">> \in Names(p)
  BY <1>1, WorkNamed
<1>14. Founded(p, Svc)
  BY <1>7, <1>9, <1>13, TargetFounded
<1> HIDE DEF Server, Svc
<1> QED  BY <1>1, <1>4, <1>12, <1>14 DEF AllFounded

LEMMA ServicesFounded == ASSUME NEW p PROVE AllFounded(p, AccessServices(p))
<1> DEFINE identities == <<"configmap", "portal-identities">>
           Identities == ServiceRes(p, "configmap", "portal-identities", {})
           Portal == {Identities} \cup DeployBot(p, "portal", {identities})
           Own == {Res("ns", "access", "", {})}
           Passwords == {Res("password", s, "", {}) : s \in SharedSecrets}
           Shared == {ServiceRes(p, "secret", "access-services", {<<"password", s>> : s \in SharedSecrets}),
                      ServiceRes(p, "configmap", "broker-policy", {})}
<1>1. AccessServices(p) =
        Own \cup Guardrails("access", ServiceDeps(p)) \cup Passwords \cup Shared
          \cup When(p.mcp, DeployBot(p, "mcp", {})) \cup When(BrokerDeployed(p), DeployBot(p, "broker", {}))
          \cup When(p.portal, Portal) \cup When(p.harness, DeployHarness(p)) \cup When(p.agent, DeployAgent(p))
  BY DEF AccessServices, ServiceSecrets, BrokerPolicy
<1>2. AccessServices(p) \subseteq Program(p)
  BY Parts
<1>3. AllFounded(p, Own)
  <2>1. Founded(p, Res("ns", "access", "", {}))
    BY NoneBelow, ResFounded
  <2> QED  BY <2>1 DEF AllFounded
<1>4. AllFounded(p, Guardrails("access", ServiceDeps(p)))
  <2>1. Below(p, 5, {Namespace("access")}) /\ Below(p, 5, ServiceDeps(p))
    BY AboveGround
  <2> QED  BY <2>1, GuardrailsFounded
<1>5. AllFounded(p, Passwords)
  <2>1. ASSUME NEW s PROVE Founded(p, Res("password", s, "", {}))
    BY NoneBelow, ResFounded
  <2> QED  BY <2>1 DEF AllFounded
<1>6. AllFounded(p, Shared)
  BY ServiceNames DEF AllFounded
<1> HIDE DEF Own, Passwords, Shared
<1>7. AllFounded(p, When(p.mcp, DeployBot(p, "mcp", {})))
  <2>1. ASSUME p.mcp PROVE AllFounded(p, DeployBot(p, "mcp", {}))
    <3>1. DeployBot(p, "mcp", {}) \subseteq Program(p)
      BY <1>1, <1>2, <2>1 DEF When
    <3>2. "mcp" \in BotPods(p)
      BY <2>1 DEF BotPods, When
    <3> QED  BY <3>1, <3>2, NoneBelow, BotFounded
  <2> QED  BY <2>1, WhenFounded
<1>8. AllFounded(p, When(BrokerDeployed(p), DeployBot(p, "broker", {})))
  <2>1. ASSUME BrokerDeployed(p) PROVE AllFounded(p, DeployBot(p, "broker", {}))
    <3>1. DeployBot(p, "broker", {}) \subseteq Program(p)
      BY <1>1, <1>2, <2>1 DEF When
    <3>2. "broker" \in BotPods(p)
      BY <2>1 DEF BotPods, When
    <3> QED  BY <3>1, <3>2, NoneBelow, BotFounded
  <2> QED  BY <2>1, WhenFounded
<1>9. AllFounded(p, When(p.portal, Portal))
  <2>1. ASSUME p.portal PROVE AllFounded(p, Portal)
    <3>1. Portal \subseteq Program(p)
      BY <1>1, <1>2, <2>1 DEF When
    <3>2. "portal" \in BotPods(p)
      BY <2>1 DEF BotPods, When
    <3>3. identities \in Names(p)
      BY <3>1, ServiceResNamed
    <3>4. Rank(p, identities) = 5
      BY KindRanks
    <3>5. Below(p, 8, {identities})
      BY <3>3, <3>4 DEF Below
    <3>6. Founded(p, Identities)
      BY <3>4, NoneBelow, ServiceResFounded
    <3> HIDE DEF identities, Identities
    <3>7. AllFounded(p, DeployBot(p, "portal", {identities}))
      BY <3>1, <3>2, <3>5, BotFounded
    <3> QED  BY <3>6, <3>7 DEF AllFounded
  <2> QED  BY <2>1, WhenFounded
<1> HIDE DEF Portal
<1>10. AllFounded(p, When(p.harness, DeployHarness(p)))
  <2>1. ASSUME p.harness PROVE AllFounded(p, DeployHarness(p))
    BY <1>1, <1>2, <2>1, HarnessFounded DEF When
  <2> QED  BY <2>1, WhenFounded
<1>11. AllFounded(p, When(p.agent, DeployAgent(p)))
  <2>1. ASSUME p.agent PROVE AllFounded(p, DeployAgent(p))
    BY <1>1, <1>2, <2>1, AgentFounded DEF When
  <2> QED  BY <2>1, WhenFounded
<1> QED  BY <1>1, <1>3, <1>4, <1>5, <1>6, <1>7, <1>8, <1>9, <1>10, <1>11 DEF AllFounded

-----------------------------------------------------------------------------
LEMMA MonitoringFounded == ASSUME NEW p PROVE AllFounded(p, MonitoringRules(p))
<1> DEFINE Others == {c.id : c \in AccessPolicy(p) \cup KubeRbac(p)}
           Rule(r) == Res("rule", r, "teleport", {CLUSTER, Namespace("teleport")} \cup Others)
<1>1. Others \subseteq Names(p)
  BY Parts DEF Names
<1>2. \A c \in AccessPolicy(p) \cup KubeRbac(p) :
        \E n : c.id \in {<<kind, n>> : kind \in {"role", "bot", "token", "sshtoken", "user", "github",
                                                 "clusterrolebinding", "rolebinding"}}
               \/ c.id = <<"secret", "github-oauth">>
  <2>1. ASSUME NEW c \in KubeRbac(p)
        PROVE  \E n : c.id = <<"clusterrolebinding", n>> \/ c.id = <<"rolebinding", n>>
    <3>1. CASE c \in {Res("clusterrolebinding", g, "", {CLUSTER}) : g \in {"cluster-admin", "prod-viewer"}}
      <4>1. PICK g : c = Res("clusterrolebinding", g, "", {CLUSTER})
        BY <3>1
      <4>2. c.id = <<"clusterrolebinding", g>>
        BY <4>1 DEF Res
      <4> QED  BY <4>2
    <3>2. CASE c = Res("rolebinding", "dev", "dummies", {CLUSTER, Namespace("dummies")})
      BY <3>2 DEF Res
    <3> QED  BY <2>1, <3>1, <3>2 DEF KubeRbac, When
  <2>2. ASSUME NEW c \in AccessPolicy(p)
        PROVE  \/ \E n : c.id \in {<<kind, n>> : kind \in {"role", "bot", "token", "sshtoken", "user", "github"}}
               \/ c.id = <<"secret", "github-oauth">>
    <3>1. \A t \in AgentTokens(p) : t[1] \in {"token", "sshtoken"}
      BY DEF AgentTokens, When
    <3> QED  BY <2>2, <3>1 DEF AccessPolicy, Res, When
  <2> QED  BY <2>1, <2>2
<1>3. \A n, kind : kind \in {"role", "bot", "token", "sshtoken", "user", "github", "clusterrolebinding",
                             "rolebinding"} => Rank(p, <<kind, n>>) \in {5, 6, 7}
  BY KindRanks
<1>4. Rank(p, <<"secret", "github-oauth">>) = 6
  BY NameRanks
<1>5. \A id \in Others : Rank(p, id) \in {5, 6, 7}
  BY <1>2, <1>3, <1>4
<1>6. Below(p, 8, Others)
  BY <1>1, <1>5 DEF Below
<1> HIDE DEF Others
<1>7. ASSUME NEW r PROVE Founded(p, Rule(r))
  <2>1. Rank(p, <<"rule", r>>) = 8
    BY KindRanks
  <2>2. Founded(p, PolicyChild("rule", r, Others))
    BY <1>6, <2>1, ChildFounded
  <2> QED  BY <2>2 DEF PolicyChild
<1>8. MonitoringRules(p) = When(p.enterprise, {Rule(r) : r \in {"auto-approve-low-risk", "notify-high-risk"}})
  BY DEF MonitoringRules, Others
<1> HIDE DEF Rule
<1> QED  BY <1>7, <1>8 DEF AllFounded, When

\* A policy waits for the namespaces, and for nothing else.
LEMMA PoliciesFounded == ASSUME NEW p PROVE AllFounded(p, NetworkPolicies(p))
<1> DEFINE needs == {Namespace(ns) : ns \in OwnNamespaces(p)}
<1>1. ASSUME NEW ns \in OwnNamespaces(p) PROVE Below(p, 5, {Namespace(ns)})
  <2>1. ns \in {"teleport", "kubeagent", "access"} \/ (p.dummies /\ ns = "dummies")
    BY DEF OwnNamespaces, When
  <2>2. Below(p, 5, {Namespace("teleport")}) /\ Below(p, 5, {Namespace("kubeagent")})
    BY AboveGround
  <2>3. Below(p, 5, {Namespace("access")}) /\ (p.dummies => Below(p, 5, {Namespace("dummies")}))
    BY AboveGround
  <2> QED  BY <2>1, <2>2, <2>3
<1>2. Below(p, 5, needs)
  BY <1>1 DEF Below
<1> HIDE DEF needs
<1>3. ASSUME NEW name, NEW ns PROVE Founded(p, Res("policy", name, ns, needs))
  <2>1. Rank(p, <<"policy", name>>) = 5
    BY KindRanks
  <2>2. PodsFor(<<"policy", name>>) = {}
    BY PodsByKind
  <2> DEFINE r == Res("policy", name, ns, needs)
  <2>3. r.id = <<"policy", name>> /\ r.needs = needs /\ r.mounts = {} /\ r.pods = {} /\ r.awaits = {}
    BY DEF Res
  <2> HIDE DEF r
  <2>4. Below(p, Rank(p, r.id), r.needs \cup r.mounts)
    BY <1>2, <2>1, <2>3
  <2>5. r.needs = {Namespace(n) : n \in OwnNamespaces(p)}
    BY <2>3 DEF needs
  <2>6. Founded(p, r)
    BY <2>2, <2>3, <2>4, <2>5 DEF Founded
  <2> QED  BY <2>6 DEF r
<1>4. NetworkPolicies(p) = {Res("policy", <<q.name, q.ns>>, q.ns, needs) : q \in RenderedPolicies(p)}
  BY DEF NetworkPolicies, needs
<1> QED  BY <1>3, <1>4 DEF AllFounded

\* Every resource of every profile waits, directly and through its pods, only for what has a
\* lower rank: the dependsOn lists, the mounts, the joins and the calls of buildTeleport's
\* components never close a circle.
THEOREM NoCircle == \A p : AllFounded(p, Program(p))
<1>1. SUFFICES ASSUME NEW p PROVE AllFounded(p, Program(p))
  OBVIOUS
<1>2. AllFounded(p, When(p.dummies, DummyResources(p)))
  BY DummiesFounded, WhenFounded
<1>3. AllFounded(p, TeleportCluster(p) \cup AccessPolicy(p) \cup KubeRbac(p) \cup LocalDns(p))
  BY ClusterFounded, AccessPolicyFounded, KubeRbacFounded, LocalDnsFounded, BothFounded
<1>4. AllFounded(p, AccessServices(p) \cup NetworkPolicies(p) \cup MonitoringRules(p))
  BY ServicesFounded, PoliciesFounded, MonitoringFounded, BothFounded
<1>5. AllFounded(p, TeleportKubeAgent(p))
  BY KubeAgentFounded
<1> QED  BY <1>2, <1>3, <1>4, <1>5 DEF Program, AllFounded

-----------------------------------------------------------------------------
(* A stack at rest is up. *)

\* None of Create, Rerun, Apply and Serve can be taken.
AtRest ==
  /\ broken = None /\ Creatable \cup Awaited = {} /\ Startable = {}
  /\ <<"operator", "operator">> \in serving /\ Reachable("operator", <<"auth", AUTH>>) => Applicable = {}

\* Pulumi creates nothing before what it depends on is there and ready.
NeedsDone == \A id \in made : Resource(id).needs \subseteq done

RestsWhenUp == AtRest => AllUp

LEMMA NeedsDoneStep == TypeOK /\ NeedsDone /\ [Next]_vars => NeedsDone'
<1> SUFFICES ASSUME TypeOK, NeedsDone, [Next]_vars PROVE NeedsDone'
  OBVIOUS
<1>1. CASE Create
  <2>1. \A id \in made : Resource(id).needs \subseteq done'
    BY <1>1 DEF Create, NeedsDone
  <2>2. \A id \in Creatable : Resource(id).needs \subseteq done'
    BY <1>1 DEF Create, Creatable
  <2>3. \A id : Resource(id)' = Resource(id)
    BY <1>1 DEF Create, Resource
  <2> QED  BY <1>1, <2>1, <2>2, <2>3 DEF Create, NeedsDone
<1>2. CASE UNCHANGED <<stack, made, done>>
  BY <1>2 DEF NeedsDone, Resource
<1> QED  BY <1>1, <1>2 DEF Next, vars, Fail, Rerun, Apply, Serve, Outage

\* What Resource yields is a resource of the program, by its name.
LEMMA Found ==
  ASSUME stack \in DOMAIN Profile
  PROVE  /\ Resources = Names(profile)
         /\ \A id \in Resources : Resource(id).id = id /\ Founded(profile, Resource(id))
<1>1. Plan[stack] = ByName(Program(profile))
  BY DEF Plan, profile
<1>2. Resources = Names(profile)
  BY <1>1 DEF Resources, ByName, Names
<1>3. ASSUME NEW id \in Resources PROVE Resource(id) \in Program(profile) /\ Resource(id).id = id
  BY <1>1, ByNameFinds DEF Resource, Resources
<1>4. \A id \in Resources : Founded(profile, Resource(id))
  BY <1>3, NoCircle DEF AllFounded
<1> QED  BY <1>2, <1>3, <1>4

\* A resource is up: created, applied, with its pods ready and waited for, but for those that are
\* cut off.
Free(id) == Resource(id).awaits \cap Hindered = {}
IsUp(id) ==
  /\ id \in made /\ (Free(id) => id \in done) /\ (IsCR(id) => id \in applied)
  /\ PodsFor(id) \ Hindered \subseteq serving

\* Everything below k is up.
UpTo(k) == \A id \in Resources : Rank(profile, id) < k => IsUp(id)

\* Only databases are cut off, and nothing below them waits for one.
LEMMA DatabasesLast ==
  ASSUME stack \in DOMAIN Profile, NEW id \in Resources, Rank(profile, id) < 10
  PROVE  Free(id) /\ PodsFor(id) \cap Hindered = {}
<1>1. \A pod \in Hindered : pod[1] = "db"
  BY DEF Hindered, CutOff, CallsFrontDoor, When
<1>2. ASSUME NEW other, Rank(profile, other) < 10 PROVE PodsFor(other) \cap Hindered = {}
  <2>1. other[1] = "statefulset" => Rank(profile, other) >= 10
    BY DEF Rank, CLUSTER
  <2>2. ASSUME NEW pod \in PodsFor(other) PROVE pod[1] # "db"
    <3>1. other[1] # "statefulset"
      BY <1>2, <2>1, RankType
    <3>2. PodsFor(other) \subseteq {<<role, role>> : role \in PodsOf.teleport} \cup KubeAgentPods(other[2])
              \cup {<<"ssh", other[2]>>} \cup {IF other[2] \in ServicePods THEN <<other[2], other[2]>> ELSE <<"app", other[2]>>}
      BY <3>1 DEF PodsFor
    <3>3. "db" \notin PodsOf.teleport /\ "db" \notin ServicePods
      BY DEF PodsOf, ServicePods
    <3> QED  BY <3>2, <3>3 DEF KubeAgentPods
  <2> QED  BY <1>1, <2>2
<1>3. Resource(id).id = id /\ Founded(profile, Resource(id))
  BY Found
<1>4. Resource(id).pods = PodsFor(id)
  BY <1>3 DEF Founded
<1>5. \A pod \in Resource(id).awaits \ Resource(id).pods : pod \notin Hindered
  <2>1. ASSUME NEW pod \in Resource(id).awaits \ Resource(id).pods PROVE pod \notin Hindered
    <3>1. PICK other \in Names(profile) : pod \in PodsFor(other) /\ Rank(profile, other) < Rank(profile, id)
      BY <1>3 DEF Founded
    <3>2. Rank(profile, other) < 10
      BY <3>1, RankType
    <3> QED  BY <1>2, <3>1, <3>2
  <2> QED  BY <2>1
<1>6. PodsFor(id) \cap Hindered = {}
  BY <1>2
<1> QED  BY <1>4, <1>5, <1>6 DEF Free

LEMMA BelowIsUp ==
  ASSUME TypeOK, NEW k, UpTo(k), NEW S, Below(profile, k, S)
  PROVE  /\ S \subseteq done /\ S \subseteq made
         /\ \A id \in S : PodsFor(id) \subseteq serving /\ (IsCR(id) => id \in applied)
<1>1. stack \in DOMAIN Profile
  BY DEF TypeOK
<1>2. ASSUME NEW id \in S
      PROVE  /\ id \in done /\ id \in made /\ (IsCR(id) => id \in applied)
             /\ PodsFor(id) \subseteq serving
  <2>1. id \in Resources /\ Rank(profile, id) < k /\ Rank(profile, id) < 10
    BY <1>1, Found DEF Below
  <2>2. IsUp(id)
    BY <2>1 DEF UpTo
  <2>3. Free(id) /\ PodsFor(id) \cap Hindered = {}
    BY <1>1, <2>1, DatabasesLast
  <2> QED  BY <2>2, <2>3 DEF IsUp
<1> QED  BY <1>2

\* Either no policy is in place or all are: they wait for the same.
LEMMA PoliciesTogether ==
  ASSUME TypeOK, NeedsDone, AtRest
  PROVE  InPlace = {} \/ InPlace = RenderedPolicies(profile)
<1>1. stack \in DOMAIN Profile
  BY DEF TypeOK
<1>2. Policies[stack] = RenderedPolicies(profile)
  BY <1>1 DEF Policies, profile
<1>3. ASSUME NEW q \in RenderedPolicies(profile)
      PROVE  /\ PolicyId(q) \in Resources
             /\ Resource(PolicyId(q)).needs = {Namespace(ns) : ns \in OwnNamespaces(profile)}
  <2>1. Res("policy", <<q.name, q.ns>>, q.ns, {Namespace(ns) : ns \in OwnNamespaces(profile)}) \in Program(profile)
    BY Parts DEF NetworkPolicies
  <2>2. <<"policy", <<q.name, q.ns>>>> \in Names(profile)
    BY <2>1, ResNamed
  <2>3. PolicyId(q) \in Resources
    BY <1>1, <2>2, Found DEF PolicyId
  <2>4. PolicyId(q)[1] = "policy"
    BY DEF PolicyId
  <2>5. Resource(PolicyId(q)).id = PolicyId(q) /\ Founded(profile, Resource(PolicyId(q)))
    BY <1>1, <2>3, Found
  <2> QED  BY <2>3, <2>4, <2>5 DEF Founded
<1>4. ASSUME NEW q \in InPlace, NEW other \in RenderedPolicies(profile) PROVE other \in InPlace
  <2>1. q \in RenderedPolicies(profile) /\ PolicyId(q) \in made
    BY <1>2 DEF InPlace
  <2>2. Resource(PolicyId(q)).needs \subseteq done
    BY <2>1 DEF NeedsDone
  <2>3. Resource(PolicyId(other)).needs \subseteq done
    BY <1>3, <2>1, <2>2
  <2>4. PolicyId(other) # broken
    BY <1>1, <1>3, NoneAssumption DEF AtRest, Resources
  <2>5. PolicyId(other) \in made
    BY <1>3, <2>3, <2>4 DEF AtRest, Creatable
  <2> QED  BY <1>2, <2>5 DEF InPlace
<1>5. InPlace \subseteq RenderedPolicies(profile)
  BY <1>2 DEF InPlace
<1> QED  BY <1>4, <1>5

\* At rest, what the profile calls for is admitted, and names are found.
LEMMA AdmittedAtRest ==
  ASSUME TypeOK, NeedsDone, AtRest, NEW from, NEW to, NEW port,
         <<from, to, port>> \in NeededFlows(profile) \ CutOff(profile)
  PROVE  Admitted(InPlace, from, to, port)
<1>1. CASE InPlace = {}
  BY <1>1 DEF Admitted, MayCall, MayBeCalled, Selecting
<1>2. CASE InPlace = RenderedPolicies(profile)
  <2>1. Valid(profile)
    BY ProfileAssumption DEF TypeOK, profile
  <2>2. <<from, to, port>> \in AdmittedFlows(profile)
    BY <2>1, MatrixHolds
  <2> QED  BY <1>2, <2>2 DEF AdmittedFlows
<1> QED  BY <1>1, <1>2, PoliciesTogether

LEMMA ReachableAtRest ==
  ASSUME TypeOK, NeedsDone, AtRest, NEW from \in Deployed(profile), NEW call,
         <<from, call[1], call[2]>> \in NeededFlows(profile) \ CutOff(profile),
         \E pod \in serving : pod[1] = Target(call)[1],
         Target(call)[1] = "proxy" => PublicAddress \subseteq made
  PROVE  Reachable(from, call)
<1>1. /\ <<from, "dns", 53>> \in NeededFlows(profile)
      /\ <<"front", "proxy", PROXY>> \in NeededFlows(profile)
  BY DEF NeededFlows
<1>2. \A f \in CutOff(profile) : f = <<"db", "front", 443>>
  BY DEF CutOff, CallsFrontDoor, FrontDoor, When
<1>3. /\ <<from, "dns", 53>> \in NeededFlows(profile) \ CutOff(profile)
      /\ <<"front", "proxy", PROXY>> \in NeededFlows(profile) \ CutOff(profile)
  BY <1>1, <1>2
<1>4. /\ Admitted(InPlace, from, call[1], call[2]) /\ Admitted(InPlace, from, "dns", 53)
      /\ Admitted(InPlace, "front", "proxy", PROXY)
  BY <1>3, AdmittedAtRest
<1> QED  BY <1>4 DEF Reachable

\* Pods serve as soon as whom they call does.
LEMMA PodsServe ==
  ASSUME TypeOK, NeedsDone, AtRest, NEW k, UpTo(k), NEW id \in made, Rank(profile, id) = k,
         NEW pod \in Resource(id).pods \ Hindered,
         \A call \in Reaches(profile, pod[1]) : /\ \E other \in serving : other[1] = Target(call)[1]
                                                /\ Target(call)[1] = "proxy" => PublicAddress \subseteq made
  PROVE  pod \in serving
<1>1. stack \in DOMAIN Profile /\ id \in Resources
  BY DEF TypeOK
<1>2. Resource(id).id = id /\ Founded(profile, Resource(id))
  BY <1>1, Found
<1>3. CanJoin(profile, k, pod)
  BY <1>2 DEF Founded
<1>4. Below(profile, k, Resource(id).mounts)
  BY <1>2 DEF Founded, Below
<1>5. Resource(id).mounts \subseteq made
  BY <1>4, BelowIsUp
<1>6. TokenOf(pod) \subseteq applied
  BY <1>3, BelowIsUp DEF CanJoin
<1>7. ASSUME NEW call \in Reaches(profile, pod[1]) PROVE Reachable(pod[1], call)
  <2>1. pod \in Pods
    BY <1>1 DEF Pods
  <2>2. <<pod[1], call[1], call[2]>> \notin CutOff(profile)
    BY <2>1 DEF Hindered
  <2>3. pod[1] \in Deployed(profile) /\ <<pod[1], call[1], call[2]>> \in NeededFlows(profile)
    BY <1>3 DEF CanJoin
  <2> QED  BY <2>2, <2>3, ReachableAtRest
<1>8. CanServe(id, pod)
  BY <1>5, <1>6, <1>7 DEF CanServe
<1> QED  BY <1>8 DEF AtRest, Startable

LEMMA KindsRank ==
  ASSUME NEW p, NEW id
  PROVE  /\ IsCR(id) => Rank(p, id) >= 5
         /\ id # CLUSTER /\ PodsFor(id) # {} => Rank(p, id) >= 8
<1>1. IsCR(id) => Rank(p, id) >= 5
  BY DEF IsCR, CRKinds, Rank, CLUSTER
<1>2. id # CLUSTER /\ PodsFor(id) # {} => id[1] \in {"release", "sshnodes", "statefulset", "deployment"}
  BY DEF PodsFor
<1>3. id[1] \in {"release", "sshnodes", "statefulset", "deployment"} => Rank(p, id) >= 8
  BY DEF Rank, CLUSTER
<1> QED  BY <1>1, <1>2, <1>3

\* The control plane comes up by itself: auth calls nobody, proxy and operator call auth.
LEMMA ClusterServes ==
  ASSUME TypeOK, NeedsDone, AtRest, UpTo(2), CLUSTER \in made
  PROVE  PodsFor(CLUSTER) \subseteq serving
<1>1. stack \in DOMAIN Profile /\ CLUSTER \in Resources
  BY DEF TypeOK
<1>2. Resource(CLUSTER).pods = {<<"proxy", "proxy">>, <<"auth", "auth">>, <<"operator", "operator">>}
  BY <1>1, Found, PodsByKind DEF Founded
<1>3. Rank(profile, CLUSTER) = 2
  BY Ranks
<1>4. Resource(CLUSTER).pods \cap Hindered = {}
  <2>1. PodsFor(CLUSTER) \cap Hindered = {}
    BY <1>1, <1>3, DatabasesLast
  <2>2. PodsFor(CLUSTER) = {<<"proxy", "proxy">>, <<"auth", "auth">>, <<"operator", "operator">>}
    BY PodsByKind
  <2> QED  BY <1>2, <2>1, <2>2
<1>5. <<"auth", "auth">> \in serving
  <2>1. Reaches(profile, "auth") = {}
    BY DEF Reaches
  <2>2. <<"auth", "auth">> \in Resource(CLUSTER).pods \ Hindered
    BY <1>2, <1>4
  <2> QED  BY <1>3, <2>1, <2>2, PodsServe
<1>6. ASSUME NEW role \in {"proxy", "operator"} PROVE <<role, role>> \in serving
  <2>1. Reaches(profile, role) = {<<"auth", AUTH>>}
    BY DEF Reaches, ToAuth
  <2>2. \A call \in Reaches(profile, role) : /\ \E other \in serving : other[1] = Target(call)[1]
                                             /\ Target(call)[1] = "proxy" => PublicAddress \subseteq made
    BY <1>5, <2>1 DEF Target
  <2>3. <<role, role>> \in Resource(CLUSTER).pods \ Hindered
    BY <1>2, <1>4
  <2> QED  BY <1>3, <2>2, <2>3, PodsServe
<1> QED  BY <1>5, <1>6, PodsByKind

LEMMA ClusterIsUp ==
  ASSUME TypeOK, NEW k \in Nat, k >= 5, UpTo(k)
  PROVE  /\ <<"auth", "auth">> \in serving /\ <<"proxy", "proxy">> \in serving
         /\ <<"operator", "operator">> \in serving /\ PublicAddress \subseteq made
<1>1. Below(profile, k, {CLUSTER}) /\ Below(profile, k, AgentDeps(profile))
  BY AboveGround
<1>2. PodsFor(CLUSTER) \subseteq serving /\ AgentDeps(profile) \subseteq made
  BY <1>1, BelowIsUp
<1>3. ASSUME profile.nodeport PROVE <<"service", "nodeport">> \in made
  <2> DEFINE Node == Service("nodeport", "teleport", {Namespace("teleport"), CLUSTER}, {<<"proxy", "proxy">>})
  <2>1. Node \in Program(profile)
    BY <1>3, Parts DEF TeleportCluster, When
  <2>2. Node.id = <<"service", "nodeport">>
    BY DEF Service
  <2> HIDE DEF Node
  <2>3. <<"service", "nodeport">> \in Names(profile)
    BY <2>1, <2>2 DEF Names
  <2>4. Rank(profile, <<"service", "nodeport">>) = 3
    BY Ranks
  <2>5. Below(profile, k, {<<"service", "nodeport">>})
    BY <2>3, <2>4 DEF Below
  <2> QED  BY <2>5, BelowIsUp
<1> QED  BY <1>2, <1>3, PodsByKind DEF PublicAddress, When

LEMMA NextRankIsUp ==
  ASSUME TypeOK, NeedsDone, AtRest, NEW k \in Nat, UpTo(k), NEW id \in Resources, Rank(profile, id) = k
  PROVE  IsUp(id)
<1>1. stack \in DOMAIN Profile
  BY DEF TypeOK
<1>2. Resource(id).id = id /\ Founded(profile, Resource(id))
  BY <1>1, Found
<1>3. Below(profile, k, Resource(id).needs)
  BY <1>2 DEF Founded, Below
<1>4. Resource(id).needs \subseteq done
  BY <1>3, BelowIsUp
<1>5. id \in made
  <2>1. id # broken
    BY <1>1, NoneAssumption DEF AtRest, Resources
  <2> QED  BY <1>4, <2>1 DEF AtRest, Creatable
<1>6. Resource(id).pods = PodsFor(id)
  BY <1>2 DEF Founded
<1>7. PodsFor(id) \ Hindered \subseteq serving
  <2>1. CASE id = CLUSTER
    <3>1. k = 2
      BY <2>1, Ranks
    <3> QED  BY <1>5, <2>1, <3>1, ClusterServes
  <2>2. CASE id # CLUSTER /\ PodsFor(id) # {}
    <3>1. k >= 5
      BY <2>2, KindsRank
    <3>2. /\ <<"auth", "auth">> \in serving /\ <<"proxy", "proxy">> \in serving
          /\ PublicAddress \subseteq made
      BY <3>1, ClusterIsUp
    <3>3. \A role, call : call \in Reaches(profile, role) => Target(call)[1] \in {"auth", "proxy"}
      BY DEF Reaches, ToAuth, FrontDoor, Target
    <3>4. \A role : \A call \in Reaches(profile, role) :
            /\ \E other \in serving : other[1] = Target(call)[1]
            /\ Target(call)[1] = "proxy" => PublicAddress \subseteq made
      BY <3>2, <3>3
    <3>5. ASSUME NEW pod \in Resource(id).pods \ Hindered PROVE pod \in serving
      BY <1>5, <3>4, PodsServe
    <3> QED  BY <1>6, <3>5
  <2> QED  BY <2>1, <2>2
<1>8. Resource(id).awaits \ Hindered \subseteq serving
  <2>1. ASSUME NEW pod \in (Resource(id).awaits \ Resource(id).pods) \ Hindered PROVE pod \in serving
    <3>1. PICK other \in Names(profile) : pod \in PodsFor(other) /\ Rank(profile, other) < k
      BY <1>2 DEF Founded
    <3>2. IsUp(other)
      BY <1>1, <3>1, Found DEF UpTo
    <3> QED  BY <3>1, <3>2 DEF IsUp
  <2> QED  BY <1>6, <1>7, <2>1
<1>9. Free(id) => id \in done
  BY <1>5, <1>8 DEF AtRest, Awaited, Free
<1>10. ASSUME IsCR(id) PROVE id \in applied
  <2>1. k >= 5
    BY <1>10, KindsRank
  <2>2. <<"auth", "auth">> \in serving /\ <<"operator", "operator">> \in serving
    BY <2>1, ClusterIsUp
  <2> DEFINE call == <<"auth", AUTH>>
  <2>3. <<"operator", call[1], call[2]>> \in NeededFlows(profile) \ CutOff(profile)
    BY DEF NeededFlows, CutOff, CallsFrontDoor, When
  <2>4. "operator" \in Deployed(profile)
    BY DEF Deployed, PodsOf
  <2>5. Reachable("operator", call)
    <3>1. Target(call) = call /\ call[1] = "auth"
      BY DEF Target
    <3> HIDE DEF call
    <3> QED  BY <2>2, <2>3, <2>4, <3>1, ReachableAtRest
  <2>6. Applicable = {}
    BY <2>2, <2>5 DEF AtRest
  <2>7. \A r \in Resource(id).needs : IsCR(r) => r \in applied
    BY <1>3, BelowIsUp
  <2> QED  BY <1>5, <1>10, <2>6, <2>7 DEF Applicable
<1> QED  BY <1>5, <1>7, <1>9, <1>10 DEF IsUp

LEMMA AllRanksUp ==
  ASSUME TypeOK, NeedsDone, AtRest
  PROVE  UpTo(12)
<1>1. ASSUME NEW k \in Nat, UpTo(k) PROVE UpTo(k + 1)
  <2>1. \A id : Rank(profile, id) \in Nat
    BY RankType
  <2>2. \A id \in Resources : Rank(profile, id) = k => IsUp(id)
    BY <1>1, NextRankIsUp
  <2>3. ASSUME NEW id \in Resources, Rank(profile, id) < k + 1 PROVE IsUp(id)
    <3>1. Rank(profile, id) < k \/ Rank(profile, id) = k
      BY <2>1, <2>3
    <3> QED  BY <1>1, <2>2, <3>1 DEF UpTo
  <2> QED  BY <2>3 DEF UpTo
<1>2. UpTo(0)
  BY RankType DEF UpTo
<1>3. UpTo(1) /\ UpTo(2) /\ UpTo(3) /\ UpTo(4) /\ UpTo(5)
  <2>1. UpTo(1)
    BY <1>1, <1>2
  <2>2. UpTo(2)
    BY <1>1, <2>1
  <2>3. UpTo(3)
    BY <1>1, <2>2
  <2>4. UpTo(4)
    BY <1>1, <2>3
  <2>5. UpTo(5)
    BY <1>1, <2>4
  <2> QED  BY <2>1, <2>2, <2>3, <2>4, <2>5
<1>4. UpTo(6) /\ UpTo(7) /\ UpTo(8) /\ UpTo(9) /\ UpTo(10) /\ UpTo(11) /\ UpTo(12)
  <2>1. UpTo(6)
    BY <1>1, <1>3
  <2>2. UpTo(7)
    BY <1>1, <2>1
  <2>3. UpTo(8)
    BY <1>1, <2>2
  <2>4. UpTo(9)
    BY <1>1, <2>3
  <2>5. UpTo(10)
    BY <1>1, <2>4
  <2>6. UpTo(11)
    BY <1>1, <2>5
  <2>7. UpTo(12)
    BY <1>1, <2>6
  <2> QED  BY <2>1, <2>2, <2>3, <2>4, <2>5, <2>6, <2>7
<1> QED  BY <1>4

\* A stack that is not up can always go on: when Pulumi, the operator and the kubelet have
\* nothing left to do, whatever failed or was lost before, everything the profile calls for is
\* created and applied, and serves and is waited for but for the databases that cannot reach the
\* proxy through a public address outside the cluster.
THEOREM NeverStuck == Spec => []RestsWhenUp
<1>1. Init => NeedsDone
  BY DEF Init, NeedsDone
<1>2. TypeOK /\ NeedsDone /\ [Next]_vars => NeedsDone'
  BY NeedsDoneStep
<1>3. TypeOK /\ NeedsDone => RestsWhenUp
  <2> SUFFICES ASSUME TypeOK, NeedsDone, AtRest PROVE AllUp
    BY DEF RestsWhenUp
  <2>1. \A id \in Resources : IsUp(id)
    <3>1. \A id : Rank(profile, id) < 12
      BY RankType
    <3> QED  BY <3>1, AllRanksUp DEF UpTo
  <2>2. made \subseteq Resources
    BY DEF TypeOK
  <2>3. made = Resources /\ \A id \in made : IsCR(id) => id \in applied
    BY <2>1, <2>2 DEF IsUp
  <2>4. {id \in Resources : Resource(id).awaits \cap Hindered = {}} \subseteq done
    BY <2>1 DEF IsUp, Free
  <2>5. \A id \in Resources : Resource(id).pods = PodsFor(id)
    BY Found DEF TypeOK, Founded
  <2>6. Pods \ Hindered \subseteq serving
    BY <2>1, <2>5 DEF Pods, IsUp
  <2> QED  BY <2>3, <2>4, <2>6 DEF AllUp
<1> QED  BY <1>1, <1>2, <1>3, TypeCorrect, PTL DEF Spec
=============================================================================
