------------------------------ MODULE MCStack ------------------------------
(***************************************************************************)
(* The stacks of the repository (Pulumi.*.yaml over the defaults of their  *)
(* platforms) and some more, so that every choice is made both ways.       *)
(***************************************************************************)
EXTENDS Stack, Sequences

\* Pulumi.local.yaml on kind
Local ==
  [kind |-> TRUE, direct |-> TRUE, env |-> "local", nodeport |-> TRUE, tlsFiles |-> TRUE, acme |-> FALSE,
   enterprise |-> FALSE, force |-> FALSE, github |-> FALSE, users |-> TRUE,
   dummies |-> TRUE, sshNodes |-> [e \in {"dev", "prod"} |-> 1],
   postgres |-> TRUE, mysql |-> FALSE, httpbin |-> TRUE, standin |-> "static",
   mcp |-> TRUE, broker |-> TRUE, portal |-> TRUE, backstage |-> FALSE, harness |-> TRUE,
   agent |-> FALSE, adapters |-> {"cli"}, persist |-> FALSE]

\* Pulumi.dev-eks.yaml; the load balancer has a name, no address
DevEks ==
  [Local EXCEPT !.kind = FALSE, !.direct = FALSE, !.env = "dev", !.nodeport = FALSE, !.tlsFiles = FALSE,
                !.github = TRUE, !.users = FALSE, !.dummies = FALSE, !.harness = FALSE,
                !.agent = TRUE, !.adapters = {"slack"}]

\* Pulumi.dev-aks.yaml, Pulumi.dev-gke.yaml; the load balancer has an IP address
DevAks == [DevEks EXCEPT !.direct = TRUE, !.adapters = {"teams"}]
DevGke == [DevAks EXCEPT !.adapters = {"gchat"}]

\* Pulumi.prod-eks.yaml
ProdEks == [DevEks EXCEPT !.env = "prod"]

\* a stack on the defaults of platforms/generic.ts
Generic ==
  [DevEks EXCEPT !.acme = TRUE, !.agent = FALSE, !.adapters = {"cli"},
                 !.sshNodes = [e \in {} |-> 0], !.postgres = FALSE, !.httpbin = FALSE, !.standin = "none"]

\* Stacks in which every choice is made both ways.
Everything ==
  [Local EXCEPT !.agent = TRUE, !.adapters = {"slack", "gchat"}, !.persist = TRUE, !.backstage = TRUE,
                !.github = TRUE, !.mysql = TRUE, !.standin = "localstack"]
Little ==
  [Local EXCEPT !.dummies = FALSE, !.mcp = FALSE, !.portal = FALSE, !.harness = FALSE,
                !.tlsFiles = FALSE, !.nodeport = FALSE, !.users = FALSE]
NoServers ==
  [Local EXCEPT !.sshNodes = [e \in {"dev"} |-> 0], !.postgres = FALSE, !.httpbin = FALSE,
                !.standin = "none", !.broker = FALSE]
CloudDummies == [DevEks EXCEPT !.adapters = {"teams"}, !.dummies = TRUE, !.backstage = TRUE]
DirectDummies == [CloudDummies EXCEPT !.direct = TRUE, !.mysql = TRUE]
Enterprise == [DevEks EXCEPT !.enterprise = TRUE, !.adapters = {"cli", "gchat"}]
Forced == [Enterprise EXCEPT !.force = TRUE, !.portal = FALSE]

Stacks ==
  SelectSeq(<<Local, Everything, Little, NoServers, DevEks, DevAks, DevGke, ProdEks,
              Generic, CloudDummies, DirectDummies, Enterprise, Forced>>, Valid)

\* policies without which pods that are up cannot call whom they wait for
PolicyNames == {"allow-dns", "auth", "proxy", "kube-agent"}

\* everything, the control plane, or one of its pods
PodLosses == {Owned, PodsOf.teleport} \cup {{role} : role \in PodsOf.teleport}
=============================================================================
