------------------------------ MODULE Lifecycle -----------------------------
(***************************************************************************)
(* What the lifecycle server has to guarantee, stated over the system of   *)
(* LifecycleWorker.                                                        *)
(***************************************************************************)
EXTENDS LifecycleWorker

-----------------------------------------------------------------------------
(* Invariants. *)

\* The status an environment shows agrees with its current operation, whatever
\* transaction wrote either: Finish, Recover, claimExcept and the API each write
\* only one side, and a client polls both (docs/api.md, statuses).
StatusMatchesOperation ==
  \A e \in Env : Exists(e) =>
    /\ env[e].op # 0
    /\ LET o == Current(e) IN
       /\ env[e].status = "pending" <=> o.action = "deploy" /\ Live(o.status)
       /\ env[e].status = "ready"   <=> o.action = "deploy" /\ o.status = "succeeded"
       /\ env[e].status = "failed"  <=> o.action = "deploy" /\ o.status = "failed"
       /\ env[e].status = "deleted" <=> o.action = "destroy" /\ o.status = "succeeded"
       /\ o.status \notin {"none", "superseded"}

\* Only the current operation of an environment is queued or running: replacing it
\* (Delete, Redeploy, expiry) always retires it, in every interleaving with the worker.
OneLiveOperation ==
  \A e \in Env, i \in OpNo : Live(ops[e][i].status) => i = env[e].op

\* An operation in flight carries the generation of its environment, so that an
\* extension does not invalidate it (Extend, "must not invalidate an in-flight
\* deployment generation").
LiveOperationIsOfThisGeneration ==
  \A e \in Env, i \in OpNo : Live(ops[e][i].status) => ops[e][i].gen = env[e].gen

\* Never two scripts on one namespace: neither a replacement next to the script it
\* supersedes, nor a requeued operation next to itself (claimExcept's busy set).
OneScriptPerEnvironment ==
  \A e \in Env :
    /\ \A i, j \in OpNo : proc[e][i].st # "none" /\ proc[e][j].st # "none" => i = j
    /\ (\E i \in OpNo : proc[e][i].st # "none") => orphans[e] = {}

\* While the worker loops, what the store calls running is in the worker's hands:
\* no operation is lost between a claim, a result, a restart and Recover.
RunningIsActive ==
  pc \in {"select", "cancel", "claim"} =>
    \A e \in Env, i \in OpNo :
      /\ ops[e][i].status = "running" => proc[e][i].st # "none"
      /\ proc[e][i].st # "none" => ops[e][i].status \in {"running", "superseded"}

\* Ready means the revision last asked for is what the namespace holds, and deleted
\* that it holds nothing, with no script left that could still change it.
StatusIsTrue ==
  \A e \in Env :
    /\ env[e].status = "ready"   => cluster[e] = env[e].rev
    /\ env[e].status = "deleted" => cluster[e] = Absent
    /\ env[e].status \in {"ready", "deleted"} =>
         orphans[e] = {} /\ \A i \in OpNo : proc[e][i].st = "none"

\* Every notice the agent may still send is about the present: the expiry in force,
\* an operation still late, or how the current operation ended ("Expired or
\* superseded pending notifications are cancelled").
PendingNoticesAreCurrent ==
  \A n \in notices \ (cancelled \cup delivered) :
    LET e == env[n.env] IN
    /\ n.ref = IF n.kind = "expiring" THEN e.expiresAt ELSE e.op
    /\ n.kind = "expiring" => e.status \in {"pending", "ready", "failed"}
    /\ n.kind = "late" => e.status = "pending"
    /\ n.kind = "cleanup-failed" => e.status = "deleting"
    /\ n.kind \in {"ready", "failed", "deleted"} => e.status = n.kind

\* Never more environments than the limit ("preview quota exceeded").
QuotaHeld == Cardinality(Counted) <= MaxPreviews

-----------------------------------------------------------------------------
(* The inductive invariants behind these. *)

\* Operations are numbered from 1 and none lies beyond the current one.
OrdinalsAreDense ==
  \A e \in Env :
    /\ ~Exists(e) => env[e].op = 0 /\ env[e].gen = 0
    /\ \A i \in OpNo : i > env[e].op => ops[e][i].status = "none"

StoreInv ==
  OrdinalsAreDense /\ StatusMatchesOperation /\ OneLiveOperation /\ LiveOperationIsOfThisGeneration

\* There is a script only while the environment is on its way.  One that counts works
\* on the revision in force, and once it has succeeded the namespace stays as it left
\* it until the result is taken.
ScriptsServeTheirOperation ==
  \A e \in Env, i \in OpNo : proc[e][i].st # "none" =>
    /\ env[e].status \in {"pending", "deleting"}
    /\ ops[e][i].status \in {"running", "superseded"}
    /\ ops[e][i].status = "running" =>
         /\ proc[e][i].rev = env[e].rev
         /\ proc[e][i].st = "ok" => cluster[e] = Goal(ops[e][i].action, env[e].rev)

\* Without surviving scripts, the worker's table follows the store in every phase of
\* the process, between a crash and Recover included.
WorkerInv ==
  /\ \A e \in Env : orphans[e] = {}
  /\ pc \in {"down", "recover"} => Active = {}
  /\ pc \notin {"down", "recover"} =>
       \A e \in Env, i \in OpNo : ops[e][i].status = "running" => proc[e][i].st # "none"
  /\ ScriptsServeTheirOperation
  /\ OneScriptPerEnvironment /\ StatusIsTrue

-----------------------------------------------------------------------------
(* Action properties. *)

\* A generation is a version: it never goes back, and what a client decided on (the
\* owner, the revision, the expiry, the operation) does not change under it.
GenerationIsVersion ==
  [][\A e \in Env :
       /\ env'[e].gen >= env[e].gen
       /\ env'[e].gen = env[e].gen =>
            /\ env'[e].owner = env[e].owner /\ env'[e].rev = env[e].rev
            /\ env'[e].expiresAt = env[e].expiresAt /\ env'[e].op = env[e].op]_vars

\* Once a teardown has started nothing brings the environment back but its completion:
\* no late result, extension or redeployment ("preventing extension after cleanup starts").
TeardownIsFinal ==
  [][\A e \in Env : env[e].status = "deleting" => env'[e].status \in {"deleting", "deleted"}]_vars

\* How an operation ended is final, and a superseded one never reports a result.
HistoryIsFinal ==
  [][\A e \in Env, i \in OpNo :
       ops[e][i].status \in {"succeeded", "failed", "superseded"} => ops'[e][i] = ops[e][i]]_vars

-----------------------------------------------------------------------------
(* Refinement. *)

Promise == INSTANCE Preview WITH
  want   <- [e \in Env |-> IF env[e].status \in {"none", "deleting", "deleted"}
                             THEN Absent ELSE env[e].rev],
  status <- [e \in Env |-> env[e].status],
  holds  <- cluster

\* Through operations, restarts, cancelled scripts and late results the server does
\* what Preview promises.
PromiseKept == Promise!Spec

-----------------------------------------------------------------------------
(* Liveness. *)

\* The process is restarted when it is gone; the loop keeps turning, and select
\* picks among its ready cases at random, so none is passed over for ever; a script
\* ends, at the latest when operationTimeout kills it.
Fairness ==
  /\ WF_vars(Start) /\ WF_vars(RecoverStep)
  /\ WF_vars(TickCancel) /\ WF_vars(TickEnd) /\ WF_vars(Exit)
  /\ SF_vars(TickReconcile) /\ SF_vars(Leave)
  /\ \A e \in Env, i \in OpNo :
       /\ SF_vars(TickClaim(e, i)) /\ SF_vars(TakeResult(e, i))
       /\ WF_vars(ScriptSucceeds(e, i) \/ ScriptFails(e, i))

FairSpec == Spec /\ Fairness

\* Every operation that is asked for ends: it succeeds, fails or is superseded, across
\* restarts and behind scripts that have to be cancelled first.
OperationsEnd ==
  \A e \in Env, i \in OpNo : Live(ops[e][i].status) ~> ~Live(ops[e][i].status)

\* An environment past its expiry is torn down, unless it is extended before the worker
\* sees it; the teardown runs to a result.
ExpiryIsEnforced ==
  \A e \in Env :
    (env[e].status \in {"pending", "ready", "failed"} /\ Expired(e))
      ~> (~Expired(e) \/ env[e].status = "deleted"
            \/ (env[e].status = "deleting" /\ Current(e).status = "failed"))
=============================================================================
