--------------------------- MODULE LifecycleStore ---------------------------
(***************************************************************************)
(* The durable state of the lifecycle API and its transactions             *)
(* (internal/platform/store.go).  Store.transaction runs each of them in   *)
(* one bbolt write transaction that either commits or leaves the state     *)
(* alone, so each is one action here: its guard is the conjunction of the  *)
(* early returns, and a rejected request is a stuttering step.             *)
(*                                                                         *)
(* Abstractions.  An operation is named by its environment and its ordinal *)
(* there: queue() always makes the newest operation the environment's      *)
(* current one, and ids are never reused, so e.OperationID is that number. *)
(* The outbox table (st.Notifications) is the set of keys that exist plus  *)
(* the sets of those cancelled and delivered.  Teams, URLs, phases,        *)
(* attempts, timings and audit records do not influence any transition and *)
(* are left out; an image and a revision are one value of Rev.             *)
(***************************************************************************)
EXTENDS Integers, FiniteSets

CONSTANTS
  Env,           \* names of preview environments
  User,          \* configured subjects
  Role,          \* auth.users: the role of each subject
  Key,           \* Idempotency-Key values the clients send
  Rev,           \* revision and image, as requested
  None,          \* an owner or revision that was never set
  TTL, MaxTTL, WarmTarget, MaxPreviews,      \* lifecycle limits of platform.yaml
  ConfirmTTL, ExpiryWarning, CleanupRetry,   \* 5 minutes, 5 minutes, 1 hour
  Minutes,       \* amounts Extend is called with
  Warm,          \* the warm flags Create is called with
  MaxOps,        \* bound: operations queued for one environment
  MaxUserOps,    \* bound: those of them the users may use up
  MaxGen,        \* bound: no Extend at or beyond this generation
  MaxConfs,      \* bound: confirmations outstanding
  MaxDelivered   \* bound: notices acknowledged

ASSUME RoleAssumption == Role \in [User -> {"viewer", "developer", "admin"}]

\* Config.Validate: "invalid lifecycle limits", and Extend's minutes >= 1.
ASSUME LimitsAssumption ==
  /\ TTL \in Nat \ {0} /\ MaxTTL \in Nat /\ MaxTTL >= TTL
  /\ WarmTarget \in Nat \ {0} /\ MaxPreviews \in Nat \ {0}
  /\ ConfirmTTL \in Nat \ {0} /\ ExpiryWarning \in Nat /\ CleanupRetry \in Nat \ {0}
  /\ Minutes \subseteq Nat \ {0} /\ Warm \subseteq BOOLEAN

ASSUME BoundsAssumption ==
  /\ MaxOps \in Nat \ {0} /\ MaxUserOps \in 1 .. MaxOps
  /\ MaxGen \in Nat /\ MaxConfs \in Nat /\ MaxDelivered \in Nat

VARIABLES
  now,        \* Store.Now
  env,        \* st.Environments; status "none" where the key is absent
  ops,        \* st.Operations, per environment; status "none" where absent
  confs,      \* st.Confirmations
  idem,       \* st.Idempotency and st.IdempotencyPayloads
  notices,    \* keys of st.Notifications
  cancelled,  \* those with Cancelled set
  delivered   \* those with Delivered set

noticeVars == <<notices, cancelled, delivered>>
storeVars  == <<env, ops, confs, idem, notices, cancelled, delivered>>

-----------------------------------------------------------------------------
OpNo == 1 .. MaxOps

EnvStatus == {"none", "pending", "ready", "failed", "deleting", "deleted"}
OpStatus  == {"none", "queued", "running", "succeeded", "failed", "superseded"}

Environment ==
  [owner : User \cup {None}, rev : Rev \cup {None}, status : EnvStatus,
   createdAt : Nat, expiresAt : Nat, gen : Nat, op : 0 .. MaxOps]

Operation ==
  [action : {"deploy", "destroy"}, status : OpStatus, warm : BOOLEAN,
   requestedAt : Nat, finishedAt : Nat, gen : Nat]

Confirmation == [actor : User, env : Env, gen : Nat, expiresAt : Nat]

Request == [user : User, key : Key, env : Env, rev : Rev, warm : BOOLEAN, op : OpNo]

Kind   == {"expiring", "late", "ready", "failed", "cleanup-failed", "deleted"}
Notice == [kind : Kind, env : Env, ref : Nat]   \* ref: operation, or expiry time

StoreTypeOK ==
  /\ now \in Nat
  /\ env \in [Env -> Environment]
  /\ ops \in [Env -> [OpNo -> Operation]]
  /\ confs \subseteq Confirmation
  /\ idem \subseteq Request
  /\ notices \subseteq Notice
  /\ cancelled \subseteq notices
  /\ delivered \subseteq notices

NoEnvironment ==
  [owner |-> None, rev |-> None, status |-> "none",
   createdAt |-> 0, expiresAt |-> 0, gen |-> 0, op |-> 0]

NoOperation ==
  [action |-> "deploy", status |-> "none", warm |-> FALSE,
   requestedAt |-> 0, finishedAt |-> 0, gen |-> 0]

StoreInit ==
  /\ now = 0
  /\ env = [e \in Env |-> NoEnvironment]
  /\ ops = [e \in Env |-> [i \in OpNo |-> NoOperation]]
  /\ confs = {} /\ idem = {}
  /\ notices = {} /\ cancelled = {} /\ delivered = {}

-----------------------------------------------------------------------------
(* Helpers shared by the transactions. *)

Live(status) == status \in {"queued", "running"}

Exists(e) == env[e].status # "none"

\* The operation e.OperationID points to.
Current(e) == ops[e][env[e].op]

\* canWrite: an admin, or the developer who owns the preview.
CanWrite(u, e) == Role[u] = "admin" \/ (Role[u] = "developer" /\ env[e].owner = u)

\* Environments that count against the quota.
Counted == {e \in Env : env[e].status \notin {"none", "deleted"}}

\* supersede: the operation table of e with its current operation retired.
Superseded(e) ==
  IF env[e].op # 0 /\ Live(Current(e).status)
    THEN [ops[e] EXCEPT ![env[e].op] = [@ EXCEPT !.status = "superseded", !.finishedAt = now]]
    ELSE ops[e]

\* queue: the record of the operation queued for an environment of generation g.
Queued(action, g, warm) ==
  [action |-> action, status |-> "queued", warm |-> warm,
   requestedAt |-> now, finishedAt |-> 0, gen |-> g]

\* Variant: warnings only.
WarningsOf(E) == {n \in notices : n.env \in E /\ n \notin delivered /\ n.kind = "expiring"}

\* cancelNotices: every undelivered notice of the environments in E.
NoticesOf(E) == {n \in notices : n.env \in E /\ n \notin delivered}

\* Variants: the generation is not counted up; it is, but after the operation is queued.
RetiredAsItIs(e)     == [env[e] EXCEPT !.status = "deleting", !.op = @ + 1]
RetiredOpsQueuedFirst(e) == [Superseded(e) EXCEPT ![env[e].op + 1] = Queued("destroy", env[e].gen, FALSE)]

\* The teardown by which Delete and Reconcile retire an environment.
Retired(e)    == [env[e] EXCEPT !.status = "deleting", !.gen = @ + 1, !.op = @ + 1]
RetiredOps(e) == [Superseded(e) EXCEPT ![env[e].op + 1] = Queued("destroy", env[e].gen + 1, FALSE)]

-----------------------------------------------------------------------------
(* Transactions the API runs for a user. *)

\* Create with a fresh idempotency key.  A known key returns the operation it
\* made before (or a conflict when the payload changed) and changes nothing.
Create(u, k, e, r, warm) ==
  LET g == IF Exists(e) THEN env[e].gen + 1 ELSE 1
      i == env[e].op + 1
  IN
  /\ Role[u] \in {"developer", "admin"}
  /\ ~ \E q \in idem : q.user = u /\ q.key = k
  /\ Exists(e) => /\ env[e].status = "deleted"
                  /\ env[e].owner = u \/ Role[u] = "admin"
  /\ Cardinality(Counted) < MaxPreviews
  /\ i <= MaxUserOps
  /\ env' = [env EXCEPT ![e] =
               [owner |-> u, rev |-> r, status |-> "pending", createdAt |-> now,
                expiresAt |-> now + TTL, gen |-> g, op |-> i]]
  /\ ops' = [ops EXCEPT ![e][i] = Queued("deploy", g, warm)]
  /\ idem' = idem \cup {[user |-> u, key |-> k, env |-> e, rev |-> r, warm |-> warm, op |-> i]}
  /\ cancelled' = cancelled \cup NoticesOf({e})
  /\ UNCHANGED <<now, confs, notices, delivered>>

\* Extend: the new expiry, checked against the lifetime and the clock.
Extend(u, e, mode, m, expected) ==
  LET next == IF mode = "add" THEN env[e].expiresAt + m ELSE now + m IN
  /\ Exists(e) /\ CanWrite(u, e)
  /\ env[e].status \notin {"deleting", "deleted"}
  /\ env[e].gen = expected
  /\ next <= env[e].createdAt + MaxTTL /\ next > now
  /\ env[e].gen < MaxGen
  /\ env' = [env EXCEPT ![e] = [env[e] EXCEPT !.expiresAt = next, !.gen = env[e].gen + 1]]
  /\ ops' = IF Live(Current(e).status)
              THEN [ops EXCEPT ![e][env[e].op].gen = env[e].gen + 1]
              ELSE ops
  /\ cancelled' = cancelled \cup {n \in NoticesOf({e}) : n.kind = "expiring"}
  /\ UNCHANGED <<now, confs, idem, notices, delivered>>

\* ConfirmDelete refuses only an environment that is already deleted.
ConfirmDelete(u, e) ==
  /\ Exists(e) /\ CanWrite(u, e)
  /\ env[e].status # "deleted"
  /\ Cardinality(confs) < MaxConfs
  /\ confs' = confs \cup {[actor |-> u, env |-> e, gen |-> env[e].gen,
                           expiresAt |-> now + ConfirmTTL]}
  /\ UNCHANGED <<now, env, ops, idem, noticeVars>>

\* Delete spends a confirmation; the status of the environment is not looked at.
Delete(u, e, c) ==
  /\ Exists(e) /\ CanWrite(u, e)
  /\ c \in confs
  /\ c.actor = u /\ c.env = e /\ c.gen = env[e].gen /\ now < c.expiresAt
  /\ env[e].op < MaxUserOps
  /\ confs' = confs \ {c}
  /\ env' = [env EXCEPT ![e] = Retired(e)]
  /\ ops' = [ops EXCEPT ![e] = RetiredOps(e)]
  /\ cancelled' = cancelled \cup NoticesOf({e})
  /\ UNCHANGED <<now, idem, notices, delivered>>

Redeploy(u, e, r, expected) ==
  LET g == env[e].gen + 1
      i == env[e].op + 1
  IN
  /\ Exists(e) /\ CanWrite(u, e)
  /\ env[e].gen = expected
  /\ env[e].status \notin {"deleting", "deleted"}
  /\ i <= MaxUserOps
  /\ env' = [env EXCEPT ![e] = [@ EXCEPT !.rev = r, !.status = "pending", !.gen = g, !.op = i]]
  /\ ops' = [ops EXCEPT ![e] = [Superseded(e) EXCEPT ![i] = Queued("deploy", g, TRUE)]]
  /\ cancelled' = cancelled \cup NoticesOf({e})
  /\ UNCHANGED <<now, confs, idem, notices, delivered>>

\* /internal/notifications/ack: the chat agent reports a notice as sent.
Acknowledge(n) ==
  /\ n \in notices
  /\ Cardinality(delivered) < MaxDelivered
  /\ delivered' = delivered \cup {n}
  /\ UNCHANGED <<now, env, ops, confs, idem, notices, cancelled>>

-----------------------------------------------------------------------------
(* Transactions the worker runs. *)

Expired(e)  == now >= env[e].expiresAt

\* Variant: only what became ready expires.
MustExpireReady(e) == env[e].status = "ready" /\ Expired(e) /\ env[e].op < MaxOps

\* A live environment past its expiry, with the bound on operations.
MustExpire(e) ==
  env[e].status \in {"pending", "ready", "failed"} /\ Expired(e) /\ env[e].op < MaxOps

\* A teardown that failed at least CleanupRetry ago.
MustRetry(e) ==
  /\ env[e].status = "deleting" /\ Current(e).status = "failed"
  /\ now - Current(e).finishedAt >= CleanupRetry
  /\ env[e].op < MaxOps

MayWarn(e) == env[e].status \in {"pending", "ready", "failed"} /\ ~Expired(e)

Warnings ==
  {[kind |-> "expiring", env |-> e, ref |-> env[e].expiresAt] :
     e \in {f \in Env : MayWarn(f) /\ env[f].expiresAt - now <= ExpiryWarning}}
  \cup
  {[kind |-> "late", env |-> e, ref |-> env[e].op] :
     e \in {f \in Env : /\ MayWarn(f) /\ Current(f).warm /\ Live(Current(f).status)
                        /\ now - Current(f).requestedAt > WarmTarget}}

\* Reconcile: one transaction over all confirmations and all environments.
\* The warnings are about environments that are not torn down in the same step.
Reconcile ==
  LET torn == {e \in Env : MustExpire(e) \/ MustRetry(e)} IN
  /\ confs' = {c \in confs : now < c.expiresAt}
  /\ env' = [e \in Env |-> IF e \in torn THEN Retired(e) ELSE env[e]]
  /\ ops' = [e \in Env |-> IF e \in torn THEN RetiredOps(e) ELSE ops[e]]
  /\ notices' = notices \cup Warnings
  /\ cancelled' = cancelled \cup NoticesOf(torn)
  /\ UNCHANGED <<now, idem, delivered>>

\* Variant: the interrupted operations are left alone.
RecoverNothing == UNCHANGED <<now, storeVars>>

\* Recover: what was running when the process died is queued again.
Recover ==
  /\ ops' = [e \in Env |-> [i \in OpNo |->
               IF ops[e][i].status = "running"
                 THEN [ops[e][i] EXCEPT !.status = "queued"]
                 ELSE ops[e][i]]]
  /\ UNCHANGED <<now, env, confs, idem, noticeVars>>

\* Variant: whatever is queued and current, beside any script of its environment.
ClaimableBeside(busy) ==
  {o \in Env \X OpNo : ops[o[1]][o[2]].status = "queued" /\ env[o[1]].op = o[2]}

\* claimExcept: the operations it may return, given the busy environments.
Claimable(busy) ==
  {o \in Env \X OpNo :
     /\ ops[o[1]][o[2]].status = "queued"
     /\ o[1] \notin busy
     /\ env[o[1]].op = o[2]}

\* It returns one with the earliest request; sort.Slice is not stable, so any.
Claim(e, i, busy) ==
  /\ <<e, i>> \in Claimable(busy)
  /\ \A o \in Claimable(busy) : ops[e][i].requestedAt <= ops[o[1]][o[2]].requestedAt
  /\ ops' = [ops EXCEPT ![e][i].status = "running"]
  /\ UNCHANGED <<now, env, confs, idem, noticeVars>>

\* Variant: a superseded operation may still report.
AcceptsLate(e, i) == ops[e][i].status \in {"running", "superseded"}

\* Whether Finish takes the result: the operation runs and is still current.
Accepts(e, i) == ops[e][i].status = "running" /\ env[e].op = i

\* The status of the environment afterwards; a teardown that failed leaves it alone,
\* so the environment stays deleting.
Outcome(e, i, ok) ==
  IF ops[e][i].action = "destroy"
    THEN (IF ok THEN "deleted" ELSE env[e].status)
    ELSE (IF ok THEN "ready" ELSE "failed")

\* The notice of a result.
Report(e, i, ok) ==
  IF ops[e][i].action = "destroy" /\ ~ok THEN "cleanup-failed" ELSE Outcome(e, i, ok)

Finish(e, i, ok) ==
  IF Accepts(e, i)
    THEN /\ ops' = [ops EXCEPT ![e][i] =
                       [@ EXCEPT !.status = IF ok THEN "succeeded" ELSE "failed", !.finishedAt = now]]
         /\ env' = [env EXCEPT ![e].status = Outcome(e, i, ok)]
         /\ notices' = notices \cup {[kind |-> Report(e, i, ok), env |-> e, ref |-> i]}
         /\ cancelled' = cancelled \cup NoticesOf({e})
         /\ UNCHANGED <<now, confs, idem, delivered>>
    ELSE UNCHANGED <<now, storeVars>>
=============================================================================
