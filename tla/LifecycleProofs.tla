--------------------------- MODULE LifecycleProofs --------------------------
(***************************************************************************)
(* Types and the store's invariants, for every set of environments, users, *)
(* revisions and keys, every limit and every bound.  Transactions differ   *)
(* in what they check, and little in what they do to one environment: the  *)
(* lemma StoreSteps reduces every step of the system to eight changes, and *)
(* the store's invariants and action properties follow from those.         *)
(***************************************************************************)
EXTENDS Lifecycle, TLAPS

-----------------------------------------------------------------------------
(* Typing. *)

\* Changing one field of a record keeps its type.
LEMMA RecordTypes ==
  /\ \A o \in Operation, s \in OpStatus : [o EXCEPT !.status = s] \in Operation
  /\ \A p \in Proc, s \in ProcState : [p EXCEPT !.st = s] \in Proc
  /\ \A x \in Environment, s \in EnvStatus : [x EXCEPT !.status = s] \in Environment
BY DEF Operation, Proc, Environment

\* The helpers that build a table of operations or an environment keep its type.
LEMMA HelperTypes ==
  ASSUME TypeOK, NEW e \in Env
  PROVE  /\ Superseded(e) \in [OpNo -> Operation]
         /\ \A a \in {"deploy", "destroy"}, g \in Nat, w \in BOOLEAN : Queued(a, g, w) \in Operation
         /\ env[e].op < MaxOps => Retired(e) \in Environment /\ RetiredOps(e) \in [OpNo -> Operation]
<1> USE BoundsAssumption
<1>1. now \in Nat /\ env[e] \in Environment /\ ops[e] \in [OpNo -> Operation]
  BY DEF TypeOK, StoreTypeOK
<1>2. Superseded(e) \in [OpNo -> Operation]
  <2>1. CASE env[e].op # 0 /\ Live(Current(e).status)
    <3>1. env[e].op \in OpNo
      BY <1>1, <2>1 DEF Environment, OpNo
    <3>2. Current(e) \in Operation
      BY <1>1, <3>1 DEF Current
    <3>3. [Current(e) EXCEPT !.status = "superseded", !.finishedAt = now] \in Operation
      BY <1>1, <3>2 DEF Operation, OpStatus
    <3>4. QED
      BY <1>1, <2>1, <3>1, <3>3 DEF Superseded, Current
  <2>2. CASE ~(env[e].op # 0 /\ Live(Current(e).status))
    BY <1>1, <2>2 DEF Superseded
  <2>3. QED
    BY <2>1, <2>2
<1>3. \A a \in {"deploy", "destroy"}, g \in Nat, w \in BOOLEAN : Queued(a, g, w) \in Operation
  BY <1>1 DEF Queued, Operation, OpStatus
<1>4. ASSUME env[e].op < MaxOps
      PROVE  Retired(e) \in Environment /\ RetiredOps(e) \in [OpNo -> Operation]
  <2>1. env[e].gen + 1 \in Nat /\ env[e].op + 1 \in OpNo /\ env[e].op + 1 \in 0 .. MaxOps
    BY <1>1, <1>4 DEF Environment, OpNo
  <2>2. Retired(e) \in Environment
    BY <1>1, <2>1 DEF Retired, Environment, EnvStatus
  <2>3. Queued("destroy", env[e].gen + 1, FALSE) \in Operation
    BY <1>3, <2>1
  <2>4. QED
    BY <1>2, <2>1, <2>2, <2>3 DEF RetiredOps
<1>5. QED
  BY <1>2, <1>3, <1>4

\* Each transaction of the API keeps the type of the store.
LEMMA ApiTypes ==
  ASSUME TypeOK, NEW u \in User, NEW e \in Env, ApiCall(u, e)
  PROVE  StoreTypeOK'
<1> USE BoundsAssumption, LimitsAssumption
<1> USE DEF TypeOK, StoreTypeOK
<1>0. /\ env[e] \in Environment /\ ops[e] \in [OpNo -> Operation]
      /\ env[e].gen \in Nat /\ env[e].gen + 1 \in Nat /\ env[e].op \in 0 .. MaxOps
  BY DEF Environment
<1>1. ASSUME NEW k \in Key, NEW r \in Rev, NEW w \in Warm, Create(u, k, e, r, w)
      PROVE  StoreTypeOK'
  <2> DEFINE g == IF Exists(e) THEN env[e].gen + 1 ELSE 1
             i == env[e].op + 1
  <2>1. g \in Nat /\ i \in OpNo /\ i \in 0 .. MaxOps /\ w \in BOOLEAN
    BY <1>0, <1>1 DEF Create, OpNo
  <2>2. Queued("deploy", g, w) \in Operation
    BY <2>1, HelperTypes
  <2>3. env' \in [Env -> Environment]
    BY <1>1, <2>1 DEF Create, Environment, EnvStatus
  <2>4. ops' \in [Env -> [OpNo -> Operation]]
    BY <1>0, <1>1, <2>1, <2>2 DEF Create
  <2>5. idem' \subseteq Request
    BY <1>1, <2>1 DEF Create, Request
  <2>6. QED
    BY <1>1, <2>3, <2>4, <2>5 DEF Create, NoticesOf
<1>2. ASSUME NEW mode \in {"add", "from-now"}, NEW m \in Minutes, NEW g \in 1 .. MaxGen,
             Extend(u, e, mode, m, g)
      PROVE  StoreTypeOK'
  <2>1. env' \in [Env -> Environment]
    <3> DEFINE next == IF mode = "add" THEN env[e].expiresAt + m ELSE now + m
    <3>1. next \in Nat
      BY <1>0 DEF Environment
    <3>2. \A n \in Nat : [env[e] EXCEPT !.expiresAt = n, !.gen = env[e].gen + 1] \in Environment
      BY <1>0 DEF Environment
    <3>3. [env[e] EXCEPT !.expiresAt = next, !.gen = env[e].gen + 1] \in Environment
      BY <3>1, <3>2
    <3>4. env' = [env EXCEPT ![e] = [env[e] EXCEPT !.expiresAt = next, !.gen = env[e].gen + 1]]
      BY <1>2 DEF Extend
    <3>5. QED
      BY <3>3, <3>4
  <2>2. ops' \in [Env -> [OpNo -> Operation]]
    <3>1. CASE env[e].op \in OpNo
      <4>1. Current(e) \in Operation
        BY <1>0, <3>1 DEF Current
      <4>2. [Current(e) EXCEPT !.gen = env[e].gen + 1] \in Operation
        BY <1>0, <4>1 DEF Operation
      <4>3. QED
        BY <1>0, <1>2, <3>1, <4>2 DEF Extend, Current
    <3>2. CASE env[e].op \notin OpNo
      BY <1>0, <1>2, <3>2 DEF Extend
    <3>3. QED
      BY <3>1, <3>2
  <2>3. QED
    BY <1>2, <2>1, <2>2 DEF Extend, NoticesOf
<1>3. CASE ConfirmDelete(u, e)
  BY <1>0, <1>3 DEF ConfirmDelete, Confirmation, noticeVars
<1>4. ASSUME NEW c \in confs, Delete(u, e, c)
      PROVE  StoreTypeOK'
  <2>1. env[e].op < MaxOps
    BY <1>0, <1>4 DEF Delete
  <2>2. Retired(e) \in Environment /\ RetiredOps(e) \in [OpNo -> Operation]
    BY <2>1, HelperTypes
  <2>3. QED
    BY <1>4, <2>2 DEF Delete, NoticesOf
<1>5. ASSUME NEW r \in Rev, NEW g \in 1 .. MaxGen + MaxOps, Redeploy(u, e, r, g)
      PROVE  StoreTypeOK'
  <2>0. env[e].op \in 0 .. MaxOps /\ env[e].op + 1 <= MaxUserOps
    BY <1>0, <1>5 DEF Redeploy, Environment
  <2>1. env[e].op + 1 \in OpNo /\ env[e].op + 1 \in 0 .. MaxOps
    BY <2>0 DEF OpNo
  <2>2. Queued("deploy", env[e].gen + 1, TRUE) \in Operation /\ Superseded(e) \in [OpNo -> Operation]
    BY <1>0, HelperTypes
  <2>3. env' \in [Env -> Environment]
    BY <1>0, <1>5, <2>1 DEF Redeploy, Environment, EnvStatus
  <2>4. QED
    BY <1>5, <2>1, <2>2, <2>3 DEF Redeploy, NoticesOf
<1>6. QED
  BY <1>1, <1>2, <1>3, <1>4, <1>5 DEF ApiCall

\* Each transaction of the worker keeps the type of the store.
LEMMA ReconcileTypes ==
  ASSUME TypeOK, Reconcile
  PROVE  StoreTypeOK'
<1> USE BoundsAssumption DEF TypeOK, StoreTypeOK
<1>1. \A e \in Env : MustExpire(e) \/ MustRetry(e) =>
        Retired(e) \in Environment /\ RetiredOps(e) \in [OpNo -> Operation]
  BY HelperTypes DEF MustExpire, MustRetry
<1>2. env' \in [Env -> Environment] /\ ops' \in [Env -> [OpNo -> Operation]]
  BY <1>1 DEF Reconcile
<1>3. notices' \subseteq Notice
  BY DEF Reconcile, Warnings, Notice, Kind, Environment
<1>4. QED
  BY <1>2, <1>3 DEF Reconcile, NoticesOf

LEMMA FinishTypes ==
  ASSUME TypeOK, NEW e \in Env, NEW i \in OpNo, NEW ok \in BOOLEAN, Finish(e, i, ok)
  PROVE  StoreTypeOK'
<1> USE BoundsAssumption DEF TypeOK, StoreTypeOK
<1>1. CASE Accepts(e, i)
  <2>0. ops[e][i] \in Operation /\ env[e] \in Environment
    OBVIOUS
  <2>1. Outcome(e, i, ok) \in EnvStatus /\ Report(e, i, ok) \in Kind
    <3>1. ops[e][i].action \in {"deploy", "destroy"} /\ env[e].status \in EnvStatus
      BY <2>0 DEF Operation, Environment
    <3>2. QED
      BY <3>1 DEF Outcome, Report, EnvStatus, Kind
  <2>2. [ops[e][i] EXCEPT !.status = IF ok THEN "succeeded" ELSE "failed", !.finishedAt = now] \in Operation
    BY <2>0 DEF Operation, OpStatus
  <2>3. ops' \in [Env -> [OpNo -> Operation]]
    BY <1>1, <2>2 DEF Finish
  <2>4. env' \in [Env -> Environment]
    BY <1>1, <2>0, <2>1 DEF Finish, Environment
  <2>5. notices' \subseteq Notice
    BY <1>1, <2>1 DEF Finish, Notice, OpNo
  <2>6. QED
    BY <1>1, <2>3, <2>4, <2>5 DEF Finish, NoticesOf
<1>2. CASE ~Accepts(e, i)
  BY <1>2 DEF Finish, storeVars
<1>3. QED
  BY <1>1, <1>2

LEMMA TypeInit == Init => TypeOK
<1> USE BoundsAssumption
<1>1. NoEnvironment \in Environment
  BY DEF NoEnvironment, Environment, EnvStatus
<1>2. NoOperation \in Operation
  BY DEF NoOperation, Operation, OpStatus
<1>3. NoProc \in Proc
  BY DEF NoProc, Proc, ProcState
<1>4. StoreInit => StoreTypeOK
  BY <1>1, <1>2 DEF StoreInit, StoreTypeOK
<1>5. WorkerInit => WorkerTypeOK
  <2>1. Absent \in Content
    BY DEF Content
  <2>2. WorkerInit => proc \in [Env -> [OpNo -> Proc]] /\ orphans \in [Env -> SUBSET Orphan]
    BY <1>3 DEF WorkerInit
  <2>3. WorkerInit => cluster \in [Env -> Content]
    BY <2>1 DEF WorkerInit
  <2>4. WorkerInit => stopping \in BOOLEAN
    BY Zenon DEF WorkerInit
  <2>5. QED
    BY <2>2, <2>3, <2>4 DEF WorkerInit, WorkerTypeOK
<1>6. QED
  BY <1>4, <1>5 DEF Init, TypeOK

LEMMA TypeStep ==
  ASSUME TypeOK, [Next]_vars
  PROVE  TypeOK'
<1> USE BoundsAssumption, WorkerAssumption
<1>0. StoreTypeOK /\ WorkerTypeOK
  BY DEF TypeOK
<1>u. UNCHANGED <<now, storeVars>> => StoreTypeOK'
  BY <1>0 DEF StoreTypeOK, storeVars
<1>w. UNCHANGED <<workerVars, cluster>> => WorkerTypeOK'
  BY <1>0 DEF WorkerTypeOK, workerVars
<1>c. \A doomed : Cancelling(doomed) \in [Env -> [OpNo -> Proc]]
  <2>1. ASSUME NEW e \in Env, NEW i \in OpNo
        PROVE  proc[e][i] \in Proc /\ [proc[e][i] EXCEPT !.st = "cancelled"] \in Proc
    <3>1. proc[e][i] \in Proc
      BY <1>0 DEF WorkerTypeOK
    <3>2. "cancelled" \in ProcState
      BY DEF ProcState
    <3>3. QED
      BY <3>1, <3>2, RecordTypes
  <2>2. ASSUME NEW doomed, NEW e \in Env
        PROVE  [i \in OpNo |-> IF proc[e][i].st = "running" /\ <<e, i>> \in doomed
                                 THEN [proc[e][i] EXCEPT !.st = "cancelled"]
                                 ELSE proc[e][i]] \in [OpNo -> Proc]
    BY <2>1
  <2>3. QED
    BY <2>2 DEF Cancelling
<1>1. CASE Advance
  BY <1>0, <1>1, <1>w DEF Advance, TypeOK, StoreTypeOK, storeVars
<1>2. CASE Api
  <2>1. StoreTypeOK'
    <3>1. CASE \E n \in notices : Acknowledge(n)
      BY <1>0, <3>1 DEF Acknowledge, StoreTypeOK
    <3>2. CASE \E u \in User, e \in Env : ApiCall(u, e)
      BY <3>2, ApiTypes
    <3>3. QED
      BY <1>2, <3>1, <3>2 DEF Api
  <2>2. QED
    BY <1>2, <1>w, <2>1 DEF Api, TypeOK
<1>3. CASE Start
  BY <1>0, <1>3, <1>u DEF Start, TypeOK, WorkerTypeOK
<1>4. CASE RecoverStep
  <2>0. \A e \in Env, i \in OpNo :
          ops[e][i] \in Operation /\ [ops[e][i] EXCEPT !.status = "queued"] \in Operation
    BY <1>0, RecordTypes DEF StoreTypeOK, OpStatus
  <2>1. StoreTypeOK'
    <3>1. ops' \in [Env -> [OpNo -> Operation]]
      BY <1>4, <2>0 DEF RecoverStep, Recover
    <3>2. QED
      BY <1>0, <1>4, <3>1 DEF RecoverStep, Recover, StoreTypeOK, noticeVars
  <2>2. QED
    BY <1>0, <1>4, <2>1 DEF RecoverStep, TypeOK, WorkerTypeOK
<1>5. CASE TickReconcile
  BY <1>0, <1>5, ReconcileTypes DEF TickReconcile, TypeOK, WorkerTypeOK
<1>6. CASE TickCancel
  BY <1>0, <1>6, <1>u, <1>c DEF TickCancel, TypeOK, WorkerTypeOK
<1>7. CASE TickEnd
  BY <1>0, <1>7, <1>u DEF TickEnd, TypeOK, WorkerTypeOK
<1>8. CASE Shutdown
  BY <1>0, <1>8, <1>u, <1>c DEF Shutdown, TypeOK, WorkerTypeOK
<1>9. CASE Leave
  BY <1>0, <1>9, <1>u DEF Leave, TypeOK, WorkerTypeOK
<1>10. CASE Exit
  BY <1>0, <1>10, <1>u DEF Exit, TypeOK, WorkerTypeOK, NoProc, Proc, ProcState
<1>11. CASE Crash
  <2>1. orphans' \in [Env -> SUBSET Orphan]
    BY <1>0, <1>11 DEF Crash, WorkerTypeOK, Orphan, Proc
  <2>2. NoProc \in Proc
    BY DEF NoProc, Proc, ProcState
  <2>3. pc' = "down" /\ stopping' = FALSE /\ stops' \in Nat /\ cluster' = cluster
        /\ proc' \in [Env -> [OpNo -> Proc]] /\ StoreTypeOK'
    BY <1>0, <1>11, <1>u, <2>2 DEF Crash, WorkerTypeOK
  <2>4. QED
    BY <1>0, <2>1, <2>3 DEF TypeOK, WorkerTypeOK
<1>12. ASSUME NEW e \in Env, NEW i \in OpNo, TakeResult(e, i)
       PROVE  TypeOK'
  <2>1. StoreTypeOK'
    BY <1>12, FinishTypes DEF TakeResult
  <2>2. QED
    BY <1>0, <1>12, <2>1 DEF TakeResult, TypeOK, WorkerTypeOK, NoProc, Proc, ProcState
<1>13. ASSUME NEW e \in Env, NEW i \in OpNo, TickClaim(e, i)
       PROVE  TypeOK'
  <2>0. ops[e][i] \in Operation /\ [ops[e][i] EXCEPT !.status = "running"] \in Operation
    BY <1>0, RecordTypes DEF StoreTypeOK, OpStatus
  <2>1. StoreTypeOK'
    <3>1. ops' = [ops EXCEPT ![e][i] = [ops[e][i] EXCEPT !.status = "running"]]
      BY <1>13 DEF TickClaim, Claim
    <3>2. ops' \in [Env -> [OpNo -> Operation]]
      BY <1>0, <2>0, <3>1 DEF StoreTypeOK
    <3>3. QED
      BY <1>0, <1>13, <3>2 DEF TickClaim, Claim, StoreTypeOK, noticeVars
  <2>2. [st |-> IF stopping THEN "killed" ELSE "running", rev |-> env[e].rev] \in Proc
    BY <1>0 DEF StoreTypeOK, Environment, Proc, ProcState
  <2>3. QED
    BY <1>0, <1>13, <2>1, <2>2 DEF TickClaim, TypeOK, WorkerTypeOK
<1>14. ASSUME NEW e \in Env, NEW i \in OpNo, ScriptWrites(e, i)
       PROVE  TypeOK'
  BY <1>0, <1>14, <1>u DEF ScriptWrites, TypeOK, WorkerTypeOK, workerVars, Content
<1>g. \A e \in Env, i \in OpNo, r \in Rev \cup {None} : Goal(ops[e][i].action, r) \in Content
  BY DEF Goal, Content
<1>15. ASSUME NEW e \in Env, NEW i \in OpNo, ScriptSucceeds(e, i) \/ ScriptFails(e, i)
       PROVE  TypeOK'
  <2>1. Goal(ops[e][i].action, proc[e][i].rev) \in Content
    BY <1>0, <1>g DEF WorkerTypeOK, Proc
  <2>2. cluster' \in [Env -> Content]
    <3>1. PICK c \in Content : cluster' = [cluster EXCEPT ![e] = c]
      <4>1. cluster[e] \in Content /\ Partial \in Content
        BY <1>0 DEF WorkerTypeOK, Content
      <4>2. QED
        BY <1>15, <2>1, <4>1 DEF ScriptSucceeds, ScriptFails
    <3>2. QED
      BY <1>0, <3>1 DEF WorkerTypeOK
  <2>0. proc[e][i] \in Proc /\ \A s \in ProcState : [proc[e][i] EXCEPT !.st = s] \in Proc
    BY <1>0, RecordTypes DEF WorkerTypeOK
  <2>3. proc' \in [Env -> [OpNo -> Proc]]
    <3>1. PICK s \in ProcState : proc' = [proc EXCEPT ![e][i] = [proc[e][i] EXCEPT !.st = s]]
      BY <1>15 DEF ScriptSucceeds, ScriptFails, ProcState
    <3>2. QED
      BY <1>0, <2>0, <3>1 DEF WorkerTypeOK
  <2>4. QED
    BY <1>0, <1>15, <1>u, <2>2, <2>3 DEF ScriptSucceeds, ScriptFails, TypeOK, WorkerTypeOK
<1>16. ASSUME NEW e \in Env, NEW o \in orphans[e], OrphanWrites(e, o) \/ OrphanEnds(e, o)
       PROVE  TypeOK'
  <2>1. Goal(ops[e][o.op].action, o.rev) \in Content
    <3>1. o \in Orphan
      BY <1>0 DEF WorkerTypeOK
    <3>2. QED
      BY <1>g, <3>1 DEF Orphan
  <2>2. cluster' \in [Env -> Content] /\ orphans' \in [Env -> SUBSET Orphan]
    BY <1>0, <1>16, <2>1 DEF OrphanWrites, OrphanEnds, WorkerTypeOK, Content, workerVars
  <2>3. QED
    BY <1>0, <1>16, <1>u, <2>2 DEF OrphanWrites, OrphanEnds, TypeOK, WorkerTypeOK, workerVars
<1>17. CASE UNCHANGED vars
  BY <1>0, <1>u, <1>17 DEF vars, TypeOK, WorkerTypeOK
<1>18. QED
  BY <1>1, <1>2, <1>3, <1>4, <1>5, <1>6, <1>7, <1>8, <1>9, <1>10, <1>11, <1>12, <1>13, <1>14,
     <1>15, <1>16, <1>17 DEF Next, Server, Scripts

\* Every variable has its type in every reachable state.
THEOREM TypeCorrect == Spec => []TypeOK
<1>1. TypeOK /\ [Next]_vars => TypeOK'
  BY TypeStep
<1>2. QED
  BY TypeInit, <1>1, PTL DEF Spec

-----------------------------------------------------------------------------
(* What a step does to environment e and its operations. *)

Kept(e) == env'[e] = env[e] /\ ops'[e] = ops[e]

Created(e) ==
  LET g == IF Exists(e) THEN env[e].gen + 1 ELSE 1
      i == env[e].op + 1
  IN
  /\ env[e].status \in {"none", "deleted"} /\ i \in OpNo
  /\ \E u \in User, r \in Rev, w \in BOOLEAN :
       /\ env'[e] = [owner |-> u, rev |-> r, status |-> "pending", createdAt |-> now,
                     expiresAt |-> now + TTL, gen |-> g, op |-> i]
       /\ ops'[e] = [ops[e] EXCEPT ![i] = Queued("deploy", g, w)]

Extended(e) ==
  /\ env[e].status \in {"pending", "ready", "failed"}
  /\ \E n \in Nat : env'[e] = [env[e] EXCEPT !.expiresAt = n, !.gen = env[e].gen + 1]
  /\ ops'[e] = IF Live(Current(e).status)
                 THEN [ops[e] EXCEPT ![env[e].op].gen = env[e].gen + 1]
                 ELSE ops[e]

TornDown(e) ==
  /\ Exists(e) /\ env[e].op + 1 \in OpNo
  /\ env'[e] = Retired(e) /\ ops'[e] = RetiredOps(e)

Redeployed(e) ==
  LET g == env[e].gen + 1
      i == env[e].op + 1
  IN
  /\ env[e].status \in {"pending", "ready", "failed"} /\ i \in OpNo
  /\ \E r \in Rev : env'[e] = [env[e] EXCEPT !.rev = r, !.status = "pending", !.gen = g, !.op = i]
  /\ ops'[e] = [Superseded(e) EXCEPT ![i] = Queued("deploy", g, TRUE)]

Requeued(e) ==
  /\ env'[e] = env[e]
  /\ ops'[e] = [i \in OpNo |-> IF ops[e][i].status = "running"
                                 THEN [ops[e][i] EXCEPT !.status = "queued"]
                                 ELSE ops[e][i]]

Claimed(e) ==
  /\ env'[e] = env[e]
  /\ env[e].op \in OpNo /\ Current(e).status = "queued"
  /\ ops'[e] = [ops[e] EXCEPT ![env[e].op].status = "running"]

Finished(e) ==
  /\ env[e].op \in OpNo /\ Current(e).status = "running"
  /\ \E ok \in BOOLEAN :
       /\ env'[e] = [env[e] EXCEPT !.status = Outcome(e, env[e].op, ok)]
       /\ ops'[e] = [ops[e] EXCEPT ![env[e].op] =
                       [Current(e) EXCEPT !.status = IF ok THEN "succeeded" ELSE "failed",
                                          !.finishedAt = now]]

Changed(e) ==
  \/ Kept(e) \/ Created(e) \/ Extended(e) \/ TornDown(e) \/ Redeployed(e)
  \/ Requeued(e) \/ Claimed(e) \/ Finished(e)

LEMMA ApiChanges ==
  ASSUME TypeOK, NEW u \in User, NEW f \in Env, ApiCall(u, f), NEW e \in Env
  PROVE  Kept(e) \/ Created(e) \/ Extended(e) \/ TornDown(e) \/ Redeployed(e)
<1> USE BoundsAssumption, LimitsAssumption
<1>0. /\ env \in [Env -> Environment] /\ ops \in [Env -> [OpNo -> Operation]]
      /\ env[f].status \in EnvStatus /\ env[f].op \in 0 .. MaxOps /\ now \in Nat
      /\ env[f].expiresAt \in Nat
  BY DEF TypeOK, StoreTypeOK, Environment
<1>1. ASSUME NEW k \in Key, NEW r \in Rev, NEW w \in Warm, Create(u, k, f, r, w)
      PROVE  Kept(e) \/ Created(e)
  <2>1. CASE e = f
    <3>1. env[f].status \in {"none", "deleted"} /\ env[f].op + 1 \in OpNo /\ w \in BOOLEAN
      BY <1>0, <1>1 DEF Create, Exists, OpNo
    <3>2. QED
      BY <1>0, <1>1, <2>1, <3>1 DEF Create, Created
  <2>2. CASE e # f
    BY <1>0, <1>1, <2>2 DEF Create, Kept
  <2>3. QED
    BY <2>1, <2>2
<1>2. ASSUME NEW mode \in {"add", "from-now"}, NEW m \in Minutes, NEW g \in 1 .. MaxGen,
             Extend(u, f, mode, m, g)
      PROVE  Kept(e) \/ Extended(e)
  <2>1. CASE e = f
    <3>1. env[f].status \in {"pending", "ready", "failed"}
      BY <1>0, <1>2 DEF Extend, Exists, EnvStatus
    <3>2. (IF mode = "add" THEN env[f].expiresAt + m ELSE now + m) \in Nat
      BY <1>0
    <3>3. QED
      BY <1>0, <1>2, <2>1, <3>1, <3>2 DEF Extend, Extended
  <2>2. CASE e # f
    BY <1>0, <1>2, <2>2 DEF Extend, Kept
  <2>3. QED
    BY <2>1, <2>2
<1>3. CASE ConfirmDelete(u, f)
  BY <1>3 DEF ConfirmDelete, Kept
<1>4. ASSUME NEW c \in confs, Delete(u, f, c)
      PROVE  Kept(e) \/ TornDown(e)
  <2>1. CASE e = f
    <3>1. env[f].op + 1 \in OpNo
      BY <1>0, <1>4 DEF Delete, OpNo
    <3>2. QED
      BY <1>0, <1>4, <2>1, <3>1 DEF Delete, TornDown
  <2>2. CASE e # f
    BY <1>0, <1>4, <2>2 DEF Delete, Kept
  <2>3. QED
    BY <2>1, <2>2
<1>5. ASSUME NEW r \in Rev, NEW g \in 1 .. MaxGen + MaxOps, Redeploy(u, f, r, g)
      PROVE  Kept(e) \/ Redeployed(e)
  <2>1. CASE e = f
    <3>1. env[f].status \in {"pending", "ready", "failed"} /\ env[f].op + 1 \in OpNo
      <4>1. env[f].status \notin {"none", "deleting", "deleted"} /\ env[f].op + 1 <= MaxUserOps
        BY <1>5 DEF Redeploy, Exists
      <4>2. QED
        BY <1>0, <4>1 DEF EnvStatus, OpNo
    <3>2. QED
      BY <1>0, <1>5, <2>1, <3>1 DEF Redeploy, Redeployed
  <2>2. CASE e # f
    BY <1>0, <1>5, <2>2 DEF Redeploy, Kept
  <2>3. QED
    BY <2>1, <2>2
<1>6. QED
  BY <1>1, <1>2, <1>3, <1>4, <1>5 DEF ApiCall

LEMMA ReconcileChanges ==
  ASSUME TypeOK, Reconcile, NEW e \in Env
  PROVE  Kept(e) \/ TornDown(e)
<1>1. env[e].op \in 0 .. MaxOps
  BY DEF TypeOK, StoreTypeOK, Environment
<1>2. CASE MustExpire(e) \/ MustRetry(e)
  <2>1. Exists(e) /\ env[e].op + 1 \in OpNo
    BY <1>1, <1>2, BoundsAssumption DEF MustExpire, MustRetry, Exists, OpNo
  <2>2. QED
    BY <1>2, <2>1 DEF Reconcile, TornDown
<1>3. CASE ~(MustExpire(e) \/ MustRetry(e))
  BY <1>3 DEF Reconcile, Kept
<1>4. QED
  BY <1>2, <1>3

LEMMA FinishChanges ==
  ASSUME TypeOK, NEW f \in Env, NEW i \in OpNo, NEW ok \in BOOLEAN, Finish(f, i, ok), NEW e \in Env
  PROVE  Kept(e) \/ Finished(e)
<1>0. env \in [Env -> Environment] /\ ops \in [Env -> [OpNo -> Operation]]
  BY DEF TypeOK, StoreTypeOK
<1>1. CASE Accepts(f, i) /\ e = f
  <2>1. env[e].op = i /\ Current(e).status = "running" /\ Current(e) = ops[e][i]
    BY <1>1 DEF Accepts, Current
  <2>2. env'[e] = [env[e] EXCEPT !.status = Outcome(e, i, ok)]
    BY <1>0, <1>1 DEF Finish
  <2>3. ops'[e] = [ops[e] EXCEPT ![i] =
                     [ops[e][i] EXCEPT !.status = IF ok THEN "succeeded" ELSE "failed",
                                       !.finishedAt = now]]
    BY <1>0, <1>1 DEF Finish
  <2>4. QED
    BY <2>1, <2>2, <2>3 DEF Finished
<1>2. CASE Accepts(f, i) /\ e # f
  BY <1>0, <1>2 DEF Finish, Kept
<1>3. CASE ~Accepts(f, i)
  BY <1>3 DEF Finish, Kept, storeVars
<1>4. QED
  BY <1>1, <1>2, <1>3

LEMMA ClaimChanges ==
  ASSUME TypeOK, NEW f \in Env, NEW i \in OpNo, Claim(f, i, Busy), NEW e \in Env
  PROVE  Kept(e) \/ Claimed(e)
<1>0. env \in [Env -> Environment] /\ ops \in [Env -> [OpNo -> Operation]]
  BY DEF TypeOK, StoreTypeOK
<1>1. CASE e = f
  <2>1. env[e].op = i /\ ops[e][i].status = "queued"
    BY <1>1 DEF Claim, Claimable
  <2>2. QED
    BY <1>0, <1>1, <2>1 DEF Claim, Claimed, Current
<1>2. CASE e # f
  BY <1>0, <1>2 DEF Claim, Kept
<1>3. QED
  BY <1>1, <1>2

LEMMA StoreSteps ==
  ASSUME TypeOK, [Next]_vars, NEW e \in Env
  PROVE  Changed(e)
<1>u. UNCHANGED storeVars => Kept(e)
  BY DEF storeVars, Kept
<1>1. CASE Api
  <2>1. CASE \E u \in User, f \in Env : ApiCall(u, f)
    BY <2>1, ApiChanges DEF Changed
  <2>2. CASE \E n \in notices : Acknowledge(n)
    BY <2>2 DEF Acknowledge, Kept, Changed
  <2>3. QED
    BY <1>1, <2>1, <2>2 DEF Api
<1>2. CASE RecoverStep
  BY <1>2 DEF RecoverStep, Recover, Requeued, Changed
<1>3. CASE TickReconcile
  BY <1>3, ReconcileChanges DEF TickReconcile, Changed
<1>4. CASE \E f \in Env, i \in OpNo : TakeResult(f, i)
  BY <1>4, FinishChanges DEF TakeResult, Changed
<1>5. CASE \E f \in Env, i \in OpNo : TickClaim(f, i)
  BY <1>5, ClaimChanges DEF TickClaim, Changed
<1>6. CASE Advance \/ Start \/ TickCancel \/ TickEnd \/ Shutdown \/ Leave \/ Exit \/ Crash
  BY <1>6, <1>u DEF Advance, Start, TickCancel, TickEnd, Shutdown, Leave, Exit, Crash, Changed
<1>7. CASE Scripts
  BY <1>7, <1>u DEF Scripts, ScriptWrites, ScriptSucceeds, ScriptFails, OrphanWrites, OrphanEnds,
                    Changed
<1>8. CASE UNCHANGED vars
  BY <1>8, <1>u DEF vars, Changed
<1>9. QED
  BY <1>1, <1>2, <1>3, <1>4, <1>5, <1>6, <1>7, <1>8 DEF Next, Server

-----------------------------------------------------------------------------
(* The invariant. *)

\* The status of an environment whose current operation is o.
Shown(o) ==
  IF o.status = "succeeded" THEN (IF o.action = "deploy" THEN "ready" ELSE "deleted")
  ELSE IF o.action = "destroy" THEN "deleting"
  ELSE IF Live(o.status) THEN "pending" ELSE "failed"

\* StoreInv, of one environment.
StoreInvAt(e) ==
  /\ env[e].op \in 0 .. MaxOps
  /\ ~Exists(e) => env[e].op = 0 /\ env[e].gen = 0
  /\ \A i \in OpNo : /\ i > env[e].op => ops[e][i].status = "none"
                     /\ Live(ops[e][i].status) => i = env[e].op /\ ops[e][i].gen = env[e].gen
  /\ Exists(e) =>
       /\ env[e].op \in OpNo
       /\ Current(e).status \notin {"none", "superseded"}
       /\ env[e].status = Shown(Current(e))

LEMMA StoreInvPointwise ==
  ASSUME TypeOK
  PROVE  StoreInv <=> \A e \in Env : StoreInvAt(e)
<1> USE BoundsAssumption
<1>0. \A e \in Env : /\ env[e].op \in 0 .. MaxOps /\ env[e].status \in EnvStatus
                     /\ \A i \in OpNo : ops[e][i].action \in {"deploy", "destroy"}
                                        /\ ops[e][i].status \in OpStatus
  <2>1. \A e \in Env : env[e] \in Environment /\ \A i \in OpNo : ops[e][i] \in Operation
    BY DEF TypeOK, StoreTypeOK
  <2>2. QED
    BY <2>1 DEF Environment, Operation
<1>1. ASSUME StoreInv, NEW e \in Env PROVE StoreInvAt(e)
  <2>1. CASE ~Exists(e)
    BY <1>0, <1>1, <2>1 DEF StoreInv, OrdinalsAreDense, OneLiveOperation,
                            LiveOperationIsOfThisGeneration, StoreInvAt
  <2>2. CASE Exists(e)
    <3>1. env[e].op \in OpNo
      BY <1>0, <1>1, <2>2 DEF StoreInv, StatusMatchesOperation, OpNo
    <3>2. Current(e).action \in {"deploy", "destroy"} /\ Current(e).status \in OpStatus
      BY <1>0, <3>1 DEF Current
    <3>3. QED
      BY <1>0, <1>1, <2>2, <3>1, <3>2
         DEF StoreInv, OrdinalsAreDense, OneLiveOperation, LiveOperationIsOfThisGeneration,
             StatusMatchesOperation, StoreInvAt, Shown, Exists, Live, EnvStatus, OpStatus
  <2>3. QED
    BY <2>1, <2>2
<1>2. ASSUME \A e \in Env : StoreInvAt(e) PROVE StoreInv
  <2>1. OrdinalsAreDense /\ OneLiveOperation /\ LiveOperationIsOfThisGeneration
    BY <1>2 DEF OrdinalsAreDense, OneLiveOperation, LiveOperationIsOfThisGeneration, StoreInvAt
  <2>2. ASSUME NEW e \in Env, Exists(e)
        PROVE  /\ env[e].op # 0
               /\ LET o == Current(e) IN
                  /\ env[e].status = "pending" <=> o.action = "deploy" /\ Live(o.status)
                  /\ env[e].status = "ready"   <=> o.action = "deploy" /\ o.status = "succeeded"
                  /\ env[e].status = "failed"  <=> o.action = "deploy" /\ o.status = "failed"
                  /\ env[e].status = "deleted" <=> o.action = "destroy" /\ o.status = "succeeded"
                  /\ o.status \notin {"none", "superseded"}
    <3>1. env[e].op \in OpNo
      BY <1>2, <2>2 DEF StoreInvAt
    <3>2. Current(e).action \in {"deploy", "destroy"} /\ Current(e).status \in OpStatus
      BY <1>0, <3>1 DEF Current
    <3>3. QED
      BY <1>2, <2>2, <3>1, <3>2 DEF StoreInvAt, Shown, Live, OpStatus, OpNo
  <2>3. QED
    BY <2>1, <2>2 DEF StoreInv, StatusMatchesOperation
<1>3. QED
  BY <1>1, <1>2

\* Superseding touches the current operation only, and leaves it neither queued nor running.
LEMMA SupersededOps ==
  ASSUME TypeOK, NEW e \in Env, env[e].op \in OpNo
  PROVE  /\ \A j \in OpNo : j # env[e].op => Superseded(e)[j] = ops[e][j]
         /\ IF Live(Current(e).status)
              THEN Superseded(e)[env[e].op].status = "superseded"
              ELSE Superseded(e)[env[e].op] = Current(e)
         /\ ~Live(Superseded(e)[env[e].op].status)
<1>0. ops[e] \in [OpNo -> Operation] /\ Current(e) \in Operation /\ env[e].op # 0
  BY BoundsAssumption DEF TypeOK, StoreTypeOK, Current, OpNo
<1>1. CASE Live(Current(e).status)
  <2>1. [Current(e) EXCEPT !.status = "superseded", !.finishedAt = now].status = "superseded"
    BY <1>0 DEF Operation
  <2>2. Superseded(e) = [ops[e] EXCEPT ![env[e].op] =
                           [Current(e) EXCEPT !.status = "superseded", !.finishedAt = now]]
    BY <1>0, <1>1 DEF Superseded, Current
  <2>3. QED
    BY <1>0, <1>1, <2>1, <2>2 DEF Live
<1>2. CASE ~Live(Current(e).status)
  BY <1>0, <1>2 DEF Superseded, Current
<1>3. QED
  BY <1>1, <1>2

LEMMA StoreInvChange ==
  ASSUME TypeOK, TypeOK', NEW e \in Env, StoreInvAt(e), Changed(e)
  PROVE  StoreInvAt(e)'
<1> USE BoundsAssumption
<1>0. /\ env[e] \in Environment /\ env[e].gen \in Nat /\ env[e].op \in 0 .. MaxOps
      /\ ops[e] \in [OpNo -> Operation] /\ now \in Nat
      /\ \A i \in OpNo : ops[e][i] \in Operation
  BY DEF TypeOK, StoreTypeOK, Environment
<1>1. CASE Kept(e)
  BY <1>1 DEF Kept, StoreInvAt, Shown, Exists, Current
<1>2. CASE Created(e)
  <2> DEFINE i == env[e].op + 1
  <2>1. \A j \in OpNo : ~Live(ops[e][j].status)
    BY <1>0, <1>2 DEF Created, StoreInvAt, Shown, Exists, Live, Current, OpNo
  <2>2. /\ i \in OpNo /\ env'[e].op = i /\ env'[e].status = "pending"
        /\ ops'[e][i].status = "queued" /\ ops'[e][i].action = "deploy" /\ ops'[e][i].gen = env'[e].gen
        /\ \A j \in OpNo \ {i} : ops'[e][j] = ops[e][j]
    BY <1>0, <1>2 DEF Created, Queued
  <2>3. QED
    BY <1>0, <2>1, <2>2 DEF StoreInvAt, Shown, Exists, Live, Current, OpNo
<1>3. CASE Extended(e)
  <2>1. env[e].op \in OpNo /\ Exists(e)
    BY <1>3 DEF Extended, StoreInvAt, Shown, Exists
  <2>2. env'[e].op = env[e].op /\ env'[e].status = env[e].status /\ env'[e].gen = env[e].gen + 1
    BY <1>0, <1>3 DEF Extended, Environment
  <2>3. /\ \A j \in OpNo : /\ ops'[e][j].status = ops[e][j].status
                           /\ ops'[e][j].action = ops[e][j].action
        /\ Live(Current(e).status) => ops'[e][env[e].op].gen = env[e].gen + 1
    BY <1>0, <1>3, <2>1 DEF Extended, Operation, Current
  <2>4. QED
    BY <1>0, <2>1, <2>2, <2>3 DEF StoreInvAt, Shown, Exists, Live, Current
<1>4. CASE TornDown(e)
  <2> DEFINE i == env[e].op + 1
  <2>1. i \in OpNo /\ env[e].op \in OpNo /\ Exists(e)
    BY <1>4 DEF TornDown, StoreInvAt
  <2>2. env'[e].op = i /\ env'[e].status = "deleting" /\ env'[e].gen = env[e].gen + 1
    BY <1>0, <1>4 DEF TornDown, Retired, Environment
  <2>3. Superseded(e) \in [OpNo -> Operation]
    BY HelperTypes
  <2>4. \A j \in OpNo : Superseded(e)[j] = ops[e][j] \/ j = env[e].op
    BY <2>1, SupersededOps
  <2>5. ~Live(Superseded(e)[env[e].op].status)
    BY <2>1, SupersededOps
  <2>6. /\ ops'[e][i].status = "queued" /\ ops'[e][i].action = "destroy" /\ ops'[e][i].gen = env[e].gen + 1
        /\ \A j \in OpNo \ {i} : ops'[e][j] = Superseded(e)[j]
    BY <1>4, <2>1, <2>3 DEF TornDown, RetiredOps, Queued
  <2>7. \A j \in OpNo : j > i => ops'[e][j].status = "none"
    BY <1>0, <2>1, <2>4, <2>6 DEF StoreInvAt, OpNo
  <2>8. \A j \in OpNo : j # i => ~Live(ops'[e][j].status)
    BY <1>0, <2>1, <2>4, <2>5, <2>6 DEF StoreInvAt
  <2>9. Shown(ops'[e][i]) = "deleting"
    BY <2>6 DEF Shown
  <2>10. QED
    BY <1>0, <2>1, <2>2, <2>6, <2>7, <2>8, <2>9 DEF StoreInvAt, Exists, Current, OpNo
<1>5. CASE Redeployed(e)
  <2> DEFINE i == env[e].op + 1
  <2>1. i \in OpNo /\ env[e].op \in OpNo /\ Exists(e)
    BY <1>5 DEF Redeployed, StoreInvAt, Shown, Exists
  <2>2. env'[e].op = i /\ env'[e].status = "pending" /\ env'[e].gen = env[e].gen + 1
    BY <1>0, <1>5 DEF Redeployed, Environment
  <2>3. Superseded(e) \in [OpNo -> Operation]
    BY HelperTypes
  <2>4. \A j \in OpNo : Superseded(e)[j] = ops[e][j] \/ j = env[e].op
    BY <2>1, SupersededOps
  <2>5. ~Live(Superseded(e)[env[e].op].status)
    BY <2>1, SupersededOps
  <2>6. /\ ops'[e][i].status = "queued" /\ ops'[e][i].action = "deploy" /\ ops'[e][i].gen = env[e].gen + 1
        /\ \A j \in OpNo \ {i} : ops'[e][j] = Superseded(e)[j]
    BY <1>5, <2>1, <2>3 DEF Redeployed, Queued
  <2>7. \A j \in OpNo : j > i => ops'[e][j].status = "none"
    BY <1>0, <2>1, <2>4, <2>6 DEF StoreInvAt, OpNo
  <2>8. \A j \in OpNo : j # i => ~Live(ops'[e][j].status)
    BY <1>0, <2>1, <2>4, <2>5, <2>6 DEF StoreInvAt
  <2>9. Shown(ops'[e][i]) = "pending"
    BY <2>6 DEF Shown, Live
  <2>10. QED
    BY <1>0, <2>1, <2>2, <2>6, <2>7, <2>8, <2>9 DEF StoreInvAt, Exists, Current, OpNo
<1>6. CASE Requeued(e)
  <2>1. \A j \in OpNo : /\ ops'[e][j].status = IF ops[e][j].status = "running" THEN "queued"
                                                                              ELSE ops[e][j].status
                        /\ ops'[e][j].action = ops[e][j].action /\ ops'[e][j].gen = ops[e][j].gen
    BY <1>0, <1>6 DEF Requeued, Operation
  <2>2. QED
    BY <1>0, <1>6, <2>1 DEF Requeued, StoreInvAt, Shown, Exists, Live, Current
<1>7. CASE Claimed(e)
  <2>1. /\ ops'[e][env[e].op].status = "running"
        /\ ops'[e][env[e].op].action = Current(e).action /\ ops'[e][env[e].op].gen = Current(e).gen
        /\ \A j \in OpNo \ {env[e].op} : ops'[e][j] = ops[e][j]
    BY <1>0, <1>7 DEF Claimed, Operation, Current
  <2>2. QED
    BY <1>0, <1>7, <2>1 DEF Claimed, StoreInvAt, Shown, Exists, Live, Current
<1>8. CASE Finished(e)
  <2>1. PICK ok \in BOOLEAN :
          /\ env'[e] = [env[e] EXCEPT !.status = Outcome(e, env[e].op, ok)]
          /\ ops'[e] = [ops[e] EXCEPT ![env[e].op] =
                          [Current(e) EXCEPT !.status = IF ok THEN "succeeded" ELSE "failed",
                                             !.finishedAt = now]]
    BY <1>8 DEF Finished
  <2>2. env[e].op \in OpNo /\ Current(e) \in Operation /\ Current(e).status = "running" /\ Exists(e)
    BY <1>0, <1>8 DEF Finished, Current, StoreInvAt, OpNo
  <2>3. /\ env'[e].op = env[e].op /\ env'[e].gen = env[e].gen
        /\ env'[e].status = IF Current(e).action = "deploy" THEN (IF ok THEN "ready" ELSE "failed")
                            ELSE (IF ok THEN "deleted" ELSE "deleting")
    BY <1>0, <2>1, <2>2 DEF Outcome, Environment, Operation, Current, StoreInvAt, Shown, Live
  <2>4. /\ ops'[e][env[e].op].status = IF ok THEN "succeeded" ELSE "failed"
        /\ ops'[e][env[e].op].action = Current(e).action
        /\ \A j \in OpNo \ {env[e].op} : ops'[e][j] = ops[e][j]
    BY <1>0, <2>1, <2>2 DEF Operation
  <2>5. Current(e).action \in {"deploy", "destroy"}
    BY <2>2 DEF Operation
  <2>6. QED
    BY <1>0, <2>2, <2>3, <2>4, <2>5 DEF StoreInvAt, Shown, Exists, Live, Current
<1>9. QED
  BY <1>1, <1>2, <1>3, <1>4, <1>5, <1>6, <1>7, <1>8 DEF Changed

\* The store's own bookkeeping is consistent in every reachable state: what an environment
\* shows is how its current operation stands, and only that one is queued or running.
THEOREM StoreInvariant == Spec => [](TypeOK /\ StoreInv)
<1>1. Init => TypeOK
  BY TypeInit
<1>2. Init => StoreInv
  <2> SUFFICES ASSUME Init, TypeOK, NEW e \in Env PROVE StoreInvAt(e)
    BY <1>1, StoreInvPointwise
  <2>1. env[e] = NoEnvironment /\ \A i \in OpNo : ops[e][i] = NoOperation
    BY DEF Init, StoreInit
  <2>2. QED
    BY <2>1, BoundsAssumption DEF NoEnvironment, NoOperation, StoreInvAt, Shown, Exists, Live
<1>3. TypeOK => (StoreInv <=> \A e \in Env : StoreInvAt(e))
  BY StoreInvPointwise
<1>4. (TypeOK => (StoreInv <=> \A e \in Env : StoreInvAt(e)))'
  BY <1>3, PTL
<1>5. TypeOK /\ StoreInv /\ [Next]_vars => TypeOK' /\ StoreInv'
  <2> SUFFICES ASSUME TypeOK, StoreInv, [Next]_vars PROVE TypeOK' /\ StoreInv'
    OBVIOUS
  <2>1. TypeOK'
    BY TypeStep
  <2>2. \A e \in Env : StoreInvAt(e)'
    BY <2>1, StoreInvPointwise, StoreSteps, StoreInvChange
  <2>3. QED
    BY <1>4, <2>1, <2>2
<1>6. QED
  BY <1>1, <1>2, <1>5, PTL DEF Spec

-----------------------------------------------------------------------------
(* Action properties. *)

LEMMA FinalitySteps ==
  ASSUME TypeOK, StoreInv, [Next]_vars, NEW e \in Env
  PROVE  /\ env'[e].gen >= env[e].gen
         /\ env'[e].gen = env[e].gen =>
              /\ env'[e].owner = env[e].owner /\ env'[e].rev = env[e].rev
              /\ env'[e].expiresAt = env[e].expiresAt /\ env'[e].op = env[e].op
         /\ env[e].status = "deleting" => env'[e].status \in {"deleting", "deleted"}
         /\ \A i \in OpNo :
              ops[e][i].status \in {"succeeded", "failed", "superseded"} => ops'[e][i] = ops[e][i]
<1> USE BoundsAssumption
<1>0. /\ env[e] \in Environment /\ env[e].gen \in Nat /\ env[e].op \in 0 .. MaxOps
      /\ ops[e] \in [OpNo -> Operation] /\ StoreInvAt(e) /\ Changed(e)
  BY StoreInvPointwise, StoreSteps DEF TypeOK, StoreTypeOK, Environment
<1>1. CASE Kept(e)
  BY <1>0, <1>1 DEF Kept
<1>2. CASE Created(e)
  BY <1>0, <1>2 DEF Created, StoreInvAt, Exists, OpNo
<1>3. CASE Extended(e)
  <2>1. env'[e].gen = env[e].gen + 1 /\ env[e].status # "deleting"
    BY <1>0, <1>3 DEF Extended, Environment
  <2>2. \A i \in OpNo : ~Live(ops[e][i].status) => ops'[e][i] = ops[e][i]
    BY <1>0, <1>3 DEF Extended, Current
  <2>3. QED
    BY <1>0, <2>1, <2>2 DEF Live
<1>4. CASE TornDown(e)
  <2>1. env'[e].gen = env[e].gen + 1 /\ env'[e].status = "deleting"
    BY <1>0, <1>4 DEF TornDown, Retired, Environment
  <2>2. \A i \in OpNo : i # env[e].op + 1 => ops'[e][i] = Superseded(e)[i]
    BY <1>4, HelperTypes DEF TornDown, RetiredOps
  <2>3. env[e].op \in OpNo /\ ops[e][env[e].op + 1].status = "none"
    BY <1>0, <1>4 DEF TornDown, StoreInvAt, OpNo
  <2>4. QED
    BY <1>0, <2>1, <2>2, <2>3, SupersededOps DEF Live, Current
<1>5. CASE Redeployed(e)
  <2>1. env'[e].gen = env[e].gen + 1 /\ env[e].status # "deleting"
    BY <1>0, <1>5 DEF Redeployed, Environment
  <2>2. \A i \in OpNo : i # env[e].op + 1 => ops'[e][i] = Superseded(e)[i]
    BY <1>5, HelperTypes DEF Redeployed
  <2>3. env[e].op \in OpNo /\ ops[e][env[e].op + 1].status = "none"
    BY <1>0, <1>5 DEF Redeployed, StoreInvAt, Exists, OpNo
  <2>4. QED
    BY <1>0, <2>1, <2>2, <2>3, SupersededOps DEF Live, Current
<1>6. CASE Requeued(e)
  BY <1>0, <1>6 DEF Requeued
<1>7. CASE Claimed(e)
  BY <1>0, <1>7 DEF Claimed, Current
<1>8. CASE Finished(e)
  <2>1. /\ env'[e].gen = env[e].gen /\ env'[e].owner = env[e].owner /\ env'[e].rev = env[e].rev
        /\ env'[e].expiresAt = env[e].expiresAt /\ env'[e].op = env[e].op
    BY <1>0, <1>8 DEF Finished, Environment
  <2>2. env[e].status = "deleting" => env'[e].status \in {"deleting", "deleted"}
    <3>1. SUFFICES ASSUME env[e].status = "deleting"
                   PROVE  env'[e].status \in {"deleting", "deleted"}
      OBVIOUS
    <3>2. Current(e).action = "destroy"
      BY <1>0, <1>8, <3>1 DEF StoreInvAt, Shown, Exists, Finished, Live
    <3>3. QED
      BY <1>0, <1>8, <3>1, <3>2 DEF Finished, Outcome, Current, Environment
  <2>3. \A i \in OpNo : i # env[e].op => ops'[e][i] = ops[e][i]
    BY <1>0, <1>8 DEF Finished
  <2>4. QED
    BY <1>0, <1>8, <2>1, <2>2, <2>3 DEF Finished, Current
<1>9. QED
  BY <1>0, <1>1, <1>2, <1>3, <1>4, <1>5, <1>6, <1>7, <1>8 DEF Changed

\* Nothing brings an environment back once its teardown has started.
THEOREM TeardownFinal == Spec => TeardownIsFinal
<1>1. TypeOK /\ StoreInv /\ [Next]_vars =>
        \A e \in Env : env[e].status = "deleting" => env'[e].status \in {"deleting", "deleted"}
  BY FinalitySteps
<1>2. QED
  BY StoreInvariant, <1>1, PTL DEF Spec, TeardownIsFinal

\* A generation names one version of an environment, and versions only grow.
THEOREM GenerationVersion == Spec => GenerationIsVersion
<1>1. TypeOK /\ StoreInv /\ [Next]_vars =>
        \A e \in Env :
          /\ env'[e].gen >= env[e].gen
          /\ env'[e].gen = env[e].gen =>
               /\ env'[e].owner = env[e].owner /\ env'[e].rev = env[e].rev
               /\ env'[e].expiresAt = env[e].expiresAt /\ env'[e].op = env[e].op
  BY FinalitySteps
<1>2. QED
  BY StoreInvariant, <1>1, PTL DEF Spec, GenerationIsVersion

\* The outcome of an operation is never rewritten.
THEOREM HistoryFinal == Spec => HistoryIsFinal
<1>1. TypeOK /\ StoreInv /\ [Next]_vars =>
        \A e \in Env, i \in OpNo :
          ops[e][i].status \in {"succeeded", "failed", "superseded"} => ops'[e][i] = ops[e][i]
  BY FinalitySteps
<1>2. QED
  BY StoreInvariant, <1>1, PTL DEF Spec, HistoryIsFinal
=============================================================================
