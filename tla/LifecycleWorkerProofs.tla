----------------------- MODULE LifecycleWorkerProofs ------------------------
(***************************************************************************)
(* The worker's invariant and what follows from it, for every instance in  *)
(* which no script survives the server (~OrphansSurvive): the detailed     *)
(* system implements Preview.  And, for every instance, that no stale      *)
(* notice is left to be sent.                                              *)
(***************************************************************************)
EXTENDS LifecycleProofs

-----------------------------------------------------------------------------
\* WorkerInv, of one environment.
WorkerInvAt(e) ==
  /\ orphans[e] = {}
  /\ pc \in {"down", "recover"} => \A i \in OpNo : proc[e][i].st = "none"
  /\ pc \notin {"down", "recover"} =>
       \A i \in OpNo : ops[e][i].status = "running" => proc[e][i].st # "none"
  /\ \A i \in OpNo : proc[e][i].st # "none" =>
       /\ env[e].status \in {"pending", "deleting"}
       /\ ops[e][i].status \in {"running", "superseded"}
       /\ ops[e][i].status = "running" =>
            /\ proc[e][i].rev = env[e].rev
            /\ proc[e][i].st = "ok" => cluster[e] = Goal(ops[e][i].action, env[e].rev)
  /\ \A i, j \in OpNo : proc[e][i].st # "none" /\ proc[e][j].st # "none" => i = j
  /\ env[e].status = "ready"   => cluster[e] = env[e].rev
  /\ env[e].status = "deleted" => cluster[e] = Absent
  /\ env[e].status \in {"ready", "deleted"} => \A i \in OpNo : proc[e][i].st = "none"

LEMMA WorkerInvPointwise ==
  WorkerInv <=> \A e \in Env : WorkerInvAt(e)
<1>1. (Active = {}) <=> \A e \in Env, i \in OpNo : proc[e][i].st = "none"
  <2>1. ASSUME Active = {}, NEW e \in Env, NEW i \in OpNo PROVE proc[e][i].st = "none"
    <3>1. <<e, i>> \notin Active
      BY <2>1
    <3>2. QED
      BY <3>1 DEF Active
  <2>2. ASSUME \A e \in Env, i \in OpNo : proc[e][i].st = "none", NEW o \in Active PROVE FALSE
    BY <2>2 DEF Active
  <2>3. QED
    BY <2>1, <2>2
<1>2. QED
  BY <1>1 DEF WorkerInv, WorkerInvAt, ScriptsServeTheirOperation, OneScriptPerEnvironment, StatusIsTrue

\* What the API and Reconcile leave alone: an operation that runs after them ran before, for
\* the same revision; a superseded one stays so; nothing becomes ready, failed or deleted.
Undisturbed(e) ==
  /\ \A i \in OpNo : ops'[e][i].status = "running" =>
       ops[e][i].status = "running" /\ ops'[e][i].action = ops[e][i].action /\ env'[e].rev = env[e].rev
  /\ \A i \in OpNo : ops[e][i].status \in {"running", "superseded"} =>
       ops'[e][i].status \in {"running", "superseded"}
  /\ \/ env'[e].status \in {"pending", "deleting"}
     \/ env'[e].status = env[e].status /\ env'[e].rev = env[e].rev

LEMMA UndisturbedChanges ==
  ASSUME TypeOK, NEW e \in Env, StoreInvAt(e),
         Kept(e) \/ Created(e) \/ Extended(e) \/ TornDown(e) \/ Redeployed(e)
  PROVE  Undisturbed(e)
<1> USE BoundsAssumption
<1>0. /\ env[e] \in Environment /\ env[e].op \in 0 .. MaxOps
      /\ ops[e] \in [OpNo -> Operation] /\ \A i \in OpNo : ops[e][i] \in Operation
  BY DEF TypeOK, StoreTypeOK, Environment
<1>1. CASE Kept(e)
  BY <1>1 DEF Kept, Undisturbed
<1>2. CASE Created(e)
  <2> DEFINE i == env[e].op + 1
  <2>1. /\ i \in OpNo /\ ops'[e][i].status = "queued" /\ ops[e][i].status = "none"
        /\ \A j \in OpNo \ {i} : ops'[e][j] = ops[e][j]
    BY <1>0, <1>2 DEF Created, Queued, StoreInvAt, OpNo
  <2>2. \A j \in OpNo : ops[e][j].status # "running"
    BY <1>0, <1>2 DEF Created, StoreInvAt, Shown, Exists, Live, Current, OpNo
  <2>3. env'[e].status = "pending"
    BY <1>2 DEF Created
  <2>4. QED
    BY <2>1, <2>2, <2>3 DEF Undisturbed
<1>3. CASE Extended(e)
  <2>1. env[e].op \in OpNo
    BY <1>3 DEF Extended, StoreInvAt, Exists
  <2>2. env'[e].status = env[e].status /\ env'[e].rev = env[e].rev
    BY <1>0, <1>3 DEF Extended, Environment
  <2>3. \A j \in OpNo : ops'[e][j].status = ops[e][j].status /\ ops'[e][j].action = ops[e][j].action
    <3>1. CASE Live(Current(e).status)
      <4>1. ops'[e] = [ops[e] EXCEPT ![env[e].op].gen = env[e].gen + 1]
        BY <1>3, <3>1 DEF Extended
      <4>2. QED
        BY <1>0, <2>1, <4>1 DEF Operation
    <3>2. CASE ~Live(Current(e).status)
      BY <1>3, <3>2 DEF Extended
    <3>3. QED
      BY <3>1, <3>2
  <2>4. QED
    BY <2>2, <2>3 DEF Undisturbed
<1>4. ASSUME NEW s \in {"deleting", "pending"}, env'[e].status = s, env[e].op \in OpNo,
             env[e].op + 1 \in OpNo, ops'[e][env[e].op + 1].status = "queued",
             \A j \in OpNo \ {env[e].op + 1} : ops'[e][j] = Superseded(e)[j]
      PROVE  Undisturbed(e)
  <2>1. ops[e][env[e].op + 1].status = "none"
    BY <1>0, <1>4 DEF StoreInvAt, OpNo
  <2>2. \A j \in OpNo : ops'[e][j].status # "running"
    <3>1. \A j \in OpNo : j # env[e].op => ops[e][j].status # "running"
      BY <1>0 DEF StoreInvAt, Live
    <3>2. QED
      BY <1>4, <3>1, SupersededOps DEF Live
  <2>3. QED
    BY <1>0, <1>4, <2>1, <2>2, SupersededOps DEF Undisturbed, Live, Current
<1>5. CASE TornDown(e)
  <2>1. env'[e].status = "deleting" /\ env[e].op + 1 \in OpNo /\ env[e].op \in OpNo
    BY <1>0, <1>5 DEF TornDown, Retired, Environment, StoreInvAt
  <2>2. /\ ops'[e][env[e].op + 1].status = "queued"
        /\ \A j \in OpNo \ {env[e].op + 1} : ops'[e][j] = Superseded(e)[j]
    BY <1>5, <2>1, HelperTypes DEF TornDown, RetiredOps, Queued
  <2>3. QED
    BY <1>4, <2>1, <2>2
<1>6. CASE Redeployed(e)
  <2>1. env'[e].status = "pending" /\ env[e].op + 1 \in OpNo /\ env[e].op \in OpNo
    BY <1>0, <1>6 DEF Redeployed, Environment, StoreInvAt, Exists
  <2>2. /\ ops'[e][env[e].op + 1].status = "queued"
        /\ \A j \in OpNo \ {env[e].op + 1} : ops'[e][j] = Superseded(e)[j]
    <3>1. Superseded(e) \in [OpNo -> Operation]
      BY HelperTypes
    <3>2. ops'[e] = [Superseded(e) EXCEPT ![env[e].op + 1] = Queued("deploy", env[e].gen + 1, TRUE)]
      BY <1>6 DEF Redeployed
    <3>3. QED
      BY <2>1, <3>1, <3>2 DEF Queued
  <2>3. QED
    BY <1>4, <2>1, <2>2
<1>7. QED
  BY <1>1, <1>2, <1>3, <1>5, <1>6

LEMMA UndisturbedInv ==
  ASSUME NEW e \in Env, WorkerInvAt(e), Undisturbed(e), UNCHANGED <<proc, orphans, cluster>>,
         pc \in {"down", "recover"} <=> pc' \in {"down", "recover"}
  PROVE  WorkerInvAt(e)'
BY DEF WorkerInvAt, Undisturbed

\* Cancelling changes no entry but from running to cancelled.
LEMMA CancellingEntries ==
  ASSUME TypeOK, NEW doomed, NEW e \in Env, NEW i \in OpNo
  PROVE  /\ Cancelling(doomed)[e][i].rev = proc[e][i].rev
         /\ Cancelling(doomed)[e][i].st = "none" <=> proc[e][i].st = "none"
         /\ Cancelling(doomed)[e][i].st = "ok" <=> proc[e][i].st = "ok"
<1>1. proc[e][i] \in Proc
  BY DEF TypeOK, WorkerTypeOK
<1>2. QED
  BY <1>1 DEF Cancelling, Proc

-----------------------------------------------------------------------------
(* Steps. *)

\* Steps of the server that leave the store alone.
LEMMA ProcessSteps ==
  ASSUME ~OrphansSurvive, TypeOK, NEW e \in Env, WorkerInvAt(e),
         Start \/ TickCancel \/ TickEnd \/ Shutdown \/ Leave \/ Exit \/ Crash
  PROVE  WorkerInvAt(e)'
<1>1. CASE Start
  BY <1>1 DEF Start, storeVars, WorkerInvAt
<1>2. CASE TickEnd \/ Leave
  BY <1>2 DEF TickEnd, Leave, storeVars, WorkerInvAt
<1>3. ASSUME NEW doomed, proc' = Cancelling(doomed), UNCHANGED <<storeVars, orphans, cluster>>,
             pc \in {"down", "recover"} <=> pc' \in {"down", "recover"}
      PROVE  WorkerInvAt(e)'
  BY <1>3, CancellingEntries DEF storeVars, WorkerInvAt
<1>4. CASE TickCancel
  BY <1>3, <1>4 DEF TickCancel
<1>5. CASE Shutdown
  BY <1>3, <1>5 DEF Shutdown
<1>6. CASE Exit \/ Crash
  <2>1. /\ pc' = "down" /\ UNCHANGED <<env, ops, cluster>> /\ orphans'[e] = {}
        /\ \A i \in OpNo : proc'[e][i].st = "none"
    <3>1. CASE Exit
      BY <3>1 DEF Exit, storeVars, WorkerInvAt, NoProc
    <3>2. CASE Crash
      BY <3>2 DEF Crash, storeVars, WorkerInvAt, NoProc
    <3>3. QED
      BY <1>6, <3>1, <3>2
  <2>2. QED
    BY <2>1 DEF WorkerInvAt
<1>7. QED
  BY <1>1, <1>2, <1>4, <1>5, <1>6

\* Scripts: one works for the current operation, or for none that still counts.
LEMMA ScriptSteps ==
  ASSUME TypeOK, NEW e \in Env, WorkerInvAt(e), NEW f \in Env, NEW i \in OpNo,
         ScriptWrites(f, i) \/ ScriptSucceeds(f, i) \/ ScriptFails(f, i)
  PROVE  WorkerInvAt(e)'
<1>0. /\ proc \in [Env -> [OpNo -> Proc]] /\ cluster \in [Env -> Content]
  BY DEF TypeOK, WorkerTypeOK
<1>1. UNCHANGED <<env, ops, pc, orphans>> /\ Executing(f, i)
  BY DEF ScriptWrites, ScriptSucceeds, ScriptFails, storeVars, workerVars
<1>2. CASE f # e
  <2>1. proc'[e] = proc[e] /\ cluster'[e] = cluster[e]
    BY <1>0, <1>2 DEF ScriptWrites, ScriptSucceeds, ScriptFails, workerVars
  <2>2. QED
    BY <1>1, <2>1 DEF WorkerInvAt
<1>3. CASE f = e
  <2>1. env[e].status \notin {"ready", "deleted"} /\ proc[e][i].st \notin {"none", "ok"}
    BY <1>1, <1>3 DEF WorkerInvAt, Executing
  <2>2. \A j \in OpNo : j # i => proc'[e][j] = proc[e][j] /\ proc[e][j].st = "none"
    <3>1. \A j \in OpNo : j # i => proc[e][j].st = "none"
      BY <2>1 DEF WorkerInvAt
    <3>2. QED
      BY <1>0, <1>3, <3>1 DEF ScriptWrites, ScriptSucceeds, ScriptFails, workerVars
  <2>3. /\ proc'[e][i].rev = proc[e][i].rev /\ proc'[e][i].st # "none"
        /\ proc'[e][i].st = "ok" => cluster'[e] = Goal(ops[e][i].action, proc[e][i].rev)
    <3>0. proc[e][i] \in Proc
      BY <1>0
    <3>1. CASE ScriptWrites(f, i)
      BY <2>1, <3>1, <1>3 DEF ScriptWrites, workerVars
    <3>2. CASE ScriptSucceeds(f, i)
      BY <1>0, <1>3, <3>0, <3>2 DEF ScriptSucceeds, Proc
    <3>3. CASE ScriptFails(f, i)
      <4>1. PICK s \in {"killed", "err"} : proc' = [proc EXCEPT ![e][i] = [proc[e][i] EXCEPT !.st = s]]
        BY <1>3, <3>3 DEF ScriptFails
      <4>2. QED
        BY <1>0, <3>0, <4>1 DEF Proc
    <3>4. QED
      BY <3>1, <3>2, <3>3
  <2>4. QED
    BY <1>1, <2>1, <2>2, <2>3 DEF WorkerInvAt
<1>4. QED
  BY <1>2, <1>3

\* Recover runs while the worker holds nothing: what is running is queued again.
LEMMA RecoverInv ==
  ASSUME TypeOK, NEW e \in Env, WorkerInvAt(e), RecoverStep
  PROVE  WorkerInvAt(e)'
<1>1. /\ UNCHANGED <<env, proc, orphans, cluster>> /\ pc = "recover" /\ pc' = "select"
  BY DEF RecoverStep, Recover
<1>2. \A i \in OpNo : ops[e][i] \in Operation
  BY DEF TypeOK, StoreTypeOK
<1>3. \A i \in OpNo : ops'[e][i].status # "running"
  BY <1>2 DEF RecoverStep, Recover, Operation
<1>4. QED
  BY <1>1, <1>3 DEF WorkerInvAt

\* Taking a result: it is believed only when its operation still runs, and then the
\* namespace is what it says.
LEMMA TakeResultInv ==
  ASSUME TypeOK, NEW e \in Env, StoreInvAt(e), WorkerInvAt(e), NEW f \in Env, NEW i \in OpNo,
         TakeResult(f, i)
  PROVE  WorkerInvAt(e)'
<1>0. /\ proc \in [Env -> [OpNo -> Proc]] /\ env \in [Env -> Environment] /\ ops \in [Env -> [OpNo -> Operation]]
      /\ \A j \in OpNo : ops[e][j] \in Operation
  BY DEF TypeOK, WorkerTypeOK, StoreTypeOK
<1>1. UNCHANGED <<pc, orphans, cluster>> /\ pc = "select" /\ Result(f, i) /\ proc' = [proc EXCEPT ![f][i] = NoProc]
  BY DEF TakeResult
<1>2. Finish(f, i, proc[f][i].st = "ok")
  BY DEF TakeResult
<1>3. CASE f # e
  <2>1. proc'[e] = proc[e] /\ env'[e] = env[e] /\ ops'[e] = ops[e]
    BY <1>0, <1>1, <1>2, <1>3 DEF Finish, storeVars
  <2>2. QED
    BY <1>1, <2>1 DEF WorkerInvAt
<1>4. CASE f = e
  <2>1. proc[e][i].st # "none" /\ \A j \in OpNo : proc'[e][j].st = "none"
    BY <1>0, <1>1, <1>4 DEF Result, NoProc, WorkerInvAt
  <2>2. CASE Accepts(e, i)
    <3>1. /\ env'[e] = [env[e] EXCEPT !.status = Outcome(e, i, proc[e][i].st = "ok")]
          /\ ops'[e][i].status \in {"succeeded", "failed"}
          /\ \A j \in OpNo \ {i} : ops'[e][j] = ops[e][j]
      <4>1. PICK s \in {"succeeded", "failed"} :
              ops' = [ops EXCEPT ![e][i] = [ops[e][i] EXCEPT !.status = s, !.finishedAt = now]]
        BY <1>2, <1>4, <2>2 DEF Finish
      <4>2. env' = [env EXCEPT ![e] = [env[e] EXCEPT !.status = Outcome(e, i, proc[e][i].st = "ok")]]
        BY <1>2, <1>4, <2>2 DEF Finish
      <4>3. QED
        BY <1>0, <4>1, <4>2 DEF Operation
    <3>2. env'[e].status = Outcome(e, i, proc[e][i].st = "ok") /\ env'[e].rev = env[e].rev
      BY <1>0, <3>1 DEF Environment
    <3>3. \A j \in OpNo : ops'[e][j].status # "running"
      BY <2>2, <3>1 DEF StoreInvAt, Live, Accepts
    <3>4. ops[e][i].action \in {"deploy", "destroy"} /\ ops[e][i].status = "running"
      BY <1>0, <2>2 DEF Accepts, Operation
    <3>5. ops[e][i].action = "destroy" => env[e].status = "deleting"
      BY <2>2, <3>4 DEF StoreInvAt, Shown, Accepts, Exists, Current, OpNo
    <3>6. env'[e].status = "ready" => cluster[e] = env[e].rev
      BY <2>1, <3>2, <3>4, <3>5 DEF Outcome, WorkerInvAt, Goal
    <3>7. env'[e].status = "deleted" => cluster[e] = Absent
      BY <2>1, <3>2, <3>4, <3>5 DEF Outcome, WorkerInvAt, Goal
    <3>8. QED
      BY <1>1, <2>1, <3>2, <3>3, <3>6, <3>7 DEF WorkerInvAt
  <2>3. CASE ~Accepts(e, i)
    <3>1. UNCHANGED <<env, ops>>
      BY <1>2, <1>4, <2>3 DEF Finish, storeVars
    <3>2. ops[e][i].status # "running"
      BY <2>3 DEF Accepts, StoreInvAt, Live
    <3>3. \A j \in OpNo : ops[e][j].status # "running"
      BY <1>1, <2>1, <3>2 DEF WorkerInvAt
    <3>4. QED
      BY <1>1, <2>1, <3>1, <3>3 DEF WorkerInvAt
  <2>4. QED
    BY <2>2, <2>3
<1>5. QED
  BY <1>3, <1>4

\* Claiming: the environment has no script left, and the new one gets its revision.
LEMMA ClaimInv ==
  ASSUME TypeOK, NEW e \in Env, StoreInvAt(e), WorkerInvAt(e), NEW f \in Env, NEW i \in OpNo,
         TickClaim(f, i)
  PROVE  WorkerInvAt(e)'
<1>0. /\ proc \in [Env -> [OpNo -> Proc]] /\ ops \in [Env -> [OpNo -> Operation]]
      /\ \A j \in OpNo : ops[e][j] \in Operation
  BY DEF TypeOK, WorkerTypeOK, StoreTypeOK
<1>1. /\ UNCHANGED <<env, pc, orphans, cluster>> /\ pc = "claim"
      /\ <<f, i>> \in Claimable(Busy)
      /\ ops' = [ops EXCEPT ![f][i] = [ops[f][i] EXCEPT !.status = "running"]]
  BY DEF TickClaim, Claim
<1>2. PICK s \in {"killed", "running"} : proc' = [proc EXCEPT ![f][i] = [st |-> s, rev |-> env[f].rev]]
  BY DEF TickClaim
<1>3. CASE f # e
  <2>1. proc'[e] = proc[e] /\ ops'[e] = ops[e]
    BY <1>0, <1>1, <1>2, <1>3
  <2>2. env'[e] = env[e] /\ orphans'[e] = orphans[e] /\ cluster'[e] = cluster[e] /\ pc' = pc
    BY <1>1
  <2>3. QED
    BY <2>1, <2>2 DEF WorkerInvAt
<1>4. CASE f = e
  <2>1. ops[e][i].status = "queued" /\ env[e].op = i /\ e \notin Busy
    BY <1>1, <1>4 DEF Claimable
  <2>2. \A j \in OpNo : proc[e][j].st = "none"
    <3>1. SUFFICES ASSUME NEW j \in OpNo, proc[e][j].st # "none" PROVE e \in Busy
      BY <2>1
    <3>2. <<e, j>> \in Active
      BY <3>1 DEF Active
    <3>3. QED
      BY <3>2 DEF Busy
  <2>3. env[e].status \in {"pending", "deleting"}
    BY <1>0, <2>1 DEF StoreInvAt, Shown, Exists, Current, Live, Operation, OpNo
  <2>4. /\ proc'[e][i].st = s /\ proc'[e][i].rev = env[e].rev /\ ops'[e][i].status = "running"
        /\ \A j \in OpNo \ {i} : proc'[e][j].st = "none" /\ ops'[e][j] = ops[e][j]
    BY <1>0, <1>1, <1>2, <1>4, <2>2 DEF Operation
  <2>5. \A j \in OpNo \ {i} : ops[e][j].status # "running"
    BY <2>1 DEF StoreInvAt, Live
  <2>6. QED
    BY <1>1, <2>2, <2>3, <2>4, <2>5 DEF WorkerInvAt
<1>5. QED
  BY <1>3, <1>4

LEMMA WorkerStep ==
  ASSUME ~OrphansSurvive, TypeOK, StoreInv, WorkerInv, [Next]_vars, NEW e \in Env
  PROVE  WorkerInvAt(e)'
<1>0. StoreInvAt(e) /\ \A f \in Env : WorkerInvAt(f)
  BY StoreInvPointwise, WorkerInvPointwise
<1>1. CASE Api
  <2>1. UNCHANGED <<proc, orphans, cluster, pc>>
    BY <1>1 DEF Api, workerVars
  <2>2. Undisturbed(e)
    <3>1. CASE \E n \in notices : Acknowledge(n)
      BY <1>0, <3>1, UndisturbedChanges DEF Acknowledge, Kept
    <3>2. CASE \E u \in User, f \in Env : ApiCall(u, f)
      BY <1>0, <3>2, ApiChanges, UndisturbedChanges
    <3>3. QED
      BY <1>1, <3>1, <3>2 DEF Api
  <2>3. QED
    BY <1>0, <2>1, <2>2, UndisturbedInv
<1>2. CASE TickReconcile
  <2>1. Undisturbed(e)
    BY <1>0, <1>2, ReconcileChanges, UndisturbedChanges DEF TickReconcile
  <2>2. QED
    BY <1>0, <1>2, <2>1, UndisturbedInv DEF TickReconcile
<1>3. CASE Start \/ TickCancel \/ TickEnd \/ Shutdown \/ Leave \/ Exit \/ Crash
  BY <1>0, <1>3, ProcessSteps
<1>4. CASE RecoverStep
  BY <1>0, <1>4, RecoverInv
<1>5. CASE \E f \in Env, i \in OpNo : TakeResult(f, i)
  BY <1>0, <1>5, TakeResultInv
<1>6. CASE \E f \in Env, i \in OpNo : TickClaim(f, i)
  BY <1>0, <1>6, ClaimInv
<1>7. CASE Scripts
  <2>1. CASE \E f \in Env, i \in OpNo : ScriptWrites(f, i) \/ ScriptSucceeds(f, i) \/ ScriptFails(f, i)
    BY <1>0, <2>1, ScriptSteps
  <2>2. CASE \E f \in Env : orphans[f] # {}
    BY <1>0, <2>2 DEF WorkerInvAt
  <2>3. QED
    BY <1>7, <2>1, <2>2 DEF Scripts
<1>8. CASE Advance \/ UNCHANGED vars
  <2>1. UNCHANGED <<env, ops, pc, proc, orphans, cluster>>
    BY <1>8 DEF Advance, vars, storeVars, workerVars
  <2>2. QED
    BY <1>0, <2>1 DEF WorkerInvAt
<1>9. QED
  BY <1>1, <1>2, <1>3, <1>4, <1>5, <1>6, <1>7, <1>8 DEF Next, Server

-----------------------------------------------------------------------------
\* Where scripts die with their server, the worker's table and the namespaces follow the
\* store through every interleaving, restart and late result.
THEOREM WorkerInvariant ==
  ASSUME ~OrphansSurvive
  PROVE  Spec => [](TypeOK /\ StoreInv /\ WorkerInv)
<1>1. Init => WorkerInv
  <2> SUFFICES ASSUME Init, NEW e \in Env PROVE WorkerInvAt(e)
    BY WorkerInvPointwise
  <2> QED
    BY DEF Init, StoreInit, WorkerInit, NoEnvironment, NoProc, WorkerInvAt
<1>2. WorkerInv <=> \A e \in Env : WorkerInvAt(e)
  BY WorkerInvPointwise
<1>3. (WorkerInv <=> \A e \in Env : WorkerInvAt(e))'
  BY <1>2, PTL
<1>4. TypeOK /\ StoreInv /\ WorkerInv /\ [Next]_vars => WorkerInv'
  BY <1>3, WorkerStep
<1>5. QED
  BY StoreInvariant, <1>1, <1>4, PTL DEF Spec

\* Never two scripts on one namespace.
THEOREM OneScript == ASSUME ~OrphansSurvive PROVE Spec => []OneScriptPerEnvironment
<1>1. WorkerInv => OneScriptPerEnvironment
  BY DEF WorkerInv
<1>2. QED
  BY WorkerInvariant, <1>1, PTL

\* "Ready" and "deleted" are true of the namespace.
THEOREM StatusTrue == ASSUME ~OrphansSurvive PROVE Spec => []StatusIsTrue
<1>1. WorkerInv => StatusIsTrue
  BY DEF WorkerInv
<1>2. QED
  BY WorkerInvariant, <1>1, PTL

\* While the worker loops, every running operation is in its hands.
THEOREM RunningActive == ASSUME ~OrphansSurvive PROVE Spec => []RunningIsActive
<1>1. WorkerInv => RunningIsActive
  BY DEF WorkerInv, RunningIsActive, ScriptsServeTheirOperation
<1>2. QED
  BY WorkerInvariant, <1>1, PTL

-----------------------------------------------------------------------------
(* Refinement. *)

\* The revision an environment is asked to hold, as the refinement mapping has it.
Want == [e \in Env |-> IF env[e].status \in {"none", "deleting", "deleted"} THEN Absent ELSE env[e].rev]

Status == [e \in Env |-> env[e].status]

\* Preview does not see what changes neither the wish, nor the status, nor the namespaces.
Unseen == UNCHANGED <<Want, Status, cluster>>

LEMMA UnseenStep ==
  ASSUME Unseen
  PROVE  [Promise!Next]_(Promise!vars)
BY DEF Unseen, Want, Status, Promise!vars

LEMMA AskStep ==
  ASSUME TypeOK, TypeOK', NEW e \in Env, NEW r \in Rev,
         env[e].status # "deleting", env'[e].status = "pending", env'[e].rev = r,
         \A f \in Env \ {e} : env'[f] = env[f], UNCHANGED cluster
  PROVE  [Promise!Next]_(Promise!vars)
<1>1. Promise!Ask(e, r)
  BY DEF Promise!Ask
<1>2. QED
  BY <1>1 DEF Promise!Next

LEMMA RetireStep ==
  ASSUME TypeOK, TypeOK', NEW E \in SUBSET Env,
         \A e \in E : env[e].status # "none" /\ env'[e].status = "deleting",
         \A e \in Env \ E : env'[e] = env[e], UNCHANGED cluster
  PROVE  [Promise!Next]_(Promise!vars)
<1>1. Promise!Retire(E)
  BY DEF Promise!Retire
<1>2. QED
  BY <1>1 DEF Promise!Next

LEMMA WorkStep ==
  ASSUME TypeOK, NEW e \in Env, NEW c \in Content,
         env[e].status \in {"pending", "deleting"}, UNCHANGED env,
         cluster' = [cluster EXCEPT ![e] = c]
  PROVE  [Promise!Next]_(Promise!vars)
<1>1. Promise!Work(e, c)
  BY DEF Promise!Work
<1>2. QED
  BY <1>1 DEF Promise!Next, Promise!Content, Content

LEMMA SucceedStep ==
  ASSUME TypeOK, TypeOK', NEW e \in Env, UNCHANGED cluster,
         \/ env[e].status = "pending" /\ env'[e].status = "ready"
              /\ env'[e].rev = env[e].rev /\ cluster[e] = env[e].rev
         \/ env[e].status = "deleting" /\ env'[e].status = "deleted" /\ cluster[e] = Absent,
         \A f \in Env \ {e} : env'[f] = env[f]
  PROVE  [Promise!Next]_(Promise!vars)
<1>1. Promise!Succeed(e)
  BY DEF Promise!Succeed
<1>2. QED
  BY <1>1 DEF Promise!Next

LEMMA FailStep ==
  ASSUME TypeOK, TypeOK', NEW e \in Env, UNCHANGED cluster,
         env[e].status = "pending", env'[e].status = "failed", env'[e].rev = env[e].rev,
         \A f \in Env \ {e} : env'[f] = env[f]
  PROVE  [Promise!Next]_(Promise!vars)
<1>1. Promise!Fail(e)
  BY DEF Promise!Fail
<1>2. QED
  BY <1>1 DEF Promise!Next

\* Creations and redeployments ask, deletions retire; extensions are not seen.
LEMMA ApiPromise ==
  ASSUME TypeOK, TypeOK', NEW u \in User, NEW f \in Env, ApiCall(u, f), UNCHANGED cluster
  PROVE  [Promise!Next]_(Promise!vars)
<1>0. env \in [Env -> Environment] /\ env[f] \in Environment /\ env[f].status \in EnvStatus
  BY DEF TypeOK, StoreTypeOK, Environment
<1>1. ASSUME NEW k \in Key, NEW r \in Rev, NEW w \in Warm, Create(u, k, f, r, w)
      PROVE  [Promise!Next]_(Promise!vars)
  <2>1. /\ env[f].status # "deleting" /\ env'[f].status = "pending" /\ env'[f].rev = r
        /\ \A e \in Env \ {f} : env'[e] = env[e]
    BY <1>0, <1>1 DEF Create, Exists
  <2>2. QED
    BY <2>1, AskStep
<1>2. ASSUME NEW mode \in {"add", "from-now"}, NEW m \in Minutes, NEW g \in 1 .. MaxGen,
             Extend(u, f, mode, m, g)
      PROVE  [Promise!Next]_(Promise!vars)
  <2>1. PICK n : env' = [env EXCEPT ![f] = [env[f] EXCEPT !.expiresAt = n, !.gen = env[f].gen + 1]]
    BY <1>2 DEF Extend
  <2>2. \A e \in Env : env'[e].status = env[e].status /\ env'[e].rev = env[e].rev
    BY <1>0, <2>1 DEF Environment
  <2>3. QED
    BY <2>2, UnseenStep DEF Unseen, Want, Status
<1>3. CASE ConfirmDelete(u, f)
  BY <1>3, UnseenStep DEF ConfirmDelete, Unseen, Want, Status
<1>4. ASSUME NEW c \in confs, Delete(u, f, c)
      PROVE  [Promise!Next]_(Promise!vars)
  <2>1. env' = [env EXCEPT ![f] = Retired(f)] /\ env[f].status # "none"
    BY <1>4 DEF Delete, Exists
  <2>2. env'[f].status = "deleting" /\ \A e \in Env \ {f} : env'[e] = env[e]
    BY <1>0, <2>1 DEF Retired, Environment
  <2>3. {f} \in SUBSET Env /\ \A e \in {f} : env[e].status # "none" /\ env'[e].status = "deleting"
    BY <2>1, <2>2
  <2>4. QED
    BY <2>2, <2>3, RetireStep
<1>5. ASSUME NEW r \in Rev, NEW g \in 1 .. MaxGen + MaxOps, Redeploy(u, f, r, g)
      PROVE  [Promise!Next]_(Promise!vars)
  <2>1. env' = [env EXCEPT ![f] = [env[f] EXCEPT !.rev = r, !.status = "pending",
                                                 !.gen = env[f].gen + 1, !.op = env[f].op + 1]]
        /\ env[f].status # "deleting"
    BY <1>5 DEF Redeploy
  <2>2. /\ env'[f].status = "pending" /\ env'[f].rev = r
        /\ \A e \in Env \ {f} : env'[e] = env[e]
    BY <1>0, <2>1 DEF Environment
  <2>3. QED
    BY <2>1, <2>2, AskStep
<1>6. QED
  BY <1>1, <1>2, <1>3, <1>4, <1>5 DEF ApiCall

LEMMA ReconcilePromise ==
  ASSUME TypeOK, TypeOK', Reconcile, UNCHANGED cluster
  PROVE  [Promise!Next]_(Promise!vars)
<1> DEFINE torn == {e \in Env : MustExpire(e) \/ MustRetry(e)}
<1>0. \A e \in Env : env[e] \in Environment
  BY DEF TypeOK, StoreTypeOK
<1>1. \A e \in torn : env'[e] = Retired(e) /\ env[e].status # "none"
  BY DEF Reconcile, MustExpire, MustRetry
<1>2. \A e \in torn : env[e].status # "none" /\ env'[e].status = "deleting"
  BY <1>0, <1>1 DEF Retired, Environment
<1>3. torn \in SUBSET Env /\ \A e \in Env \ torn : env'[e] = env[e]
  BY DEF Reconcile
<1>4. QED
  BY <1>2, <1>3, RetireStep

\* A result that is accepted says what the namespace holds.
LEMMA TakeResultPromise ==
  ASSUME TypeOK, TypeOK', StoreInv, WorkerInv, NEW f \in Env, NEW i \in OpNo, TakeResult(f, i)
  PROVE  [Promise!Next]_(Promise!vars)
<1> DEFINE ok == proc[f][i].st = "ok"
<1>0. /\ env \in [Env -> Environment] /\ ops[f][i] \in Operation
      /\ StoreInvAt(f) /\ WorkerInvAt(f)
  BY StoreInvPointwise, WorkerInvPointwise DEF TypeOK, StoreTypeOK
<1>1. Finish(f, i, ok) /\ UNCHANGED cluster
  BY DEF TakeResult
<1>2. CASE ~Accepts(f, i)
  BY <1>1, <1>2, UnseenStep DEF Finish, storeVars, Unseen, Want, Status
<1>3. CASE Accepts(f, i)
  <2>1. env' = [env EXCEPT ![f] = [env[f] EXCEPT !.status = Outcome(f, i, ok)]]
    BY <1>1, <1>3 DEF Finish
  <2>2. /\ env'[f].status = Outcome(f, i, ok) /\ env'[f].rev = env[f].rev
        /\ \A e \in Env \ {f} : env'[e] = env[e]
    BY <1>0, <2>1 DEF Environment
  <2>3. env[f].status = IF ops[f][i].action = "deploy" THEN "pending" ELSE "deleting"
    BY <1>0, <1>3 DEF Accepts, StoreInvAt, Shown, Exists, Current, Live, OpNo, Operation
  <2>4. ok => cluster[f] = Goal(ops[f][i].action, env[f].rev)
    BY <1>0, <1>3 DEF Accepts, WorkerInvAt
  <2>5. ops[f][i].action \in {"deploy", "destroy"}
    BY <1>0 DEF Operation
  <2>6. CASE ok
    BY <1>1, <2>2, <2>3, <2>4, <2>5, <2>6, SucceedStep DEF Outcome, Goal
  <2>7. CASE ~ok /\ ops[f][i].action = "deploy"
    BY <1>1, <2>2, <2>3, <2>7, FailStep DEF Outcome
  <2>8. CASE ~ok /\ ops[f][i].action = "destroy"
    <3>1. \A e \in Env : env'[e].status = env[e].status /\ env'[e].rev = env[e].rev
      BY <2>2, <2>8 DEF Outcome
    <3>2. QED
      BY <1>1, <3>1, UnseenStep DEF Unseen, Want, Status
  <2>9. QED
    BY <2>5, <2>6, <2>7, <2>8
<1>4. QED
  BY <1>2, <1>3

\* A script works only on an environment that is on its way.
LEMMA ScriptPromise ==
  ASSUME TypeOK, WorkerInv, NEW e \in Env, NEW i \in OpNo,
         ScriptWrites(e, i) \/ ScriptSucceeds(e, i) \/ ScriptFails(e, i)
  PROVE  [Promise!Next]_(Promise!vars)
<1>1. env[e].status \in {"pending", "deleting"} /\ UNCHANGED env
  BY WorkerInvPointwise
     DEF WorkerInvAt, Executing, ScriptWrites, ScriptSucceeds, ScriptFails, storeVars
<1>2. cluster[e] \in Content /\ Partial \in Content /\ proc[e][i] \in Proc
  BY DEF TypeOK, WorkerTypeOK, Content
<1>3. Goal(ops[e][i].action, proc[e][i].rev) \in Content
  BY <1>2 DEF Goal, Proc, Content
<1>4. PICK c \in Content : cluster' = [cluster EXCEPT ![e] = c]
  BY <1>2, <1>3 DEF ScriptWrites, ScriptSucceeds, ScriptFails
<1>5. QED
  BY <1>1, <1>4, WorkStep

LEMMA PromiseStep ==
  ASSUME ~OrphansSurvive, TypeOK, TypeOK', StoreInv, WorkerInv, [Next]_vars
  PROVE  [Promise!Next]_(Promise!vars)
<1>u. UNCHANGED <<env, cluster>> => [Promise!Next]_(Promise!vars)
  BY UnseenStep DEF Unseen, Want, Status
<1>1. CASE Api
  <2>1. CASE \E n \in notices : Acknowledge(n)
    BY <1>1, <1>u, <2>1 DEF Api, Acknowledge
  <2>2. CASE \E u \in User, e \in Env : ApiCall(u, e)
    BY <1>1, <2>2, ApiPromise DEF Api
  <2>3. QED
    BY <1>1, <2>1, <2>2 DEF Api
<1>2. CASE TickReconcile
  BY <1>2, ReconcilePromise DEF TickReconcile
<1>3. CASE \E e \in Env, i \in OpNo : TakeResult(e, i)
  BY <1>3, TakeResultPromise
<1>4. CASE \E e \in Env, i \in OpNo : TickClaim(e, i)
  BY <1>4, <1>u DEF TickClaim, Claim
<1>5. CASE \/ RecoverStep \/ Start \/ TickCancel \/ TickEnd \/ Shutdown \/ Leave \/ Exit \/ Crash
           \/ Advance \/ UNCHANGED vars
  BY <1>5, <1>u DEF RecoverStep, Recover, Start, TickCancel, TickEnd, Shutdown, Leave, Exit, Crash,
                    Advance, vars, storeVars
<1>6. CASE Scripts
  <2>1. \A e \in Env : orphans[e] = {}
    BY DEF WorkerInv
  <2>2. QED
    BY <1>6, <2>1, ScriptPromise DEF Scripts
<1>7. QED
  BY <1>1, <1>2, <1>3, <1>4, <1>5, <1>6 DEF Next, Server

\* The server, with its queue, cancellations, restarts and late results, implements the
\* promise: what it calls ready or deleted is so, and nothing else is visible.
THEOREM Refinement == ASSUME ~OrphansSurvive PROVE Spec => PromiseKept
<1>1. Init => Promise!Init
  BY DEF Init, StoreInit, WorkerInit, NoEnvironment, Promise!Init
<1>2. TypeOK /\ TypeOK' /\ StoreInv /\ WorkerInv /\ [Next]_vars => [Promise!Next]_(Promise!vars)
  BY PromiseStep
<1>3. QED
  BY <1>1, <1>2, WorkerInvariant, PTL DEF Spec, PromiseKept, Promise!Spec

-----------------------------------------------------------------------------
(* Notices. *)

Pending == notices \ (cancelled \cup delivered)

\* PendingNoticesAreCurrent, of one notice.
IsCurrent(n) ==
  /\ n.ref = IF n.kind = "expiring" THEN env[n.env].expiresAt ELSE env[n.env].op
  /\ n.kind = "expiring" => env[n.env].status \in {"pending", "ready", "failed"}
  /\ n.kind = "late" => env[n.env].status = "pending"
  /\ n.kind = "cleanup-failed" => env[n.env].status = "deleting"
  /\ n.kind \in {"ready", "failed", "deleted"} => env[n.env].status = n.kind

LEMMA NoticesPointwise == PendingNoticesAreCurrent <=> \A n \in Pending : IsCurrent(n)
BY DEF PendingNoticesAreCurrent, Pending, IsCurrent

\* A transaction that cancels the notices of the environments it changes.
LEMMA CancelledWithChange ==
  ASSUME TypeOK, NEW E \in SUBSET Env, \A n \in Pending : IsCurrent(n), NEW n \in Pending',
         n \in notices, delivered \subseteq delivered', cancelled \cup NoticesOf(E) \subseteq cancelled',
         \A e \in Env \ E : env'[e] = env[e]
  PROVE  IsCurrent(n)'
<1>1. n \in Pending /\ n.env \in Env \ E
  BY DEF Pending, NoticesOf, TypeOK, StoreTypeOK, Notice
<1>2. QED
  BY <1>1 DEF IsCurrent

LEMMA ApiNotices ==
  ASSUME TypeOK, \A n \in Pending : IsCurrent(n), NEW u \in User, NEW f \in Env, ApiCall(u, f),
         NEW n \in Pending'
  PROVE  IsCurrent(n)'
<1>0. env \in [Env -> Environment] /\ n \in notices
  BY DEF TypeOK, StoreTypeOK, Pending, ApiCall, Create, Extend, ConfirmDelete, Delete, Redeploy, noticeVars
<1>1. CASE \/ \E k \in Key, r \in Rev, w \in Warm : Create(u, k, f, r, w)
           \/ \E c \in confs : Delete(u, f, c)
           \/ \E r \in Rev, g \in 1 .. MaxGen + MaxOps : Redeploy(u, f, r, g)
  <2>1. cancelled' = cancelled \cup NoticesOf({f}) /\ UNCHANGED delivered
    BY <1>1 DEF Create, Delete, Redeploy
  <2>2. \A e \in Env \ {f} : env'[e] = env[e]
    BY <1>0, <1>1 DEF Create, Delete, Redeploy
  <2>3. {f} \in SUBSET Env
    OBVIOUS
  <2>4. QED
    BY <1>0, <2>1, <2>2, <2>3, CancelledWithChange
<1>2. ASSUME NEW mode \in {"add", "from-now"}, NEW m \in Minutes, NEW g \in 1 .. MaxGen,
             Extend(u, f, mode, m, g)
      PROVE  IsCurrent(n)'
  <2>1. PICK t : env' = [env EXCEPT ![f] = [env[f] EXCEPT !.expiresAt = t, !.gen = env[f].gen + 1]]
    BY <1>2 DEF Extend
  <2>2. \A e \in Env : /\ env'[e].op = env[e].op /\ env'[e].status = env[e].status
                       /\ e # f => env'[e] = env[e]
    BY <1>0, <2>1 DEF Environment
  <2>3. n \in Pending /\ n.env \in Env /\ (n.env = f => n.kind # "expiring")
    BY <1>0, <1>2 DEF Extend, Pending, NoticesOf, TypeOK, StoreTypeOK, Notice
  <2>4. QED
    BY <2>2, <2>3 DEF IsCurrent
<1>3. CASE ConfirmDelete(u, f)
  BY <1>3 DEF ConfirmDelete, noticeVars, Pending, IsCurrent
<1>4. QED
  BY <1>1, <1>2, <1>3 DEF ApiCall

\* Reconcile warns about environments it leaves alone, and cancels for those it tears down.
LEMMA ReconcileNotices ==
  ASSUME TypeOK, StoreInv, \A n \in Pending : IsCurrent(n), Reconcile, NEW n \in Pending'
  PROVE  IsCurrent(n)'
<1> DEFINE torn == {e \in Env : MustExpire(e) \/ MustRetry(e)}
<1>1. torn \in SUBSET Env /\ \A e \in Env \ torn : env'[e] = env[e]
  BY DEF Reconcile
<1>2. CASE n \in notices
  BY <1>1, <1>2, CancelledWithChange DEF Reconcile
<1>3. CASE n \notin notices
  <2>1. n \in Warnings
    BY <1>3 DEF Reconcile, Pending
  <2>2. PICK e \in Env : /\ MayWarn(e) /\ n.env = e
                         /\ \/ n.kind = "expiring" /\ n.ref = env[e].expiresAt
                            \/ n.kind = "late" /\ n.ref = env[e].op /\ Live(Current(e).status)
    BY <2>1 DEF Warnings
  <2>3. e \notin torn
    BY <2>2 DEF MayWarn, MustExpire, MustRetry
  <2>4. n.kind = "late" => env[e].status = "pending"
    BY <2>2, StoreInvPointwise DEF StoreInvAt, Shown, MayWarn, Exists, Live
  <2>5. QED
    BY <1>1, <2>2, <2>3, <2>4 DEF IsCurrent, MayWarn
<1>4. QED
  BY <1>2, <1>3

\* A result replaces what was still to be said about its environment.
LEMMA FinishNotices ==
  ASSUME TypeOK, StoreInv, \A n \in Pending : IsCurrent(n), NEW f \in Env, NEW i \in OpNo,
         NEW ok \in BOOLEAN, Finish(f, i, ok), NEW n \in Pending'
  PROVE  IsCurrent(n)'
<1>0. env \in [Env -> Environment] /\ ops[f][i] \in Operation /\ StoreInvAt(f)
  BY StoreInvPointwise DEF TypeOK, StoreTypeOK
<1>1. CASE ~Accepts(f, i)
  BY <1>1 DEF Finish, storeVars, Pending, IsCurrent
<1>2. CASE Accepts(f, i)
  <2>1. env' = [env EXCEPT ![f] = [env[f] EXCEPT !.status = Outcome(f, i, ok)]]
        /\ cancelled' = cancelled \cup NoticesOf({f}) /\ UNCHANGED delivered
    BY <1>2 DEF Finish
  <2>2. /\ env'[f].status = Outcome(f, i, ok) /\ env'[f].op = env[f].op
        /\ \A e \in Env \ {f} : env'[e] = env[e]
    BY <1>0, <2>1 DEF Environment
  <2>3. CASE n \in notices
    <3>1. {f} \in SUBSET Env
      OBVIOUS
    <3>2. QED
      BY <2>1, <2>2, <2>3, <3>1, CancelledWithChange
  <2>4. CASE n \notin notices
    <3>1. n.kind = Report(f, i, ok) /\ n.env = f /\ n.ref = i
      BY <1>2, <2>4 DEF Finish, Pending
    <3>2. ops[f][i].action = "destroy" => env[f].status = "deleting"
      BY <1>0, <1>2 DEF Accepts, StoreInvAt, Shown, Exists, Current, OpNo
    <3>3. ops[f][i].action \in {"deploy", "destroy"} /\ env[f].op = i
      BY <1>0, <1>2 DEF Operation, Accepts
    <3>4. QED
      BY <2>2, <3>1, <3>2, <3>3 DEF Report, Outcome, IsCurrent
  <2>5. QED
    BY <2>3, <2>4
<1>3. QED
  BY <1>1, <1>2

\* Nobody is told of an expiry that was moved, an operation that was replaced or a state
\* that is past.
THEOREM NoticesCurrent == Spec => []PendingNoticesAreCurrent
<1>1. Init => PendingNoticesAreCurrent
  BY DEF Init, StoreInit, PendingNoticesAreCurrent
<1>2. ASSUME TypeOK, StoreInv, \A n \in Pending : IsCurrent(n), [Next]_vars, NEW n \in Pending'
      PROVE  IsCurrent(n)'
  <2>1. CASE Api
    <3>1. CASE \E m \in notices : Acknowledge(m)
      BY <1>2, <3>1 DEF Acknowledge, Pending, IsCurrent
    <3>2. CASE \E u \in User, f \in Env : ApiCall(u, f)
      BY <1>2, <3>2, ApiNotices
    <3>3. QED
      BY <2>1, <3>1, <3>2 DEF Api
  <2>2. CASE TickReconcile
    BY <1>2, <2>2, ReconcileNotices DEF TickReconcile
  <2>3. CASE \E f \in Env, i \in OpNo : TakeResult(f, i)
    BY <1>2, <2>3, FinishNotices DEF TakeResult
  <2>4. CASE UNCHANGED <<env, notices, cancelled, delivered>>
    BY <1>2, <2>4 DEF Pending, IsCurrent
  <2>5. CASE \E f \in Env, i \in OpNo : TickClaim(f, i)
    BY <2>4, <2>5 DEF TickClaim, Claim, noticeVars
  <2>6. CASE \/ RecoverStep \/ Start \/ TickCancel \/ TickEnd \/ Shutdown \/ Leave \/ Exit \/ Crash
             \/ Advance \/ UNCHANGED vars
    BY <2>4, <2>6 DEF RecoverStep, Recover, Start, TickCancel, TickEnd, Shutdown, Leave, Exit, Crash,
                      Advance, vars, storeVars, noticeVars
  <2>7. CASE Scripts
    BY <2>4, <2>7 DEF Scripts, ScriptWrites, ScriptSucceeds, ScriptFails, OrphanWrites, OrphanEnds,
                      storeVars
  <2>8. QED
    BY <1>2, <2>1, <2>2, <2>3, <2>5, <2>6, <2>7 DEF Next, Server
<1>3. (PendingNoticesAreCurrent <=> \A n \in Pending : IsCurrent(n))'
  BY NoticesPointwise, PTL
<1>4. TypeOK /\ StoreInv /\ PendingNoticesAreCurrent /\ [Next]_vars => PendingNoticesAreCurrent'
  BY <1>2, <1>3, NoticesPointwise
<1>5. QED
  BY <1>1, <1>4, StoreInvariant, PTL DEF Spec
=============================================================================
