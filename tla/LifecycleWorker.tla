--------------------------- MODULE LifecycleWorker --------------------------
(***************************************************************************)
(* The lifecycle server: the API's transactions interleaved with the worker *)
(* loop (internal/platform/runner.go, RunWorker), the scripts the worker    *)
(* runs against the cluster, graceful shutdown, crashes and restarts        *)
(* (cmd/dogfood/main.go, serve).                                            *)
(*                                                                          *)
(* The worker's select is the state pc = "select"; the body of a tick is    *)
(* split at its transactions, so API calls fall between them.  The map of   *)
(* running operations and the channel of results are one table, proc: an    *)
(* entry is active from its claim until its result is taken, and "ok",      *)
(* "err" and "killed" are results waiting in the channel.  They are taken   *)
(* in any order, of which the channel's order is one.                       *)
(***************************************************************************)
EXTENDS LifecycleStore

CONSTANTS
  Absent, Partial,   \* what a namespace holds besides a complete revision
  OrphansSurvive,    \* scripts outlive a killed server (a bare host, no container)
  MaxNow,            \* bound: the clock stops here
  MaxStops           \* bound: shutdowns and crashes

ASSUME WorkerAssumption ==
  /\ OrphansSurvive \in BOOLEAN
  /\ MaxNow \in Nat /\ MaxStops \in Nat
  /\ Absent \notin Rev \cup {Partial} /\ Partial \notin Rev

VARIABLES
  pc,        \* where RunWorker is; "down": the server process does not exist
  stopping,  \* the context of serve is cancelled
  proc,      \* active and done: the script of each operation
  orphans,   \* scripts of a server that was killed
  cluster,   \* what the preview namespace of each environment holds
  stops      \* shutdowns and crashes so far

workerVars == <<pc, stopping, proc, orphans, stops>>
vars == <<now, storeVars, pc, stopping, proc, orphans, cluster, stops>>

-----------------------------------------------------------------------------
ProcState == {"none", "running", "cancelled", "ok", "err", "killed"}
Proc      == [st : ProcState, rev : Rev \cup {None}]
Content   == Rev \cup {None, Absent, Partial}
Orphan    == [op : OpNo, rev : Rev \cup {None}]

WorkerTypeOK ==
  /\ pc \in {"down", "recover", "select", "cancel", "claim", "drain"}
  /\ stopping \in BOOLEAN
  /\ proc \in [Env -> [OpNo -> Proc]]
  /\ orphans \in [Env -> SUBSET Orphan]
  /\ cluster \in [Env -> Content]
  /\ stops \in Nat

\* Every variable has its type.
TypeOK == StoreTypeOK /\ WorkerTypeOK

NoProc == [st |-> "none", rev |-> None]

WorkerInit ==
  /\ pc = "down" /\ stopping = FALSE /\ stops = 0
  /\ proc = [e \in Env |-> [i \in OpNo |-> NoProc]]
  /\ orphans = [e \in Env |-> {}]
  /\ cluster = [e \in Env |-> Absent]

Init == StoreInit /\ WorkerInit

-----------------------------------------------------------------------------
Active == {o \in Env \X OpNo : proc[o[1]][o[2]].st # "none"}

Busy == {o[1] : o \in Active}

Executing(e, i) == proc[e][i].st \in {"running", "cancelled"}
Result(e, i)    == proc[e][i].st \in {"ok", "err", "killed"}

\* What a namespace holds when the script of this action has succeeded.
Goal(action, r) == IF action = "deploy" THEN r ELSE Absent

\* cancel() of the scripts of these operations, where they still run.
Cancelling(doomed) ==
  [e \in Env |-> [i \in OpNo |->
     IF proc[e][i].st = "running" /\ <<e, i>> \in doomed
       THEN [proc[e][i] EXCEPT !.st = "cancelled"]
       ELSE proc[e][i]]]

-----------------------------------------------------------------------------
(* The server process. *)

\* serve: the API answers while RunWorker starts.
Start ==
  /\ pc = "down"
  /\ pc' = "recover" /\ stopping' = FALSE
  /\ UNCHANGED <<now, storeVars, proc, orphans, cluster, stops>>

RecoverStep ==
  /\ pc = "recover" /\ Recover
  /\ pc' = "select"
  /\ UNCHANGED <<stopping, proc, orphans, cluster, stops>>

\* case result := <-done
TakeResult(e, i) ==
  /\ pc = "select" /\ Result(e, i)
  /\ Finish(e, i, proc[e][i].st = "ok")
  /\ proc' = [proc EXCEPT ![e][i] = NoProc]
  /\ UNCHANGED <<pc, stopping, orphans, cluster, stops>>

\* case <-tick.C, up to the commit of Reconcile
TickReconcile ==
  /\ pc = "select" /\ Reconcile
  /\ pc' = "cancel"
  /\ UNCHANGED <<stopping, proc, orphans, cluster, stops>>

\* The snapshot, and cancel() for the active operations it shows superseded.
TickCancel ==
  /\ pc = "cancel"
  /\ proc' = Cancelling({o \in Active : ops[o[1]][o[2]].status = "superseded"})
  /\ pc' = "claim"
  /\ UNCHANGED <<now, storeVars, stopping, orphans, cluster, stops>>

\* One turn of the claim loop.  Under a cancelled context the command is not
\* even started: exec fails at once.
TickClaim(e, i) ==
  /\ pc = "claim"
  /\ Cardinality(Active) < MaxPreviews
  /\ Claim(e, i, Busy)
  /\ proc' = [proc EXCEPT ![e][i] = [st |-> IF stopping THEN "killed" ELSE "running",
                                     rev |-> env[e].rev]]
  /\ UNCHANGED <<pc, stopping, orphans, cluster, stops>>

TickEnd ==
  /\ pc = "claim"
  /\ Cardinality(Active) >= MaxPreviews \/ Claimable(Busy) = {}
  /\ pc' = "select"
  /\ UNCHANGED <<now, storeVars, stopping, proc, orphans, cluster, stops>>

\* SIGTERM cancels the context, and with it the context of every script.
Shutdown ==
  /\ pc # "down" /\ ~stopping /\ stops < MaxStops
  /\ stopping' = TRUE /\ stops' = stops + 1
  /\ proc' = Cancelling(Active)
  /\ UNCHANGED <<now, storeVars, pc, orphans, cluster>>

\* case <-ctx.Done(), then the deferred receive of one result per active script:
\* these results are dropped, Finish is not called for them.
Leave ==
  /\ pc = "select" /\ stopping
  /\ pc' = "drain"
  /\ UNCHANGED <<now, storeVars, stopping, proc, orphans, cluster, stops>>

Exit ==
  /\ pc = "drain"
  /\ \A o \in Active : Result(o[1], o[2])
  /\ proc' = [e \in Env |-> [i \in OpNo |-> NoProc]]
  /\ pc' = "down"
  /\ UNCHANGED <<now, storeVars, stopping, orphans, cluster, stops>>

\* The server is killed.  Its scripts have process groups of their own
\* (Setpgid), so they die with it only where a container is torn down.
Crash ==
  /\ pc # "down" /\ stops < MaxStops
  /\ pc' = "down" /\ stopping' = FALSE /\ stops' = stops + 1
  /\ proc' = [e \in Env |-> [i \in OpNo |-> NoProc]]
  /\ orphans' = [e \in Env |-> orphans[e] \cup
       {o \in {[op |-> i, rev |-> proc[e][i].rev] : i \in OpNo} :
          OrphansSurvive /\ Executing(e, o.op)}]
  /\ UNCHANGED <<now, storeVars, cluster>>

-----------------------------------------------------------------------------
(* The scripts, preview-up.sh and preview-down.sh. *)

\* A script changes its namespace while it executes.
ScriptWrites(e, i) ==
  /\ Executing(e, i)
  /\ cluster' = [cluster EXCEPT ![e] = Partial]
  /\ UNCHANGED <<now, storeVars, workerVars>>

\* It exits with success; a cancelled one may have been faster than its signal.
ScriptSucceeds(e, i) ==
  /\ Executing(e, i)
  /\ cluster' = [cluster EXCEPT ![e] = Goal(ops[e][i].action, proc[e][i].rev)]
  /\ proc' = [proc EXCEPT ![e][i].st = "ok"]
  /\ UNCHANGED <<now, storeVars, pc, stopping, orphans, stops>>

\* It fails, runs into operationTimeout or dies of the signal, anywhere on its way.
ScriptFails(e, i) ==
  /\ Executing(e, i)
  /\ \E c \in {cluster[e], Partial, Goal(ops[e][i].action, proc[e][i].rev)} :
       cluster' = [cluster EXCEPT ![e] = c]
  /\ proc' = [proc EXCEPT ![e][i].st = IF @ = "cancelled" THEN "killed" ELSE "err"]
  /\ UNCHANGED <<now, storeVars, pc, stopping, orphans, stops>>

\* A script nobody waits for goes on, and ends.
OrphanWrites(e, o) ==
  /\ o \in orphans[e]
  /\ cluster' = [cluster EXCEPT ![e] = Partial]
  /\ UNCHANGED <<now, storeVars, workerVars>>

OrphanEnds(e, o) ==
  /\ o \in orphans[e]
  /\ orphans' = [orphans EXCEPT ![e] = @ \ {o}]
  /\ \E c \in {cluster[e], Goal(ops[e][o.op].action, o.rev)} :
       cluster' = [cluster EXCEPT ![e] = c]
  /\ UNCHANGED <<now, storeVars, pc, stopping, proc, stops>>

-----------------------------------------------------------------------------
(* The system. *)

Advance ==
  /\ now < MaxNow /\ now' = now + 1
  /\ UNCHANGED <<storeVars, workerVars, cluster>>

ApiCall(u, e) ==
  \/ \E k \in Key, r \in Rev, w \in Warm : Create(u, k, e, r, w)
  \/ \E mode \in {"add", "from-now"}, m \in Minutes, g \in 1 .. MaxGen : Extend(u, e, mode, m, g)
  \/ ConfirmDelete(u, e)
  \/ \E c \in confs : Delete(u, e, c)
  \/ \E r \in Rev, g \in 1 .. MaxGen + MaxOps : Redeploy(u, e, r, g)

Api ==
  /\ pc # "down"
  /\ (\E u \in User, e \in Env : ApiCall(u, e)) \/ (\E n \in notices : Acknowledge(n))
  /\ UNCHANGED <<workerVars, cluster>>

Server ==
  \/ Start \/ RecoverStep \/ TickReconcile \/ TickCancel \/ TickEnd
  \/ Shutdown \/ Leave \/ Exit \/ Crash
  \/ \E e \in Env, i \in OpNo : TakeResult(e, i) \/ TickClaim(e, i)

Scripts ==
  \E e \in Env :
    \/ \E i \in OpNo : ScriptWrites(e, i) \/ ScriptSucceeds(e, i) \/ ScriptFails(e, i)
    \/ \E o \in orphans[e] : OrphanWrites(e, o) \/ OrphanEnds(e, o)

Next == Advance \/ Api \/ Server \/ Scripts

Spec == Init /\ [][Next]_vars
=============================================================================
