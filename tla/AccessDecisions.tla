--------------------------- MODULE AccessDecisions ---------------------------
(***************************************************************************)
(* The access broker at work on Teleport's requests: requests are made,    *)
(* decided and forgotten by Teleport while the broker watches or polls,    *)
(* decides by policy, takes people's decisions, crashes and comes back.    *)
(*                                                                         *)
(* The clock's unit is hours (Prune runs once an hour and counts days),    *)
(* so it does not move while the broker is in the middle of something.     *)
(***************************************************************************)
EXTENDS AccessBroker

Quiet ==
  /\ job = Idle /\ todo = {} /\ stream = <<>> /\ outgoing = {}
  /\ \A a \in User : human[a] = NoCall

World ==
  /\ \/ Tick /\ Quiet
     \/ \E r \in Request : Submit(r) \/ Lapse(r) \/ \E s \in Elsewhere : DecideElsewhere(r, s)
  /\ UNCHANGED brokerVars

Watcher ==
  \/ Connect \/ PollDue \/ List \/ ListFails \/ TakeEvent
  \/ \E r \in Request : TakeListed(r)
  \/ AutoResolve \/ AutoFails \/ PutAuto \/ PutReview \/ PutExternal \/ Notify

\* What is left of a call to Approve or Deny once it was let in.
Finish(a) ==
  Apply(a) \/ ApplyFails(a) \/ GetRecord(a) \/ PutDecision(a) \/ NotifyDecision(a)

People ==
  \E a \in User :
    \/ Finish(a)
    \/ \E r \in Request, res \in {"approved", "denied"}, m \in Caller : Decide(a, r, res, m)

SendEnds(ev) == Delivered(ev) \/ SendFails(ev)

Housekeeping == Prune \/ \E ev \in outgoing : SendEnds(ev)

Failures == Disconnect \/ Crash

Init == TeleportInit /\ BrokerInit

Next == World \/ Watcher \/ People \/ Housekeeping \/ Start \/ Failures

Spec == Init /\ [][Next]_vars

TypeOK == TeleportTypeOK /\ BrokerTypeOK

(***************************************************************************)
(* Fairness: the process is restarted (the pod's restart policy), its      *)
(* watcher loop reconnects and goes on (RunWatcher never returns before    *)
(* the process ends), the ticker of runPoll keeps going, and a handler     *)
(* that was begun is finished: each of its steps is taken by one goroutine *)
(* and stays enabled until it is taken.  A person's call has 15 seconds    *)
(* (httpapi.go), a delivery 2 minutes.  The watcher's calls to Teleport    *)
(* have the process's context and no limit of their own: that Teleport     *)
(* answers them, or the client gives the connection up, is assumed.        *)
(***************************************************************************)
Handler ==
  List \/ ListFails \/ AutoResolve \/ AutoFails \/ PutAuto \/ PutReview \/ PutExternal \/ Notify

FairSpec ==
  /\ Spec
  /\ WF_vars(Start) /\ WF_vars(Connect) /\ WF_vars(PollDue)
  /\ WF_vars(Handler) /\ WF_vars(TakeEvent)
  /\ \A r \in Request :
       WF_vars(TakeListed(r)) /\ WF_vars(\E ev \in outgoing : ev.req = r /\ SendEnds(ev))
  /\ \A a \in User : WF_vars(Finish(a))

-----------------------------------------------------------------------------
\* What the broker records and what it announces of a decision is what
\* Teleport did, however its own decisions, people's and Teleport's own race:
\* two people who decide the same request in opposite ways, a watcher that
\* handles a request somebody just decided, a call refused because it came
\* second (resolve before Put in Handle and humanDecision).
DecisionsAreTrue ==
  /\ \A r \in Request : rec[r].res \in {"approved", "denied"} => state[r] = rec[r].res
  /\ \A ev \in raised :
       ev.type = "resolved" => ev.res \in {"approved", "denied"} /\ state[ev.req] = ev.res

\* The inductive invariant behind it, where one decision is enough and nobody
\* promotes: whoever is about to record a decision, and every event still to be
\* read, agrees with Teleport.
JobIsTrue ==
  /\ job.phase = "put" => state[job.req] = Automatic(job.req)
  /\ job.phase = "external" => job.st \in {"approved", "denied"} /\ state[job.req] = job.st
  /\ job.phase = "notify" /\ Resolved(job.copy) =>
       job.copy.res \in {"approved", "denied"} /\ state[job.req] = job.copy.res

CallsAreTrue ==
  \A a \in User :
    /\ human[a].phase \in {"resolved", "put", "notify"} => state[human[a].req] = human[a].res
    /\ human[a].phase = "notify" => human[a].copy.res = human[a].res

EventsAreTrue ==
  \A i \in 1..Len(stream) :
    stream[i].st = "pending" \/
    (stream[i].st \in {"approved", "denied"} /\ state[stream[i].req] = stream[i].st)

TruthInv == DecisionsAreTrue /\ JobIsTrue /\ CallsAreTrue /\ EventsAreTrue

\* Approvers are asked about a request once, though the watcher meets it again
\* in the event of its creation, in every review, in the list of each
\* reconnection and after each restart (Handle: idempotent per request id;
\* NewStore: an empty store would re-notify every pending request).
Asks(r) == {ev \in raised : ev.type = "pending_review" /\ ev.req = r}

ReviewAskedOnce == \A r \in Request : Cardinality(Asks(r)) <= 1

\* The chat agent hears of every pending request that needs approval, through restarts,
\* lost connections and lost events (Reconcile at every connection, or at every poll),
\* with the exceptions the code leaves: the request was put down as handled, and then
\* the process died before the event was delivered, or five deliveries failed; or
\* the list of a watcher that had just connected failed, and it has not connected since.
Heard(r) == \E ev \in raised \ outgoing : ev.req = r

PendingIsTakenUp ==
  \A r \in Request :
    (state[r] = "pending" /\ Policy[r] = "require_approval")
      ~> (state[r] # "pending" \/ Heard(r) \/ r \in unheard \cup overlooked)

\* Where states are set and nothing breaks, the watcher hears of every decision
\* about a request it has a record of, and the record says so in the end: what it
\* lists when it connects is not older than the stream (OpInit, then Reconcile).
Calm == approvals = "setstate" /\ source = "watch" /\ mishaps = 0

DecisionIsRecorded ==
  \A r \in Request :
    (state[r] \in {"approved", "denied"} /\ rec[r].known /\ Calm)
      ~> (rec[r].res = state[r] \/ ~rec[r].known \/ ~Calm)

-----------------------------------------------------------------------------
(* The promise of AccessPromise, of which the broker is an implementation. *)

RulingOf == [r \in Request |->
  IF state[r] \in {"none", "pending"} THEN "open"
  ELSE IF state[r] = "gone" THEN "lapsed" ELSE state[r]]

Promise == INSTANCE AccessPromise WITH
  ruling <- RulingOf,
  asked  <- {r \in Request : Asks(r) # {}},
  told   <- [r \in Request |-> {ev.res : ev \in {x \in raised : x.type = "resolved" /\ x.req = r}}]

\* The broker never breaks its promise: every step of it, of Teleport and of the
\* people who decide is a ruling, a first question, a true announcement, or nothing.
PromiseKept == Promise!PromiseSpec
=============================================================================
