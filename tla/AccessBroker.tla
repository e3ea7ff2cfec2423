---------------------------- MODULE AccessBroker ----------------------------
(***************************************************************************)
(* The access broker (internal/teleportaccess/broker): its watcher, the    *)
(* decisions people make through its HTTP API, its records, Prune, and the *)
(* events it raises for the chat agent.                                    *)
(*                                                                         *)
(* The watcher handles one request at a time; every call by Approve or     *)
(* Deny is a goroutine of its own, one per user here.  Both are split      *)
(* where they call Teleport or the record store, which locks only for the  *)
(* length of one Get or Put.  Between the Put and the event notify asks    *)
(* Teleport again (the requester, the approvers); from then on the event   *)
(* is in the hands of a goroutine (Notifier.Send).  The policy is data:    *)
(* what it makes of each request.                                          *)
(***************************************************************************)
EXTENDS TeleportRequests

CONSTANTS
  Policy,        \* the engine's decision for each request
  Approvers,     \* who may decide it, when its decision names approvers
  Fallback,      \* holders of a FallbackApproverRoles role
  Requester,     \* who asked
  Caller,        \* where human decisions come from: chat, portal
  StateFile,     \* the records are on a disk that survives the process
  Approvals,     \* how decisions are put to Teleport (TA_BROKER_APPROVALS): setstate, review
  Sources,       \* how the broker learns of requests (TA_BROKER_MODE): watch, poll
  ApiFails,      \* the sources with which calls to Teleport may fail
  PendingAfter, ResolvedAfter,  \* Prune(resolvedAfter, pendingAfter)
  MaxMishaps     \* bound: crashes, lost connections, failed calls and deliveries

ASSUME BrokerAssumption ==
  /\ Policy \in [Request -> {"auto_approve", "deny", "require_approval", "ignore"}]
  /\ Approvers \in [Request -> SUBSET User] /\ Fallback \subseteq User
  /\ Requester \in [Request -> User \cup {None}] /\ None \notin User
  /\ None \notin {"approved", "denied", "expired"}
  /\ Caller \subseteq {"chat", "portal"}
  /\ StateFile \in BOOLEAN
  /\ Approvals # {} /\ Approvals \subseteq {"setstate", "review"}
  /\ Sources # {} /\ Sources \subseteq {"watch", "poll"} /\ ApiFails \subseteq Sources
  /\ PendingAfter \in Nat \ {0} /\ ResolvedAfter \in Nat /\ MaxMishaps \in Nat

VARIABLES
  approvals, source,  \* the process's configuration
  up,         \* the process runs
  rec,        \* Store.recs
  job,        \* what the watcher is doing
  todo,       \* the rest of Reconcile's list
  human,      \* the Approve or Deny call of each user
  raised,     \* every event raised so far
  outgoing,   \* those a goroutine still delivers
  unheard,    \* history: recorded requests whose event the agent will never get
  overlooked, \* history: requests that were pending when a watcher's list failed
  mishaps

config == <<approvals, source>>
history == <<unheard, overlooked>>
brokerVars == <<config, up, rec, job, todo, human, raised, outgoing, history, mishaps>>
vars == <<teleportVars, brokerVars>>

-----------------------------------------------------------------------------
Verdict == {"approved", "denied", "expired"}

Record ==
  [known : BOOLEAN, ruled : BOOLEAN, notified : BOOLEAN, seenAt : Nat, resolvedAt : Nat,
   res : Verdict \cup {None}, mode : Mode \cup {None}]

NoRecord ==
  [known |-> FALSE, ruled |-> FALSE, notified |-> FALSE, seenAt |-> 0, resolvedAt |-> 0,
   res |-> None, mode |-> None]

Job ==
  [phase : {"idle", "list"}, req : {None}, st : State, copy : Record] \cup
  [phase : {"act", "put", "external", "notify"}, req : Request, st : State, copy : Record]

Idle == [phase |-> "idle", req |-> None, st |-> "none", copy |-> NoRecord]

NoCall == [phase |-> "idle", req |-> None, res |-> None, mode |-> None, copy |-> NoRecord]

Call ==
  {NoCall} \cup
  [phase : {"authorized", "resolved", "put", "notify"}, req : Request, res : {"approved", "denied"},
   mode : Mode, copy : Record]

Announcement ==
  [id : Nat, type : {"pending_review", "resolved"}, req : Request,
   res : Verdict \cup {None}, mode : Mode \cup {None}]

BrokerTypeOK ==
  /\ approvals \in Approvals /\ source \in Sources
  /\ up \in BOOLEAN
  /\ rec \in [Request -> Record]
  /\ job \in Job /\ todo \subseteq Request
  /\ human \in [User -> Call]
  /\ raised \subseteq Announcement /\ IsFiniteSet(raised) /\ outgoing \subseteq raised
  /\ unheard \subseteq Request /\ overlooked \subseteq Request
  /\ mishaps \in Nat

BrokerInit ==
  /\ approvals \in Approvals /\ source \in Sources
  /\ up = FALSE
  /\ rec = [r \in Request |-> NoRecord]
  /\ job = Idle /\ todo = {}
  /\ human = [a \in User |-> NoCall]
  /\ raised = {} /\ outgoing = {} /\ unheard = {} /\ overlooked = {} /\ mishaps = 0

-----------------------------------------------------------------------------
Resolved(x) == x.res # None

\* Variant: only resolved requests count as handled.
HandledResolved(x) == x.known /\ Resolved(x)

\* Handle: "already handled".
Handled(x) == x.known /\ (x.notified \/ Resolved(x))

\* A record made now, with the policy's decision in it or without, and what a
\* resolution makes of a record.
Fresh(ruled) == [NoRecord EXCEPT !.known = TRUE, !.ruled = ruled, !.seenAt = now]
Settle(x, res, m) == [x EXCEPT !.res = res, !.mode = m, !.resolvedAt = now]

\* notify, of request r and its record x: one more event, and a goroutine that delivers it.
Raise(r, x) ==
  LET ev == [id |-> Cardinality(raised) + 1, req |-> r, res |-> x.res, mode |-> x.mode,
             type |-> IF Resolved(x) THEN "resolved" ELSE "pending_review"] IN
  /\ raised' = raised \cup {ev}
  /\ outgoing' = outgoing \cup {ev}

\* Whether Teleport accepts the decision.
Accepted(author, r) == IF approvals = "review" THEN TakesReview(author, r) ELSE TakesState(r)

\* Variant: the decision is not put to Teleport.
ResolveNot(author, r, s, m) == Accepted(author, r) /\ UNCHANGED teleportVars

\* resolve: what the decision does to Teleport.
Resolve(author, r, s, m) ==
  /\ Accepted(author, r)
  /\ IF approvals = "review" THEN Review(author, r, s, m) ELSE SetState(r, s, m)

\* The call fails: Teleport refuses the decision, never hears of it, or takes it and
\* its answer is lost.
CallFails(author, r, s, m) ==
  \/ ~Accepted(author, r) /\ UNCHANGED <<teleportVars, mishaps>>
  \/ /\ source \in ApiFails /\ mishaps < MaxMishaps /\ mishaps' = mishaps + 1
     /\ UNCHANGED teleportVars \/ Resolve(author, r, s, m)

\* authorizeApprover: not the requester, and a holder of an approver role.
Authorized(a, r) ==
  /\ a # Requester[r]
  /\ a \in IF rec[r].ruled /\ Approvers[r] # {} THEN Approvers[r] ELSE Fallback

-----------------------------------------------------------------------------
(* The watcher. *)

\* Variant: the stream is followed without a look at what is pending already.
ConnectOnly ==
  /\ up /\ source = "watch" /\ ~connected /\ job = Idle /\ todo = {}
  /\ connected' = TRUE
  /\ UNCHANGED <<now, state, how, votes, born, stream>>
  /\ UNCHANGED brokerVars

\* watchOnce: connected, and OpInit is the first event.
Connect ==
  /\ up /\ source = "watch" /\ ~connected /\ job = Idle /\ todo = {}
  /\ connected' = TRUE
  /\ job' = [Idle EXCEPT !.phase = "list"]
  /\ UNCHANGED <<now, state, how, votes, born, stream>>
  /\ UNCHANGED <<config, up, rec, todo, human, raised, outgoing, history, mishaps>>

\* runPoll: the interval is over.
PollDue ==
  /\ up /\ source = "poll" /\ job = Idle /\ todo = {}
  /\ job' = [Idle EXCEPT !.phase = "list"]
  /\ UNCHANGED <<teleportVars, config, up, rec, todo, human, raised, outgoing, history, mishaps>>

\* Reconcile: the requests pending now.
List ==
  /\ job.phase = "list"
  /\ todo' = Pending /\ job' = Idle /\ overlooked' = {}
  /\ UNCHANGED <<teleportVars, config, up, rec, human, raised, outgoing, unheard, mishaps>>

\* The error is logged; a poll tries again when the interval is over, a watcher not before
\* the next connection.
ListFails ==
  /\ job.phase = "list"
  /\ source \in ApiFails /\ mishaps < MaxMishaps /\ mishaps' = mishaps + 1
  /\ job' = Idle
  /\ overlooked' = IF source = "watch" THEN overlooked \cup Pending ELSE overlooked
  /\ UNCHANGED <<teleportVars, config, up, rec, todo, human, raised, outgoing, unheard>>

\* Handle, of a request that is pending as far as the watcher knows.
Pick(r) ==
  job' = IF Handled(rec[r]) \/ Policy[r] = "ignore"
           THEN Idle
           ELSE [Idle EXCEPT !.phase = "act", !.req = r]

\* Variant: of resolved requests only the approved ones are looked at.
PickApproved(r, s) ==
  job' = IF rec[r].known /\ ~Resolved(rec[r]) /\ s = "approved"
           THEN [phase |-> "external", req |-> r, st |-> s, copy |-> rec[r]]
           ELSE Idle

\* handleResolved: a record that is still open is closed.
PickResolved(r, s) ==
  job' = IF rec[r].known /\ ~Resolved(rec[r])
           THEN [phase |-> "external", req |-> r, st |-> s, copy |-> rec[r]]
           ELSE Idle

TakeListed(r) ==
  /\ up /\ job = Idle /\ r \in todo
  /\ todo' = todo \ {r}
  /\ Pick(r)
  /\ UNCHANGED <<teleportVars, config, up, rec, human, raised, outgoing, history, mishaps>>

TakeEvent ==
  /\ up /\ job = Idle /\ todo = {} /\ stream # <<>>
  /\ stream' = Tail(stream)
  /\ LET ev == Head(stream) IN
     IF ev.st = "pending" THEN Pick(ev.req) ELSE PickResolved(ev.req, ev.st)
  /\ UNCHANGED <<now, state, how, votes, born, connected>>
  /\ UNCHANGED <<config, up, rec, todo, human, raised, outgoing, history, mishaps>>

\* What the policy does by itself.
Automatic(r) == IF Policy[r] = "auto_approve" THEN "approved" ELSE "denied"

AutoResolve ==
  /\ job.phase = "act" /\ Policy[job.req] # "require_approval"
  /\ Resolve(Bot, job.req, Automatic(job.req), "auto")
  /\ job' = [job EXCEPT !.phase = "put"]
  /\ UNCHANGED <<config, up, rec, todo, human, raised, outgoing, history, mishaps>>

\* The error is logged; nothing is recorded, and nothing tries again by itself.
AutoFails ==
  /\ job.phase = "act" /\ Policy[job.req] # "require_approval"
  /\ CallFails(Bot, job.req, Automatic(job.req), "auto")
  /\ job' = Idle
  /\ UNCHANGED <<config, up, rec, todo, human, raised, outgoing, history>>

\* The record is written; the requester is still to be looked up for the event.
PutRecord(x) ==
  /\ rec' = [rec EXCEPT ![job.req] = x]
  /\ job' = [job EXCEPT !.phase = "notify", !.copy = x]
  /\ UNCHANGED <<teleportVars, config, up, todo, human, raised, outgoing, history, mishaps>>

PutAuto == job.phase = "put" /\ PutRecord(Settle(Fresh(TRUE), Automatic(job.req), "auto"))

\* Approval is needed.
PutReview ==
  /\ job.phase = "act" /\ Policy[job.req] = "require_approval"
  /\ PutRecord([Fresh(TRUE) EXCEPT !.notified = TRUE])

\* handleResolved knows approved requests and takes all others for denied.
Seen(s) == IF s = "approved" THEN "approved" ELSE "denied"

PutExternal == job.phase = "external" /\ PutRecord(Settle(job.copy, Seen(job.st), "external"))

\* The requester and the approvers were looked up, or could not be.
Notify ==
  /\ job.phase = "notify"
  /\ Raise(job.req, job.copy)
  /\ job' = Idle
  /\ UNCHANGED <<teleportVars, config, up, rec, todo, human, history, mishaps>>

-----------------------------------------------------------------------------
(* humanDecision: Approve or Deny by user a. *)

\* The request is pending and the caller is an approver.
Decide(a, r, res, m) ==
  /\ up /\ human[a] = NoCall
  /\ state[r] = "pending" /\ Authorized(a, r)
  /\ human' = [human EXCEPT ![a] =
       [phase |-> "authorized", req |-> r, res |-> res, mode |-> m, copy |-> NoRecord]]
  /\ UNCHANGED <<teleportVars, config, up, rec, job, todo, raised, outgoing, history, mishaps>>

Apply(a) ==
  /\ human[a].phase = "authorized"
  /\ Resolve(a, human[a].req, human[a].res, human[a].mode)
  /\ human' = [human EXCEPT ![a].phase = "resolved"]
  /\ UNCHANGED <<config, up, rec, job, todo, raised, outgoing, history, mishaps>>

\* Variant: the decision is recorded although Teleport refused it.
ApplyFailsRecorded(a) ==
  /\ human[a].phase = "authorized"
  /\ CallFails(a, human[a].req, human[a].res, human[a].mode)
  /\ human' = [human EXCEPT ![a].phase = "resolved"]
  /\ UNCHANGED <<config, up, rec, job, todo, raised, outgoing, history>>

ApplyFails(a) ==
  /\ human[a].phase = "authorized"
  /\ CallFails(a, human[a].req, human[a].res, human[a].mode)
  /\ human' = [human EXCEPT ![a] = NoCall]
  /\ UNCHANGED <<config, up, rec, job, todo, raised, outgoing, history>>

GetRecord(a) ==
  /\ human[a].phase = "resolved"
  /\ human' = [human EXCEPT ![a].phase = "put",
       ![a].copy = IF rec[human[a].req].known THEN rec[human[a].req] ELSE Fresh(FALSE)]
  /\ UNCHANGED <<teleportVars, config, up, rec, job, todo, raised, outgoing, history, mishaps>>

PutDecision(a) ==
  LET c == human[a]  x == Settle(c.copy, c.res, c.mode) IN
  /\ c.phase = "put"
  /\ rec' = [rec EXCEPT ![c.req] = x]
  /\ human' = [human EXCEPT ![a].phase = "notify", ![a].copy = x]
  /\ UNCHANGED <<teleportVars, config, up, job, todo, raised, outgoing, history, mishaps>>

\* The request and the requester were looked up once more, or could not be.
NotifyDecision(a) ==
  /\ human[a].phase = "notify"
  /\ Raise(human[a].req, human[a].copy)
  /\ human' = [human EXCEPT ![a] = NoCall]
  /\ UNCHANGED <<teleportVars, config, up, rec, job, todo, history, mishaps>>

-----------------------------------------------------------------------------
(* Housekeeping, delivery, crashes. *)

\* Prune: what was resolved long ago goes, what was never resolved is called expired.
Pruned(x) ==
  IF x.known /\ Resolved(x) /\ now - x.resolvedAt > ResolvedAfter THEN NoRecord
  ELSE IF x.known /\ ~Resolved(x) /\ now - x.seenAt > PendingAfter
    THEN Settle(x, "expired", "external")
  ELSE x

Prune ==
  /\ up
  /\ rec' = [r \in Request |-> Pruned(rec[r])]
  /\ UNCHANGED <<teleportVars, config, up, job, todo, human, raised, outgoing, history, mishaps>>

\* Send returns: the agent took the event, or five attempts were in vain.
Delivered(ev) ==
  /\ ev \in outgoing
  /\ outgoing' = outgoing \ {ev}
  /\ UNCHANGED <<teleportVars, config, up, rec, job, todo, human, raised, history, mishaps>>

SendFails(ev) ==
  /\ ev \in outgoing /\ mishaps < MaxMishaps /\ mishaps' = mishaps + 1
  /\ outgoing' = outgoing \ {ev} /\ unheard' = unheard \cup {ev.req}
  /\ UNCHANGED <<teleportVars, config, up, rec, job, todo, human, raised, overlooked>>

\* The connection to Teleport breaks; what it had not delivered is lost.
Disconnect ==
  /\ connected /\ mishaps < MaxMishaps
  /\ connected' = FALSE /\ stream' = <<>> /\ mishaps' = mishaps + 1
  /\ UNCHANGED <<now, state, how, votes, born>>
  /\ UNCHANGED <<config, up, rec, job, todo, human, raised, outgoing, history>>

\* Requests with a record whose event the process still has to raise or to deliver.
Untold ==
  {ev.req : ev \in outgoing}
    \cup {c.req : c \in {x \in {job} \cup {human[a] : a \in User} : x.phase = "notify"}}

\* The process dies: what it was doing is forgotten, and so are the records without a file.
Crash ==
  /\ up /\ mishaps < MaxMishaps
  /\ up' = FALSE /\ mishaps' = mishaps + 1
  /\ connected' = FALSE /\ stream' = <<>>
  /\ rec' = IF StateFile THEN rec ELSE [r \in Request |-> NoRecord]
  /\ job' = Idle /\ todo' = {} /\ human' = [a \in User |-> NoCall] /\ outgoing' = {}
  /\ unheard' = IF StateFile THEN unheard \cup Untold ELSE {}
  /\ UNCHANGED <<now, state, how, votes, born, config, raised, overlooked>>

Start ==
  /\ ~up /\ up' = TRUE
  /\ approvals' \in Approvals /\ source' \in Sources
  /\ UNCHANGED <<teleportVars, rec, job, todo, human, raised, outgoing, history, mishaps>>
=============================================================================
