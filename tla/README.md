# Verification of k8s-stack

TLA+ models of the stateful parts of k8s-stack, the TLC runs that check them on
small instances, and TLAPS proofs of what matters most for every instance. Paths
are relative to the repository root unless they end in `.tla` or `.cfg`.

The modelled parts:

* the **preview lifecycle** (`internal/platform`): the durable store, the worker
  that runs the deployment scripts, its shutdowns, crashes and restarts;
* the **access broker** (`internal/teleportaccess/broker`): the watcher that
  decides Teleport access requests by policy, the decisions people take through
  the broker, its records, and the events it raises;
* the **chat agent** (`services/agent`) with the links, codes and leased notices
  the lifecycle API keeps for it;
* the **access agent** (`services/access-agent`): the cards it posts about access
  requests, and the conversations it has for people with their own Teleport rights;
* the **portal** (`packages/portal`, `packages/backend`): what its pages send, wait
  for and show;
* the **Teleport infrastructure** (`infra/teleport`): how a stack comes up, and who
  may talk to whom in it.

## 1. The system

### Components

| Component | State it keeps | Operations | Talks to |
|---|---|---|---|
| Lifecycle store, `internal/platform/store.go` | environments, operations, confirmations, idempotency keys, outbox, account links, audit; one bbolt document | `Create`, `Extend`, `ConfirmDelete`, `Delete`, `Redeploy`, `Reconcile`, `Recover`, `claimExcept`, `Phase`, `Finish`, each one transaction | called by the HTTP API and by the worker |
| Lifecycle worker, `runner.go`, `cmd/dogfood/main.go` | the running scripts, a channel of results, the context | a select loop: results, a tick a second (reconcile, cancel, claim), shutdown; `Recover` at start | store; `scripts/preview-up.sh`, `preview-down.sh` in process groups of their own |
| Lifecycle HTTP API, `api.go` | none (all in the store) | user requests with role, ownership and generation checks; `/internal/*` for the chat agent | store |
| Outbox and account links, `api.go` 377–517 | notices with lease times, link codes, links | lease of up to 20 notices, `valid`, `ack`, `link`, `identity` | chat agent polls every 15 s |
| Chat agent, `services/agent` | receipts on disk, locks per conversation, a counter of active questions | messages, `/internal/ask`, the notification loop | lifecycle API, chat platforms, the model |
| Access broker, `internal/teleportaccess/broker` | one record per access request, in memory and in a JSON file | `Handle`, `handleResolved`, `Approve`, `Deny`, `Reconcile`, `Prune`, `notify` | Teleport (watcher or polling, decisions), chat agent (signed webhook) |
| Policy engine, `policy` | none | request → decision | broker, access API |
| Request cards, `services/access-agent/src/notifications`, `broker/webhook.ts`, adapters | events seen, cards posted per request with a nonce, user caches | pending and resolved events, button clicks | broker (webhook in, decisions out), chat platforms |
| Conversations, `services/access-agent/src/agent`, `mcp` | transcripts or session ids (memory and file), a pool of MCP sessions, child processes with a proxy each | a question from chat or terminal, in one of two back ends | Claude, Teleport MCP server |
| Identity assertions, `assertion` and `identity/assertion.ts` | replay cache | sign, verify | every service-to-service call |
| Teleport MCP server, `mcp` | sessions bound to a principal | open, call, end | Teleport |
| Access API and access portal, `accessapi`, `portal` | a token bucket per caller, idempotency keys | views, requests, decisions | Teleport, broker |
| Portal back end, `packages/backend` | none | routes to the lifecycle API, the access portal, the agent and GitHub | all services |
| Portal UI, `packages/portal` | what each page shows, forms, dialogs, calls in flight, the tab's session storage | polls, every button that calls a service | portal back end |
| Teleport infrastructure, `infra/teleport` | what Pulumi has created | a profile rendered to resources, dependencies, NetworkPolicies | Kubernetes, Teleport's operator |
| Local orchestrator, `scripts/local.py` | lock, pid records | start and stop the services | processes |
| OpenTofu, charts, workflows | none at run time | declarations | |

`PROJECT.json` lists all components with their files, also those not modelled,
with the reason.

### How they interact, and what is hard about it

The lifecycle API and the worker share only the store. An API call is one
transaction and may fall between any two transactions of a worker's tick; the
worker's own picture (which scripts run) is in memory, the store's (which
operations are running) is on disk, and they meet again only in `Finish`,
`Recover` and the busy set of `claimExcept`. A cancelled script ends when it
ends; its result arrives after the store has moved on. The server may be told to
stop, or be killed, between any two steps.

The broker shares its records between a watcher goroutine and one goroutine per
HTTP call, with a mutex that is held for one `Get` or `Put` only. Between looking
at a record and writing it lie calls to Teleport, whose own events arrive at the
watcher while the caller has not recorded its decision yet. The connection to
Teleport breaks, calls fail, the process restarts, `Prune` forgets.

The chat agent is one Node process: between two awaits nothing else runs, across
one everything may. Chat messages and portal questions meet at a counter, at the
locks and in the session files; chat platforms deliver a message again when they
are not sure of the first time, and a process that dies has left a receipt and
nothing else. Notices are handed out under a lease, posted place by place, and
acknowledged; any of these calls may fail, with or without effect.

The access agent hears of a request by webhooks that come late, twice or not at
all, and of a ruling on a second way, the button on its own card; both write on the
cards. Its conversations share a pool of sessions that act for one Teleport user
each, while people are linked to other users, two turns of a thread overlap, and a
child process hangs with its grandchildren keeping its pipes open.

The portal's pages poll, are left while calls are under way, and press again after
an answer was lost; behind them are caches that trail and memories that forget.

A stack comes up in the order the declared dependencies leave, and its pods wait
for tokens, names, policies and each other while Pulumi waits for the pods.

What makes them correct:

* lifecycle: never two scripts on one namespace; `ready` and `deleted` are true of
  it; a teardown that has started is final; the outcome of an operation is never
  rewritten; nothing is lost across a restart; a generation names one version;
  pending notices are about the present; every operation ends and expiry is
  enforced;
* broker: what is recorded and announced is what Teleport decided; approvers are
  asked about a request at most once; the chat agent hears of a pending request in
  the end; a decision is recorded in the end;
* chat agent: a message is put to the model at most once; one question works on a
  conversation at a time and its session only grows; the limit on questions holds
  and every place under it is given back; a code makes one link; a notice is
  acknowledged when it is superseded or was posted everywhere, and that happens in
  the end;
* access agent: a card that names a verdict names Teleport's, appears once, is
  obeyed only when it is of this run and pressed by a member, and follows the
  ruling whatever becomes of other cards; a turn's tools act for the person who asked; a transcript can be replayed
  and loses only its beginning; no proxy outlives its turn; every turn ends;
* portal: one creation per form, whatever is pressed again; what a page reports is
  what was asked for and what is in force; what it shows does not go back and
  catches up;
* infrastructure: nothing is created before what it lives in; everything comes up
  after any failure; the policies admit the configured calls, but for one that
  section 9 names, and nothing that their header does not list.

The steps where these could go wrong are the `hazards` of `PROJECT.json`, each at
its line with the properties that would notice.

## 2. The preview lifecycle

### Modules

| Module | What it models |
|---|---|
| `LifecycleStore` | the state of `store.go` and its transactions: `Create` … `Finish`, one action each; the outbox's acknowledgement from `api.go` |
| `LifecycleWorker` | extends it with `RunWorker`, the scripts, shutdown, crash and restart, the clock and the API's calls: `Next` and `Spec` |
| `Lifecycle` | the properties, the inductive invariants, fairness, the refinement mapping |
| `Preview` | the abstract specification: somebody asks for a revision or gives an environment up, the namespace changes only while the environment is on its way, and `ready` or `deleted` is said only when it holds what was asked for last |
| `MCLifecycle` | instances for TLC |
| `LifecycleProofs`, `LifecycleWorkerProofs` | the theorems about the store, and about the worker and the refinement |

### State and actions against the code

`env`, `ops`, `confs` and `idem` are the maps of `State` (store.go:89). Operations
are numbered per environment: `queue` (store.go:195) always makes the newest one
current and ids are never reused, so an id and that number are the same thing.
`st.Notifications` is the set `notices` of keys that exist and the sets
`cancelled` and `delivered` of those with the flag set; `notify` never touches a
key that exists, so adding to a set is what it does. A request that is refused is
a stuttering step; a guard of an action is the conjunction of the early returns of
its function. `Reconcile` is one action over all environments, as it is one
transaction. `supersede`, `cancelNotices`, `queue` and `notify` are part of the
transaction that calls them.

`pc` says where `RunWorker` is: `recover`, `select`, then for a tick `cancel`
(after the commit of `Reconcile`) and `claim` (one turn of the claim loop per
step), and `drain` for the deferred function after the loop is left; `down` means
the process does not exist. `proc` is the map `active` and the channel `done` in
one table: a script is `running`, `cancelled` (its context is cancelled, it has
not ended), or its result waits: `ok`, `err`, `killed`. Taking waiting results in
any order covers the order of the channel. `TickCancel` cancels the scripts of
operations superseded in the snapshot; `TickClaim` claims with the busy set
computed from `active`; `Shutdown` is SIGTERM; `Leave` and `Exit` are `ctx.Done()`
and the receive of one result per script, which drops them. `select` with a
cancelled context may still take a result: both are enabled.

A script (`preview-up.sh`, `preview-down.sh`) leaves in its namespace nothing it
started from, something in between (`Partial`), or its goal; it may write at any
time while it executes, succeed, or fail anywhere. `OrphansSurvive` says whether
scripts outlive a killed server: they do on a bare host, since they have process
groups of their own (runner.go:32), and not in a container.

Left out: progress phases and timings, audit records, teams and URLs, bearer and
OIDC authentication, JSON.

### Properties

`StoreInv` (with its parts `StatusMatchesOperation`, `OneLiveOperation`,
`LiveOperationIsOfThisGeneration`): the tables of the store agree although every
transaction writes part of them. `OneScriptPerEnvironment`, `StatusIsTrue` (and, in
the proofs, `RunningIsActive` and `WorkerInv`): the worker's memory, the store and
the cluster agree. `PendingNoticesAreCurrent`: a
notice still to be sent names the expiry in force, the operation that is late, or
how the current operation ended. `HistoryIsFinal`, `GenerationIsVersion` (and
`TeardownIsFinal`, proved): what a step may never do. `PromiseKept`: the server
implements `Preview`. `OperationsEnd`, `ExpiryIsEnforced`: liveness.

### Runs

| Run | Instance | Shows |
|---|---|---|
| `worker_races` | one environment, two revisions, three operations (all of which users may queue), no extension, one confirmation, one restart | the safety of worker, store and cluster, and the refinement of `Preview` |
| `expiry_outbox` | one environment, the clock to 2 with a lifetime of 1 to 2, one extension, one acknowledgement, warm deployments, a restart whose scripts may survive | the store's own consistency, the outbox, generations, finality |
| `lifecycle_liveness` | one environment, three operations, one restart | operations end; expiry is enforced |
| `quota` | two environments, an early confirmation | see Findings |

Bounds. `MaxOps`, `MaxUserOps`, `MaxGen`, `MaxConfs`, `MaxDelivered`, `MaxNow` and
`MaxStops` bound how long an environment's history gets, in guards that name them.
Every pattern the properties are about takes at most three operations (a running
one, its replacement, and the teardown or the requeued one after that), one
restart between them, and a clock that passes one warning, one expiry and one
cleanup retry. (`lifecycle_liveness`, whose clock stops at 1, sees no cleanup retry.)
`MaxPreviews` is the code's quota, not a bound. Environments interact only through the worker's slots, the quota
and `Reconcile`: `quota` has two of them, the other runs one, and the theorems
below hold for any number. `MaxUserOps < MaxOps` in `expiry_outbox` and
`lifecycle_liveness` keeps an ordinal free for the teardown on expiry: otherwise
the bound, and not the code, would stop it. Time units are arbitrary: only the
order of the limits matters (`TTL <= MaxTTL`, warnings not longer than a lifetime).

Fairness (`Lifecycle.Fairness`). Weak fairness of start, recovery, the two halves
of a tick and the exit: the process is restarted by its supervisor and its loop
does not block. Strong fairness of taking a result, of the tick and of
`ctx.Done()`: `select` picks uniformly among its ready cases, so none is passed
over for ever. Strong fairness of a claim, because operations are claimed oldest
first and the busy set comes and goes. Weak fairness of a script's end:
`operationTimeout` kills it at the latest. Nothing is assumed of users.

## 3. The access broker

### Modules

| Module | What it models |
|---|---|
| `TeleportRequests` | access requests as Teleport keeps them, **external**: modelled from how `broker` calls the API and from its test double `teleport/fake` |
| `AccessBroker` | `service.go`, `store.go`, `watcher.go`: one action per step between two calls to Teleport or to the record store |
| `AccessDecisions` | the two composed, fairness, the properties, the refinement mapping |
| `AccessPromise` | the abstract specification: Teleport rules on a request once, approvers are asked at most once, a ruling is told only after it was made and as it was made |
| `MCAccess` | instances for TLC |
| `AccessBrokerProofs` | the theorems |

### State and actions against the code

`rec` is `Store.recs`; `known` says whether the id has a record and `ruled`
whether the record has the policy's decision in it (a record made by
`humanDecision` itself has none, and `authorizeApprover` then falls back to
`FallbackApproverRoles`). `job` is where the one watcher goroutine is: it lists
(`Reconcile`), acts on a pending request (`Handle`), is between a decision and its
`Put`, between `Get` and `Put` of `handleResolved`, with the copy it read, or
between a `Put` and its event (`notify`).
`todo` is the rest of the list it works through. `human` is the state of each
user's call to `Approve` or `Deny`, let in (`authorized`), decided (`resolved`),
between `Get` and `Put` with a copy, or past the `Put` (`notify`). After a `Put` the
code asks Teleport who the requester and the approvers are before it raises the event
(service.go:330, 487, 499), so `Notify` and `NotifyDecision` are steps of their own,
and a crash may come before them. `raised` are all events so far, `outgoing` those a
goroutine still delivers, in success (`Delivered`) or after five attempts in vain
(`SendFails`). Two history variables name what the code gives up: `unheard`, requests
whose record is put and whose event died with the process or was not taken, and
`overlooked`, requests that were pending when the list of a watcher failed, which is
not tried again before the next connection. `approvals` and `source` are the
process's configuration, read when it starts: how decisions are put to Teleport
(`SetAccessRequestState` or `SubmitAccessReview`) and how it learns of requests
(watcher or polling).

The watcher connects before it lists (`OpInit`, then `Reconcile`), and lists
before it reads the stream: `Connect`, `List`, `TakeListed`, `TakeEvent` in that
order. A call to Teleport fails because Teleport refuses it, the request being
decided already (or reviewed by this author already), because it does not get
through, or because its answer is lost after it took effect (`CallFails`). `Crash`
loses everything but the records, and those too
without a state file.

The policy's decision is data (`Policy`, `Approvers`), the unit of the clock is
hours (`Prune` runs once an hour and counts days), and the clock stands still while
the broker is in the middle of something. Native mode watches nothing and is left
out, as are label lookups, a failing write of the state file, and id prefixes.

### Properties

`DecisionsAreTrue` (with its inductive form `TruthInv`): records and events say
what Teleport decided, whoever raced whom. `ReviewAskedOnce`: approvers are asked
once although the watcher meets the request again and again. `PendingIsTakenUp`:
the chat agent takes an event about every pending request that needs approval, except
the `unheard` and the `overlooked` ones; requests the policy decides by itself are
outside it, since an automatic decision that fails is not tried again.
`DecisionIsRecorded`: while nothing breaks, the broker's record of a decided request
is closed. `PromiseKept`: the broker
implements `AccessPromise`.

### Runs

| Run | Instance | Shows |
|---|---|---|
| `broker_decisions` | two requests, one approved automatically and one by people; two users who may decide it in opposite ways at once; decisions elsewhere; one mishap; watching and polling; states are set, or reviews of which one is enough | truth of records and events, the refinement of `AccessPromise` |
| `broker_modes` | one request in all four configurations, which a restart may change; one user; two approvals needed where reviews are submitted; two mishaps; the clock to 3 | asked once, heard of, recorded |

Bounds. Requests are independent but for the watcher, which handles one at a time:
two are enough to have one waiting behind another. Two users are enough for two
opposite decisions. In `broker_modes` the second review of a threshold of two is one
that Teleport takes elsewhere. A mishap is a crash, a lost connection, a failed list,
call or delivery: the second one of `broker_modes` falls into the recovery from the
first. `Lifetime <= PendingAfter <= ResolvedAfter`, as
with Teleport's limits and the configured 24 hours and seven days
(`cmd/teleport-access/main.go`): were a request to outlive its record,
approvers would be asked again.

`ApiFails` names the configurations in which calls to Teleport fail: in both runs all
of them. `MaxMishaps` bounds how often.

Fairness (`AccessDecisions.FairSpec`). Weak fairness of the restart, of the
connection (`RunWatcher` does not return before the process ends), of the poll
ticker, of each step of a handler (each is one goroutine's and stays enabled), of the
rest of each call by a user, and of the end of each delivery. A user's call has 15
seconds (httpapi.go), a delivery two minutes. The watcher's own calls to Teleport have
no deadline but the process's: that the Teleport client returns from them, if only
because the connection breaks, is an assumption and not something this code sees to.
Nothing is assumed of users, of Teleport or of `Prune`.

## 4. The chat agent

### Modules

| Module | What it models |
|---|---|
| `ChatDesk` | what the lifecycle API keeps for the agent: link codes, links, and the outbox with its leases (`api.go` 197–209 and 377–517) |
| `ChatAgent` | `services/agent`: `processMessage`, `/internal/ask`, `Agent.ask`, `send`, the notification timer, signals, crashes and restarts |
| `Chat` | the two composed, fairness, the properties |
| `MCChat` | an instance for TLC in four scenes |
| `ChatProofs` | the theorems |

### State and actions against the code

`codes`, `links` and the sets `open`, `cancelled`, `delivered` are `st.LinkCodes`,
`st.Links` and the flags of `st.Notifications`; `leased` holds the notices whose
`NotBefore` is still to come. Every handler of `internal` is one transaction and
one action or operator: `MakeLink`, `Known`, `Lease`, `Valid`, `Acknowledge`. A
batch is any set of due notices of at most `Batch` (20 in the code), smaller only
if there are no more: the loop ranges over a Go map.

`task[m]` is where the handler of message `m` is, named for the await it sits at:
`link`, `identify`, `open` (directory and session file), `model`, `say` and
`sorry` (a reply, an apology). `receipts` and `session` are files and survive;
`active` and `locks` are the module variables and do not. `Starts` is `Agent.ask`
up to its first await; `Open` is the rest before the model runs; `Answered` writes
the session, gives the lock back and, for the portal, counts down. A chat
question stays counted until its answer is sent or is not (`Say`). `Receive` is
only enabled without a receipt, so a redelivery is a stuttering step.
`round` is the run of the timer: the rest of its batch, the notice it is at, the
places its batch named and those that are left.

A call fails because it is refused, or because something breaks (`Mishap`), and
then it has taken effect or not: each action that calls says which. The directory
is made outside the `try` that gives the lock back (agent.ts:35), so a failing
`Open` may keep it. `Dead` are places nothing can be posted to any more, which the
agent only learns by trying. A signal stops the listener and the timer, and the
process leaves when nothing is under way; a crash, or a receipt that cannot be
written (nobody catches that), loses all that is not on disk.

Left out: texts and their length (a message that is too long goes the way of one
with an unknown provider), what the model says and which tools it calls, the
verification of signatures, and how long leases and codes last: they end at any
time. How notices come about is the subject of `LifecycleStore`.

### Properties

`ActiveIsCount` (and `OneQuestionPerConversation`, proved): counter and locks agree
with what is under way, however it ends. `SessionsGrow`: no turn of a conversation is lost to
an older one, although session.json is read minutes before it is replaced.
`AskedAtMostOnce`: receipts hold across crashes and redeliveries. `CodesLinkOnce`:
across lost answers, second tries and somebody else's tries. `AcknowledgedWasTold` and
`NoticesArePassedOn`: the two sides of the outbox, nothing acknowledged that was not
posted everywhere, nothing left behind because another notice of its batch cannot be
posted, unless a post hangs in Google Chat and the round with it. `MessagesAreHandled`:
the agent comes to rest, but for replies that hang there.

### Run

| Run | Instance | Shows |
|---|---|---|
| `chat_agent` | four scenes: an account is linked and asks twice in one conversation; it is linked and the portal asks twice in one conversation, for different providers, beside it; two accounts are linked, one of them at a dead place, their owners have a notice each, and somebody asks in public; one code is sent twice by one account and once by another. Two questions at a time, batches of two, one mishap | all of the above |

Questions and notices share only links and the process, so the scenes look at them
one after the other. Two questions of one conversation are what its lock is about,
two at a time and three to ask what the limit is about; two notices of which one
cannot be posted are what a batch is about. One mishap is a crash, a signal, or a
call that fails with or without effect, at any point; the run may come to rest,
hence no deadlock check.

`MaxActive`, `Batch` and `MaxMishaps` are those numbers; `Dead` and `Unlimited` are
both the second account's place.

Fairness (`Chat.Fairness`). The process is restarted, and leaves when it is idle.
Calls to the lifecycle API, to Slack, to Teams and to the model have time limits (30 s,
15 s, two minutes), so a handler at one of them goes on; so does a round, and the
interval starts one for ever. Posting to Google Chat has none (channels.ts:116-126):
`Unlimited` are the places there, and nothing is assumed of a handler (`Hanging`) or a
round (`Waiting`) that is to post to one. If such a call never returns, the handler
keeps its place in `active`, `notifying` stays true and no round starts again before
the process is restarted; the two liveness properties say what holds nevertheless.
A lease ends. Strong fairness of taking up any one item of a batch: the items come
in the order of a Go map, which starts anywhere, so none is behind another for
ever. Nothing is assumed of people, of the platforms or of mishaps.

## 5. The access agent

### Modules

| Module | Models |
|---|---|
| `AccessPromise` | the broker as the cards meet it: it asks, rules, and tells each ruling once |
| `RequestCards` | the broker's deliveries (`broker/webhook.ts`), the cards (`notifications/service.ts`), the adapters' posts, updates and looks at who clicked, the broker client |
| `AgentTurns` | the two back ends (`agent/api-key-backend.ts`, `claude-code-backend.ts`), the stores of transcripts and session ids, the MCP pool and its sessions, the assertion proxy, the terminal |
| `MCAgent`, `MCTurns` | instances and scenes |
| `RequestCardsProofs`, `AgentTurnsProofs` | proofs about cards and about turns |

### State and actions

`RequestCards` extends the broker's abstract specification, so that the cards are
checked against every broker that keeps its promise; section 3 shows that the
detailed one does. `mail` is what the notifier does about an event: an attempt is
turned away (nobody listens, or the event was seen: 401), given up after ten
seconds while the handler goes on, or answered, up to `MaxTries` attempts. The
handler (`handling`) is `handleEvent` from one await to the next: `Deliver` decides
what there is to do, `PostCard` and `UpdateCard` do the next call, with or without
success, `Track` and `Untrack` remember and forget the cards, `TellRequester` writes
to whoever asked. A press (`click`) is an adapter's event up to the end of
`onClick`: `PressButton`, Slack's dialogue (`Submit`), the adapter's look at who
that is (`Arrive`, `Vet`; Slack's ends the click of somebody it cannot find, Teams'
swallows the failure and lets it on), the nonce, the second look and the Teleport user
(`Verify`), the broker's ruling (`Decide`, `Refused`), the answer and the update of the cards that
were tracked when the click came. Events seen, cards tracked and users cached are in
memory and lost in a crash; cards stay on their platforms, and a click on one of an
earlier run still arrives.

`AgentTurns` has one record per question: for whom it was begun, what it has read of
the transcript, what it adds. With an API key a turn opens or reuses a session
(`Open`, `Connect`), lists tools, does rounds with the model, and appends its
exchange to the transcript as that is by then (`Keep`). With a subscription it
resumes the conversation's session of Claude Code in a child process with a proxy of
its own (`Resume`, `StartChild`, `ChildEnds`, `ChildHangs`, `Timeout`, `Close`); a
session that cannot be resumed is forgotten and the question asked once more.
Around them: people who get another Teleport user (`Relink`), sessions the server
ends, idle sessions that are evicted, a refused key, a signal, a restart that finds
what was on file.

Left out: wording, Slack's and Google Chat's markup, partial answers as they stream,
time windows and signatures, which decide what calls are let in (`webhook.ts`,
`assertion.ts`).

### Properties

`CardsTell` (proved): a card or message that names a verdict names Teleport's,
whichever of its two ways it took. `OneCardPerPlace` (proved): however often an event
is tried again. `ClicksAreChecked` (proved): nothing from an older run
passes the nonce check, and nothing from somebody who has left reaches the broker.
`CardsFollow`: a ruling whose event comes while the cards are tracked reaches all of
them but those whose own call failed, so a loop that stopped at the first failure
would be seen; it is said of events none of whose calls hangs for ever.

`CallsActForAsker` (proved): the session or proxy behind a turn's tools is that of
the user the turn was begun for, although sessions are pooled, people change users,
and turns overlap. `Replayable` (proved): a transcript that is cut from the front
still begins with a question and holds no result without its call. `NoExchangeLost`
(proved): overlapping turns of one conversation do not overwrite each other.
`ProxyPerTurn` (proved): no proxy is left listening. `TurnsEnd`: every question ends.

### Runs

| Run | Instance | Shows |
|---|---|---|
| `request_cards` | a channel, an approver on three platforms; scenes: events with no clicks (a delivery tried twice), an approver's clicks in Slack and Google Chat, and in Teams, the requester's own click. Two runs of the process, one mishap | the four properties of cards |
| `agent_turns` | scenes: two people, or one twice, in a channel; two questions at a terminal with two mishaps; three questions in a conversation with room for three messages | the five properties of turns |

A scene has one request, since requests share only the map they are kept under, and
each of the two asks for another of the ways a requester is told. `MaxTries`, `MaxTold`,
`MaxLife` and `MaxMishaps` bound the attempts at an event, the events about one ruling,
the runs of the process and the calls that fail. `MaxTurns = 3` is
less than two exchanges with a tool call, so every kind of cut happens; three
questions suffice for a turn that read before, and is appended after, two others.
One tool call per turn (`MaxRounds`) separates a call from its result. The runs may
come to rest, hence no deadlock check.

Fairness. Cards: the agent is started again, the notifier goes on with its attempts
(ten seconds each), and so does a handler between its calls (`EventProgress`). Nothing
is assumed of calls: neither `BrokerClient.call` (client.ts:44-50) nor the cards' calls
to the platforms have a limit in this code, so each may take for ever, and nothing is
assumed of clicks. Turns: the process is started again and
some turn goes on; every turn is a bounded number of steps, and a child that hangs
is killed with its group when its time is over. Nothing is assumed of people or
mishaps.

## 6. The portal

### Modules

| Module | Models |
|---|---|
| `PortalShell` | the back end's routes by configuration and what a page makes of its answers; the hook by which a page reads (`useResource`, `useAccess`) |
| `PortalEnvironments` | `PlatformProvider`, the creation form, the environment's page, and the lifecycle API as far as it is seen from outside; the scaffolder's action |
| `PortalAccess` | the access pages: who am I, lists, details, the queue of decisions, the request form; the access portal's idempotency keys; Teleport and its trailing read cache |
| `PortalWork` | the assistant, promotions, pages that only read, the account dialog, signing in and out |
| `Portal` | the whole: one tab, one router, one back end; properties |
| `MCPortal` | scenes |
| `PortalProofs` | proofs |

### State and actions

What a component of React remembers is a variable; a call is three steps, sent,
carried out and answered, so that it may fail before or after it took effect and
calls overtake each other. Code between two awaits, with the callbacks that run when
a promise settles, is one step. `Refresh` is that of `PlatformProvider`: a caller waits
for the read it finds in flight and then, if it wants a fresh one, starts its own.
Several may wait for one and start theirs at the same time; the provider remembers the
last it started, forgets it when any of them ends, and shows every answer as it comes.
The hook of the access pages (`Ask`, `Served`, `Taken`) is different: it drops the
answers of reads that are no longer `live`. A person's decision is set by the broker, or
submitted as a review where it is configured so (`TA_BROKER_APPROVALS=review`); then an
approval of a request that takes several (`Reviewed`) may leave it pending (`voted`),
which the page reports like any other.
Opening a page takes the one before away with whatever it had under way; a creation
that is done opens its environment's page wherever the person is by then; signing
out loads the tab anew and leaves the session storage. The lifecycle API behind it
keeps its generation, status, confirmations and idempotency keys as section 2 has
them; other people and the worker act at any time (`Elsewhere`, `Others`).

### Properties

`OneCreationPerForm`: a press after a lost answer creates nothing new.
`ReportedIsWhatWasAsked`: the request the form reports is for what it was asked for.
`ReportedDecisionHolds`: the ruling a page reports is Teleport's, or, for an approval
of a request that takes several, a review that Teleport has taken from this person; it
may be pending still or be denied in the end, and the page says "Request approved."
all the same (section 9). `AnswersStay`: an
answer is kept in the conversation, and with the provider, it was given in, although
the person resets, reloads or leaves meanwhile. `NoticeIsShown`: what was done is
announced beside data at least as new, or a warning that they are old. `NeverOlder`:
what a page shows does not go back. These six are proved too. `ShownCatchesUp`: the
pages get to show what is.

### Runs

| Run | Instance | Shows |
|---|---|---|
| `portal` | scenes: create, manage and delete an environment; the queue and the request form; the assistant; promotions; a tour of every page on every configuration | all but `ShownCatchesUp` |
| `portal_catches_up` | the scenes that manage and delete | `ShownCatchesUp` |

A scene is one part of the portal, since the parts share only the router. The bounds
(`MCPortal`, `portal.cfg`; `MaxKeys`, `MaxAttempts`, `MaxGen`, `MaxFetches`, `MaxAsks`,
`MaxFaults`, `MaxLosses`, `MaxOutages`, `MaxChats`, `MaxSaid`, `MaxEditions`): three keys, for a key, the same form again and another
one; three generations, for what the page shows, a change by somebody else and one
more; two reads in flight, because a third supersedes like the second; one failure
in a part; three conversations of up to two exchanges. Inputs run out under these
bounds, hence no deadlock check.

Fairness (`Portal.Fairness`). The timer polls, every read ends one way or the other,
and every call ends: the browser's fetch has no limit of its own, the back end gives
each of its calls 30 seconds. The person need not do anything.

## 7. The infrastructure

### Modules

`NetworkMatrix` renders a profile's NetworkPolicies (`NetworkPolicies.ts`) as sets of
selected pods and admitted peers and ports, says what Kubernetes makes of several
policies on one pod (`Admitted`), which calls the deployed programs are configured
to make (`NeededFlows`), and the matrix in the header of `NetworkPolicies.ts`
(`DocumentedFlows`; the table of docs/teleport/architecture.md is an older one, see
section 9). `Stack` lists every resource a
profile registers (`Program`), with its namespace, its dependencies, the pods it
waits for and what these mount, component by component, and lets the stack come up.
`MCStack` gives the profiles of the repository's five stack files and eight more.

Pulumi creates what has its dependencies and waits for pods (`Create`), a creation
fails and somebody runs it again (`Fail`, `Rerun`), the operator brings custom
resources to Teleport (`Apply`), pods start once mounts, tokens, policies and the
services they wait for are there (`Serve`), and are lost (`Outage`). These five are
Pulumi, Kubernetes, Helm and the operator, and external; the program is what they
are given. What can happen at once happens in one round: creations only add, so
what matters is what comes late, and the resource whose creation fails stands for
whatever comes last. `Refusable` names the policies that may fail too: while one of
them is missing some policies are in force and others are not. Pods wait only in the
checks the program writes (init containers, readiness, mounts).

Agents and databases call the proxy at its public address. What a policy sees of such a
call depends on the cluster: where it turns the address into the proxy's pods itself
(CoreDNS on kind; kube-proxy where the load balancer has an IP address, as on Azure and
Google) it is a call of the proxy, elsewhere (a load balancer that has only a name, as
on AWS) one that leaves the cluster to come back through its front door. `direct` says
which, `FrontDoor` is where the call goes, and `Outside` are the peers out there.

### Properties and run

`stack_comes_up` checks, on thirteen profiles with one failing creation or one loss of
pods each: `NothingRefused`, that nothing reaches the API server before its namespace
and the chart that brings its kind (proved); `StackComesUp`, that no
dependencies, mounts, tokens and policies wait for each other in a circle, so that
everything is up in the end; and `FlowsAreTheMatrix`, that with every policy in place
they admit every configured call and nothing beyond the documented matrix (proved, for
every profile that `profile.ts` accepts). One call is not admitted, and the properties
say exactly which (`CutOff`): where `direct` is false, a database's fetch of the CA.
Such a database (`Hindered`), and what waits for it, is all that `StackComesUp` leaves
out. The calls of
Enterprise's plugins (`Plugins`) are not among the configured ones, so for profiles that
deploy them only the second half is said. The eight further profiles make every choice
of `profile.ts` both ways. The stack may rest when it is up, hence no deadlock check.

Fairness. Pulumi, the operator and the kubelets go on, and somebody runs
`pulumi up` again after repairing what failed.

## 8. What is proved

All theorems hold for every value of the constants that satisfies the `ASSUME`s of
the modules; further assumptions are named.

| Theorem | Says | Assumes |
|---|---|---|
| `LifecycleProofs!TypeCorrect` | `Spec => []TypeOK` | |
| `LifecycleProofs!StoreInvariant` | `StoreInv`: the store's tables agree | |
| `LifecycleProofs!TeardownFinal`, `GenerationVersion`, `HistoryFinal` | nothing comes back once its teardown has begun; the action properties of the same names | |
| `LifecycleWorkerProofs!WorkerInvariant`, `OneScript`, `StatusTrue`, `RunningActive` | worker, store and cluster agree | no script survives its server |
| `LifecycleWorkerProofs!Refinement` | `Spec => PromiseKept` | no script survives its server |
| `LifecycleWorkerProofs!NoticesCurrent` | no stale notice is left to be sent | |
| `AccessBrokerProofs!TypeCorrect` | `Spec => []TypeOK` | |
| `AccessBrokerProofs!DecisionsTrue` | `Spec => []DecisionsAreTrue` | one decision is enough, nobody promotes |
| `AccessBrokerProofs!KeepsPromise` | `Spec => PromiseKept` | one decision is enough, nobody promotes |
| `AccessBrokerProofs!AskedOnce` | `Spec => []ReviewAskedOnce` | a state file; no request pends longer than closed records are kept |
| `ChatProofs!TypeCorrect` | `Spec => []TypeOK` | |
| `ChatProofs!OneQuestion` | `Spec => []OneQuestionPerConversation` | |
| `ChatProofs!SessionGrowth` | `Spec => SessionsGrow` | |
| `ChatProofs!AskedOnce` | `Spec => []AskedAtMostOnce` | |
| `ChatProofs!CodesOnce` | `Spec => []CodesLinkOnce` | |
| `ChatProofs!Told` | `Spec => AcknowledgedWasTold` | |
| `ChatProofs!CounterExact` | `Spec => []ActiveIsCount` | |
| `RequestCardsProofs!TypeCorrect` | `Spec => []TypeOK` | |
| `RequestCardsProofs!CardsTrue` | `Spec => []CardsTell` | |
| `RequestCardsProofs!ClicksChecked` | `Spec => []ClicksAreChecked` | |
| `RequestCardsProofs!PostedOncePerPlace` | `Spec => []OneCardPerPlace` | no channel and no approver is named twice |
| `AgentTurnsProofs!TypeCorrect` | `Spec => []TypeOK` | |
| `AgentTurnsProofs!ActsForAsker` | `Spec => []CallsActForAsker` | |
| `AgentTurnsProofs!CanBeReplayed` | `Spec => []Replayable` | |
| `AgentTurnsProofs!ProxiesEnd` | `Spec => []ProxyPerTurn` | |
| `AgentTurnsProofs!NothingIsLost` | `Spec => NoExchangeLost` | |
| `PortalProofs!TypeCorrect` | `Spec => []TypeOK` | |
| `PortalProofs!CreatedOncePerForm` | `Spec => []OneCreationPerForm` | |
| `PortalProofs!ReportsTrue`, `DecisionsTrue` | `Spec => []ReportedIsWhatWasAsked`, `Spec => []ReportedDecisionHolds` | |
| `PortalProofs!AnswersKept` | `Spec => []AnswersStay` | |
| `PortalProofs!NoticesAreShown`, `ShownNeverOlder` | `Spec => NoticeIsShown`, `Spec => NeverOlder` | |
| `StackProofs!TypeCorrect` | `Spec => []TypeOK` | |
| `StackProofs!NothingIsRefused` | `Spec => NothingRefused` | |
| `StackProofs!FlowsAreListed` | `Spec => []FlowsAreTheMatrix` | |
| `StackProofs!NoCircle` | what a resource waits for is of a lower rank than it | |
| `StackProofs!NeverStuck` | `Spec => []RestsWhenUp`: a stack at rest is up, but for databases that are cut off | |

With these, every safety invariant and every action property that a passing run
checks holds for every instance, and so do both refinements.

The assumptions are not conveniences. Some are the known disagreements of section 9:
where scripts survive their server two of them may work on one namespace; with a
threshold of two approvals the first review is recorded and announced although the
request is pending; a promoted request is recorded as denied; an approver who is named
twice gets two cards. The others are how it is deployed: `AskedOnce` needs the state
file, and a record that outlives its request, which roles limit to four hours
(infra/teleport/src/policy/render.ts:98) while `Prune` keeps a closed record for seven
days (cmd/teleport-access/main.go:155). That pending records are kept for a day only
does not matter to it: what `Prune` does to such a record is close it. `FlowsAreListed`
and `NeverStuck` are about the profiles that `enforceInvariants` lets through
(`ProfileAssumption`); `NoneAssumption` keeps `None` apart from the resources' names.

The argument for the lifecycle. That an environment's status is that of its current
operation is not inductive alone: one needs that operations are numbered without gaps
and none lies beyond the current one (`OrdinalsAreDense`). `StoreInv` is the
conjunction, stated per environment (`StoreInvAt`). Every step of the system does one
of a few things to an environment (nothing, queue, retire, extend, claim, requeue,
finish): `Changed(e)` lists them, `StoreSteps` shows every action does one, and
`StoreInvChange` that each keeps `StoreInvAt(e)`. The action properties follow from
the same classification (`FinalitySteps`). For the worker, `WorkerInv` adds that a
script only runs while its environment is on its way, works on the revision in
force, and leaves the namespace alone once it has succeeded
(`ScriptsServeTheirOperation`); without that `StatusIsTrue` would not survive
`TakeResult`. The refinement then has one lemma per abstract step (`AskStep`,
`RetireStep`, `WorkStep`, `SucceedStep`, `FailStep`, `UnseenStep`), and each
action of the server is shown to be one of them.

The argument for the broker. `DecisionsAreTrue` is kept by a `Put` only if what is
about to be put is true already: `TruthInv` says so of the watcher's job
(`JobIsTrue`), of every user's call (`CallsAreTrue`) and of every event still in
the stream (`EventsAreTrue`). It rests on one fact about Teleport, that a decision
stands (`Stands`), which every step keeps. Where a threshold of one is submitted to, the
review that succeeds is the decision (`OneDecides`). `KeepsPromise` maps the same steps
to `AccessPromise`: a `Put` that announces is its telling of a ruling, which `TruthInv`
says is made, and everything Teleport does is its ruling.

That approvers are asked once is a matter of memory, not of truth. `AskedOK` says of a
request that has been asked about, and that the watcher may take for a pending one yet
(it is pending, or is on the list or in the stream as such), that its record says it was
handled. Two things endanger that. `Prune` forgets: but only a closed record, which was
not closed before the request was made, so the request has run out by then. And `Put`
overwrites, possibly with a copy older than the record it replaces: but whoever puts
does so with a record that speaks of now (`Speaks`), and the watcher, which alone asks,
has not asked when it acts on a request (`AskJobOK`).

The argument for the chat agent. `MessageSteps` reduces a step to that of one
message, `OthersStay` and `MessageMoves` say which few things it may do to its task
(come in, be asked, begin, be put to the model, end). The lock invariant is not
enough for sessions: `ReadIsCurrent` adds that what the model was given is still
the conversation's session, which holds because only the holder of the lock writes
it, and `ReadIsPinned` that its provider was looked at. `AskInv` says of a message
without a receipt that nothing has happened to it, and of one on its way to the
model that it has not been there. `ToldInv` says of the notice being passed on that
it has reached every place that is not left, unless it was settled meanwhile, and
of the rest of the batch that it names notices that were raised and somebody to
tell. For the counter, `Counting` shows that a step takes a place, gives its own
back, or does neither. None of it needs the bound on mishaps.

The argument for the cards. A verdict reaches a card on two ways, from the broker's
event and from the click that was obeyed; `TellingOK` says what is shown and told is the
ruling, `ClickOK` that a click which has an answer has that of its own button, and both
need of the broker only what `AccessPromise` gives: it tells what was ruled, and a ruling
stands (`RulingsStand`). That a click past the nonce check is of this run rests on what the nonce is compared
with: tracked cards and what a handler posts are of this run, and a run that has
ended leaves only clicks that have not come in (`LifeOK`, `TrackedOK`, `HandlingOK`).
That its presser still had an account is shown where the last look is (`Verify`), since
on Teams the first lets everybody on. That
a place gets one card needs where the loop is: what is left to post has not been posted
and names no place twice (`PostedOnce`), at first since the list of places does not
(`TargetsDiffer`, by counting through the adapters for each approver), and an event that
was seen is not handled again.

The argument for the access agent's turns. `Sound` says of one turn, phase by phase,
what its record holds; a step changes one turn, so it is shown once for that turn and
the others stay. That a session acts for its user needs that the pool is true of
whom each session was begun for (`PoolIsTrue`), which survives two turns that connect
for one key at once. Transcripts are about sequences of any length: what a turn adds
begins with its question and keeps results behind calls (`Exchange`), a cut starts at
a question or leaves everything (`TrimmedCuts`), and both keep `Replays`
(`AddedReplays`, `TrimmedReplays`). That there is a first or last place to cut at is
shown once (`LeastOf`, `GreatestOf`).

The argument for the portal. Its parts share the router and little else, so each has an
invariant of its own (`EnvInv`, `AccessInv`, `WorkInv`), and what a step of one part does
to another is to open a page, to load the tab anew, or nothing (`EnvSame`, `AccessSame`,
`WorkSame`). Creations: keys are numbered as they are drawn, those of the form that is
open come last, two that follow each other are for different drafts, and what was created
under a key is what the key was issued for (`KeysOK`). Notices: a refresh that was started
after a call reads what the call did or something later (`FetchesOK`), and what was done
is not ahead of the environment (`JobsOK`). Requests: what was asked for under the key of
the last attempt is what that attempt was for; a submission whose page is there is the
last attempt, and one whose page is gone is nobody's (`AskedOK`, `SubmissionOK`).
Decisions: a ruling stands, a review stays, and a call that was answered well has made
one of the two. Pages:
what is shown trails Teleport's cache, which trails Teleport, and the one read that is
live has read nothing older than what is shown (`NotAhead`, `Orderly`).

The argument for the stack. `NothingRefused` speaks of an order of steps but rests on
what is declared: `SaysEnough(r)` says of a resource that its own dependencies name
its namespace and, for a kind the chart brings, the chart. It is shown for every
component (`ClusterSays`, `AgentSays`, `DummiesSay`, `PoliciesSay`, ...) for any
profile, hence for the program (`ProgramSays`); `ByNameFinds` and `RefersToNeeds`
carry it over to `Resource(id)`, and the type invariant adds that Pulumi is done only
with what exists.

`FlowsAreTheMatrix` is about policies taken together: what a pod may do is the union of
what the policies that select it allow, once one selects it. The matrix is compared one
role at a time: for each, which policies of a profile select it and what they let it call
and be called by (`MayGo`, `MayCome`), for any combination of the profile's switches.
From these follow what is admitted between two roles (`AdmittedIs`), that this is listed
(`AdmittedIsListed`), that what is needed is admitted unless it is cut off
(`NeededIsAdmitted`), and that what is said to be cut off is.

That a stack never gets stuck (`NeverStuck`) is what can be proved of `StackComesUp`: not
that it arrives, which takes fairness, but that it never stops before. `AtRest` says that
none of `Create`, `Rerun`, `Apply` and `Serve` can be taken; that everything is up then
goes by rank (`Rank`, 0 to 11; databases have the
last but one and services, which may wait for them, the last). `Founded` says of a resource that what it depends on and
mounts, the tokens its pods join with, and the workloads of the pods Pulumi waits for are
resources of the program of a lower rank, and that the profile provides for the calls its
pods make before they are ready; it is shown component by component (`ClusterFounded`,
`DatabaseFounded`, `BotFounded`, ...) and so for the program (`NoCircle`). At rest, if
all below a rank is up then so is the rank (`NextRankIsUp`): its resources are creatable,
so they are created; their pods may join and call, so they serve; the pods awaited
serve, so Pulumi is done; and Teleport resources are applied, the operator being up. Only the
cluster's chart needs an order of its own (`ClusterServes`: auth calls nobody, proxy and
operator call auth). Policies could stand between a pod and whom it calls when
some of them are in place and others are not; but all wait for the same namespaces, so at
rest there are none or all (`PoliciesTogether`, from `NeedsDone`: what is created had its
dependencies done), and all together admit what is needed (`MatrixHolds`), but for the
databases that are cut off, for which nothing but their own services waits
(`DatabasesLast`).

Only model-checked: all liveness under fairness, which is beyond the prover, as are
induction over data and recursive operators, which the models with proofs do without;
and the finding.

## 9. Findings and known disagreements

With a run that gives the trace, `quota`: a delete confirmation given while an
environment is being deleted is still good afterwards, and using it brings the deleted
environment back into the count without a look at the quota (store.go:353).

Seen while modelling, and part of the models, but without a run of their own. They are
listed so that nobody reads a passing run as their absence.

*Lifecycle* (`internal/platform`)

* On SIGTERM the result of a killed script may be taken before `ctx.Done()`; the
  interrupted operation is then recorded as failed and not requeued (runner.go:94),
  against architecture.md:27.
* A redeployment cancels the pending expiry warning, whose key then keeps it from
  being raised again (store.go:196), against architecture.md:51.
* A script survives a server killed on a bare host, and a grandchild the delay after
  its cancellation (runner.go:32-34); the next operation runs beside it.

*Access broker* (`internal/teleportaccess/broker`)

* `handleResolved` takes a promoted request for denied, and may take the broker's own
  decision for one made elsewhere (service.go:206, 211, 322).
* A decision made while the watcher is away is never heard of; `Prune` calls the
  record expired (service.go:470), against store.go:105 and 118.
* A state file that cannot be written leaves records in memory only (store.go:129).
* A decision looks the record up by the id of the URL, which may be a prefix
  (service.go:322).
* When watching, an automatic decision whose call fails is tried again only at the
  next connection (service.go:178), and so is a list of pending requests that fails
  (watcher.go:53-55).
* The record that marks a request as asked about is on disk before its event is raised
  and delivered (service.go:195): a crash in between, or five deliveries in vain
  (notifier.go:68-94), leaves a request that is handled and that nobody was told of. The
  same holds for the event of a decision.
* Where reviews are submitted and a request needs several, the first that is taken is
  recorded and announced as the decision (service.go:264-273, 319-335).

*Chat agent and access agent* (`services`)

* A directory that cannot be made leaves the conversation locked (agent/src/agent.ts:35).
* Posting to Google Chat has no time limit (agent/src/channels.ts:116-126), unlike Slack
  and Teams: one that hangs keeps its question among the active ones, or stops the
  notices (`notifying`, server.ts:232-266), until the process is restarted.
* The access agent's calls of the broker (access-agent/src/broker/client.ts:44-50) and of
  the platforms about cards set no time limit either: one that hangs holds up the cards
  behind it.
* On Teams a click of somebody who cannot be looked up goes on to the nonce check and the
  second look (adapters/teams/index.ts:132-160), where it ends; on Slack it ends at once.
* `approverEmails` names somebody once per role they hold (broker/service.go:514-532),
  and a rule's emails and channels are taken as they are (494-497): who or what is named
  twice gets two cards (notifications/service.ts:77-88).
* A ruling that comes while the cards of its request are being posted updates none of
  them (notifications/service.ts:71): the cards stay as they are.
* When two turns connect for one person at once, the session that is replaced in the
  pool is left open until the server ends it (mcp/client.ts:90).
* When an answer ends while its first partial message is in flight, that message stays
  beside the whole one (adapters/slack:137-161, and Teams alike).

*Portal* (`packages`)

* What deletion is confirmed for may be a generation the page never showed
  (environments.tsx:492).
* The back end's catch makes 403 of an outage, which pages read as "not mapped"
  (backend/src/index.ts:141).
* Where the broker submits reviews and a request needs several, the page says "Request
  approved." when Teleport has taken one review and the request is pending
  (broker/service.go:264-273). The repository's own roles ask for one approval
  (infra/teleport/src/policy/render.ts:103).
* A promotion has no idempotency key: after a lost answer a second press dispatches
  twice (workflows.tsx:103).
* The request form's key survives "Request another" (request.tsx:63), so the same wish
  again within the key's time reports the earlier request; a preview that comes late
  stays beside a newer wish (request.tsx:49-58).
* A read of an access page that takes longer than five seconds is superseded by the
  next poll, every time (access-api.tsx:103).

*Infrastructure* (`infra/teleport`)

* Enterprise's plugin pods get no policy beyond DNS in teleport-access and do not wait
  for that namespace (EnterpriseAccess.ts:81-114, against docs/teleport/enterprise.md).
* `requiredImages` leaves out the portal's (profile.ts:79-85).
* Off kind a database's init container fetches the CA from the public address
  (profile.ts:69, DummyResources.ts:100), while its policy admits the proxy's pods on
  3080 only (NetworkPolicies.ts:221-222): where the load balancer is known by name, as on
  AWS, such a database never starts. None of the five stack files has databases there;
  `CloudDummies` in `MCStack` does.
* The matrix of docs/teleport/architecture.md (85-97) has no row for the access portal
  and gives the broker no other caller than the access agent, whereas the policies and
  their header admit the portal to broker, auth and proxy, and Backstage to the portal.
* The cap of a request for low- and high-risk roles together differs from what
  catalog.ts:31 says.

## 10. What is not modelled, and why

* The commands of the preview scripts, of operations scripts and of the local
  orchestrator: sequential, run once by one person, their waits those of helm and
  kubectl.
* The policy engine, access explanation and labels: pure functions with table tests;
  the broker's model takes any decision the engine may return.
* Identity assertions and their replay cache, authentication middleware and secret
  rotation: cryptography and clocks. Models take who an assertion names.
* The access API's views and its token bucket, the broker's routing, the access
  service's set-up: sequential code around components that are modelled.
* The Teleport client, its test double, MCP tools: thin wrappers and queries.
* Enterprise plugins, image policies, binding of volumes, OpenTofu, charts and
  workflows: declarations that the infrastructure's model does not need, or packaging.
* Metrics, release listings, layout and wording of the portal.

What would add most from here: the replay cache of assertions; rule evaluation against
a declarative reference.
