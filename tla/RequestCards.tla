---------------------------- MODULE RequestCards ----------------------------
(***************************************************************************)
(* The access agent's cards (services/access-agent): the broker's events   *)
(* come in as webhooks, a pending request is posted as a card in channels  *)
(* and to approvers, a click on a card is checked and taken to the broker, *)
(* and a ruling is written on the cards.  The broker is what it promises,  *)
(* AccessPromise.  One Node process: code between two awaits is one step.  *)
(*                                                                         *)
(* A card's text is its status.  Signatures and time windows decide which  *)
(* calls are let in; those here are.  A nonce is drawn at most once per    *)
(* request in one run of the agent, so it is told by the run's number.     *)
(***************************************************************************)
EXTENDS AccessPromise, Integers, Sequences

CONSTANTS
  None,
  Platform, Person, Channel,
  ChannelOf,   \* the platform of each channel
  Adapters,    \* the adapters configured, in the order of ADAPTERS
  Channels,    \* the channels the broker names in an event, in order
  Mentioned,   \* the approvers it asks to be told, in order
  Allowed,     \* who may rule on each request
  Requester, Origin,   \* of each request; the platform may not be known
  Click,       \* presses of a button
  MaxTries,    \* the broker's attempts at one event (5)
  MaxTold,     \* bound: events about one ruling
  MaxLife,     \* bound: runs of the agent
  MaxMishaps   \* bound: calls that fail

ASSUME CardsAssumption ==
  /\ ChannelOf \in [Channel -> Platform] /\ Channel \cap (Platform \X Person) = {}
  /\ Adapters \in Seq(Platform)
  /\ \A i, j \in DOMAIN Adapters : Adapters[i] = Adapters[j] => i = j   \* the keys of a Map
  /\ Channels \in Seq(Channel) /\ Mentioned \in Seq(Person)
  /\ Allowed \in [Request -> SUBSET Person] /\ Requester \in [Request -> Person]
  /\ Origin \in [Request -> Platform \cup {None}] /\ None \notin Platform
  /\ MaxTries \in Nat \ {0} /\ MaxTold \in Nat \ {0}
  /\ MaxLife \in Nat \ {0} /\ MaxMishaps \in Nat

VARIABLES
  up, life,    \* the agent: whether it runs, and for which time
  seen,        \* events taken in
  tracked,     \* requests with cards: the nonce, and the cards posted
  handling,    \* handleEvent, for each event
  cached,      \* the Slack adapter's user cache
  postedCards, \* the Google Chat adapter's cards
  known,       \* places the Teams adapter can write to
  mail,        \* the broker's delivery of each event
  click,       \* each press of a button, up to the end of onClick
  shown,       \* the status each card shows on its platform
  copies,      \* how often each card was posted
  informed,    \* what requesters were told
  members,     \* people whose account is in good standing
  mishaps

memory == <<seen, tracked, handling, cached, postedCards, known>>
agentVars == <<up, life, memory>>
platformVars == <<shown, copies, informed, members>>
vars == <<promiseVars, agentVars, platformVars, mail, click, mishaps>>

-----------------------------------------------------------------------------
Event ==
  [kind : {"pending"}, req : Request, nr : {1}] \cup
  [kind : {"resolved"}, req : Request, nr : 1..MaxTold]

\* A channel, or an approver's direct messages.
Place == Channel \cup {<<a, Mentioned[i]>> : a \in Platform, i \in DOMAIN Mentioned}
PlatformOf(p) == IF p \in Channel THEN ChannelOf[p] ELSE p[1]

Verdict == {"approved", "denied"}
Status == {"pending"} \cup Verdict

\* A card, by the run of the agent that posted it.
Card == [req : Request, place : Place, life : 1..MaxLife]

Tracked == [nonce : 1..MaxLife, posts : Seq(Card)]
Untracked == [nonce |-> 0, posts |-> <<>>]

\* handleEvent: left are the cards it has still to post or to update.
Handling ==
  [phase : {"none", "post", "update", "tell", "done"}, left : Seq(Card), posts : Seq(Card)]
NotHandled == [phase |-> "none", left |-> <<>>, posts |-> <<>>]

Delivery == [phase : {"none", "due", "waiting", "done", "lost"}, tries : 0..MaxTries]

\* A press: modal is Slack's dialogue for the reason; stood tells whether the presser was a
\* member when the platform vouched for the click.
Press ==
  [phase : {"none", "modal", "sent", "vet", "verify", "decide", "answer", "update", "done"},
   card : Card, by : Person, button : Verdict \cup {"details"}, stood : BOOLEAN, left : Seq(Card)]
     \cup
  [phase : {"none"}, card : {None}, by : {None}, button : {None}, stood : {FALSE}, left : {<<>>}]
NotPressed ==
  [phase |-> "none", card |-> None, by |-> None, button |-> None, stood |-> FALSE, left |-> <<>>]

TypeOK ==
  /\ ruling \in [Request -> Ruling \cup {"open"}]
  /\ asked \subseteq Request /\ told \in [Request -> SUBSET Verdict]
  /\ up \in BOOLEAN /\ life \in 0..MaxLife
  /\ seen \subseteq Event
  /\ tracked \in [Request -> Tracked \cup {Untracked}]
  /\ handling \in [Event -> Handling]
  /\ cached \subseteq Person /\ postedCards \subseteq Card /\ known \subseteq Place
  /\ mail \in [Event -> Delivery]
  /\ click \in [Click -> Press]
  /\ shown \in [Card -> Status \cup {"none"}] /\ copies \in [Card -> Nat]
  /\ informed \in [Request -> SUBSET Verdict] /\ members \subseteq Person
  /\ mishaps \in Nat

Forgotten ==
  /\ seen' = {} /\ tracked' = [r \in Request |-> Untracked]
  /\ handling' = [e \in Event |-> NotHandled]
  /\ cached' = {} /\ postedCards' = {} /\ known' = {}

Init ==
  /\ PromiseInit
  /\ up = FALSE /\ life = 0
  /\ seen = {} /\ tracked = [r \in Request |-> Untracked]
  /\ handling = [e \in Event |-> NotHandled]
  /\ cached = {} /\ postedCards = {} /\ known = {}
  /\ mail = [e \in Event |-> [phase |-> "none", tries |-> 0]]
  /\ click = [k \in Click |-> NotPressed]
  /\ shown = [c \in Card |-> "none"] /\ copies = [c \in Card |-> 0]
  /\ informed = [r \in Request |-> {}] /\ members = Person
  /\ mishaps = 0

Mishap == mishaps < MaxMishaps /\ mishaps' = mishaps + 1

-----------------------------------------------------------------------------
(* The broker: asks, rules and tells; its notifier delivers, in any order. *)

Enqueue(e) ==
  /\ mail[e].phase = "none"
  /\ mail' = [mail EXCEPT ![e].phase = "due"]

AskReview(r) ==
  /\ Ask(r)
  /\ Enqueue([kind |-> "pending", req |-> r, nr |-> 1])
  /\ UNCHANGED <<agentVars, platformVars, click, mishaps>>

\* A ruling made elsewhere: the command line, the web UI, or time.
RuleElsewhere(r) ==
  /\ \E v \in Ruling : Rule(r, v)
  /\ UNCHANGED <<agentVars, platformVars, mail, click, mishaps>>

TellRuling(r) ==
  /\ Tell(r)
  /\ \E n \in 1..MaxTold : Enqueue([kind |-> "resolved", req |-> r, nr |-> n])
  /\ UNCHANGED <<agentVars, platformVars, click, mishaps>>

\* Notifier.Send: one more attempt has failed.
Failed(e) ==
  LET n == mail[e].tries + 1
  IN mail' = [mail EXCEPT ![e] = [phase |-> IF n = MaxTries THEN "lost" ELSE "due", tries |-> n]]

\* Nobody answers, or the event was seen before: 401.
TurnedAway(e) ==
  /\ mail[e].phase = "due"
  /\ ~up \/ e \in seen
  /\ Failed(e)
  /\ UNCHANGED <<promiseVars, agentVars, platformVars, click, mishaps>>

\* The broker's client has waited for ten seconds, or the connection broke.
GiveUpWaiting(e) ==
  /\ mail[e].phase = "waiting"
  /\ Failed(e)
  /\ UNCHANGED <<promiseVars, agentVars, platformVars, click, mishaps>>

\* The handler returned, and its answer finds the broker waiting.
Acknowledge(e) ==
  /\ mail[e].phase = "waiting" /\ up /\ handling[e].phase = "done"
  /\ mail' = [mail EXCEPT ![e].phase = "done"]
  /\ UNCHANGED <<promiseVars, agentVars, platformVars, click, mishaps>>

-----------------------------------------------------------------------------
(* handleEvent. *)

Configured(a) == \E i \in DOMAIN Adapters : Adapters[i] = a

\* Approvers are written to where the request comes from, or everywhere.
Targets(r) == IF Configured(Origin[r]) THEN <<Origin[r]>> ELSE Adapters

\* Each approver mentioned, on each platform.
Directs(r) ==
  LET n == Len(Targets(r))
  IN [i \in 1..(n * Len(Mentioned)) |->
        <<Targets(r)[((i - 1) % n) + 1], Mentioned[((i - 1) \div n) + 1]>>]

\* Where the card of a pending request goes; channels of no adapter are passed over.
Places(r) == Channels \o Directs(r)

\* The adapters a resolved request came from.
Origins(r, posts) ==
  {a \in Platform : Configured(a)
     /\ (a = Origin[r] \/ \E i \in DOMAIN posts : PlatformOf(posts[i].place) = a)}

\* What an event sets off: cards for a pending request, unless there are; their update, if any.
Opening(e) ==
  LET t == tracked[e.req]
      new(p) == [req |-> e.req, place |-> p, life |-> life]
  IN IF e.kind = "pending"
     THEN IF t # Untracked THEN [NotHandled EXCEPT !.phase = "done"]
          ELSE [phase |-> "post", posts |-> <<>>,
                left |-> [i \in DOMAIN Places(e.req) |-> new(Places(e.req)[i])]]
     ELSE [phase |-> IF t # Untracked THEN "update" ELSE "tell", left |-> t.posts, posts |-> t.posts]

\* Variant: an event counts as seen once it is handled.
NotDone(e) == handling[e].phase # "done"

\* WebhookVerifier.verify: this event was not taken in by this run.
Unseen(e) == e \notin seen

\* POST /v1/broker/events, up to the handler's first await.
Deliver(e) ==
  /\ mail[e].phase = "due" /\ up /\ Unseen(e)
  /\ seen' = seen \cup {e}
  /\ mail' = [mail EXCEPT ![e].phase = "waiting"]
  /\ handling' = [handling EXCEPT ![e] = Opening(e)]
  /\ UNCHANGED <<promiseVars, up, life, tracked, cached, postedCards, known, platformVars, click,
                 mishaps>>

\* There is an adapter that knows how to reach a place.
Reachable(p) ==
  IF PlatformOf(p) = "teams" THEN p \in known
  ELSE Configured(PlatformOf(p)) /\ (p \notin Channel => p[2] \in members)

\* The card c is on its platform.
Posted(c) ==
  /\ shown' = [shown EXCEPT ![c] = "pending"]
  /\ copies' = [copies EXCEPT ![c] = @ + 1]

Handle(e, ph, left, posts) ==
  handling' = [handling EXCEPT ![e] = [phase |-> ph, left |-> left, posts |-> posts]]

\* The next card: posted and remembered; no way to reach the place; or the call fails,
\* with or without the card having appeared.
PostCard(e) ==
  LET h == handling[e]  c == Head(h.left)
  IN /\ h.phase = "post" /\ h.left # <<>>
     /\ \/ /\ Reachable(c.place) /\ Posted(c)
           /\ postedCards' = IF PlatformOf(c.place) = "gchat" THEN postedCards \cup {c} ELSE postedCards
           /\ Handle(e, "post", Tail(h.left), Append(h.posts, c))
           /\ UNCHANGED mishaps
        \/ /\ ~Reachable(c.place)
           /\ Handle(e, "post", Tail(h.left), h.posts)
           /\ UNCHANGED <<shown, copies, postedCards, mishaps>>
        \/ /\ Configured(PlatformOf(c.place)) /\ Mishap
           /\ Posted(c) \/ UNCHANGED <<shown, copies>>
           /\ Handle(e, "post", Tail(h.left), h.posts)
           /\ UNCHANGED postedCards
     /\ UNCHANGED <<promiseVars, up, life, seen, tracked, cached, known, informed, members, mail,
                    click>>

\* The last call has returned: the cards are remembered.
Track(e) ==
  LET h == handling[e]
  IN /\ h.phase = "post" /\ h.left = <<>>
     /\ tracked' = [tracked EXCEPT ![e.req] = [nonce |-> life, posts |-> h.posts]]
     /\ handling' = [handling EXCEPT ![e].phase = "done"]
     /\ UNCHANGED <<promiseVars, up, life, seen, cached, postedCards, known, platformVars, mail,
                    click, mishaps>>

\* Variant: the first card that cannot be updated ends it.
Skipped(left) == <<>>

\* A card that cannot be updated is left as it is, and the next is tried.
Onward(left) == Tail(left)

\* The verdict the event carries is written on the next card.
UpdateCard(e) ==
  LET h == handling[e]  c == Head(h.left)
  IN /\ h.phase = "update" /\ h.left # <<>>
     /\ \/ /\ \E v \in told[e.req] : shown' = [shown EXCEPT ![c] = v]
           /\ Handle(e, "update", Tail(h.left), h.posts)
           /\ UNCHANGED mishaps
        \/ /\ Mishap /\ UNCHANGED shown
           /\ Handle(e, "update", Onward(h.left), h.posts)
     /\ UNCHANGED <<promiseVars, up, life, seen, tracked, cached, postedCards, known, copies,
                    informed, members, mail, click>>

Untrack(e) ==
  LET h == handling[e]
  IN /\ h.phase = "update" /\ h.left = <<>>
     /\ tracked' = [tracked EXCEPT ![e.req] = Untracked]
     /\ Handle(e, "tell", <<>>, h.posts)
     /\ UNCHANGED <<promiseVars, up, life, seen, cached, postedCards, known, platformVars, mail,
                    click, mishaps>>

\* The requester, where the request came from; they may not be found there.
TellRequester(e) ==
  /\ handling[e].phase = "tell"
  /\ \/ /\ Origins(e.req, handling[e].posts) # {}
        /\ informed' = [informed EXCEPT ![e.req] = @ \cup told[e.req]]
     \/ UNCHANGED informed
  /\ Handle(e, "done", <<>>, <<>>)
  /\ UNCHANGED <<promiseVars, up, life, seen, tracked, cached, postedCards, known, shown, copies,
                 members, mail, click, mishaps>>

-----------------------------------------------------------------------------
(* Clicks. *)

OnPhase(k, ph) == click' = [click EXCEPT ![k].phase = ph]
Ends(k) == click' = [click EXCEPT ![k] = NotPressed]
NotAgent == UNCHANGED <<promiseVars, mail, handling, seen, tracked, postedCards, known, up, life>>

\* Variant: a click is checked against the cached user.
Cached(k) == PlatformOf(click[k].card.place) = "gchat" \/ click[k].by \in members \cup cached

\* SlackAdapter.resolveUser(fresh) and TeamsAdapter.resolveUser: the platform is asked.
\* Google Chat has nobody to ask: it vouched for the sender with the event.
Resolves(k) == PlatformOf(click[k].card.place) = "gchat" \/ click[k].by \in members

\* A button on a card that shows them.  In Slack the agent opens a dialogue for the reason.
PressButton(k, c, p, b) ==
  LET slack == PlatformOf(c.place) = "slack" /\ b # "details"
  IN /\ click[k] = NotPressed /\ shown[c] = "pending" /\ p \in members
     /\ slack => up
     /\ click' = [click EXCEPT ![k] =
          [phase |-> IF slack THEN "modal" ELSE "sent", card |-> c, by |-> p, button |-> b,
           stood |-> TRUE, left |-> <<>>]]
     /\ UNCHANGED <<cached, platformVars, mishaps>> /\ NotAgent

Submit(k) ==
  /\ click[k].phase = "modal" /\ click[k].by \in members
  /\ OnPhase(k, "sent")
  /\ UNCHANGED <<cached, platformVars, mishaps>> /\ NotAgent

\* onClick: the request is tracked under the nonce of the card.
Current(k) == tracked[click[k].card.req].nonce = click[k].card.life

\* onClick up to its next await: the cards are those tracked now.
Checked(k, current) ==
  IF current
  THEN click' = [click EXCEPT ![k].phase = "verify", ![k].left = tracked[click[k].card.req].posts]
  ELSE Ends(k)

\* A click in Google Chat, which is heard only on a card that this run has posted.
ArriveFromGchat(k) ==
  /\ click[k].phase = "sent" /\ up /\ PlatformOf(click[k].card.place) = "gchat"
  /\ Checked(k, click[k].card \in postedCards /\ Current(k))
  /\ UNCHANGED <<cached, platformVars, mishaps>> /\ NotAgent

\* A click in Slack or Teams: the adapter looks first at who that is.
Arrive(k) ==
  /\ click[k].phase = "sent" /\ up /\ PlatformOf(click[k].card.place) # "gchat"
  /\ click' = [click EXCEPT ![k].phase = "vet", ![k].stood = click[k].by \in members]
  /\ UNCHANGED <<cached, platformVars, mishaps>> /\ NotAgent

Remembers(k) ==
  cached' = IF PlatformOf(click[k].card.place) = "slack" /\ Resolves(k)
            THEN cached \cup {click[k].by} ELSE cached

\* The adapter's own look at who clicked, and then onClick.  Slack's ends a click of
\* somebody it cannot find; Teams' passes it on, without an address.
Vet(k) ==
  /\ click[k].phase = "vet"
  /\ \/ /\ Checked(k, (PlatformOf(click[k].card.place) = "teams" \/ Resolves(k)) /\ Current(k))
        /\ Remembers(k) /\ UNCHANGED mishaps
     \/ PlatformOf(click[k].card.place) = "slack" /\ Mishap /\ Ends(k) /\ UNCHANGED cached
  /\ UNCHANGED platformVars /\ NotAgent

\* verifyClicker, once more, and the Teleport user from the broker.  Details are answered.
Verify(k) ==
  /\ click[k].phase = "verify"
  /\ \/ /\ UNCHANGED mishaps /\ Remembers(k)
        /\ IF Resolves(k) /\ click[k].button # "details" THEN OnPhase(k, "decide") ELSE Ends(k)
     \/ Mishap /\ Ends(k) /\ (Remembers(k) \/ UNCHANGED cached)
  /\ UNCHANGED platformVars /\ NotAgent

\* The broker checks for itself that the request is open and who may rule on it.
Rules(k) ==
  /\ click[k].by \in Allowed[click[k].card.req] \ {Requester[click[k].card.req]}
  /\ Rule(click[k].card.req, click[k].button)

\* Variant: the verdict is shown whatever the broker answers.
RefusedAnyway(k) == OnPhase(k, "update") /\ UNCHANGED promiseVars

\* The broker refuses: not an approver, one's own request, no longer pending.
Refused(k) ==
  /\ \/ click[k].by \notin Allowed[click[k].card.req] \ {Requester[click[k].card.req]}
     \/ ruling[click[k].card.req] # "open"
  /\ Ends(k) /\ UNCHANGED promiseVars

\* BrokerClient.approve and deny.  The call may fail after it took effect.
Decide(k) ==
  /\ click[k].phase = "decide"
  /\ \/ Rules(k) /\ OnPhase(k, "answer") /\ UNCHANGED mishaps
     \/ Refused(k) /\ UNCHANGED mishaps
     \/ Mishap /\ Ends(k) /\ (Rules(k) \/ UNCHANGED promiseVars)
  /\ UNCHANGED <<agentVars, platformVars, mail>>

\* The clicker is answered; when that fails, the cards are left to the broker's event.
AnswerClick(k) ==
  /\ click[k].phase = "answer"
  /\ \/ OnPhase(k, "update") /\ UNCHANGED mishaps
     \/ Mishap /\ Ends(k)
  /\ UNCHANGED <<cached, platformVars>> /\ NotAgent

\* The verdict of the button is written on the cards tracked when the click came.
UpdateFromClick(k) ==
  /\ click[k].phase = "update"
  /\ IF click[k].left = <<>> THEN Ends(k) /\ UNCHANGED <<shown, mishaps>>
     ELSE /\ click' = [click EXCEPT ![k].left = Tail(@)]
          /\ \/ /\ shown' = [shown EXCEPT ![Head(click[k].left)] = click[k].button]
                /\ UNCHANGED mishaps
             \/ Mishap /\ UNCHANGED shown
  /\ UNCHANGED <<cached, copies, informed, members>> /\ NotAgent

-----------------------------------------------------------------------------
(* People, and the process. *)

\* Somebody writes to the agent, who then knows them (Slack) or where to write (Teams).
Write(p, a) ==
  /\ up /\ p \in members /\ Configured(a) /\ <<a, p>> \in Place
  /\ cached' = IF a = "slack" THEN cached \cup {p} ELSE cached
  /\ known' = IF a = "teams" THEN known \cup {<<a, p>>} ELSE known
  /\ UNCHANGED <<promiseVars, up, life, seen, tracked, handling, postedCards, platformVars, mail,
                 click, mishaps>>

Leave(p) ==
  /\ members' = members \ {p}
  /\ UNCHANGED <<promiseVars, agentVars, shown, copies, informed, mail, click, mishaps>>

Start ==
  /\ ~up /\ up' = TRUE
  /\ life' = life + 1
  /\ UNCHANGED <<promiseVars, memory, platformVars, mail, click, mishaps>>

\* The process ends, with all it had in memory.  Clicks on their way may still come.
Crash ==
  /\ up /\ up' = FALSE /\ life < MaxLife /\ Mishap
  /\ Forgotten
  /\ click' = [k \in Click |->
       IF click[k].phase \in {"modal", "sent"} THEN click[k] ELSE NotPressed]
  /\ UNCHANGED <<promiseVars, life, platformVars, mail>>

-----------------------------------------------------------------------------
BrokerNext ==
  \/ \E r \in Request : AskReview(r) \/ RuleElsewhere(r) \/ TellRuling(r)
  \/ \E e \in Event : TurnedAway(e) \/ GiveUpWaiting(e)

HandlerStep(e) ==
  \/ Deliver(e) \/ PostCard(e) \/ Track(e) \/ UpdateCard(e) \/ Untrack(e) \/ TellRequester(e)
  \/ Acknowledge(e)

ClickStep(k) ==
  \/ ArriveFromGchat(k) \/ Arrive(k) \/ Vet(k) \/ Verify(k) \/ Decide(k) \/ AnswerClick(k)
  \/ UpdateFromClick(k)

PeopleNext ==
  \/ \E p \in Person : Leave(p) \/ \E a \in Platform : Write(p, a)
  \/ \E k \in Click :
       Submit(k) \/ \E c \in Card, p \in Person, b \in Verdict \cup {"details"} : PressButton(k, c, p, b)

Next ==
  \/ BrokerNext \/ PeopleNext \/ Start \/ Crash
  \/ \E e \in Event : HandlerStep(e)
  \/ \E k \in Click : ClickStep(k)

Spec == Init /\ [][Next]_vars

\* The agent is started again, the broker's notifier goes on with its attempts (they have a
\* time limit), and so does a handler between its calls; all of it ends, so it is enough that
\* some of it goes on.  Nothing is assumed of the calls to the platforms: the code sets them
\* no limit, and each may take for ever.  Nor is anything of clicks.
EventProgress ==
  \/ Start
  \/ \E e \in Event : Deliver(e) \/ TurnedAway(e) \/ Track(e) \/ Untrack(e) \/ Acknowledge(e)

Fairness == WF_vars(EventProgress)

FairSpec == Spec /\ Fairness

-----------------------------------------------------------------------------
(* Properties. *)

\* A card or a message that names a verdict names Teleport's, whichever of the two ways it took
\* there (notifications/service.ts: the update after a click, and the resolved event).
CardsTell ==
  \A c \in Card :
    /\ shown[c] \in Verdict => shown[c] = ruling[c.req]
    /\ informed[c.req] \subseteq {ruling[c.req]}

\* However often the broker tries an event, a run of the agent posts a card once in a place
\* (broker/webhook.ts, tests/notifications.test.ts:54).
OneCardPerPlace == \A c \in Card : copies[c] <= 1

\* A click is looked at only when it comes from a card of this run, and gets to the broker only
\* from somebody who still had an account when the agent took it up: on Teams the second look
\* alone sees to that (notifications/service.ts:116-137, adapters/slack:217-244,
\* adapters/teams:133-160).
ClicksAreChecked ==
  \A k \in Click :
    /\ click[k].phase \in {"verify", "decide", "answer", "update"} => click[k].card.life = life
    /\ click[k].phase \in {"decide", "answer", "update"} => click[k].stood

\* The cards of a request that this run has posted and that do not show the ruling.
Behind(r) == {c \in Card : c.req = r /\ c.life = life /\ shown[c] \notin {"none", ruling[r]}}

\* The handler of e waits for a platform.
Calling(e) ==
  \/ handling[e].phase \in {"post", "update"} /\ handling[e].left # <<>>
  \/ handling[e].phase = "tell"

\* A ruling that comes in when the cards are known reaches all of them, as long as no call of
\* its handler hangs for ever; a call that fails leaves its own card behind and no other
\* (notifications/service.ts:99-102).
CardsFollow ==
  \A e \in {x \in Event : x.kind = "resolved"} :
    []<>~Calling(e) =>
      ((mail[e].phase = "due" /\ e \notin seen /\ tracked[e.req] # Untracked)
         ~> Cardinality(Behind(e.req)) <= mishaps)
=============================================================================
