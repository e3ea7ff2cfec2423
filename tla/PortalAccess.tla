---------------------------- MODULE PortalAccess ----------------------------
(***************************************************************************)
(* The portal's pages about access (pages/access).  Behind them are the    *)
(* access portal, which remembers the result of a request for its key, the *)
(* broker, and Teleport, whose read cache trails what it holds.  What is   *)
(* typed into a form is one value; every read of a page is of the whole of *)
(* Teleport.                                                               *)
(***************************************************************************)
EXTENDS PortalShell

CONSTANTS
  Theirs, Mine,   \* access requests of other people, and those of the person here
  Reviewed,       \* those of others that take several approving reviews, where the broker
                  \* submits reviews (TA_BROKER_APPROVALS=review)
  Wish,           \* what the request form can hold: roles, reason and duration
  Denied,         \* the wishes the policy denies
  MaxAttempts,    \* bound: submissions with a fresh key
  MaxAsks,        \* bound: reads of one hook in flight
  MaxLosses       \* bound: calls that fail or whose answer is lost

ASSUME AccessAssumption ==
  /\ None \notin Theirs \cup Mine \cup Wish /\ Theirs \cap Mine = {}
  /\ Reviewed \subseteq Theirs /\ Denied \subseteq Wish
  /\ MaxAttempts \in Nat /\ MaxAsks \in Nat \ {0} /\ MaxLosses \in Nat

VARIABLES
  hidden,      \* the browser's tab is in the background
  real, seen,  \* Teleport's requests, and what its read cache says
  voted,       \* requests that the person approved in a review that left them pending
  asked,       \* what each of the person's requests was for, and under which key
  replay,      \* the access portal's memory of keys
  me, shown,   \* the hooks of AccessLayout and of the page
  want, step,  \* the request form: what it holds and which of its faces it shows
  preview,     \* the wish that the preview shown is of
  tried, keys, \* the last attempt, and the keys made
  result,
  opened,      \* the request the controls are about, with the decision chosen
  told,        \* the decision that was reported
  again,       \* a second reload is due
  call,        \* the call in progress
  losses

teleport == <<real, seen, voted, asked, replay>>
wishes == <<want, step, preview, tried, keys, result>>
decision == <<opened, told, again>>
accessVars == <<shell, hidden, teleport, me, shown, wishes, decision, call, losses>>

-----------------------------------------------------------------------------
AccessRequest == Theirs \cup Mine
State == {"none", "pending", "approved", "denied"}
Requests == [AccessRequest -> State]

Whoami == {"approver", "requester"}
Verdict == [of : AccessRequest \cup {None}, verb : {"none", "approve", "deny"}]
NoVerdict == [of |-> None, verb |-> "none"]

\* wish: what the form held; here: the page that made the call is still shown.
Call == [at : {"idle", "sent", "ok", "failed"}, what : {"none", "preview", "request", "decide"},
         of : AccessRequest \cup {None}, verb : {"none", "approve", "deny"},
         wish : Wish \cup {None}, here : BOOLEAN]
NoCall ==
  [at |-> "idle", what |-> "none", of |-> None, verb |-> "none", wish |-> None, here |-> TRUE]

AccessTypeOK ==
  /\ hidden \in BOOLEAN
  /\ real \in Requests /\ seen \in Requests /\ voted \subseteq Reviewed
  /\ asked \in [Mine -> [wish : Wish \cup {None}, key : Nat]]
  /\ replay \subseteq [key : Nat, of : Mine]
  /\ me \in Hook(Whoami) /\ shown \in Hook(Requests)
  /\ want \in Wish \cup {None} /\ step \in {"form", "review", "done"}
  /\ preview \in Wish \cup {None} /\ tried \in Wish \cup {None} /\ keys \in Nat
  /\ result \in Mine \cup {None}
  /\ opened \in Verdict /\ told \in Verdict /\ again \in BOOLEAN
  /\ call \in Call /\ losses \in Nat

AccessInit ==
  /\ hidden = FALSE
  /\ real \in {[r \in AccessRequest |-> IF r \in S THEN "pending" ELSE "none"] : S \in SUBSET Theirs}
  /\ seen = real /\ voted = {}
  /\ asked = [m \in Mine |-> [wish |-> None, key |-> 0]] /\ replay = {}
  /\ me = NoHook /\ shown = NoHook
  /\ want = None /\ step = "form" /\ preview = None /\ tried = None /\ keys = 0 /\ result = None
  /\ opened = NoVerdict /\ told = NoVerdict /\ again = FALSE
  /\ call = NoCall /\ losses = 0

-----------------------------------------------------------------------------
(* What the pages show. *)

\* AccessLayout shows its pages once it has heard of who is here, unless it was a refusal.
Open(m) == ~Loading(m) /\ m.status \notin {"refused", "unconfigured"}
Showing(p) == page = p /\ Open(me)

\* A page offers to decide a request: the queue to those not known as requesters while its
\* reads are not refused, a request's own page to those known as approvers.
Offers(m, h, r) ==
  /\ Open(m) /\ h.data # None /\ r \in Theirs /\ h.data[r] = "pending"
  /\ \/ page = "approvals" /\ m.data # "requester" /\ h.status # "refused"
     \/ page = "detail" /\ m.data = "approver"

\* Controls that are not offered any more forget the decision chosen in them.
StillOpen(m, h) == IF Offers(m, h, opened.of) THEN opened ELSE [opened EXCEPT !.verb = "none"]

\* What a page reads, and how often it does so by itself.
ReadOf(p) ==
  CASE p \in {"my-access", "requests"} -> "requests"
    [] p \in {"roles", "role"} -> "roles"
    [] p = "request" -> "requestable-roles"
    [] p = "detail" -> "request"
    [] p = "approvals" -> "approvals"

Polls == {"my-access", "requests", "detail", "approvals"}

-----------------------------------------------------------------------------
(* The hooks' reads. *)

CanAsk(h) == Cardinality(h.asks) < MaxAsks

\* The layout's own read, when it is opened and every 15 seconds.
AskMe ==
  /\ page \in AccessPages /\ CanAsk(me)
  /\ hidden => me.asks = {} /\ Loading(me)
  /\ me' = Asking(me)
  /\ UNCHANGED <<shell, hidden, teleport, shown, wishes, decision, call, losses>>

\* The page's: when it is opened, when its timer fires in a tab that is not hidden, and a
\* second time after a decision.
AskPage ==
  /\ page \in AccessPages /\ Open(me) /\ CanAsk(shown)
  /\ \/ shown.asks = {} /\ Loading(shown) /\ UNCHANGED again
     \/ page \in Polls /\ ~hidden /\ UNCHANGED again
     \/ again /\ again' = FALSE
  /\ shown' = Asking(shown)
  /\ UNCHANGED <<shell, hidden, teleport, me, wishes, opened, told, call, losses>>

ServeMe(a) ==
  /\ a.status = "none"
  /\ me' = Served(me, a, AccessStatus("me", AccessReads), IF setup.approver THEN "approver" ELSE "requester")
  /\ UNCHANGED <<shell, hidden, teleport, shown, wishes, decision, call, losses>>

\* Teleport answers from its read cache; only an approver may see the queue.
ServePage(a) ==
  /\ a.status = "none" /\ page \in AccessPages
  /\ shown' = Served(shown, a,
                IF page = "approvals" /\ ~setup.approver THEN "refused"
                ELSE AccessStatus(ReadOf(page), AccessReads), seen)
  /\ UNCHANGED <<shell, hidden, teleport, me, wishes, decision, call, losses>>

\* The form and the controls, as they are when page p is opened.
FreshPage(p) ==
  /\ want' = None /\ step' = "form" /\ preview' = None /\ tried' = None /\ result' = None
  /\ \E r \in IF p = "detail" THEN AccessRequest ELSE {None} : opened' = [NoVerdict EXCEPT !.of = r]
  /\ told' = NoVerdict /\ again' = FALSE
  /\ call' = [call EXCEPT !.here = call.at = "idle"]
  /\ UNCHANGED keys

\* The layout learns who is here, or that it cannot tell.  A refusal takes the pages away,
\* and with them what was typed.
MeTakes(h) ==
  /\ me' = h
  /\ IF Open(me) /\ ~Open(h)
       THEN shown' = Dropped(shown) /\ FreshPage(page)
       ELSE /\ opened' = StillOpen(h, shown)
            /\ UNCHANGED <<shown, wishes, told, again, call>>
  /\ UNCHANGED <<shell, hidden, teleport>>

PageTakes(h) ==
  /\ shown' = h
  /\ opened' = StillOpen(me, h)
  /\ UNCHANGED <<shell, hidden, teleport, me, wishes, told, again, call>>

MeArrives(a) == a.status # "none" /\ MeTakes(Taken(me, a)) /\ UNCHANGED losses
PageArrives(a) == a.status # "none" /\ PageTakes(Taken(shown, a)) /\ UNCHANGED losses

MeFails(a, s) ==
  /\ losses < MaxLosses /\ losses' = losses + 1
  /\ MeTakes(FailsAs(me, a, s))

PageFails(a, s) ==
  /\ losses < MaxLosses /\ losses' = losses + 1
  /\ PageTakes(FailsAs(shown, a, s))

\* Another page is opened; the call in progress goes on without its page.  Model: a page
\* that makes calls is not opened meanwhile.
AccessVisit(p) ==
  /\ page' = p /\ p # page
  /\ p \in {"request", "detail", "approvals"} => call.at = "idle"
  /\ FreshPage(p)
  /\ shown' = Dropped(shown)
  /\ me' = IF p \in AccessPages THEN me ELSE Dropped(me)
  /\ UNCHANGED <<setup, hidden, teleport, losses>>

\* The tab loads anew: the pages' data and calls are gone.
AccessUnload ==
  /\ me' = NoHook /\ shown' = NoHook /\ call' = NoCall
  /\ want' = None /\ step' = "form" /\ preview' = None /\ tried' = None /\ result' = None
  /\ opened' = NoVerdict /\ told' = NoVerdict /\ again' = FALSE
  /\ UNCHANGED <<hidden, teleport, keys, losses>>

Hide ==
  /\ hidden' = ~hidden
  /\ UNCHANGED <<shell, teleport, me, shown, wishes, decision, call, losses>>

-----------------------------------------------------------------------------
(* The request form.  useAction lets one call of a page run at a time. *)

Unlocked == call.at = "idle"
Sends(what, v) ==
  call' = [at |-> "sent", what |-> what, of |-> v.of, verb |-> v.verb, wish |-> want, here |-> TRUE]

Choose(w) ==
  /\ Showing("request") /\ step = "form" /\ want # w
  /\ want' = w
  /\ UNCHANGED <<shell, hidden, teleport, me, shown, step, preview, tried, keys, result,
                 decision, call, losses>>

\* To the review, which asks for a preview; what an earlier one said stays meanwhile.
Review ==
  /\ Showing("request") /\ step = "form" /\ want # None /\ Unlocked
  /\ step' = "review"
  /\ Sends("preview", NoVerdict)
  /\ UNCHANGED <<shell, hidden, teleport, me, shown, want, preview, tried, keys, result,
                 decision, losses>>

Edit ==
  /\ Showing("request") /\ step = "review" /\ Unlocked
  /\ step' = "form"
  /\ UNCHANGED <<shell, hidden, teleport, me, shown, want, preview, tried, keys, result,
                 decision, call, losses>>

\* Variant: one key for the form.
OneKey == tried = None

\* A submission takes a fresh key unless the last attempt was the same.
NewAttempt == tried # want

\* The button is there unless the preview shown foresees a denial.
SubmitRequest ==
  /\ Showing("request") /\ step = "review" /\ Unlocked /\ preview \notin Denied
  /\ IF NewAttempt THEN keys < MaxAttempts /\ keys' = keys + 1 ELSE UNCHANGED keys
  /\ tried' = want
  /\ Sends("request", NoVerdict)
  /\ UNCHANGED <<shell, hidden, teleport, me, shown, want, step, preview, result, decision, losses>>

\* "Request another": the form is emptied, the last attempt is not forgotten.
Another ==
  /\ Showing("request") /\ step = "done"
  /\ step' = "form" /\ result' = None /\ preview' = None /\ want' = None
  /\ UNCHANGED <<shell, hidden, teleport, me, shown, tried, keys, decision, call, losses>>

-----------------------------------------------------------------------------
(* The controls of a decision. *)

\* A row of the queue is opened or closed; that forgets the decision chosen in it.
OpenControls(r) ==
  /\ page = "approvals" /\ Offers(me, shown, r)
  /\ opened' = [NoVerdict EXCEPT !.of = IF opened.of = r THEN None ELSE r]
  /\ UNCHANGED <<shell, hidden, teleport, me, shown, wishes, told, again, call, losses>>

\* The dialog is opened for a decision, or closed.
ChooseVerb(v) ==
  /\ Offers(me, shown, opened.of) /\ Unlocked /\ opened.verb # v
  /\ opened' = [opened EXCEPT !.verb = v]
  /\ UNCHANGED <<shell, hidden, teleport, me, shown, wishes, told, again, call, losses>>

\* The queue's notice stays until it is replaced, that of a request's page goes.
Decide ==
  /\ opened.verb # "none" /\ Unlocked
  /\ Sends("decide", opened)
  /\ told' = IF page = "approvals" THEN told ELSE NoVerdict
  /\ UNCHANGED <<shell, hidden, teleport, me, shown, wishes, opened, again, losses>>

-----------------------------------------------------------------------------
(* The access portal, the broker and Teleport. *)

Reply(at, r) == call' = [call EXCEPT !.at = at, !.of = r]

\* A known key gets its old answer.  A fresh one creates a request, and is remembered once
\* that has been answered: Teleport may take longer than the call lasts.
CreatesRequest ==
  IF \E m \in replay : m.key = keys
    THEN /\ \E m \in replay : m.key = keys /\ Reply("ok", m.of)
         /\ UNCHANGED <<teleport, losses>>
    ELSE IF call.wish \in Denied
      THEN Reply("failed", None) /\ UNCHANGED <<teleport, losses>>
      ELSE \E m \in Mine, late \in BOOLEAN :
        /\ asked[m].key = 0
        /\ late => losses < MaxLosses
        /\ losses' = IF late THEN losses + 1 ELSE losses
        /\ asked' = [asked EXCEPT ![m] = [wish |-> call.wish, key |-> keys]]
        /\ real' = [real EXCEPT ![m] = "pending"]
        /\ replay' = IF late THEN replay ELSE replay \cup {[key |-> keys, of |-> m]}
        /\ Reply(IF late THEN "failed" ELSE "ok", m)
        /\ UNCHANGED <<seen, voted>>

Ruling(verb) == IF verb = "approve" THEN "approved" ELSE "denied"

\* Variant: the last decision counts.
Undecided(r) == real[r] # "none"

\* The broker decides what is still pending.
Pending(r) == real[r] = "pending"

\* Teleport takes one review of a person.
Takes(r) == Pending(r) /\ r \notin voted

\* What the page reports: Teleport's decision, or a review that Teleport took.
Holds(r, verb) == real[r] = Ruling(verb) \/ (verb = "approve" /\ r \in voted)

\* The decision is set, or it is submitted as a review: a denial decides, an approval when it
\* is the last that the request needs.
Decides ==
  /\ \/ /\ Takes(call.of) /\ Reply("ok", call.of)
        /\ \/ /\ real' = [real EXCEPT ![call.of] = Ruling(call.verb)]
              /\ UNCHANGED voted
           \/ /\ call.of \in Reviewed /\ call.verb = "approve"
              /\ voted' = voted \cup {call.of}
              /\ UNCHANGED real
     \/ ~Takes(call.of) /\ Reply("failed", call.of) /\ UNCHANGED <<real, voted>>
  /\ UNCHANGED <<seen, asked, replay, losses>>

Serve ==
  /\ call.at = "sent" /\ AccessStatus("requests", AccessWrites) = "ok"
  /\ \/ call.what = "preview" /\ Reply("ok", None) /\ UNCHANGED <<teleport, losses>>
     \/ call.what = "request" /\ CreatesRequest
     \/ call.what = "decide" /\ Decides
  /\ UNCHANGED <<shell, hidden, me, shown, wishes, decision>>

\* A call fails before anything was done, or its answer is lost on the way back.
Loses ==
  /\ call.at \in {"sent", "ok"} /\ losses < MaxLosses
  /\ losses' = losses + 1
  /\ call' = [call EXCEPT !.at = "failed"]
  /\ UNCHANGED <<shell, hidden, teleport, me, shown, wishes, decision>>

\* The page goes on, if it is there: a failure is only shown.
Fails ==
  /\ call.at = "failed" \/ (call.at = "ok" /\ ~call.here)
  /\ call' = NoCall
  /\ UNCHANGED <<shell, hidden, teleport, me, shown, wishes, decision, losses>>

Previewed ==
  /\ call.at = "ok" /\ call.here /\ call.what = "preview"
  /\ call' = NoCall /\ preview' = want
  /\ UNCHANGED <<shell, hidden, teleport, me, shown, want, step, tried, keys, result, decision, losses>>

Requested ==
  /\ call.at = "ok" /\ call.here /\ call.what = "request"
  /\ call' = NoCall /\ step' = "done" /\ result' = call.of
  /\ UNCHANGED <<shell, hidden, teleport, me, shown, want, preview, tried, keys, decision, losses>>

\* A decision is reported, and the page reads at once and again later, for Teleport's cache.
Decided ==
  /\ call.at = "ok" /\ call.here /\ call.what = "decide" /\ CanAsk(shown)
  /\ call' = NoCall
  /\ told' = [of |-> call.of, verb |-> call.verb]
  /\ opened' = IF page = "approvals" THEN NoVerdict ELSE [opened EXCEPT !.verb = "none"]
  /\ again' = TRUE
  /\ shown' = Asking(shown)
  /\ UNCHANGED <<shell, hidden, teleport, me, wishes, losses>>

\* Other people ask and decide; Teleport's read cache catches up; the memory of a key ends.
Others ==
  /\ \/ \E r \in Theirs : real[r] = "none" /\ real' = [real EXCEPT ![r] = "pending"]
     \/ \E r \in AccessRequest, s \in {"approved", "denied"} :
          real[r] = "pending" /\ real' = [real EXCEPT ![r] = s]
  /\ UNCHANGED <<shell, hidden, seen, voted, asked, replay, me, shown, wishes, decision, call, losses>>

CacheCatchesUp ==
  /\ seen # real /\ seen' = real
  /\ UNCHANGED <<shell, hidden, real, voted, asked, replay, me, shown, wishes, decision, call, losses>>

Forgets ==
  /\ replay # {} /\ replay' = {}
  /\ UNCHANGED <<shell, hidden, real, seen, voted, asked, me, shown, wishes, decision, call, losses>>

-----------------------------------------------------------------------------
AccessNext ==
  \/ AskMe \/ AskPage \/ Hide \/ Review \/ Edit \/ SubmitRequest \/ Another
  \/ Decide \/ Serve \/ Loses \/ Fails \/ Previewed \/ Requested \/ Decided
  \/ Others \/ CacheCatchesUp \/ Forgets
  \/ \E a \in me.asks : ServeMe(a) \/ MeArrives(a) \/ \E s \in Failures : MeFails(a, s)
  \/ \E a \in shown.asks : ServePage(a) \/ PageArrives(a) \/ \E s \in Failures : PageFails(a, s)
  \/ \E w \in Wish : Choose(w)
  \/ \E r \in Theirs : OpenControls(r)
  \/ \E v \in {"none", "approve", "deny"} : ChooseVerb(v)
=============================================================================
