------------------------- MODULE PortalEnvironments -------------------------
(***************************************************************************)
(* The portal's pages about one environment: the data they share           *)
(* (PlatformProvider), the form that creates it and the page that manages  *)
(* it.  The lifecycle API is what LifecycleStore makes of one environment, *)
(* seen from outside: its generation, its status, the confirmations        *)
(* outstanding and the idempotency keys it remembers.  A call is three     *)
(* steps: sent, carried out, answered.  Code between two awaits, and the   *)
(* callbacks that run when a promise settles, are one step.                *)
(***************************************************************************)
EXTENDS PortalShell

CONSTANTS
  Payload,     \* what the create form can hold
  MaxKeys,     \* bound: submissions with a fresh idempotency key
  MaxGen,      \* bound: generations of the environment
  MaxFetches,  \* bound: refreshes in flight
  MaxFaults    \* bound: calls that fail or whose answer is lost

ASSUME PortalAssumption ==
  /\ None \notin Payload
  /\ MaxKeys \in Nat /\ MaxGen \in Nat /\ MaxFetches \in Nat \ {0} /\ MaxFaults \in Nat

VARIABLES
  env, minted, \* the environment, and the generations that confirmations are for
  created,     \* the keys of creations, each with what it created
  view,        \* PlatformProvider's data, and its error
  viewError,
  fetches,     \* its refreshes in flight, and inFlight (0 when it is null)
  current,
  job,         \* the calls in progress, one for each useAction
  draft,       \* the create form and its last attempt
  attempt,
  issued,      \* what each fresh key was made for, and how many were before this form
  earlier,
  dialog,      \* the delete dialog
  notice,      \* the generation that the notice shown is about
  faults

api == <<env, minted, created>>
provider == <<view, viewError, fetches, current>>
form == <<draft, attempt, issued, earlier>>
envVars == <<shell, api, provider, job, form, dialog, notice, faults>>

-----------------------------------------------------------------------------
Status == {"none", "pending", "ready", "failed", "deleting", "deleted"}
Snapshot == [gen : Nat, status : Status]
Unread == [gen |-> 0, status |-> "unread"]
Unloaded == [gen |-> 0, status |-> "unloaded"]

Fetch == [id : 1 .. MaxFetches, data : Snapshot \cup {Unread}]

Caller == {"create", "action", "deletion", "retry"}
What == {"none", "create", "extend", "redeploy", "confirm", "destroy", "refresh"}

\* shown: the generation on the page when the button was pressed; gen: the one the call
\* is about, and then the one it led to.
Job == [at : {"idle", "sent", "ok", "failed", "waits", "fetching"}, what : What,
        shown : Nat, gen : Nat, fetch : 0 .. MaxFetches]

Idle == [at |-> "idle", what |-> "none", shown |-> 0, gen |-> 0, fetch |-> 0]
NoDialog == [open |-> FALSE, bound |-> 0, shown |-> 0]

EnvTypeOK ==
  /\ env \in Snapshot /\ minted \subseteq Nat
  /\ created \subseteq [key : Nat, payload : Payload]
  /\ view \in Snapshot \cup {Unloaded} /\ viewError \in BOOLEAN
  /\ fetches \subseteq Fetch /\ current \in 0 .. MaxFetches
  /\ job \in [Caller -> Job]
  /\ draft \in Payload \cup {None} /\ attempt \in Nat /\ earlier \in Nat
  /\ DOMAIN issued \subseteq Nat /\ \A k \in DOMAIN issued : issued[k] \in Payload
  /\ dialog \in [open : BOOLEAN, bound : Nat, shown : Nat]
  /\ notice \in Nat /\ faults \in Nat

EnvInit ==
  /\ env \in [gen : {0}, status : {"none"}] \cup [gen : {1}, status : {"ready"}]
  /\ minted = {} /\ created = {}
  /\ view = Unloaded /\ viewError = FALSE /\ fetches = {} /\ current = 0
  /\ job = [c \in Caller |-> Idle]
  /\ draft = None /\ attempt = 0 /\ issued = <<>> /\ earlier = 0
  /\ dialog = NoDialog /\ notice = 0 /\ faults = 0

-----------------------------------------------------------------------------
(* The data the pages share. *)

Ids == {f.id : f \in fetches}
Free == (1 .. MaxFetches) \ Ids
NewId == CHOOSE i \in Free : TRUE

\* refresh(false): the timer's turn.  With a refresh in flight it only waits for it.
Poll ==
  /\ current = 0 /\ Free # {}
  /\ current' = NewId
  /\ fetches' = fetches \cup {[id |-> NewId, data |-> Unread]}
  /\ UNCHANGED <<shell, api, view, viewError, job, form, dialog, notice, faults>>

\* Variant: a call is content with the refresh under way.
Joins(c, j) ==
  IF current # 0
    THEN /\ job' = [job EXCEPT ![c] = [j EXCEPT !.at = "fetching", !.fetch = current]]
         /\ UNCHANGED <<fetches, current>>
    ELSE /\ Free # {}
         /\ job' = [job EXCEPT ![c] = [j EXCEPT !.at = "fetching", !.fetch = NewId]]
         /\ fetches' = fetches \cup {[id |-> NewId, data |-> Unread]}
         /\ current' = NewId

\* refresh(): a call waits for the refresh in flight and then starts one of its own.
Refresh(c, j) ==
  IF current # 0
    THEN /\ job' = [job EXCEPT ![c] = [j EXCEPT !.at = "waits", !.fetch = current]]
         /\ UNCHANGED <<fetches, current>>
    ELSE /\ Free # {}
         /\ job' = [job EXCEPT ![c] = [j EXCEPT !.at = "fetching", !.fetch = NewId]]
         /\ fetches' = fetches \cup {[id |-> NewId, data |-> Unread]}
         /\ current' = NewId

\* The services answer a refresh's two reads.
Read(f) ==
  /\ f \in fetches /\ f.data = Unread /\ PlatformStatus("environments") = "ok"
  /\ fetches' = (fetches \ {f}) \cup {[f EXCEPT !.data = env]}
  /\ UNCHANGED <<shell, api, view, viewError, current, job, form, dialog, notice, faults>>

\* The callers whose own refresh f was, and those that waited for it.
Finished(f) == {c \in Caller : job[c].at = "fetching" /\ job[c].fetch = f.id}
Waiting(f)  == {c \in Caller : job[c].at = "waits" /\ job[c].fetch = f.id}

\* Variant: only a refresh that succeeds gives the reference back.
Forgotten(f) == IF f.data = Unread THEN current ELSE 0

\* The finally of a refresh forgets the one in flight, whichever that is.
InFlightAfter(f) == 0

\* What the form and the dialog keep when the page becomes p.
Left(p) ==
  IF p = page THEN UNCHANGED <<draft, attempt, earlier, dialog>>
  ELSE draft' = None /\ attempt' = 0 /\ earlier' = Cardinality(DOMAIN issued) /\ dialog' = NoDialog

\* The rest of a refresh: those it was for go on (the create form to the new page, wherever
\* the person is by then, the others to their notice), and each that waited starts a
\* refresh, the last of them last.
Settle(f) ==
  LET W == Waiting(f)
      left == Free \cup {f.id}
  IN \E new \in [W -> left] :
       /\ \A c, d \in W : new[c] = new[d] => c = d
       /\ fetches' = (fetches \ {f}) \cup {[id |-> new[c], data |-> Unread] : c \in W}
       /\ IF W = {} THEN current' = InFlightAfter(f) ELSE \E c \in W : current' = new[c]
       /\ job' = [c \in Caller |->
                    IF c \in Finished(f) THEN Idle
                    ELSE IF c \in W THEN [job[c] EXCEPT !.at = "fetching", !.fetch = new[c]]
                    ELSE job[c]]
       /\ page' = IF "create" \in Finished(f) THEN "environment" ELSE page
       /\ Left(page')
       /\ notice' = IF page # "environment" THEN 0
                    ELSE IF "deletion" \in Finished(f) THEN job["deletion"].gen
                    ELSE IF "action" \in Finished(f) THEN job["action"].gen
                    ELSE notice

\* A refresh is answered; or it fails, and the data shown stays.
Answered(f) ==
  /\ f \in fetches /\ f.data # Unread
  /\ view' = f.data /\ viewError' = FALSE
  /\ Settle(f)
  /\ UNCHANGED <<setup, api, issued, faults>>

Unavailable(f) ==
  /\ f \in fetches
  /\ IF PlatformStatus("environments") = "ok"
       THEN faults < MaxFaults /\ faults' = faults + 1
       ELSE UNCHANGED faults
  /\ view' = [view EXCEPT !.status = IF @ = "unloaded" THEN "none" ELSE @]
  /\ viewError' = TRUE
  /\ Settle(f)
  /\ UNCHANGED <<setup, api, issued>>

\* "Retry connection".
Retry ==
  /\ viewError /\ job["retry"].at = "idle"
  /\ Refresh("retry", [Idle EXCEPT !.what = "refresh"])
  /\ UNCHANGED <<shell, api, view, viewError, form, dialog, notice, faults>>

-----------------------------------------------------------------------------
(* What people press. *)

Press(c, j) == job' = [job EXCEPT ![c] = [j EXCEPT !.at = "sent"]]

\* A page that is left forgets what it kept; its calls go on.  Model: it is not opened
\* again while one of them is under way.
EnvVisit(p) ==
  /\ page' = p /\ p # page
  /\ p = "new" => job["create"].at = "idle"
  /\ p = "environment" => job["action"].at = "idle" /\ job["deletion"].at = "idle"
  /\ Left(p) /\ notice' = 0
  /\ UNCHANGED <<setup, api, provider, job, issued, faults>>

\* The tab loads anew: the pages' data and calls are gone.
EnvUnload ==
  /\ view' = Unloaded /\ viewError' = FALSE /\ fetches' = {} /\ current' = 0
  /\ job' = [c \in Caller |-> Idle]
  /\ Left("sign-in") /\ notice' = 0
  /\ UNCHANGED <<api, issued, faults>>

Fill(p) ==
  /\ page = "new" /\ job["create"].at = "idle"
  /\ draft' = p /\ p # draft
  /\ UNCHANGED <<shell, api, provider, job, attempt, issued, earlier, dialog, notice, faults>>

\* Variant: a key for every submission.
FreshKey == TRUE

\* A submission takes a fresh key unless the last attempt was the same.
NeedsKey == attempt = 0 \/ issued[attempt] # draft

Submit ==
  /\ page = "new" /\ job["create"].at = "idle" /\ draft # None
  /\ IF NeedsKey
       THEN /\ Cardinality(DOMAIN issued) < MaxKeys
            /\ attempt' = Cardinality(DOMAIN issued) + 1
            /\ issued' = [k \in DOMAIN issued \cup {attempt'} |->
                            IF k = attempt' THEN draft ELSE issued[k]]
       ELSE UNCHANGED <<attempt, issued>>
  /\ Press("create", [Idle EXCEPT !.what = "create", !.gen = attempt'])
  /\ UNCHANGED <<shell, api, provider, draft, earlier, dialog, notice, faults>>

\* The buttons of the environment's page.
Manageable ==
  /\ page = "environment" /\ view.status \in {"pending", "ready", "failed"}
  /\ job["action"].at = "idle" /\ ~dialog.open

Manage(what) ==
  /\ Manageable
  /\ Press("action", [Idle EXCEPT !.what = what, !.shown = view.gen, !.gen = view.gen])
  /\ notice' = 0
  /\ UNCHANGED <<shell, api, provider, form, dialog, faults>>

OpenDialog ==
  /\ Manageable
  /\ dialog' = [NoDialog EXCEPT !.open = TRUE]
  /\ UNCHANGED <<shell, api, provider, job, form, notice, faults>>

CloseDialog ==
  /\ dialog.open /\ job["deletion"].at = "idle"
  /\ dialog' = NoDialog
  /\ UNCHANGED <<shell, api, provider, job, form, notice, faults>>

\* The confirmation at hand is for the generation the page shows.
Confirmed == dialog.bound # 0 /\ dialog.shown = view.gen

\* The dialog's one button asks for a confirmation, or deletes with the one it has.
Delete ==
  /\ dialog.open /\ job["deletion"].at = "idle" /\ view.status # "none"
  /\ Press("deletion", IF Confirmed
                         THEN [Idle EXCEPT !.what = "destroy", !.shown = view.gen, !.gen = dialog.bound]
                         ELSE [Idle EXCEPT !.what = "confirm", !.shown = view.gen])
  /\ UNCHANGED <<shell, api, provider, form, dialog, notice, faults>>

-----------------------------------------------------------------------------
(* The lifecycle API carries the calls out. *)

\* The service does its part of c's call with the outcome at, and gen is what it led to.
Outcome(c, at, gen) == job' = [job EXCEPT ![c] = [@ EXCEPT !.at = at, !.gen = gen]]

Alive == env.status \in {"pending", "ready", "failed"}
NextGen(status) == [gen |-> env.gen + 1, status |-> status]

\* Create: a known key gets its old answer; a fresh one creates, unless there is an
\* environment of that name.
Creates(k) ==
  IF \E m \in created : m.key = k
    THEN Outcome("create", "ok", env.gen) /\ UNCHANGED api
    ELSE IF env.status \in {"none", "deleted"}
      THEN /\ env.gen < MaxGen
           /\ env' = NextGen("pending")
           /\ created' = created \cup {[key |-> k, payload |-> issued[k]]}
           /\ Outcome("create", "ok", env.gen + 1)
           /\ UNCHANGED minted
      ELSE Outcome("create", "failed", 0) /\ UNCHANGED api

\* Extend and Redeploy: for the generation the page showed, or not at all.
Manages(j) ==
  IF Alive /\ j.gen = env.gen
    THEN /\ env.gen < MaxGen
         /\ env' = NextGen(IF j.what = "redeploy" THEN "pending" ELSE env.status)
         /\ Outcome("action", "ok", env.gen + 1)
         /\ UNCHANGED <<minted, created>>
    ELSE Outcome("action", "failed", 0) /\ UNCHANGED api

\* ConfirmDelete: the confirmation is for the generation in force.
Confirms ==
  IF env.status \in {"none", "deleted"}
    THEN Outcome("deletion", "failed", 0) /\ UNCHANGED api
    ELSE /\ minted' = minted \cup {env.gen}
         /\ Outcome("deletion", "ok", env.gen)
         /\ UNCHANGED <<env, created>>

\* Delete: with an outstanding confirmation for the generation in force.
Destroys(j) ==
  IF j.gen \in minted /\ j.gen = env.gen
    THEN /\ env.gen < MaxGen
         /\ env' = NextGen("deleting")
         /\ minted' = minted \ {j.gen}
         /\ Outcome("deletion", "ok", env.gen + 1)
         /\ UNCHANGED created
    ELSE Outcome("deletion", "failed", 0) /\ UNCHANGED api

CarryOut(c) ==
  /\ job[c].at = "sent" /\ PlatformStatus("environments") = "ok"
  /\ CASE job[c].what = "create" -> Creates(job[c].gen)
       [] job[c].what \in {"extend", "redeploy"} -> Manages(job[c])
       [] job[c].what = "confirm" -> Confirms
       [] job[c].what = "destroy" -> Destroys(job[c])
  /\ UNCHANGED <<shell, provider, form, dialog, notice, faults>>

\* A call fails before anything was done, or its answer is lost.
CallFails(c) ==
  /\ job[c].at \in {"sent", "ok"}
  /\ IF PlatformStatus("environments") = "ok"
       THEN faults < MaxFaults /\ faults' = faults + 1
       ELSE UNCHANGED faults
  /\ job' = [job EXCEPT ![c] = [@ EXCEPT !.at = "failed"]]
  /\ UNCHANGED <<shell, api, provider, form, dialog, notice>>

-----------------------------------------------------------------------------
(* The answers. *)

\* What is left of the dialog when its call fails: a spent confirmation is dropped.
DialogAfterFailure ==
  IF job["deletion"].what = "destroy" THEN [dialog EXCEPT !.bound = 0, !.shown = 0] ELSE dialog

\* The finally of run lets go of the lock.
Released(c) == [job EXCEPT ![c] = Idle]

\* A refusal is shown, and nothing is refreshed.
Refused(c) ==
  /\ job[c].at = "failed"
  /\ job' = Released(c)
  /\ dialog' = IF c = "deletion" /\ dialog.open THEN DialogAfterFailure ELSE dialog
  /\ UNCHANGED <<shell, api, provider, form, notice, faults>>

\* A confirmation is kept with the generation that the page showed when it was asked for.
ConfirmationArrives ==
  /\ job["deletion"].at = "ok" /\ job["deletion"].what = "confirm"
  /\ job' = [job EXCEPT !["deletion"] = Idle]
  /\ dialog' = IF dialog.open
                 THEN [dialog EXCEPT !.bound = job["deletion"].gen, !.shown = job["deletion"].shown]
                 ELSE dialog
  /\ UNCHANGED <<shell, api, provider, form, notice, faults>>

\* Anything else that was done is followed by a refresh; a deletion closes the dialog.
Done(c) ==
  /\ job[c].at = "ok" /\ job[c].what # "confirm"
  /\ Refresh(c, job[c])
  /\ dialog' = IF c = "deletion" THEN NoDialog ELSE dialog
  /\ UNCHANGED <<shell, api, view, viewError, form, notice, faults>>

-----------------------------------------------------------------------------
(* A template's task, the worker, other people and time. *)

\* platform:createPreview makes the call that the form makes, under the key of its task (0
\* here), so that the task run again creates nothing more.
TemplateCreates(p) ==
  /\ setup.platform /\ env.gen < MaxGen /\ env.status \in {"none", "deleted"}
  /\ \A m \in created : m.key # 0
  /\ env' = NextGen("pending")
  /\ created' = created \cup {[key |-> 0, payload |-> p]}
  /\ UNCHANGED <<shell, minted, provider, job, form, dialog, notice, faults>>

Elsewhere ==
  /\ \/ /\ env.status = "pending"
        /\ \E s \in {"ready", "failed"} : env' = [env EXCEPT !.status = s]
        /\ UNCHANGED minted
     \/ /\ env.status = "deleting"
        /\ env' = [env EXCEPT !.status = "deleted"]
        /\ UNCHANGED minted
     \/ /\ Alive /\ env.gen < MaxGen
        /\ \E s \in {"pending", "deleting"} : env' = NextGen(s)
        /\ UNCHANGED minted
     \/ /\ minted # {}
        /\ minted' = {}
        /\ UNCHANGED env
  /\ UNCHANGED <<shell, created, provider, job, form, dialog, notice, faults>>

-----------------------------------------------------------------------------
EnvNext ==
  \/ Poll \/ Retry \/ Submit \/ OpenDialog \/ CloseDialog \/ Delete \/ Elsewhere
  \/ ConfirmationArrives
  \/ \E f \in fetches : Read(f) \/ Answered(f) \/ Unavailable(f)
  \/ \E p \in Payload : Fill(p) \/ TemplateCreates(p)
  \/ \E what \in {"extend", "redeploy"} : Manage(what)
  \/ \E c \in Caller : CarryOut(c) \/ CallFails(c) \/ Refused(c) \/ Done(c)
=============================================================================
