----------------------------- MODULE PortalProofs -----------------------------
(***************************************************************************)
(* Proofs about the portal for any number of requests, people, drafts and  *)
(* providers, on any configuration of its back end, and for any bounds.    *)
(* Each part has an inductive invariant of its own; what a step of one     *)
(* part does to another is to open a page, to load the tab anew, or        *)
(* nothing.                                                                *)
(***************************************************************************)
EXTENDS Portal, TLAPS, FiniteSetTheorems, SequenceTheorems

-----------------------------------------------------------------------------
(* The inductive invariant of the environment's pages. *)

Made == Cardinality(DOMAIN issued)

\* The keys are numbered as they are made; those of the form that is open come last, and
\* two that follow each other are for different drafts.
KeysOK ==
  /\ Made \in Nat /\ DOMAIN issued = 1 .. Made
  /\ IF attempt = 0 THEN earlier = Made ELSE attempt = Made /\ earlier < Made
  /\ \A k \in 1 .. Made : earlier < k /\ k < Made => issued[k] # issued[k + 1]
  /\ \A m \in created : m.key # 0 => m.key \in 1 .. Made /\ issued[m.key] = m.payload
  /\ job["create"].at = "sent" => job["create"].gen \in 1 .. Made

Calls(c) ==
  CASE c = "create" -> {"create"} [] c = "action" -> {"extend", "redeploy"}
    [] c = "deletion" -> {"confirm", "destroy"} [] c = "retry" -> {}

\* A call is one that its button makes; what was done is not ahead of the environment.
JobsOK ==
  \A c \in Caller :
    /\ job[c].at = "sent" => job[c].what \in Calls(c)
    /\ job[c].at \in {"ok", "waits", "fetching"} => job[c].gen <= env.gen

\* A refresh that was started after a call reads what the call did, or something later.
FetchesOK ==
  /\ \A f, g \in fetches : f.id = g.id => f = g
  /\ \A f \in fetches, c \in Caller :
       job[c].at = "fetching" /\ job[c].fetch = f.id => f.data = Unread \/ job[c].gen <= f.data.gen

EnvInv == EnvTypeOK /\ KeysOK /\ JobsOK /\ FetchesOK

-----------------------------------------------------------------------------
(* That of the pages about access. *)

\* What was asked for under the key of the last attempt is what that attempt was for.
AskedOK ==
  /\ tried # None => keys > 0
  /\ \A m \in Mine :
       /\ asked[m].key <= keys
       /\ asked[m].key = 0 => real[m] = "none"
       /\ tried # None /\ asked[m].key = keys => asked[m].wish = tried
  /\ \A e \in replay : e.key > 0 /\ asked[e.of].key = e.key

FormOK ==
  /\ step = "review" => want # None
  /\ step = "done" => result \in Mine /\ asked[result].key > 0 /\ asked[result].wish = tried

\* A submission whose page is there is the last attempt; one whose page is gone is nobody's.
SubmissionOK ==
  call.at \in {"sent", "ok"} /\ call.what = "request" =>
    /\ keys > 0
    /\ IF call.here THEN tried # None /\ call.wish = tried ELSE tried = None
    /\ call.at = "ok" /\ call.here => call.of \in Mine /\ asked[call.of].key = keys

DecisionOK ==
  /\ opened.verb # "none" => opened.of \in Theirs
  /\ call.at \in {"sent", "ok"} /\ call.what = "decide" =>
       /\ call.of \in AccessRequest
       /\ call.at = "ok" => Holds(call.of, call.verb)
  /\ told.of # None => Holds(told.of, told.verb)

\* No request is further in d than in e.
NotAhead(d, e) == \A r \in AccessRequest : Rank(d[r]) <= Rank(e[r])

\* Nothing that the hook h shows or has read is ahead of s, and the only read of it that is
\* live has read nothing older than what is shown.
Orderly(h, s) ==
  /\ h.data # None => NotAhead(h.data, s)
  /\ \A a \in h.asks :
       /\ a.data # None => NotAhead(a.data, s)
       /\ a.live /\ a.data # None /\ h.data # None => NotAhead(h.data, a.data)
  /\ \A a, b \in h.asks : a.live /\ b.live => a = b

\* What is shown trails Teleport's cache, which trails what Teleport holds.
ReadsOK == NotAhead(seen, real) /\ Orderly(shown, seen)

AccessInv == AccessTypeOK /\ AskedOK /\ FormOK /\ SubmissionOK /\ DecisionOK /\ ReadsOK

-----------------------------------------------------------------------------
(* That of the other pages. *)

\* Who is signed in, what the sign-in page does and which page is shown fit together.
TabOK ==
  /\ page = "sign-in" <=> who = None
  /\ page = "sign-in" <=> signing # "no"
  /\ page = "assistant" => chat \in Chat

\* A question whose page is there is about the conversation that is shown.
QuestionOK ==
  /\ question.at # "idle" /\ question.here =>
       page = "assistant" /\ question.conv = chat.id /\ question.provider = chat.provider
  /\ question.at # "idle" => question.provider \in Provider
  /\ question.at = "ok" =>
       [text |-> question.text, conv |-> question.conv, provider |-> question.provider] \in spoken

Had(c) ==
  \A i \in DOMAIN c.said :
    c.said[i].conv = c.id /\ c.said[i].provider = c.provider /\ c.said[i] \in spoken

ChatOK == page = "assistant" => Had(chat)

WorkInv == WorkTypeOK /\ TabOK /\ QuestionOK /\ ChatOK /\ AnswersStay

IInv == EnvInv /\ AccessInv /\ WorkInv

-----------------------------------------------------------------------------
(* Refreshes. *)

LEMMA NewIdIsFree == ASSUME Free # {} PROVE NewId \in Free
  BY DEF NewId

LEMMA FetchesFrame ==
  ASSUME FetchesOK, UNCHANGED fetches,
         \A c \in Caller : job'[c] = job[c] \/ job'[c].at # "fetching"
  PROVE  FetchesOK'
  BY DEF FetchesOK

\* A refresh that starts has read nothing yet, whoever waits for it.
LEMMA FetchAdded ==
  ASSUME EnvTypeOK, FetchesOK, NEW i \in Free,
         fetches' = fetches \cup {[id |-> i, data |-> Unread]},
         \A c \in Caller : job'[c] = job[c] \/ job'[c].at # "fetching" \/ job'[c].fetch = i
  PROVE  fetches' \subseteq Fetch /\ FetchesOK'
<1> DEFINE new == [id |-> i, data |-> Unread]
<1>1. i \in 1 .. MaxFetches /\ \A f \in fetches : f.id # i
  BY DEF Free, Ids
<1>2. new.id = i /\ new.data = Unread /\ new \in Fetch
  BY <1>1 DEF Fetch
<1> HIDE DEF new
<1>3. fetches' = fetches \cup {new}
  BY DEF new
<1>4. \A f, g \in fetches' : f.id = g.id => f = g
  BY <1>1, <1>2, <1>3 DEF FetchesOK
<1>5. ASSUME NEW f \in fetches', NEW c \in Caller, job'[c].at = "fetching", job'[c].fetch = f.id
      PROVE  f.data = Unread \/ job'[c].gen <= f.data.gen
  <2>1. CASE f = new
    BY <1>2, <2>1
  <2>2. CASE f \in fetches
    <3>1. job'[c] = job[c]
      BY <1>1, <1>5, <2>2
    <3> QED  BY <1>5, <2>2, <3>1 DEF FetchesOK
  <2> QED  BY <1>3, <2>1, <2>2
<1>6. fetches' \subseteq Fetch
  BY <1>2, <1>3 DEF EnvTypeOK
<1> QED  BY <1>4, <1>5, <1>6 DEF FetchesOK

LEMMA KeysFrame ==
  ASSUME KeysOK, UNCHANGED <<created, attempt, issued, earlier>>,
         job'["create"] = job["create"] \/ job'["create"].at # "sent"
  PROVE  KeysOK'
  BY DEF KeysOK, Made

LEMMA JobsFrame ==
  ASSUME EnvTypeOK, EnvTypeOK', JobsOK, env'.gen >= env.gen, UNCHANGED job
  PROVE  JobsOK'
<1>1. env.gen \in Int /\ env'.gen \in Int /\ \A c \in Caller : job[c].gen \in Int
  BY DEF EnvTypeOK, Snapshot, Job
<1> QED  BY <1>1 DEF JobsOK

\* A call that is over goes on to a refresh.
LEMMA RefreshStarts ==
  ASSUME EnvInv, NEW c \in Caller, NEW j \in Job, j.gen <= env.gen, Refresh(c, j), UNCHANGED env
  PROVE  /\ job' \in [Caller -> Job] /\ fetches' \subseteq Fetch /\ current' \in 0 .. MaxFetches
         /\ JobsOK' /\ FetchesOK'
         /\ job'["create"] = job["create"] \/ job'["create"].at # "sent"
<1> USE DEF EnvInv
<1>0. job \in [Caller -> Job] /\ fetches \subseteq Fetch /\ current \in 0 .. MaxFetches
  BY DEF EnvTypeOK
<1>1. CASE current # 0
  <2> DEFINE k == [j EXCEPT !.at = "waits", !.fetch = current]
  <2>1. job' = [job EXCEPT ![c] = k] /\ UNCHANGED <<fetches, current>>
    BY <1>1 DEF Refresh
  <2>2. k \in Job /\ k.at = "waits" /\ k.gen = j.gen
    BY <1>0 DEF Job
  <2> HIDE DEF k
  <2>3. job' \in [Caller -> Job] /\ \A d \in Caller : job'[d] = IF d = c THEN k ELSE job[d]
    BY <1>0, <2>1, <2>2
  <2>4. JobsOK'
    BY <2>2, <2>3 DEF JobsOK
  <2>5. FetchesOK'
    BY <2>1, <2>2, <2>3, FetchesFrame
  <2> QED  BY <1>0, <2>1, <2>2, <2>3, <2>4, <2>5 DEF Caller
<1>2. CASE current = 0
  <2> DEFINE i == NewId  k == [j EXCEPT !.at = "fetching", !.fetch = i]
  <2>1. /\ Free # {} /\ job' = [job EXCEPT ![c] = k] /\ current' = i
        /\ fetches' = fetches \cup {[id |-> i, data |-> Unread]}
    BY <1>2 DEF Refresh
  <2>2. i \in Free /\ i \in 1 .. MaxFetches /\ i \in 0 .. MaxFetches
    BY <2>1, NewIdIsFree, PortalAssumption DEF Free
  <2> HIDE DEF i
  <2>3. k \in Job /\ k.at = "fetching" /\ k.gen = j.gen /\ k.fetch = i
    BY <2>2 DEF Job
  <2> HIDE DEF k
  <2>4. job' \in [Caller -> Job] /\ \A d \in Caller : job'[d] = IF d = c THEN k ELSE job[d]
    BY <1>0, <2>1, <2>3
  <2>5. JobsOK'
    BY <2>3, <2>4 DEF JobsOK
  <2>6. fetches' \subseteq Fetch /\ FetchesOK'
    BY <2>1, <2>2, <2>3, <2>4, FetchAdded
  <2>7. current' \in 0 .. MaxFetches
    BY <2>1, <2>2, PortalAssumption
  <2> QED  BY <2>3, <2>4, <2>5, <2>6, <2>7 DEF Caller
<1> QED  BY <1>1, <1>2

\* A page that is left forgets its form, but not the keys that were made.
LEMMA FormIsLeft ==
  ASSUME EnvInv, NEW p, Left(p), UNCHANGED <<created, issued>>,
         job'["create"] = job["create"] \/ job'["create"].at # "sent"
  PROVE  /\ KeysOK'
         /\ draft' \in Payload \cup {None} /\ attempt' \in Nat /\ earlier' \in Nat
         /\ dialog' \in [open : BOOLEAN, bound : Nat, shown : Nat]
<1> USE DEF EnvInv
<1>1. CASE p = page
  <2>1. UNCHANGED <<draft, attempt, earlier, dialog>>
    BY <1>1 DEF Left
  <2>2. KeysOK'
    BY <2>1, KeysFrame
  <2> QED  BY <2>1, <2>2 DEF EnvTypeOK
<1>2. CASE p # page
  <2>1. draft' = None /\ attempt' = 0 /\ earlier' = Made /\ dialog' = NoDialog /\ Made' = Made
    BY <1>2 DEF Left, Made
  <2>2. KeysOK'
    BY <2>1 DEF KeysOK
  <2>3. dialog' \in [open : BOOLEAN, bound : Nat, shown : Nat]
    BY <2>1 DEF NoDialog
  <2> QED  BY <2>1, <2>2, <2>3 DEF KeysOK
<1> QED  BY <1>1, <1>2

LEMMA RefreshSettles ==
  ASSUME EnvInv, NEW f \in fetches, Settle(f), UNCHANGED <<env, created, issued>>
  PROVE  /\ fetches' \subseteq Fetch /\ current' \in 0 .. MaxFetches /\ job' \in [Caller -> Job]
         /\ draft' \in Payload \cup {None} /\ attempt' \in Nat /\ earlier' \in Nat
         /\ dialog' \in [open : BOOLEAN, bound : Nat, shown : Nat] /\ notice' \in Nat
         /\ KeysOK' /\ JobsOK' /\ FetchesOK'
         /\ page' \in {page, "environment"}
<1> USE DEF EnvInv
<1> DEFINE W == Waiting(f)  F == Finished(f)  left == Free \cup {f.id}
<1>1. PICK new \in [W -> left] :
        /\ \A c, d \in W : new[c] = new[d] => c = d
        /\ fetches' = (fetches \ {f}) \cup {[id |-> new[c], data |-> Unread] : c \in W}
        /\ IF W = {} THEN current' = InFlightAfter(f) ELSE \E c \in W : current' = new[c]
        /\ job' = [c \in Caller |->
                     IF c \in F THEN Idle
                     ELSE IF c \in W THEN [job[c] EXCEPT !.at = "fetching", !.fetch = new[c]]
                     ELSE job[c]]
  BY DEF Settle
<1>2. /\ page' = IF "create" \in F THEN "environment" ELSE page
      /\ Left(page')
      /\ notice' = IF page # "environment" THEN 0
                   ELSE IF "deletion" \in F THEN job["deletion"].gen
                   ELSE IF "action" \in F THEN job["action"].gen
                   ELSE notice
  BY DEF Settle
<1>3. /\ f.id \in 1 .. MaxFetches /\ left \subseteq 1 .. MaxFetches
      /\ job \in [Caller -> Job] /\ fetches \subseteq Fetch
  BY PortalAssumption DEF EnvTypeOK, Fetch, Free
<1>4. /\ \A c \in W : c \in Caller /\ job[c].at = "waits"
      /\ \A c \in Caller : c \in F <=> job[c].at = "fetching" /\ job[c].fetch = f.id
  BY DEF Waiting, Finished
<1>5. \A g \in fetches : g # f => g.id \notin left
  BY DEF FetchesOK, Free, Ids
<1> HIDE DEF W, F, left
<1>6. \A c \in W : new[c] \in left /\ new[c] \in 1 .. MaxFetches /\ new[c] \in 0 .. MaxFetches
  <2>1. \A c \in W : new[c] \in left
    OBVIOUS
  <2>2. \A c \in W : new[c] \in 1 .. MaxFetches
    BY <1>3, <2>1
  <2>3. \A c \in W : new[c] \in 0 .. MaxFetches
    BY <2>2, PortalAssumption
  <2> QED  BY <2>1, <2>2, <2>3
<1>7. ASSUME NEW c \in Caller
      PROVE  /\ job'[c] \in Job
             /\ c \in F => job'[c] = Idle
             /\ c \in W /\ c \notin F =>
                  job'[c].at = "fetching" /\ job'[c].fetch = new[c] /\ job'[c].gen = job[c].gen
             /\ c \notin W /\ c \notin F => job'[c] = job[c]
  <2>1. job'[c] = IF c \in F THEN Idle
                  ELSE IF c \in W THEN [job[c] EXCEPT !.at = "fetching", !.fetch = new[c]]
                  ELSE job[c]
    BY <1>1
  <2>2. job[c] \in Job
    BY <1>3
  <2>3. CASE c \in F
    BY <2>1, <2>3, PortalAssumption DEF Idle, Job, What
  <2>4. CASE c \in W /\ c \notin F
    <3>1. job'[c] = [job[c] EXCEPT !.at = "fetching", !.fetch = new[c]]
      BY <2>1, <2>4
    <3> QED  BY <1>6, <2>2, <2>4, <3>1 DEF Job
  <2>5. CASE c \notin W /\ c \notin F
    BY <2>1, <2>2, <2>5
  <2> QED  BY <2>3, <2>4, <2>5
<1>8. job' \in [Caller -> Job]
  BY <1>1, <1>7
<1>9. ASSUME NEW g \in fetches'
      PROVE  \/ g \in fetches /\ g # f
             \/ g.data = Unread /\ \E c \in W : g = [id |-> new[c], data |-> Unread]
  <2>1. fetches' = (fetches \ {f}) \cup {[id |-> new[c], data |-> Unread] : c \in W}
    BY <1>1
  <2>2. g \in fetches \ {f} \/ \E c \in W : g = [id |-> new[c], data |-> Unread]
    BY <2>1
  <2>3. \A c \in W : [id |-> new[c], data |-> Unread].data = Unread
    OBVIOUS
  <2> QED  BY <2>2, <2>3
<1>10. fetches' \subseteq Fetch
  <2>1. \A c \in W : [id |-> new[c], data |-> Unread] \in Fetch
    BY <1>6 DEF Fetch
  <2> QED  BY <1>3, <1>9, <2>1
<1>11. current' \in 0 .. MaxFetches
  <2>1. current' = 0 \/ \E c \in W : current' = new[c]
    BY <1>1 DEF InFlightAfter
  <2>2. 0 \in 0 .. MaxFetches
    BY PortalAssumption
  <2> QED  BY <1>6, <2>1, <2>2
<1>12. ASSUME NEW g \in fetches', NEW h \in fetches', g.id = h.id
       PROVE  g = h
  BY <1>5, <1>6, <1>9, <1>12 DEF FetchesOK
<1>13. ASSUME NEW g \in fetches', NEW c \in Caller, job'[c].at = "fetching", job'[c].fetch = g.id
       PROVE  g.data = Unread \/ job'[c].gen <= g.data.gen
  <2>1. SUFFICES ASSUME g \in fetches, g # f
                 PROVE  g.data = Unread \/ job'[c].gen <= g.data.gen
    BY <1>9
  <2>2. c \notin F
    BY <1>7, <1>13 DEF Idle
  <2>3. c \notin W
    BY <1>5, <1>6, <1>7, <1>13, <2>1, <2>2
  <2> QED  BY <1>7, <1>13, <2>1, <2>2, <2>3 DEF FetchesOK
<1>14. FetchesOK'
  BY <1>12, <1>13 DEF FetchesOK
<1>15. JobsOK'
  <2> SUFFICES ASSUME NEW c \in Caller
               PROVE  /\ job'[c].at = "sent" => job'[c].what \in Calls(c)
                      /\ job'[c].at \in {"ok", "waits", "fetching"} => job'[c].gen <= env'.gen
    BY DEF JobsOK
  <2> QED  BY <1>4, <1>7 DEF JobsOK, Idle
<1>16. job'["create"] = job["create"] \/ job'["create"].at # "sent"
  BY <1>7 DEF Caller, Idle
<1>17. notice' \in Nat
  BY <1>2, <1>3 DEF EnvTypeOK, Caller, Job
<1> QED  BY <1>2, <1>8, <1>10, <1>11, <1>14, <1>15, <1>16, <1>17, FormIsLeft

-----------------------------------------------------------------------------
(* The steps of the environment's pages. *)

LEMMA PollEnv == ASSUME EnvInv, Poll PROVE EnvInv'
<1> USE DEF EnvInv
<1>1. /\ Free # {} /\ current' = NewId
      /\ fetches' = fetches \cup {[id |-> NewId, data |-> Unread]}
      /\ UNCHANGED <<env, minted, created, view, viewError, job, draft, attempt, issued, earlier,
                     dialog, notice, faults>>
  BY DEF Poll, api, form
<1>2. NewId \in Free /\ NewId \in 0 .. MaxFetches
  BY <1>1, NewIdIsFree, PortalAssumption DEF Free
<1>3. fetches' \subseteq Fetch /\ FetchesOK'
  BY <1>1, <1>2, FetchAdded
<1>4. EnvTypeOK'
  BY <1>1, <1>2, <1>3 DEF EnvTypeOK
<1>5. JobsOK'
  BY <1>1 DEF JobsOK
<1> QED  BY <1>1, <1>3, <1>4, <1>5, KeysFrame

LEMMA ReadEnv == ASSUME EnvInv, NEW f \in fetches, Read(f) PROVE EnvInv'
<1> USE DEF EnvInv
<1> DEFINE g == [f EXCEPT !.data = env]
<1>1. /\ f.data = Unread /\ fetches' = (fetches \ {f}) \cup {g}
      /\ UNCHANGED <<env, minted, created, view, viewError, current, job, draft, attempt, issued,
                     earlier, dialog, notice, faults>>
  BY DEF Read, api, form
<1>2. f \in Fetch /\ env \in Snapshot
  BY DEF EnvTypeOK
<1>3. g \in Fetch /\ g.id = f.id /\ g.data = env
  BY <1>2 DEF Fetch
<1> HIDE DEF g
<1>4. EnvTypeOK'
  BY <1>1, <1>3 DEF EnvTypeOK
<1>5. JobsOK'
  BY <1>1 DEF JobsOK
<1>6. FetchesOK'
  <2>1. \A h, k \in fetches' : h.id = k.id => h = k
    BY <1>1, <1>3 DEF FetchesOK
  <2>2. ASSUME NEW h \in fetches', NEW c \in Caller, job'[c].at = "fetching", job'[c].fetch = h.id
        PROVE  h.data = Unread \/ job'[c].gen <= h.data.gen
    <3>1. CASE h = g
      BY <1>1, <1>3, <2>2, <3>1 DEF JobsOK
    <3>2. CASE h \in fetches
      BY <1>1, <2>2, <3>2 DEF FetchesOK
    <3> QED  BY <1>1, <3>1, <3>2
  <2> QED  BY <2>1, <2>2 DEF FetchesOK
<1> QED  BY <1>1, <1>4, <1>5, <1>6, KeysFrame

LEMMA AnsweredEnv == ASSUME EnvInv, NEW f \in fetches, Answered(f) PROVE EnvInv'
<1> USE DEF EnvInv
<1>1. /\ f.data # Unread /\ view' = f.data /\ viewError' = FALSE /\ Settle(f)
      /\ UNCHANGED <<env, minted, created, issued, faults>>
  BY DEF Answered, api
<1>2. f \in Fetch
  BY DEF EnvTypeOK
<1>3. view' \in Snapshot \cup {Unloaded}
  BY <1>1, <1>2 DEF Fetch
<1>4. viewError' \in BOOLEAN
  BY <1>1
<1>5. /\ fetches' \subseteq Fetch /\ current' \in 0 .. MaxFetches /\ job' \in [Caller -> Job]
      /\ draft' \in Payload \cup {None} /\ attempt' \in Nat /\ earlier' \in Nat
      /\ dialog' \in [open : BOOLEAN, bound : Nat, shown : Nat] /\ notice' \in Nat
      /\ KeysOK' /\ JobsOK' /\ FetchesOK'
  BY <1>1, RefreshSettles
<1>6. EnvTypeOK'
  BY <1>1, <1>3, <1>4, <1>5 DEF EnvTypeOK
<1> QED  BY <1>5, <1>6

LEMMA UnavailableEnv == ASSUME EnvInv, NEW f \in fetches, Unavailable(f) PROVE EnvInv'
<1> USE DEF EnvInv
<1>1. /\ view' = [view EXCEPT !.status = IF @ = "unloaded" THEN "none" ELSE @]
      /\ viewError' = TRUE /\ Settle(f)
      /\ UNCHANGED <<env, minted, created, issued>>
      /\ faults' \in {faults, faults + 1}
  BY DEF Unavailable, api
<1>2. view' \in Snapshot \cup {Unloaded}
  <2>1. view \in Snapshot \cup {Unloaded}
    BY DEF EnvTypeOK
  <2>2. CASE view \in Snapshot
    BY <1>1, <2>2 DEF Snapshot, Status
  <2>3. CASE view = Unloaded
    BY <1>1, <2>3 DEF Snapshot, Status, Unloaded
  <2> QED  BY <2>1, <2>2, <2>3
<1>3. viewError' \in BOOLEAN
  BY <1>1
<1>4. /\ fetches' \subseteq Fetch /\ current' \in 0 .. MaxFetches /\ job' \in [Caller -> Job]
      /\ draft' \in Payload \cup {None} /\ attempt' \in Nat /\ earlier' \in Nat
      /\ dialog' \in [open : BOOLEAN, bound : Nat, shown : Nat] /\ notice' \in Nat
      /\ KeysOK' /\ JobsOK' /\ FetchesOK'
  BY <1>1, RefreshSettles
<1>5. faults' \in Nat
  BY <1>1 DEF EnvTypeOK
<1>6. EnvTypeOK'
  BY <1>1, <1>2, <1>3, <1>4, <1>5 DEF EnvTypeOK
<1> QED  BY <1>4, <1>6

LEMMA RetryEnv == ASSUME EnvInv, Retry PROVE EnvInv'
<1> USE DEF EnvInv
<1> DEFINE j == [Idle EXCEPT !.what = "refresh"]
<1>1. /\ Refresh("retry", j)
      /\ UNCHANGED <<env, minted, created, view, viewError, draft, attempt, issued, earlier,
                     dialog, notice, faults>>
  BY DEF Retry, api, form
<1>2. j \in Job /\ j.gen = 0 /\ j.gen <= env.gen
  BY PortalAssumption DEF EnvTypeOK, Snapshot, Idle, Job, What
<1> HIDE DEF j
<1>3. /\ job' \in [Caller -> Job] /\ fetches' \subseteq Fetch /\ current' \in 0 .. MaxFetches
      /\ JobsOK' /\ FetchesOK'
      /\ job'["create"] = job["create"] \/ job'["create"].at # "sent"
  BY <1>1, <1>2, RefreshStarts DEF Caller
<1>4. EnvTypeOK'
  BY <1>1, <1>3 DEF EnvTypeOK
<1> QED  BY <1>1, <1>3, <1>4, KeysFrame

LEMMA DoneEnv == ASSUME EnvInv, NEW c \in Caller, Done(c) PROVE EnvInv'
<1> USE DEF EnvInv
<1>1. /\ job[c].at = "ok" /\ Refresh(c, job[c])
      /\ dialog' = IF c = "deletion" THEN NoDialog ELSE dialog
      /\ UNCHANGED <<env, minted, created, view, viewError, draft, attempt, issued, earlier,
                     notice, faults>>
  BY DEF Done, api, form
<1>2. job[c] \in Job /\ job[c].gen <= env.gen
  BY <1>1 DEF EnvTypeOK, JobsOK
<1>3. /\ job' \in [Caller -> Job] /\ fetches' \subseteq Fetch /\ current' \in 0 .. MaxFetches
      /\ JobsOK' /\ FetchesOK'
      /\ job'["create"] = job["create"] \/ job'["create"].at # "sent"
  BY <1>1, <1>2, RefreshStarts
<1>4. dialog' \in [open : BOOLEAN, bound : Nat, shown : Nat]
  BY <1>1 DEF NoDialog, EnvTypeOK
<1>5. EnvTypeOK'
  BY <1>1, <1>3, <1>4 DEF EnvTypeOK
<1> QED  BY <1>1, <1>3, <1>5, KeysFrame

\* One call changes, and none of them starts to wait for a refresh.
LEMMA CallChanges ==
  ASSUME EnvInv, NEW c \in Caller, NEW j \in Job, job' = [job EXCEPT ![c] = j],
         j.at = "sent" => j.what \in Calls(c),
         j.at \in {"idle", "sent", "ok", "failed"}, j.at = "ok" => j.gen <= env'.gen,
         env' \in Snapshot, env.gen <= env'.gen, UNCHANGED fetches
  PROVE  /\ job' \in [Caller -> Job] /\ JobsOK' /\ FetchesOK'
         /\ c # "create" \/ j.at # "sent" =>
              job'["create"] = job["create"] \/ job'["create"].at # "sent"
<1> USE DEF EnvInv
<1>1. job \in [Caller -> Job]
  BY DEF EnvTypeOK
<1>2. job' \in [Caller -> Job] /\ \A d \in Caller : job'[d] = IF d = c THEN j ELSE job[d]
  BY <1>1
<1>3. env.gen \in Int /\ env'.gen \in Int /\ \A d \in Caller : job[d].gen \in Int
  BY <1>1 DEF EnvTypeOK, Snapshot, Job
<1>4. JobsOK'
  <2> SUFFICES ASSUME NEW d \in Caller
               PROVE  /\ job'[d].at = "sent" => job'[d].what \in Calls(d)
                      /\ job'[d].at \in {"ok", "waits", "fetching"} => job'[d].gen <= env'.gen
    BY DEF JobsOK
  <2>1. CASE d = c
    BY <1>2, <2>1
  <2>2. CASE d # c
    BY <1>2, <1>3, <2>2 DEF JobsOK
  <2> QED  BY <2>1, <2>2
<1>5. FetchesOK'
  BY <1>2, FetchesFrame
<1> QED  BY <1>2, <1>4, <1>5 DEF Caller

LEMMA IdleIsJob == Idle \in Job /\ Idle.at = "idle" /\ Idle.gen = 0
  BY PortalAssumption DEF Idle, Job, What

LEMMA FillEnv == ASSUME EnvInv, NEW p \in Payload, Fill(p) PROVE EnvInv'
<1> USE DEF EnvInv
<1>1. /\ draft' = p
      /\ UNCHANGED <<env, minted, created, view, viewError, fetches, current, job, attempt, issued,
                     earlier, dialog, notice, faults>>
  BY DEF Fill, api, provider
<1>2. EnvTypeOK'
  BY <1>1 DEF EnvTypeOK
<1>3. JobsOK' /\ FetchesOK'
  BY <1>1 DEF JobsOK, FetchesOK
<1> QED  BY <1>1, <1>2, <1>3, KeysFrame

LEMMA SubmitEnv == ASSUME EnvInv, Submit PROVE EnvInv'
<1> USE DEF EnvInv
<1> DEFINE i == [Idle EXCEPT !.what = "create", !.gen = attempt']
           j == [i EXCEPT !.at = "sent"]
<1>1. /\ draft # None /\ job' = [job EXCEPT !["create"] = j]
      /\ UNCHANGED <<env, minted, created, view, viewError, fetches, current, draft, earlier,
                     dialog, notice, faults>>
  BY DEF Submit, Press, api, provider
<1>2. /\ Made \in Nat /\ DOMAIN issued = 1 .. Made /\ draft \in Payload
      /\ attempt \in Nat /\ earlier \in Nat
      /\ \A k \in 1 .. Made : issued[k] \in Payload
  BY <1>1 DEF KeysOK, EnvTypeOK
<1>3. /\ attempt' \in Nat /\ attempt' \in 1 .. Made' /\ Made' \in Nat /\ DOMAIN issued' = 1 .. Made'
      /\ \A k \in 1 .. Made' : issued'[k] \in Payload
      /\ attempt' = Made' /\ earlier' < Made'
      /\ \A k \in 1 .. Made' : earlier' < k /\ k < Made' => issued'[k] # issued'[k + 1]
      /\ \A k \in 1 .. Made : k \in 1 .. Made' /\ issued'[k] = issued[k]
  <2>1. CASE NeedsKey
    <3>1. /\ attempt' = Made + 1
          /\ issued' = [k \in DOMAIN issued \cup {attempt'} |->
                          IF k = attempt' THEN draft ELSE issued[k]]
      BY <2>1 DEF Submit, Made
    <3>2. DOMAIN issued' = 1 .. (Made + 1)
      BY <1>2, <3>1
    <3>3. Made' = Made + 1
      BY <1>2, <3>2, FS_Interval DEF Made
    <3>4. \A k \in 1 .. (Made + 1) : issued'[k] = IF k = Made + 1 THEN draft ELSE issued[k]
      BY <1>2, <3>1
    <3>5. \A k \in 1 .. Made' : issued'[k] \in Payload
      BY <1>2, <3>3, <3>4
    <3>6. earlier' < Made'
      BY <1>1, <1>2, <3>3 DEF KeysOK
    <3>7. \A k \in 1 .. Made : k \in 1 .. Made' /\ issued'[k] = issued[k]
      BY <1>2, <3>3, <3>4
    <3>8. ASSUME NEW k \in 1 .. Made', earlier' < k, k < Made'
          PROVE  issued'[k] # issued'[k + 1]
      <4>1. k \in 1 .. Made /\ k + 1 \in 1 .. (Made + 1) /\ earlier < k
        BY <1>1, <1>2, <3>3, <3>8
      <4>2. attempt = Made
        BY <1>2, <4>1 DEF KeysOK
      <4>3. CASE k < Made
        BY <1>2, <3>4, <4>1, <4>3 DEF KeysOK
      <4>4. CASE k = Made
        <5>1. issued[Made] # draft
          BY <1>2, <2>1, <4>1, <4>2, <4>4 DEF NeedsKey
        <5> QED  BY <1>2, <3>4, <4>1, <4>4, <5>1
      <4> QED  BY <1>2, <4>1, <4>3, <4>4
    <3>9. /\ attempt' \in Nat /\ attempt' \in 1 .. Made' /\ Made' \in Nat /\ attempt' = Made'
          /\ DOMAIN issued' = 1 .. Made'
      <4>1. attempt' = Made + 1
        BY <3>1
      <4> QED  BY <1>2, <3>2, <3>3, <4>1
    <3> QED  BY <3>5, <3>6, <3>7, <3>8, <3>9
  <2>2. CASE ~NeedsKey
    <3>1. UNCHANGED <<attempt, issued>> /\ attempt # 0
      BY <2>2 DEF Submit, NeedsKey
    <3>2. Made' = Made
      BY <3>1 DEF Made
    <3>3. attempt = Made /\ earlier < Made
      BY <3>1 DEF KeysOK
    <3>4. \A k \in 1 .. Made : earlier < k /\ k < Made => issued[k] # issued[k + 1]
      BY DEF KeysOK
    <3>5. attempt' = attempt /\ issued' = issued /\ earlier' = earlier
      BY <1>1, <3>1
    <3>6. attempt \in 1 .. Made
      BY <1>2, <3>3
    <3>7. DOMAIN issued' = 1 .. Made' /\ \A k \in 1 .. Made' : issued'[k] \in Payload
      BY <1>2, <3>2, <3>5
    <3>8. attempt' \in Nat /\ attempt' \in 1 .. Made' /\ Made' \in Nat /\ attempt' = Made'
      BY <1>2, <3>2, <3>3, <3>5, <3>6
    <3>9. earlier' < Made'
      BY <3>2, <3>3, <3>5
    <3>10. \A k \in 1 .. Made' : earlier' < k /\ k < Made' => issued'[k] # issued'[k + 1]
      BY <3>2, <3>4, <3>5
    <3>11. \A k \in 1 .. Made : k \in 1 .. Made' /\ issued'[k] = issued[k]
      BY <3>2, <3>5
    <3> QED  BY <3>7, <3>8, <3>9, <3>10, <3>11
  <2> QED  BY <2>1, <2>2
<1>4. j \in Job /\ j.at = "sent" /\ j.what = "create" /\ j.gen = attempt'
  <2>1. attempt' \in Nat
    BY <1>3
  <2>2. i \in Job /\ i.what = "create" /\ i.gen = attempt'
    BY <2>1, IdleIsJob DEF Job, What
  <2> HIDE DEF i
  <2> QED  BY <2>2 DEF Job
<1> HIDE DEF j
<1>5. job' \in [Caller -> Job] /\ JobsOK' /\ FetchesOK'
  <2>1. env' \in Snapshot /\ env.gen <= env'.gen
    BY <1>1 DEF EnvTypeOK, Snapshot
  <2>2. "create" \in Caller /\ Calls("create") = {"create"}
    BY DEF Caller, Calls
  <2> QED  BY <1>1, <1>4, <2>1, <2>2, CallChanges
<1>6. EnvTypeOK'
  BY <1>1, <1>3, <1>5 DEF EnvTypeOK
<1>7. job'["create"].gen \in 1 .. Made'
  BY <1>1, <1>3, <1>4 DEF EnvTypeOK, Caller
<1>8. \A m \in created' : m.key # 0 => m.key \in 1 .. Made' /\ issued'[m.key] = m.payload
  BY <1>1, <1>3 DEF KeysOK
<1>9. KeysOK'
  BY <1>3, <1>7, <1>8 DEF KeysOK
<1> QED  BY <1>5, <1>6, <1>9

LEMMA ManageEnv ==
  ASSUME EnvInv, NEW what \in {"extend", "redeploy"}, Manage(what) PROVE EnvInv'
<1> USE DEF EnvInv
<1> DEFINE i == [Idle EXCEPT !.what = what, !.shown = view.gen, !.gen = view.gen]
           j == [i EXCEPT !.at = "sent"]
<1>1. /\ job' = [job EXCEPT !["action"] = j] /\ notice' = 0
      /\ UNCHANGED <<env, minted, created, view, viewError, fetches, current, draft, attempt, issued,
                     earlier, dialog, faults>>
  BY DEF Manage, Press, api, provider, form
<1>2. view.gen \in Nat
  BY DEF EnvTypeOK, Snapshot, Unloaded
<1>3. i \in Job /\ i.what = what
  BY <1>2, IdleIsJob DEF Job, What
<1> HIDE DEF i
<1>4. j \in Job /\ j.at = "sent" /\ j.what = what
  BY <1>3 DEF Job
<1> HIDE DEF j
<1>5. env' \in Snapshot /\ env.gen <= env'.gen
  BY <1>1 DEF EnvTypeOK, Snapshot
<1>6. "action" \in Caller /\ Calls("action") = {"extend", "redeploy"}
  BY DEF Caller, Calls
<1>7. /\ job' \in [Caller -> Job] /\ JobsOK' /\ FetchesOK'
      /\ job'["create"] = job["create"] \/ job'["create"].at # "sent"
  BY <1>1, <1>4, <1>5, <1>6, CallChanges
<1>8. EnvTypeOK'
  BY <1>1, <1>7 DEF EnvTypeOK
<1> QED  BY <1>1, <1>7, <1>8, KeysFrame

LEMMA DialogEnv == ASSUME EnvInv, OpenDialog \/ CloseDialog PROVE EnvInv'
<1> USE DEF EnvInv
<1>1. /\ dialog' \in {NoDialog, [NoDialog EXCEPT !.open = TRUE]}
      /\ UNCHANGED <<env, minted, created, view, viewError, fetches, current, job, draft, attempt,
                     issued, earlier, notice, faults>>
  BY DEF OpenDialog, CloseDialog, api, provider, form
<1>2. dialog' \in [open : BOOLEAN, bound : Nat, shown : Nat]
  <2>1. NoDialog \in [open : BOOLEAN, bound : Nat, shown : Nat]
    BY DEF NoDialog
  <2>2. [NoDialog EXCEPT !.open = TRUE] \in [open : BOOLEAN, bound : Nat, shown : Nat]
    BY <2>1
  <2> QED  BY <1>1, <2>1, <2>2
<1>3. EnvTypeOK'
  BY <1>1, <1>2 DEF EnvTypeOK
<1>4. JobsOK' /\ FetchesOK'
  BY <1>1 DEF JobsOK, FetchesOK
<1> QED  BY <1>1, <1>3, <1>4, KeysFrame

LEMMA DeleteEnv == ASSUME EnvInv, Delete PROVE EnvInv'
<1> USE DEF EnvInv
<1> DEFINE i == IF Confirmed
                  THEN [Idle EXCEPT !.what = "destroy", !.shown = view.gen, !.gen = dialog.bound]
                  ELSE [Idle EXCEPT !.what = "confirm", !.shown = view.gen]
           j == [i EXCEPT !.at = "sent"]
<1>0. job' = [job EXCEPT !["deletion"] = j]
  <2>1. Press("deletion", i)
    BY DEF Delete
  <2> HIDE DEF i
  <2> QED  BY <2>1 DEF Press
<1>1. UNCHANGED <<env, minted, created, view, viewError, fetches, current, draft, attempt, issued,
                  earlier, dialog, notice, faults>>
  BY DEF Delete, api, provider, form
<1>2. view.gen \in Nat /\ dialog.bound \in Nat
  BY DEF EnvTypeOK, Snapshot, Unloaded
<1>3. i \in Job /\ i.what \in {"confirm", "destroy"}
  <2>1. CASE Confirmed
    BY <1>2, <2>1, IdleIsJob DEF Job, What
  <2>2. CASE ~Confirmed
    BY <1>2, <2>2, IdleIsJob DEF Job, What
  <2> QED  BY <2>1, <2>2
<1> HIDE DEF i
<1>4. j \in Job /\ j.at = "sent" /\ j.what \in {"confirm", "destroy"}
  BY <1>3 DEF Job
<1> HIDE DEF j
<1>5. env' \in Snapshot /\ env.gen <= env'.gen
  BY <1>1 DEF EnvTypeOK, Snapshot
<1>6. "deletion" \in Caller /\ Calls("deletion") = {"confirm", "destroy"}
  BY DEF Caller, Calls
<1>7. /\ job' \in [Caller -> Job] /\ JobsOK' /\ FetchesOK'
      /\ job'["create"] = job["create"] \/ job'["create"].at # "sent"
  BY <1>0, <1>1, <1>4, <1>5, <1>6, CallChanges
<1>8. EnvTypeOK'
  BY <1>1, <1>7 DEF EnvTypeOK
<1> QED  BY <1>1, <1>7, <1>8, KeysFrame

\* What the service does with a call, seen from the portal: the environment does not go
\* back, and the call is answered.
LEMMA CallServed ==
  ASSUME EnvInv, NEW c \in Caller, NEW at \in {"ok", "failed"}, NEW g \in Nat,
         Outcome(c, at, g), env' \in Snapshot, env.gen <= env'.gen, at = "ok" => g <= env'.gen,
         UNCHANGED fetches
  PROVE  /\ job' \in [Caller -> Job] /\ JobsOK' /\ FetchesOK'
         /\ job'["create"] = job["create"] \/ job'["create"].at # "sent"
<1> USE DEF EnvInv
<1> DEFINE j == [job[c] EXCEPT !.at = at, !.gen = g]
<1>1. job[c] \in Job /\ job' = [job EXCEPT ![c] = j]
  BY DEF Outcome, EnvTypeOK
<1>2. j \in Job /\ j.at = at /\ j.gen = g
  BY <1>1 DEF Job
<1> HIDE DEF j
<1> QED  BY <1>1, <1>2, CallChanges

LEMMA CarryOutEnv == ASSUME EnvInv, NEW c \in Caller, CarryOut(c) PROVE EnvInv'
<1> USE DEF EnvInv
<1>1. /\ job[c].at = "sent"
      /\ UNCHANGED <<view, viewError, fetches, current, draft, attempt, issued, earlier, dialog,
                     notice, faults>>
  BY DEF CarryOut, provider, form
<1>2. job[c].what \in Calls(c)
  BY <1>1 DEF JobsOK
<1>3. /\ env \in Snapshot /\ env.gen \in Nat /\ env.status \in Status
      /\ \A s \in Status : NextGen(s) \in Snapshot /\ NextGen(s).gen = env.gen + 1
  BY DEF EnvTypeOK, Snapshot, NextGen
<1>4. ASSUME NEW d \in Caller, NEW at \in {"ok", "failed"}, NEW g \in Nat, Outcome(d, at, g),
             env' \in Snapshot, env.gen <= env'.gen, at = "ok" => g <= env'.gen,
             minted' \subseteq Nat, UNCHANGED created
      PROVE  EnvInv'
  <2>1. /\ job' \in [Caller -> Job] /\ JobsOK' /\ FetchesOK'
        /\ job'["create"] = job["create"] \/ job'["create"].at # "sent"
    BY <1>1, <1>4, CallServed
  <2>2. EnvTypeOK'
    BY <1>1, <1>4, <2>1 DEF EnvTypeOK
  <2> QED  BY <1>1, <1>4, <2>1, <2>2, KeysFrame
<1>5. /\ minted \subseteq Nat /\ 0 \in Nat /\ env.gen + 1 \in Nat
      /\ env.gen <= env.gen /\ env.gen <= env.gen + 1 /\ env.gen + 1 <= env.gen + 1
      /\ UNCHANGED env => env' \in Snapshot /\ env.gen <= env'.gen /\ env'.gen = env.gen
  BY <1>3 DEF EnvTypeOK
<1>6. CASE c = "create"
  <2>1. job["create"].what = "create"
    BY <1>2, <1>6 DEF Calls
  <2>2. Creates(job["create"].gen)
    BY <1>6, <2>1 DEF CarryOut
  <2>3. PICK k \in 1 .. Made : k = job["create"].gen
    BY <1>1, <1>6 DEF KeysOK
  <2>4. CASE \E m \in created : m.key = k
    <3>1. Outcome("create", "ok", env.gen) /\ UNCHANGED <<env, minted, created>>
      BY <2>2, <2>3, <2>4 DEF Creates, api
    <3> QED  BY <1>3, <1>4, <1>5, <3>1 DEF Caller
  <2>5. CASE ~(\E m \in created : m.key = k) /\ env.status \in {"none", "deleted"}
    <3> DEFINE new == [key |-> k, payload |-> issued[k]]
    <3>1. /\ env' = NextGen("pending") /\ created' = created \cup {new} /\ UNCHANGED minted
          /\ Outcome("create", "ok", env.gen + 1)
      BY <2>2, <2>3, <2>5 DEF Creates
    <3>2. new \in [key : Nat, payload : Payload] /\ new.key = k /\ new.payload = issued[k]
      BY DEF EnvTypeOK, KeysOK
    <3> HIDE DEF new
    <3>3. env' \in Snapshot /\ env'.gen = env.gen + 1
      BY <1>3, <3>1 DEF Status
    <3>4. /\ job' \in [Caller -> Job] /\ JobsOK' /\ FetchesOK'
          /\ job'["create"] = job["create"] \/ job'["create"].at # "sent"
      BY <1>1, <1>3, <3>1, <3>3, CallServed DEF Caller
    <3>5. EnvTypeOK'
      BY <1>1, <3>1, <3>2, <3>3, <3>4 DEF EnvTypeOK
    <3>6. KeysOK'
      BY <1>1, <3>1, <3>2, <3>4 DEF KeysOK, Made
    <3> QED  BY <3>4, <3>5, <3>6
  <2>6. CASE ~(\E m \in created : m.key = k) /\ env.status \notin {"none", "deleted"}
    <3>1. Outcome("create", "failed", 0) /\ UNCHANGED <<env, minted, created>>
      BY <2>2, <2>3, <2>6 DEF Creates, api
    <3> QED  BY <1>3, <1>4, <1>5, <3>1 DEF Caller
  <2> QED  BY <2>4, <2>5, <2>6
<1>7. CASE c = "action"
  <2>1. Manages(job["action"])
    <3>1. job[c].what \in {"extend", "redeploy"}
      BY <1>2, <1>7 DEF Calls
    <3> QED  BY <1>7, <3>1 DEF CarryOut
  <2>2. \/ /\ Outcome("action", "ok", env.gen + 1) /\ UNCHANGED <<minted, created>>
           /\ env' \in Snapshot /\ env'.gen = env.gen + 1
        \/ Outcome("action", "failed", 0) /\ UNCHANGED <<env, minted, created>>
    BY <1>3, <2>1 DEF Manages, api, Status
  <2> QED  BY <1>3, <1>4, <1>5, <2>2 DEF Caller
<1>8. CASE c = "deletion"
  <2>1. \/ job[c].what = "confirm" /\ Confirms
        \/ job[c].what = "destroy" /\ Destroys(job[c])
    <3>1. job[c].what \in {"confirm", "destroy"}
      BY <1>2, <1>8 DEF Calls
    <3> QED  BY <3>1 DEF CarryOut
  <2>2. CASE Confirms
    <3>1. \/ Outcome("deletion", "failed", 0) /\ UNCHANGED <<env, minted, created>>
          \/ /\ Outcome("deletion", "ok", env.gen) /\ minted' = minted \cup {env.gen}
             /\ UNCHANGED <<env, created>>
      BY <2>2 DEF Confirms, api
    <3> QED  BY <1>3, <1>4, <1>5, <3>1 DEF Caller
  <2>3. CASE Destroys(job[c])
    <3>1. \/ Outcome("deletion", "failed", 0) /\ UNCHANGED <<env, minted, created>>
          \/ /\ Outcome("deletion", "ok", env.gen + 1) /\ minted' \subseteq minted
             /\ env' = NextGen("deleting") /\ UNCHANGED created
      BY <2>3 DEF Destroys, api
    <3> QED  BY <1>3, <1>4, <1>5, <3>1 DEF Caller, Status
  <2> QED  BY <2>1, <2>2, <2>3
<1>9. c # "retry"
  BY <1>2 DEF Calls
<1> QED  BY <1>6, <1>7, <1>8, <1>9 DEF Caller

LEMMA CallFailsEnv == ASSUME EnvInv, NEW c \in Caller, CallFails(c) PROVE EnvInv'
<1> USE DEF EnvInv
<1> DEFINE j == [job[c] EXCEPT !.at = "failed"]
<1>1. /\ job' = [job EXCEPT ![c] = j] /\ faults' \in {faults, faults + 1}
      /\ UNCHANGED <<env, minted, created, view, viewError, fetches, current, draft, attempt, issued,
                     earlier, dialog, notice>>
  BY DEF CallFails, api, provider, form
<1>2. j \in Job /\ j.at = "failed"
  BY DEF EnvTypeOK, Job
<1> HIDE DEF j
<1>3. env' \in Snapshot /\ env.gen <= env'.gen
  BY <1>1 DEF EnvTypeOK, Snapshot
<1>4. /\ job' \in [Caller -> Job] /\ JobsOK' /\ FetchesOK'
      /\ job'["create"] = job["create"] \/ job'["create"].at # "sent"
  BY <1>1, <1>2, <1>3, CallChanges
<1>5. EnvTypeOK'
  BY <1>1, <1>4 DEF EnvTypeOK
<1> QED  BY <1>1, <1>4, <1>5, KeysFrame

\* A call lets go of its lock, and the dialog may change.
LEMMA LockReleased ==
  ASSUME EnvInv, NEW c \in Caller, job' = [job EXCEPT ![c] = Idle],
         dialog' \in [open : BOOLEAN, bound : Nat, shown : Nat],
         UNCHANGED <<env, minted, created, view, viewError, fetches, current, draft, attempt, issued,
                     earlier, notice, faults>>
  PROVE  EnvInv'
<1> USE DEF EnvInv
<1>1. env' \in Snapshot /\ env.gen <= env'.gen
  BY DEF EnvTypeOK, Snapshot
<1>2. /\ job' \in [Caller -> Job] /\ JobsOK' /\ FetchesOK'
      /\ job'["create"] = job["create"] \/ job'["create"].at # "sent"
  BY <1>1, IdleIsJob, CallChanges
<1>3. EnvTypeOK'
  BY <1>2 DEF EnvTypeOK
<1> QED  BY <1>2, <1>3, KeysFrame

LEMMA RefusedEnv == ASSUME EnvInv, NEW c \in Caller, Refused(c) PROVE EnvInv'
<1>1. /\ job' = [job EXCEPT ![c] = Idle]
      /\ dialog' = IF c = "deletion" /\ dialog.open THEN DialogAfterFailure ELSE dialog
      /\ UNCHANGED <<env, minted, created, view, viewError, fetches, current, draft, attempt, issued,
                     earlier, notice, faults>>
  BY DEF Refused, Released, api, provider, form
<1>2. dialog \in [open : BOOLEAN, bound : Nat, shown : Nat]
  BY DEF EnvInv, EnvTypeOK
<1>3. [dialog EXCEPT !.bound = 0, !.shown = 0] \in [open : BOOLEAN, bound : Nat, shown : Nat]
  BY <1>2
<1>4. dialog' \in [open : BOOLEAN, bound : Nat, shown : Nat]
  BY <1>1, <1>2, <1>3 DEF DialogAfterFailure
<1> QED  BY <1>1, <1>4, LockReleased

LEMMA ConfirmationEnv == ASSUME EnvInv, ConfirmationArrives PROVE EnvInv'
<1>1. /\ job' = [job EXCEPT !["deletion"] = Idle]
      /\ dialog' = IF dialog.open
                     THEN [dialog EXCEPT !.bound = job["deletion"].gen, !.shown = job["deletion"].shown]
                     ELSE dialog
      /\ UNCHANGED <<env, minted, created, view, viewError, fetches, current, draft, attempt, issued,
                     earlier, notice, faults>>
  BY DEF ConfirmationArrives, api, provider, form
<1>2. dialog \in [open : BOOLEAN, bound : Nat, shown : Nat] /\ job["deletion"] \in Job
  BY DEF EnvInv, EnvTypeOK, Caller
<1>3. [dialog EXCEPT !.bound = job["deletion"].gen, !.shown = job["deletion"].shown]
        \in [open : BOOLEAN, bound : Nat, shown : Nat]
  BY <1>2 DEF Job
<1>4. dialog' \in [open : BOOLEAN, bound : Nat, shown : Nat]
  BY <1>1, <1>2, <1>3
<1> QED  BY <1>1, <1>4, LockReleased DEF Caller

LEMMA TemplateEnv == ASSUME EnvInv, NEW p \in Payload, TemplateCreates(p) PROVE EnvInv'
<1> USE DEF EnvInv
<1>1. /\ env' = NextGen("pending") /\ created' = created \cup {[key |-> 0, payload |-> p]}
      /\ UNCHANGED <<minted, view, viewError, fetches, current, job, draft, attempt, issued, earlier,
                     dialog, notice, faults>>
  BY DEF TemplateCreates, provider, form
<1>2. env' \in Snapshot /\ env'.gen >= env.gen
  BY <1>1 DEF EnvTypeOK, NextGen, Snapshot, Status
<1>3. EnvTypeOK'
  BY <1>1, <1>2 DEF EnvTypeOK
<1>4. JobsOK'
  BY <1>1, <1>2, <1>3, JobsFrame
<1>5. FetchesOK'
  BY <1>1, FetchesFrame
<1>6. KeysOK'
  BY <1>1 DEF KeysOK, Made
<1> QED  BY <1>3, <1>4, <1>5, <1>6

LEMMA ElsewhereEnv == ASSUME EnvInv, Elsewhere PROVE EnvInv'
<1> USE DEF EnvInv
<1>1. UNCHANGED <<created, view, viewError, fetches, current, job, draft, attempt, issued, earlier,
                  dialog, notice, faults>>
  BY DEF Elsewhere, provider, form
<1>2. env \in Snapshot /\ minted \subseteq Nat
  BY DEF EnvTypeOK
<1>3. env' \in Snapshot /\ env'.gen >= env.gen /\ minted' \subseteq Nat
  <2>1. CASE \E s \in {"ready", "failed", "deleted"} : env' = [env EXCEPT !.status = s] /\ UNCHANGED minted
    BY <1>2, <2>1 DEF Snapshot, Status
  <2>2. CASE \E s \in {"pending", "deleting"} : env' = NextGen(s) /\ UNCHANGED minted
    BY <1>2, <2>2 DEF Snapshot, Status, NextGen
  <2>3. CASE minted' = {} /\ UNCHANGED env
    BY <1>2, <2>3 DEF Snapshot
  <2> QED  BY <2>1, <2>2, <2>3 DEF Elsewhere
<1>4. EnvTypeOK'
  BY <1>1, <1>3 DEF EnvTypeOK
<1>5. JobsOK'
  BY <1>1, <1>3, <1>4, JobsFrame
<1>6. FetchesOK'
  BY <1>1, FetchesFrame
<1> QED  BY <1>1, <1>4, <1>5, <1>6, KeysFrame

LEMMA EnvVisited == ASSUME EnvInv, NEW p, EnvVisit(p) PROVE EnvInv'
<1> USE DEF EnvInv
<1>1. /\ Left(p) /\ notice' = 0
      /\ UNCHANGED <<env, minted, created, view, viewError, fetches, current, job, issued, faults>>
  BY DEF EnvVisit, api, provider
<1>2. /\ KeysOK'
      /\ draft' \in Payload \cup {None} /\ attempt' \in Nat /\ earlier' \in Nat
      /\ dialog' \in [open : BOOLEAN, bound : Nat, shown : Nat]
  BY <1>1, FormIsLeft
<1>3. EnvTypeOK'
  BY <1>1, <1>2 DEF EnvTypeOK
<1>4. JobsOK' /\ FetchesOK'
  BY <1>1 DEF JobsOK, FetchesOK
<1> QED  BY <1>2, <1>3, <1>4

LEMMA EnvUnloaded == ASSUME EnvInv, EnvUnload PROVE EnvInv'
<1> USE DEF EnvInv
<1>1. /\ view' = Unloaded /\ viewError' = FALSE /\ fetches' = {} /\ current' = 0
      /\ job' = [c \in Caller |-> Idle] /\ Left("sign-in") /\ notice' = 0
      /\ UNCHANGED <<env, minted, created, issued, faults>>
  BY DEF EnvUnload, api
<1>2. job' \in [Caller -> Job] /\ \A c \in Caller : job'[c].at = "idle"
  BY <1>1, IdleIsJob
<1>3. /\ KeysOK'
      /\ draft' \in Payload \cup {None} /\ attempt' \in Nat /\ earlier' \in Nat
      /\ dialog' \in [open : BOOLEAN, bound : Nat, shown : Nat]
  BY <1>1, <1>2, FormIsLeft DEF Caller
<1>4. current' \in 0 .. MaxFetches /\ fetches' \subseteq Fetch
  BY <1>1, PortalAssumption
<1>5. viewError' \in BOOLEAN
  BY <1>1
<1>6. EnvTypeOK'
  BY <1>1, <1>2, <1>3, <1>4, <1>5 DEF EnvTypeOK
<1>7. JobsOK' /\ FetchesOK'
  BY <1>1, <1>2 DEF JobsOK, FetchesOK
<1> QED  BY <1>3, <1>6, <1>7

LEMMA EnvStarts == ASSUME EnvInit PROVE EnvInv
<1> USE DEF EnvInv
<1>1. issued = <<>> /\ DOMAIN issued = {} /\ Made = 0
  BY FS_EmptySet DEF EnvInit, Made
<1>2. job \in [Caller -> Job] /\ \A c \in Caller : job[c] = Idle
  BY IdleIsJob DEF EnvInit
<1>3. env \in Snapshot /\ view \in Snapshot \cup {Unloaded}
  BY DEF EnvInit, Snapshot, Status
<1>4. dialog \in [open : BOOLEAN, bound : Nat, shown : Nat] /\ viewError \in BOOLEAN
  BY DEF EnvInit, NoDialog
<1>5. fetches = {} /\ created = {} /\ earlier = 0 /\ attempt = 0 /\ current \in 0 .. MaxFetches
  BY PortalAssumption DEF EnvInit
<1>6. EnvTypeOK
  BY <1>1, <1>2, <1>3, <1>4, <1>5 DEF EnvTypeOK, EnvInit
<1>7. KeysOK
  BY <1>1, <1>2, <1>5, IdleIsJob DEF KeysOK, Caller
<1>8. JobsOK /\ FetchesOK
  BY <1>2, <1>5, IdleIsJob DEF JobsOK, FetchesOK
<1> QED  BY <1>6, <1>7, <1>8

LEMMA EnvSteps == ASSUME EnvInv, EnvNext PROVE EnvInv'
<1>1. CASE Poll
  BY <1>1, PollEnv
<1>2. CASE Retry \/ Submit
  BY <1>2, RetryEnv, SubmitEnv
<1>3. CASE OpenDialog \/ CloseDialog \/ Delete
  BY <1>3, DialogEnv, DeleteEnv
<1>4. CASE Elsewhere \/ ConfirmationArrives
  BY <1>4, ElsewhereEnv, ConfirmationEnv
<1>5. CASE \E f \in fetches : Read(f) \/ Answered(f) \/ Unavailable(f)
  BY <1>5, ReadEnv, AnsweredEnv, UnavailableEnv
<1>6. CASE \E p \in Payload : Fill(p) \/ TemplateCreates(p)
  BY <1>6, FillEnv, TemplateEnv
<1>7. CASE \E what \in {"extend", "redeploy"} : Manage(what)
  BY <1>7, ManageEnv
<1>8. CASE \E c \in Caller : CarryOut(c) \/ CallFails(c) \/ Refused(c) \/ Done(c)
  BY <1>8, CarryOutEnv, CallFailsEnv, RefusedEnv, DoneEnv
<1> QED  BY <1>1, <1>2, <1>3, <1>4, <1>5, <1>6, <1>7, <1>8 DEF EnvNext

\* What the steps may do to the notice.
NoticeStep == notice' # notice /\ notice' # 0 => view'.gen >= notice' \/ viewError'

LEMMA EnvStepsNotice == ASSUME EnvInv, EnvNext PROVE NoticeStep
<1>1. CASE \E f \in fetches : Answered(f)
  <2>1. PICK f \in fetches : Answered(f)
    BY <1>1
  <2>2. f.data # Unread /\ view' = f.data /\ Settle(f)
    BY <2>1 DEF Answered
  <2>3. \/ notice' \in {0, notice}
        \/ \E c \in Finished(f) : notice' = job[c].gen
    BY <2>2 DEF Settle
  <2>4. ASSUME NEW c \in Finished(f) PROVE job[c].gen <= f.data.gen
    BY <2>2 DEF Finished, EnvInv, FetchesOK
  <2>5. \A c \in Finished(f) : job[c].gen \in Nat
    BY DEF Finished, EnvInv, EnvTypeOK, Job
  <2>6. f.data.gen \in Nat
    BY <2>2 DEF EnvInv, EnvTypeOK, Fetch, Snapshot
  <2> QED  BY <2>2, <2>3, <2>4, <2>5, <2>6 DEF NoticeStep
<1>2. CASE \E f \in fetches : Unavailable(f)
  BY <1>2 DEF Unavailable, NoticeStep
<1>3. CASE Poll \/ Retry \/ Submit \/ OpenDialog \/ CloseDialog \/ Delete \/ Elsewhere \/ ConfirmationArrives
  BY <1>3 DEF NoticeStep, Poll, Retry, Submit, OpenDialog, CloseDialog, Delete, Elsewhere,
              ConfirmationArrives
<1>4. CASE \E f \in fetches : Read(f)
  BY <1>4 DEF NoticeStep, Read
<1>5. CASE \E p \in Payload : Fill(p) \/ TemplateCreates(p)
  BY <1>5 DEF NoticeStep, Fill, TemplateCreates
<1>6. CASE \E what \in {"extend", "redeploy"} : Manage(what)
  BY <1>6 DEF NoticeStep, Manage
<1>7. CASE \E c \in Caller : CarryOut(c) \/ CallFails(c) \/ Refused(c) \/ Done(c)
  BY <1>7 DEF NoticeStep, CarryOut, CallFails, Refused, Done
<1> QED  BY <1>1, <1>2, <1>3, <1>4, <1>5, <1>6, <1>7 DEF EnvNext

LEMMA KeysTellForms == EnvInv => OneCreationPerForm
<1> SUFFICES ASSUME EnvInv, NEW m \in created, NEW n \in created,
                    earlier < m.key, m.key < n.key, m.payload = n.payload,
                    \A k \in m.key .. n.key : issued[k] = m.payload
             PROVE  FALSE
  BY DEF OneCreationPerForm
<1>1. /\ m.key \in Nat /\ n.key \in Nat /\ earlier \in Nat
      /\ Made \in Nat /\ m.key # 0 /\ n.key # 0
  BY DEF EnvInv, EnvTypeOK, KeysOK
<1>2. m.key \in 1 .. Made /\ n.key \in 1 .. Made
  BY <1>1 DEF EnvInv, KeysOK
<1>3. issued[m.key] # issued[m.key + 1]
  BY <1>1, <1>2 DEF EnvInv, KeysOK
<1>4. m.key \in m.key .. n.key /\ m.key + 1 \in m.key .. n.key
  BY <1>1
<1> QED  BY <1>3, <1>4

-----------------------------------------------------------------------------
(* Hooks: their types, whatever they read, and the order of what they show. *)

LEMMA HookParts ==
  ASSUME NEW D, NEW h \in Hook(D)
  PROVE  /\ h.data \in D \cup {None} /\ h.status \in Answers \cup {"none"}
         /\ h.asks \subseteq Ask(D)
         /\ h = [data |-> h.data, status |-> h.status, asks |-> h.asks]
  BY DEF Hook

LEMMA NoHookType == ASSUME NEW D PROVE NoHook \in Hook(D)
  BY DEF NoHook, Hook

LEMMA QuietAsks ==
  ASSUME NEW D, NEW h \in Hook(D)
  PROVE  /\ {[a EXCEPT !.live = FALSE] : a \in h.asks} \subseteq Ask(D)
         /\ \A b \in {[a EXCEPT !.live = FALSE] : a \in h.asks} :
              ~b.live /\ \E a \in h.asks : b.data = a.data
<1>1. \A a \in h.asks : a \in Ask(D)
  BY HookParts
<1>2. ASSUME NEW a \in h.asks
      PROVE  /\ [a EXCEPT !.live = FALSE] \in Ask(D)
             /\ ~[a EXCEPT !.live = FALSE].live /\ [a EXCEPT !.live = FALSE].data = a.data
  BY <1>1 DEF Ask
<1> QED  BY <1>2

LEMMA AskingType ==
  ASSUME NEW D, NEW h \in Hook(D)
  PROVE  Asking(h) \in Hook(D) /\ Asking(h).data = h.data
<1> DEFINE Q == {[a EXCEPT !.live = FALSE] : a \in h.asks}
<1>1. Q \subseteq Ask(D)
  BY QuietAsks
<1>2. NewAsk \in Ask(D)
  BY DEF NewAsk, Ask
<1>3. Asking(h) = [h EXCEPT !.asks = Q \cup {NewAsk}]
  BY HookParts DEF Asking
<1> HIDE DEF Q
<1> QED  BY <1>1, <1>2, <1>3, HookParts DEF Hook

LEMMA DroppedType ==
  ASSUME NEW D, NEW h \in Hook(D)
  PROVE  Dropped(h) \in Hook(D) /\ Dropped(h).data = None
<1> DEFINE Q == {[a EXCEPT !.live = FALSE] : a \in h.asks}
<1>1. Q \subseteq Ask(D)
  BY QuietAsks
<1>2. Dropped(h) = [NoHook EXCEPT !.asks = Q]
  BY DEF Dropped
<1> HIDE DEF Q
<1> QED  BY <1>1, <1>2, NoHookType DEF Hook, NoHook

LEMMA ServedType ==
  ASSUME NEW D, NEW h \in Hook(D), NEW a \in h.asks, NEW st \in Answers, NEW d \in D
  PROVE  Served(h, a, st, d) \in Hook(D) /\ Served(h, a, st, d).data = h.data
<1> DEFINE b == [a EXCEPT !.status = st, !.data = IF st = "ok" THEN d ELSE None]
<1>0. a \in Ask(D) /\ (IF st = "ok" THEN d ELSE None) \in D \cup {None}
  BY HookParts
<1>1. b \in Ask(D)
  BY <1>0 DEF Ask
<1>2. Served(h, a, st, d) = [h EXCEPT !.asks = (h.asks \ {a}) \cup {b}]
  BY HookParts DEF Served
<1> HIDE DEF b
<1> QED  BY <1>1, <1>2, HookParts DEF Hook

LEMMA TakenType ==
  ASSUME NEW D, NEW h \in Hook(D), NEW a \in Ask(D), a.status \in Answers
  PROVE  /\ Taken(h, a) \in Hook(D) /\ Taken(h, a).asks = h.asks \ {a}
         /\ \/ Taken(h, a).data = h.data
            \/ a.live /\ a.status = "ok" /\ Taken(h, a).data = a.data
<1> DEFINE rest == [h EXCEPT !.asks = h.asks \ {a}]
<1>1. rest \in Hook(D) /\ rest.asks = h.asks \ {a} /\ rest.data = h.data
  BY HookParts DEF Hook
<1>2. Taken(h, a) = IF ~a.live THEN rest
                    ELSE IF a.status = "ok" THEN [rest EXCEPT !.status = "ok", !.data = a.data]
                    ELSE [rest EXCEPT !.status = a.status]
  BY DEF Taken
<1> HIDE DEF rest
<1>3. CASE ~a.live
  BY <1>1, <1>2, <1>3
<1>4. CASE a.live /\ a.status = "ok"
  BY <1>1, <1>2, <1>4 DEF Hook, Ask
<1>5. CASE a.live /\ a.status # "ok"
  BY <1>1, <1>2, <1>5 DEF Hook, Ask
<1> QED  BY <1>3, <1>4, <1>5

LEMMA FailsType ==
  ASSUME NEW D, NEW h \in Hook(D), NEW a \in h.asks, NEW s \in Failures
  PROVE  /\ FailsAs(h, a, s) \in Hook(D) /\ FailsAs(h, a, s).asks \subseteq h.asks
         /\ FailsAs(h, a, s).data = h.data
<1> DEFINE g == [h EXCEPT !.asks = h.asks \ {a}]
           b == [a EXCEPT !.status = s, !.data = None]
<1>0. a \in Ask(D) /\ s \in Answers /\ s # "ok"
  BY HookParts DEF Failures, Answers
<1>1. g \in Hook(D) /\ g.asks \subseteq h.asks /\ g.data = h.data
  BY HookParts DEF Hook
<1>2. b \in Ask(D) /\ b.status = s /\ s \in Answers /\ s # "ok"
  BY <1>0 DEF Ask
<1>3. FailsAs(h, a, s) = Taken(g, b)
  BY DEF FailsAs
<1> HIDE DEF g, b
<1> QED  BY <1>1, <1>2, <1>3, TakenType

LEMMA RankType == \A s : Rank(s) \in 0 .. 2
  BY DEF Rank

LEMMA NotAheadOrder ==
  ASSUME NEW d, NEW e, NEW f
  PROVE  NotAhead(d, d) /\ (NotAhead(d, e) /\ NotAhead(e, f) => NotAhead(d, f))
<1>1. \A r \in AccessRequest : Rank(d[r]) \in Int /\ Rank(e[r]) \in Int /\ Rank(f[r]) \in Int
  BY RankType
<1> QED  BY <1>1 DEF NotAhead

LEMMA OrderlyLater ==
  ASSUME NEW h, NEW s, NEW t, Orderly(h, s), NotAhead(s, t) PROVE Orderly(h, t)
  BY NotAheadOrder DEF Orderly

LEMMA AskingOrderly ==
  ASSUME NEW h \in Hook(Requests), NEW s, Orderly(h, s) PROVE Orderly(Asking(h), s)
<1> DEFINE Q == {[a EXCEPT !.live = FALSE] : a \in h.asks}
<1>1. \A b \in Q : ~b.live /\ \E a \in h.asks : b.data = a.data
  BY QuietAsks
<1>2. Asking(h).asks = Q \cup {NewAsk} /\ Asking(h).data = h.data
  BY HookParts DEF Asking
<1> HIDE DEF Q
<1>3. NewAsk.data = None
  BY DEF NewAsk
<1> QED  BY <1>1, <1>2, <1>3 DEF Orderly

LEMMA DroppedOrderly ==
  ASSUME NEW h \in Hook(Requests), NEW s, Orderly(h, s) PROVE Orderly(Dropped(h), s)
<1> DEFINE Q == {[a EXCEPT !.live = FALSE] : a \in h.asks}
<1>1. \A b \in Q : ~b.live /\ \E a \in h.asks : b.data = a.data
  BY QuietAsks
<1>2. Dropped(h).asks = Q /\ Dropped(h).data = None
  BY DEF Dropped, NoHook
<1> HIDE DEF Q
<1> QED  BY <1>1, <1>2 DEF Orderly

LEMMA ServedOrderly ==
  ASSUME NEW h \in Hook(Requests), NEW a \in h.asks, NEW st \in Answers, NEW s, Orderly(h, s)
  PROVE  Orderly(Served(h, a, st, s), s)
<1> DEFINE b == [a EXCEPT !.status = st, !.data = IF st = "ok" THEN s ELSE None]
<1>1. a \in Ask(Requests)
  BY HookParts
<1>2. b.live = a.live /\ b.data \in {s, None}
  BY <1>1 DEF Ask
<1>3. Served(h, a, st, s).asks = (h.asks \ {a}) \cup {b} /\ Served(h, a, st, s).data = h.data
  BY HookParts DEF Served
<1> HIDE DEF b
<1>4. NotAhead(s, s)
  BY NotAheadOrder
<1> QED  BY <1>2, <1>3, <1>4 DEF Orderly

\* A read that is taken does not go back.
LEMMA TakenOrderly ==
  ASSUME NEW h \in Hook(Requests), NEW a \in h.asks, a.status \in Answers, NEW s, Orderly(h, s)
  PROVE  /\ Orderly(Taken(h, a), s)
         /\ h.data # None /\ Taken(h, a).data # None => NotAhead(h.data, Taken(h, a).data)
<1>1. a \in Ask(Requests)
  BY HookParts
<1>2. /\ Taken(h, a).asks = h.asks \ {a}
      /\ Taken(h, a).data = h.data \/ (a.live /\ Taken(h, a).data = a.data)
  BY <1>1, TakenType
<1>3. NotAhead(h.data, h.data)
  BY NotAheadOrder
<1>4. CASE Taken(h, a).data = h.data
  BY <1>2, <1>3, <1>4 DEF Orderly
<1>5. CASE a.live /\ Taken(h, a).data = a.data
  BY <1>2, <1>5 DEF Orderly
<1> QED  BY <1>2, <1>4, <1>5

LEMMA FailsOrderly ==
  ASSUME NEW h \in Hook(Requests), NEW a \in h.asks, NEW st \in Failures, NEW s, Orderly(h, s)
  PROVE  Orderly(FailsAs(h, a, st), s)
<1>1. FailsAs(h, a, st).asks \subseteq h.asks /\ FailsAs(h, a, st).data = h.data
  BY FailsType
<1> QED  BY <1>1 DEF Orderly

-----------------------------------------------------------------------------
(* The steps of the pages about access. *)

\* What the steps may do to the data that a page shows.
ShownStep ==
  page' = page /\ shown.data # None /\ shown'.data # None =>
    \A r \in AccessRequest : Rank(shown'.data[r]) >= Rank(shown.data[r])

LEMMA ShownFrame ==
  ASSUME shown.data # None /\ shown'.data # None => NotAhead(shown.data, shown'.data)
  PROVE  ShownStep
<1>1. \A r \in AccessRequest : Rank(shown.data[r]) \in Int /\ Rank(shown'.data[r]) \in Int
  BY RankType
<1> QED  BY <1>1 DEF ShownStep, NotAhead

LEMMA ShownStays == ASSUME shown'.data = shown.data PROVE ShownStep
  BY ShownFrame, NotAheadOrder

LEMMA AskedFrame ==
  ASSUME AskedOK, UNCHANGED <<tried, keys, asked, real, replay>> PROVE AskedOK'
  BY DEF AskedOK
LEMMA FormFrame ==
  ASSUME FormOK, UNCHANGED <<step, want, result, asked, tried>> PROVE FormOK'
  BY DEF FormOK
LEMMA SubmissionFrame ==
  ASSUME SubmissionOK, UNCHANGED <<call, keys, tried, asked>> PROVE SubmissionOK'
  BY DEF SubmissionOK
LEMMA DecisionFrame ==
  ASSUME DecisionOK, UNCHANGED <<call, told, real, voted>>,
         opened'.verb # "none" => opened'.of \in Theirs
  PROVE  DecisionOK'
  BY DEF DecisionOK, Holds
LEMMA ReadsFrame == ASSUME ReadsOK, UNCHANGED <<seen, real, shown>> PROVE ReadsOK'
  BY DEF ReadsOK

LEMMA AccessStatusType ==
  ASSUME NEW c, NEW k PROVE AccessStatus(c, k) \in Answers
  BY DEF AccessStatus, Answers

\* Nothing but the hooks of AccessLayout and of the page, and what depends on them.
LEMMA HooksChange ==
  ASSUME AccessInv, UNCHANGED <<real, seen, voted, asked, replay, want, step, preview, tried, keys, result,
                                told, call>>,
         hidden' \in BOOLEAN, me' \in Hook(Whoami), shown' \in Hook(Requests),
         Orderly(shown', seen), again' \in BOOLEAN, opened' \in Verdict, losses' \in Nat,
         opened'.verb # "none" => opened'.of \in Theirs
  PROVE  AccessInv'
<1> USE DEF AccessInv
<1>1. AccessTypeOK'
  BY DEF AccessTypeOK
<1>2. ReadsOK'
  BY DEF ReadsOK
<1> QED  BY <1>1, <1>2, AskedFrame, FormFrame, SubmissionFrame, DecisionFrame

LEMMA StillOpenType ==
  ASSUME AccessInv, NEW m, NEW h
  PROVE  /\ StillOpen(m, h) \in Verdict
         /\ StillOpen(m, h).verb # "none" => StillOpen(m, h).of \in Theirs
<1>1. opened \in Verdict /\ (opened.verb # "none" => opened.of \in Theirs)
  BY DEF AccessInv, AccessTypeOK, DecisionOK
<1>2. CASE Offers(m, h, opened.of)
  BY <1>1, <1>2 DEF StillOpen
<1>3. CASE ~Offers(m, h, opened.of)
  BY <1>1, <1>3 DEF StillOpen, Verdict
<1> QED  BY <1>2, <1>3

LEMMA AskMeAccess == ASSUME AccessInv, AskMe PROVE AccessInv'
<1>1. /\ me' = Asking(me)
      /\ UNCHANGED <<hidden, real, seen, voted, asked, replay, shown, want, step, preview, tried, keys,
                     result, opened, told, again, call, losses>>
  BY DEF AskMe, teleport, wishes, decision
<1>2. me' \in Hook(Whoami)
  BY <1>1, AskingType DEF AccessInv, AccessTypeOK
<1> QED  BY <1>1, <1>2, HooksChange DEF AccessInv, AccessTypeOK, ReadsOK, DecisionOK

LEMMA ServeMeAccess == ASSUME AccessInv, NEW a \in me.asks, ServeMe(a) PROVE AccessInv'
<1> DEFINE st == AccessStatus("me", AccessReads)
           d == IF setup.approver THEN "approver" ELSE "requester"
<1>1. /\ me' = Served(me, a, st, d)
      /\ UNCHANGED <<hidden, real, seen, voted, asked, replay, shown, want, step, preview, tried, keys,
                     result, opened, told, again, call, losses>>
  BY DEF ServeMe, teleport, wishes, decision
<1>2. st \in Answers /\ d \in Whoami
  BY AccessStatusType DEF Whoami
<1> HIDE DEF st, d
<1>3. me' \in Hook(Whoami)
  BY <1>1, <1>2, ServedType DEF AccessInv, AccessTypeOK
<1> QED  BY <1>1, <1>3, HooksChange DEF AccessInv, AccessTypeOK, ReadsOK, DecisionOK

LEMMA AskPageAccess == ASSUME AccessInv, AskPage PROVE AccessInv' /\ ShownStep
<1>1. /\ shown' = Asking(shown) /\ again' \in {again, FALSE}
      /\ UNCHANGED <<hidden, real, seen, voted, asked, replay, me, want, step, preview, tried, keys,
                     result, opened, told, call, losses>>
  BY DEF AskPage, teleport, wishes
<1>2. shown' \in Hook(Requests) /\ Orderly(shown', seen) /\ shown'.data = shown.data
  BY <1>1, AskingType, AskingOrderly DEF AccessInv, AccessTypeOK, ReadsOK
<1>3. again' \in BOOLEAN
  BY <1>1 DEF AccessInv, AccessTypeOK
<1> QED  BY <1>1, <1>2, <1>3, HooksChange, ShownStays DEF AccessInv, AccessTypeOK, DecisionOK

LEMMA ServePageAccess ==
  ASSUME AccessInv, NEW a \in shown.asks, ServePage(a) PROVE AccessInv' /\ ShownStep
<1> DEFINE st == IF page = "approvals" /\ ~setup.approver THEN "refused"
                 ELSE AccessStatus(ReadOf(page), AccessReads)
<1>1. /\ shown' = Served(shown, a, st, seen)
      /\ UNCHANGED <<hidden, real, seen, voted, asked, replay, me, want, step, preview, tried, keys,
                     result, opened, told, again, call, losses>>
  BY DEF ServePage, teleport, wishes, decision
<1>2. st \in Answers
  BY AccessStatusType DEF Answers
<1> HIDE DEF st
<1>3. shown' \in Hook(Requests) /\ Orderly(shown', seen) /\ shown'.data = shown.data
  BY <1>1, <1>2, ServedType, ServedOrderly DEF AccessInv, AccessTypeOK, ReadsOK
<1> QED  BY <1>1, <1>3, HooksChange, ShownStays DEF AccessInv, AccessTypeOK, DecisionOK

LEMMA HideAccess == ASSUME AccessInv, Hide PROVE AccessInv'
<1>1. /\ hidden' = ~hidden
      /\ UNCHANGED <<real, seen, voted, asked, replay, me, shown, want, step, preview, tried, keys,
                     result, opened, told, again, call, losses>>
  BY DEF Hide, teleport, wishes, decision
<1>2. hidden' \in BOOLEAN
  BY <1>1
<1> QED  BY <1>1, <1>2, HooksChange DEF AccessInv, AccessTypeOK, ReadsOK, DecisionOK

\* A page that is opened, or taken away, forgets what was typed and what it was about, and
\* so do the calls it made.
LEMMA PageIsFresh ==
  ASSUME AccessInv, NEW p, FreshPage(p), UNCHANGED <<hidden, real, seen, voted, asked, replay>>,
         me' \in Hook(Whoami), losses' \in Nat, shown' = Dropped(shown)
  PROVE  AccessInv' /\ ShownStep
<1> USE DEF AccessInv
<1>1. /\ want' = None /\ step' = "form" /\ preview' = None /\ tried' = None /\ result' = None
      /\ told' = NoVerdict /\ again' = FALSE /\ keys' = keys
      /\ call' = [call EXCEPT !.here = call.at = "idle"]
  BY DEF FreshPage
<1>2. PICK r \in AccessRequest \cup {None} : opened' = [NoVerdict EXCEPT !.of = r]
  BY DEF FreshPage
<1>3. opened' \in Verdict /\ opened'.verb = "none" /\ told' \in Verdict /\ told'.of = None
  BY <1>1, <1>2 DEF NoVerdict, Verdict
<1>4. /\ call' \in Call /\ call'.at = call.at /\ call'.what = call.what /\ call'.of = call.of
      /\ call'.verb = call.verb /\ (call.at # "idle" => ~call'.here)
  <2>1. call \in Call
    BY DEF AccessTypeOK
  <2>2. CASE call.at = "idle"
    BY <1>1, <2>1, <2>2 DEF Call
  <2>3. CASE call.at # "idle"
    BY <1>1, <2>1, <2>3 DEF Call
  <2> QED  BY <2>2, <2>3
<1>5. shown' \in Hook(Requests) /\ Orderly(shown', seen) /\ shown'.data = None
  BY DroppedType, DroppedOrderly DEF AccessTypeOK, ReadsOK
<1>6. again' \in BOOLEAN
  BY <1>1
<1>7. AccessTypeOK'
  BY <1>1, <1>3, <1>4, <1>5, <1>6 DEF AccessTypeOK
<1>8. AskedOK'
  BY <1>1 DEF AskedOK
<1>9. FormOK'
  BY <1>1 DEF FormOK
<1>10. SubmissionOK'
  BY <1>1, <1>4 DEF SubmissionOK
<1>11. DecisionOK'
  BY <1>3, <1>4 DEF DecisionOK, Holds
<1>12. ReadsOK'
  BY <1>5 DEF ReadsOK
<1>13. ShownStep
  BY <1>5 DEF ShownStep
<1> QED  BY <1>7, <1>8, <1>9, <1>10, <1>11, <1>12, <1>13

LEMMA MeTakesAccess ==
  ASSUME AccessInv, NEW h \in Hook(Whoami), MeTakes(h), losses' \in Nat
  PROVE  AccessInv' /\ ShownStep
<1>1. me' = h /\ UNCHANGED <<hidden, real, seen, voted, asked, replay>>
  BY DEF MeTakes, teleport
<1>2. CASE Open(me) /\ ~Open(h)
  BY <1>1, <1>2, PageIsFresh DEF MeTakes
<1>3. CASE ~(Open(me) /\ ~Open(h))
  <2>1. /\ opened' = StillOpen(h, shown)
        /\ UNCHANGED <<shown, want, step, preview, tried, keys, result, told, again, call>>
    BY <1>3 DEF MeTakes, wishes
  <2>2. opened' \in Verdict /\ (opened'.verb # "none" => opened'.of \in Theirs)
    BY <2>1, StillOpenType
  <2>3. AccessInv'
    BY <1>1, <2>1, <2>2, HooksChange DEF AccessInv, AccessTypeOK, ReadsOK
  <2> QED  BY <2>1, <2>3, ShownStays
<1> QED  BY <1>2, <1>3

LEMMA PageTakesAccess ==
  ASSUME AccessInv, NEW h \in Hook(Requests), PageTakes(h), losses' \in Nat, Orderly(h, seen),
         shown.data # None /\ h.data # None => NotAhead(shown.data, h.data)
  PROVE  AccessInv' /\ ShownStep
<1>1. /\ shown' = h /\ opened' = StillOpen(me, h)
      /\ UNCHANGED <<hidden, real, seen, voted, asked, replay, me, want, step, preview, tried, keys,
                     result, told, again, call>>
  BY DEF PageTakes, teleport, wishes
<1>2. opened' \in Verdict /\ (opened'.verb # "none" => opened'.of \in Theirs)
  BY <1>1, StillOpenType
<1>3. AccessInv'
  BY <1>1, <1>2, HooksChange DEF AccessInv, AccessTypeOK
<1> QED  BY <1>1, <1>3, ShownFrame

LEMMA MeAccess ==
  ASSUME AccessInv, NEW a \in me.asks, MeArrives(a) \/ \E s \in Failures : MeFails(a, s)
  PROVE  AccessInv' /\ ShownStep
<1>1. me \in Hook(Whoami) /\ a \in Ask(Whoami) /\ losses \in Nat
  BY HookParts DEF AccessInv, AccessTypeOK
<1>2. CASE MeArrives(a)
  <2>1. a.status \in Answers /\ MeTakes(Taken(me, a)) /\ losses' \in Nat
    BY <1>1, <1>2 DEF MeArrives, Ask
  <2> QED  BY <1>1, <2>1, TakenType, MeTakesAccess
<1>3. ASSUME NEW s \in Failures, MeFails(a, s) PROVE AccessInv' /\ ShownStep
  <2>1. MeTakes(FailsAs(me, a, s)) /\ losses' \in Nat
    BY <1>1, <1>3 DEF MeFails
  <2> QED  BY <1>1, <2>1, FailsType, MeTakesAccess
<1> QED  BY <1>2, <1>3

LEMMA PageAccess ==
  ASSUME AccessInv, NEW a \in shown.asks, PageArrives(a) \/ \E s \in Failures : PageFails(a, s)
  PROVE  AccessInv' /\ ShownStep
<1>1. shown \in Hook(Requests) /\ a \in Ask(Requests) /\ losses \in Nat /\ Orderly(shown, seen)
  BY HookParts DEF AccessInv, AccessTypeOK, ReadsOK
<1>2. CASE PageArrives(a)
  <2>1. a.status \in Answers /\ PageTakes(Taken(shown, a)) /\ losses' \in Nat
    BY <1>1, <1>2 DEF PageArrives, Ask
  <2> QED  BY <1>1, <2>1, TakenType, TakenOrderly, PageTakesAccess
<1>3. ASSUME NEW s \in Failures, PageFails(a, s) PROVE AccessInv' /\ ShownStep
  <2>1. PageTakes(FailsAs(shown, a, s)) /\ losses' \in Nat
    BY <1>1, <1>3 DEF PageFails
  <2>2. /\ FailsAs(shown, a, s) \in Hook(Requests) /\ Orderly(FailsAs(shown, a, s), seen)
        /\ NotAhead(shown.data, FailsAs(shown, a, s).data)
    BY <1>1, FailsType, FailsOrderly, NotAheadOrder
  <2> QED  BY <2>1, <2>2, PageTakesAccess
<1> QED  BY <1>2, <1>3

LEMMA ChooseAccess == ASSUME AccessInv, NEW w \in Wish, Choose(w) PROVE AccessInv'
<1> USE DEF AccessInv
<1>1. /\ step = "form" /\ want' = w
      /\ UNCHANGED <<hidden, real, seen, voted, asked, replay, me, shown, step, preview, tried, keys, result,
                     opened, told, again, call, losses>>
  BY DEF Choose, teleport, decision
<1>2. AccessTypeOK'
  BY <1>1 DEF AccessTypeOK
<1>3. FormOK'
  BY <1>1 DEF FormOK
<1> QED
  BY <1>1, <1>2, <1>3, AskedFrame, SubmissionFrame, DecisionFrame, ReadsFrame DEF DecisionOK

\* A call that is sent.
LEMMA Sent ==
  ASSUME AccessInv, NEW what \in {"preview", "request", "decide"}, NEW v \in Verdict, Sends(what, v)
  PROVE  /\ call' \in Call /\ call'.at = "sent" /\ call'.what = what /\ call'.here
         /\ call'.of = v.of /\ call'.verb = v.verb /\ call'.wish = want
<1>1. call' = [at |-> "sent", what |-> what, of |-> v.of, verb |-> v.verb, wish |-> want, here |-> TRUE]
  BY DEF Sends
<1>2. v.of \in AccessRequest \cup {None} /\ v.verb \in {"none", "approve", "deny"}
  BY DEF Verdict
<1>3. want \in Wish \cup {None}
  BY DEF AccessInv, AccessTypeOK
<1>4. call' \in Call
  BY <1>1, <1>2, <1>3 DEF Call
<1> QED  BY <1>1, <1>4

LEMMA NoVerdictType == NoVerdict \in Verdict /\ NoVerdict.of = None /\ NoVerdict.verb = "none"
  BY DEF NoVerdict, Verdict

LEMMA NoCallType == NoCall \in Call /\ NoCall.at = "idle"
  BY DEF NoCall, Call

LEMMA ReviewAccess == ASSUME AccessInv, Review PROVE AccessInv'
<1> USE DEF AccessInv
<1>1. /\ want # None /\ step' = "review" /\ Sends("preview", NoVerdict)
      /\ UNCHANGED <<hidden, real, seen, voted, asked, replay, me, shown, want, preview, tried, keys, result,
                     opened, told, again, losses>>
  BY DEF Review, teleport, decision
<1>2. call' \in Call /\ call'.what = "preview"
  BY <1>1, Sent, NoVerdictType
<1>3. AccessTypeOK'
  BY <1>1, <1>2 DEF AccessTypeOK
<1>4. FormOK' /\ SubmissionOK' /\ DecisionOK'
  BY <1>1, <1>2 DEF FormOK, SubmissionOK, DecisionOK, Holds
<1> QED  BY <1>1, <1>3, <1>4, AskedFrame, ReadsFrame

LEMMA EditAccess == ASSUME AccessInv, Edit PROVE AccessInv'
<1> USE DEF AccessInv
<1>1. /\ step' = "form"
      /\ UNCHANGED <<hidden, real, seen, voted, asked, replay, me, shown, want, preview, tried, keys, result,
                     opened, told, again, call, losses>>
  BY DEF Edit, teleport, decision
<1>2. AccessTypeOK' /\ FormOK'
  BY <1>1 DEF AccessTypeOK, FormOK
<1> QED  BY <1>1, <1>2, AskedFrame, SubmissionFrame, DecisionFrame, ReadsFrame DEF DecisionOK

\* A fresh key was never asked under; the old one was asked under for the same.
LEMMA SubmitAccess == ASSUME AccessInv, SubmitRequest PROVE AccessInv'
<1> USE DEF AccessInv
<1>1. /\ step = "review" /\ tried' = want /\ Sends("request", NoVerdict)
      /\ UNCHANGED <<hidden, real, seen, voted, asked, replay, me, shown, want, step, preview, result,
                     opened, told, again, losses>>
  BY DEF SubmitRequest, teleport, decision
<1>2. \/ tried # want /\ keys' = keys + 1
      \/ tried = want /\ keys' = keys
  BY DEF SubmitRequest, NewAttempt
<1>3. want # None /\ want \in Wish \cup {None} /\ keys \in Nat
  BY <1>1 DEF FormOK, AccessTypeOK
<1>4. \A m \in Mine : asked[m].key \in Nat
  BY DEF AccessTypeOK
<1>5. call' \in Call /\ call'.at = "sent" /\ call'.what = "request" /\ call'.here /\ call'.wish = want
  BY <1>1, Sent, NoVerdictType
<1>6. AccessTypeOK'
  BY <1>1, <1>2, <1>3, <1>5 DEF AccessTypeOK
<1>7. keys' > 0
  BY <1>2, <1>3 DEF AskedOK
<1>8. AskedOK'
  <2>1. ASSUME NEW m \in Mine
        PROVE  /\ asked'[m].key <= keys'
               /\ asked'[m].key = 0 => real'[m] = "none"
               /\ asked'[m].key = keys' => asked'[m].wish = tried'
    BY <1>1, <1>2, <1>3, <1>4 DEF AskedOK
  <2> QED  BY <1>1, <1>7, <2>1 DEF AskedOK
<1>9. FormOK'
  BY <1>1 DEF FormOK
<1>10. SubmissionOK'
  BY <1>1, <1>3, <1>5, <1>7 DEF SubmissionOK
<1>11. DecisionOK'
  BY <1>1, <1>5 DEF DecisionOK, Holds
<1> QED  BY <1>1, <1>6, <1>8, <1>9, <1>10, <1>11, ReadsFrame

LEMMA AnotherAccess == ASSUME AccessInv, Another PROVE AccessInv'
<1> USE DEF AccessInv
<1>1. /\ step' = "form" /\ result' = None /\ preview' = None /\ want' = None
      /\ UNCHANGED <<hidden, real, seen, voted, asked, replay, me, shown, tried, keys,
                     opened, told, again, call, losses>>
  BY DEF Another, teleport, decision
<1>2. AccessTypeOK' /\ FormOK'
  BY <1>1 DEF AccessTypeOK, FormOK
<1> QED  BY <1>1, <1>2, AskedFrame, SubmissionFrame, DecisionFrame, ReadsFrame DEF DecisionOK

LEMMA OffersTheirs == ASSUME NEW m, NEW h, NEW r, Offers(m, h, r) PROVE r \in Theirs
  BY DEF Offers

LEMMA OpenControlsAccess == ASSUME AccessInv, NEW r \in Theirs, OpenControls(r) PROVE AccessInv'
<1> USE DEF AccessInv
<1>1. /\ opened' = [NoVerdict EXCEPT !.of = IF opened.of = r THEN None ELSE r]
      /\ UNCHANGED <<hidden, real, seen, voted, asked, replay, me, shown, want, step, preview, tried, keys,
                     result, told, again, call, losses>>
  BY DEF OpenControls, teleport, wishes
<1>2. opened' \in Verdict /\ opened'.verb = "none"
  BY <1>1 DEF NoVerdict, Verdict, AccessRequest
<1> QED  BY <1>1, <1>2, HooksChange DEF AccessTypeOK, ReadsOK

LEMMA ChooseVerbAccess ==
  ASSUME AccessInv, NEW v \in {"none", "approve", "deny"}, ChooseVerb(v) PROVE AccessInv'
<1> USE DEF AccessInv
<1>1. /\ opened.of \in Theirs /\ opened' = [opened EXCEPT !.verb = v]
      /\ UNCHANGED <<hidden, real, seen, voted, asked, replay, me, shown, want, step, preview, tried, keys,
                     result, told, again, call, losses>>
  BY OffersTheirs DEF ChooseVerb, teleport, wishes
<1>2. opened' \in Verdict /\ opened'.of \in Theirs
  BY <1>1 DEF AccessTypeOK, Verdict
<1> QED  BY <1>1, <1>2, HooksChange DEF AccessTypeOK, ReadsOK

LEMMA DecideAccess == ASSUME AccessInv, Decide PROVE AccessInv'
<1> USE DEF AccessInv
<1>1. /\ opened.verb # "none" /\ Sends("decide", opened) /\ told' \in {told, NoVerdict}
      /\ UNCHANGED <<hidden, real, seen, voted, asked, replay, me, shown, want, step, preview, tried, keys,
                     result, opened, again, losses>>
  BY DEF Decide, teleport, wishes
<1>2. opened \in Verdict /\ opened.of \in AccessRequest
  BY <1>1 DEF AccessTypeOK, DecisionOK, AccessRequest
<1>3. call' \in Call /\ call'.at = "sent" /\ call'.what = "decide" /\ call'.of = opened.of
  BY <1>1, <1>2, Sent
<1>4. AccessTypeOK'
  BY <1>1, <1>3, NoVerdictType DEF AccessTypeOK
<1>5. SubmissionOK'
  BY <1>3 DEF SubmissionOK
<1>6. DecisionOK'
  BY <1>1, <1>2, <1>3, NoVerdictType DEF DecisionOK, Holds
<1> QED  BY <1>1, <1>4, <1>5, <1>6, AskedFrame, FormFrame, ReadsFrame

\* A call is over, whatever it said.
LEMMA CallOver ==
  ASSUME call' = NoCall
  PROVE  SubmissionOK'
  BY NoCallType DEF SubmissionOK

LEMMA LosesAccess == ASSUME AccessInv, Loses PROVE AccessInv'
<1> USE DEF AccessInv
<1>1. /\ losses' = losses + 1 /\ call' = [call EXCEPT !.at = "failed"]
      /\ UNCHANGED <<hidden, real, seen, voted, asked, replay, me, shown, want, step, preview, tried, keys,
                     result, opened, told, again>>
  BY DEF Loses, teleport, wishes, decision
<1>2. call' \in Call /\ call'.at = "failed"
  BY <1>1 DEF AccessTypeOK, Call
<1>3. AccessTypeOK'
  BY <1>1, <1>2 DEF AccessTypeOK
<1>4. SubmissionOK' /\ DecisionOK'
  BY <1>1, <1>2 DEF SubmissionOK, DecisionOK, Holds
<1> QED  BY <1>1, <1>3, <1>4, AskedFrame, FormFrame, ReadsFrame

LEMMA FailsAccess == ASSUME AccessInv, Fails PROVE AccessInv'
<1> USE DEF AccessInv
<1>1. /\ call' = NoCall
      /\ UNCHANGED <<hidden, real, seen, voted, asked, replay, me, shown, want, step, preview, tried, keys,
                     result, opened, told, again, losses>>
  BY DEF Fails, teleport, wishes, decision
<1>2. AccessTypeOK'
  BY <1>1, NoCallType DEF AccessTypeOK
<1>3. DecisionOK'
  BY <1>1, NoCallType DEF DecisionOK, Holds
<1> QED  BY <1>1, <1>2, <1>3, CallOver, AskedFrame, FormFrame, ReadsFrame

LEMMA PreviewedAccess == ASSUME AccessInv, Previewed PROVE AccessInv'
<1> USE DEF AccessInv
<1>1. /\ call' = NoCall /\ preview' = want
      /\ UNCHANGED <<hidden, real, seen, voted, asked, replay, me, shown, want, step, tried, keys,
                     result, opened, told, again, losses>>
  BY DEF Previewed, teleport, decision
<1>2. AccessTypeOK'
  BY <1>1, NoCallType DEF AccessTypeOK
<1>3. DecisionOK'
  BY <1>1, NoCallType DEF DecisionOK, Holds
<1> QED  BY <1>1, <1>2, <1>3, CallOver, AskedFrame, FormFrame, ReadsFrame

LEMMA RequestedAccess == ASSUME AccessInv, Requested PROVE AccessInv'
<1> USE DEF AccessInv
<1>1. /\ call.at = "ok" /\ call.here /\ call.what = "request"
      /\ call' = NoCall /\ step' = "done" /\ result' = call.of
      /\ UNCHANGED <<hidden, real, seen, voted, asked, replay, me, shown, want, preview, tried, keys,
                     opened, told, again, losses>>
  BY DEF Requested, teleport, decision
<1>2. call.of \in Mine /\ asked[call.of].key = keys /\ keys > 0 /\ tried # None
  BY <1>1 DEF SubmissionOK
<1>3. asked[call.of].wish = tried
  BY <1>2 DEF AskedOK
<1>4. AccessTypeOK'
  BY <1>1, <1>2, NoCallType DEF AccessTypeOK
<1>5. FormOK'
  BY <1>1, <1>2, <1>3 DEF FormOK
<1>6. DecisionOK'
  BY <1>1, NoCallType DEF DecisionOK, Holds
<1> QED  BY <1>1, <1>4, <1>5, <1>6, CallOver, AskedFrame, ReadsFrame

LEMMA DecidedAccess == ASSUME AccessInv, Decided PROVE AccessInv' /\ ShownStep
<1> USE DEF AccessInv
<1>1. /\ call.at = "ok" /\ call.what = "decide" /\ call' = NoCall
      /\ told' = [of |-> call.of, verb |-> call.verb] /\ again' = TRUE /\ shown' = Asking(shown)
      /\ opened' = IF page = "approvals" THEN NoVerdict ELSE [opened EXCEPT !.verb = "none"]
      /\ UNCHANGED <<hidden, real, seen, voted, asked, replay, me, want, step, preview, tried, keys,
                     result, losses>>
  BY DEF Decided, teleport, wishes
<1>2. told' \in Verdict /\ told'.of = call.of /\ told'.verb = call.verb
  BY <1>1 DEF AccessTypeOK, Call, Verdict
<1>3. opened' \in Verdict /\ opened'.verb = "none"
  BY <1>1, NoVerdictType DEF AccessTypeOK, Verdict
<1>4. shown' \in Hook(Requests) /\ Orderly(shown', seen) /\ shown'.data = shown.data
  BY <1>1, AskingType, AskingOrderly DEF AccessTypeOK, ReadsOK
<1>5. again' \in BOOLEAN
  BY <1>1
<1>6. AccessTypeOK'
  BY <1>1, <1>2, <1>3, <1>4, <1>5, NoCallType DEF AccessTypeOK
<1>7. DecisionOK'
  BY <1>1, <1>2, <1>3, NoCallType DEF DecisionOK, Holds
<1>8. ReadsOK'
  BY <1>1, <1>4 DEF ReadsOK
<1> QED  BY <1>1, <1>4, <1>6, <1>7, <1>8, CallOver, AskedFrame, FormFrame, ShownStays

\* Teleport's requests are asked for, and then decided, once.
Moves(r, s) == s = real[r] \/ (real[r] = "none" /\ s = "pending")
                \/ (real[r] = "pending" /\ s \in {"approved", "denied"})

LEMMA RealMoves ==
  ASSUME AccessInv, real' \in Requests, voted \subseteq voted',
         \A r \in AccessRequest : Moves(r, real'[r])
  PROVE  /\ NotAhead(seen, real')
         /\ \A r \in AccessRequest : \A v : Holds(r, v) => Holds(r, v)'
<1>1. \A r \in AccessRequest : Rank(real[r]) <= Rank(real'[r])
  BY DEF Moves, Rank
<1>2. NotAhead(seen, real')
  BY <1>1, NotAheadOrder DEF AccessInv, ReadsOK, NotAhead
<1>3. \A r \in AccessRequest : \A v : real[r] = Ruling(v) => real'[r] = Ruling(v)
  BY DEF Moves, Ruling
<1> QED  BY <1>2, <1>3 DEF Holds

LEMMA OrderlyStays == ASSUME AccessInv, NotAhead(seen, real'), UNCHANGED <<seen, shown>> PROVE ReadsOK'
  BY DEF AccessInv, ReadsOK

\* What Teleport and the access portal do with a call: they move requests on and answer.
LEMMA CallMoves ==
  ASSUME AccessInv, real' \in Requests, voted \subseteq voted',
         \A r \in AccessRequest : Moves(r, real'[r]),
         call' \in Call, call'.what = call.what, call'.what # "decide" \/
           (/\ call'.of \in AccessRequest /\ (call'.at = "ok" => Holds(call.of, call.verb)')),
         UNCHANGED <<told, opened>>
  PROVE  DecisionOK'
<1>1. \A r \in AccessRequest : \A v : Holds(r, v) => Holds(r, v)'
  BY RealMoves
<1>2. told.of \in AccessRequest \cup {None}
  BY DEF AccessInv, AccessTypeOK, Verdict
<1> QED  BY <1>1, <1>2 DEF AccessInv, DecisionOK

LEMMA ReplyType ==
  ASSUME AccessInv, NEW at \in {"ok", "failed"}, NEW r \in AccessRequest \cup {None}, Reply(at, r)
  PROVE  /\ call' \in Call /\ call'.at = at /\ call'.of = r /\ call'.what = call.what
         /\ call'.verb = call.verb /\ call'.wish = call.wish /\ call'.here = call.here
  BY DEF AccessInv, AccessTypeOK, Reply, Call

LEMMA PreviewServed ==
  ASSUME AccessInv, call.what = "preview", Reply("ok", None),
         UNCHANGED <<hidden, real, seen, voted, asked, replay, me, shown, want, step, preview, tried, keys,
                     result, opened, told, again, losses>>
  PROVE  AccessInv'
<1> USE DEF AccessInv
<1>1. call' \in Call /\ call'.what = "preview"
  BY ReplyType
<1>2. AccessTypeOK'
  BY <1>1 DEF AccessTypeOK
<1>3. SubmissionOK' /\ DecisionOK'
  BY <1>1 DEF SubmissionOK, DecisionOK, Holds
<1> QED  BY <1>2, <1>3, AskedFrame, FormFrame, ReadsFrame

\* A request is created for what the call carries, which is the last attempt if the page is
\* there, and under a key that nothing was asked for yet, or is answered from memory.
LEMMA RequestServed ==
  ASSUME AccessInv, call.at = "sent", call.what = "request", CreatesRequest,
         UNCHANGED <<hidden, me, shown, want, step, preview, tried, keys, result, opened, told, again>>
  PROVE  AccessInv'
<1> USE DEF AccessInv
<1>1. /\ keys > 0 /\ keys \in Nat
      /\ IF call.here THEN tried # None /\ call.wish = tried ELSE tried = None
  BY DEF SubmissionOK, AccessTypeOK
<1>2. CASE \E e \in replay : e.key = keys
  <2>1. PICK e \in replay : e.key = keys /\ Reply("ok", e.of) /\ UNCHANGED <<real, seen, voted, asked, replay, losses>>
    BY <1>2 DEF CreatesRequest, teleport
  <2>2. e.of \in Mine /\ e.of \in AccessRequest /\ asked[e.of].key = keys
    BY <2>1 DEF AccessTypeOK, AskedOK, AccessRequest
  <2>3. call' \in Call /\ call'.of = e.of /\ call'.what = "request" /\ call'.here = call.here
        /\ call'.wish = call.wish
    BY <2>1, <2>2, ReplyType
  <2>4. AccessTypeOK'
    BY <2>1, <2>3 DEF AccessTypeOK
  <2>5. SubmissionOK'
    BY <1>1, <2>1, <2>2, <2>3 DEF SubmissionOK
  <2>6. DecisionOK'
    BY <2>1, <2>3 DEF DecisionOK, Holds
  <2> QED  BY <2>1, <2>4, <2>5, <2>6, AskedFrame, FormFrame, ReadsFrame
<1>3. CASE ~(\E e \in replay : e.key = keys) /\ call.wish \in Denied
  <2>1. Reply("failed", None) /\ UNCHANGED <<real, seen, voted, asked, replay, losses>>
    BY <1>3 DEF CreatesRequest, teleport
  <2>2. call' \in Call /\ call'.at = "failed"
    BY <2>1, ReplyType
  <2>3. AccessTypeOK'
    BY <2>1, <2>2 DEF AccessTypeOK
  <2>4. SubmissionOK' /\ DecisionOK'
    BY <2>1, <2>2 DEF SubmissionOK, DecisionOK, Holds
  <2> QED  BY <2>1, <2>3, <2>4, AskedFrame, FormFrame, ReadsFrame
<1>4. CASE ~(\E e \in replay : e.key = keys) /\ call.wish \notin Denied
  <2>1. PICK m \in Mine, late \in BOOLEAN :
          /\ asked[m].key = 0
          /\ losses' = IF late THEN losses + 1 ELSE losses
          /\ asked' = [asked EXCEPT ![m] = [wish |-> call.wish, key |-> keys]]
          /\ real' = [real EXCEPT ![m] = "pending"]
          /\ replay' = IF late THEN replay ELSE replay \cup {[key |-> keys, of |-> m]}
          /\ Reply(IF late THEN "failed" ELSE "ok", m)
          /\ UNCHANGED <<seen, voted>>
    BY <1>4 DEF CreatesRequest
  <2>2. m \in AccessRequest /\ real \in Requests /\ asked \in [Mine -> [wish : Wish \cup {None}, key : Nat]]
        /\ call.wish \in Wish \cup {None}
    BY DEF AccessTypeOK, AccessRequest, Call
  <2>3. call' \in Call /\ call'.of = m /\ call'.what = "request" /\ call'.here = call.here
        /\ call'.wish = call.wish
    BY <1>4, <2>1, <2>2, ReplyType
  <2>4. \A n \in Mine : asked'[n] = IF n = m THEN [wish |-> call.wish, key |-> keys] ELSE asked[n]
    BY <2>1, <2>2
  <2>5. asked'[m].key = keys /\ asked'[m].wish = call.wish
    BY <2>4
  <2>6. asked' \in [Mine -> [wish : Wish \cup {None}, key : Nat]]
    BY <1>1, <2>1, <2>2
  <2>7. \A r \in AccessRequest : real'[r] = IF r = m THEN "pending" ELSE real[r]
    BY <2>1, <2>2 DEF Requests
  <2>8. real' \in Requests
    BY <2>1, <2>2 DEF Requests, State
  <2>9. real[m] = "none"
    BY <2>1 DEF AskedOK
  <2>10. losses' \in Nat
    BY <2>1 DEF AccessTypeOK
  <2>11. /\ replay' \subseteq [key : Nat, of : Mine]
         /\ \A e \in replay' : e \in replay \/ (e.key = keys /\ e.of = m)
    BY <1>1, <2>1 DEF AccessTypeOK
  <2>12. AccessTypeOK'
    BY <2>1, <2>3, <2>6, <2>8, <2>10, <2>11 DEF AccessTypeOK
  <2>13. \A n \in Mine : n # m => asked'[n] = asked[n] /\ real'[n] = real[n]
    BY <2>4, <2>7 DEF AccessRequest
  <2>14. ASSUME NEW n \in Mine
         PROVE  /\ asked'[n].key <= keys'
                /\ asked'[n].key = 0 => real'[n] = "none"
                /\ tried' # None /\ asked'[n].key = keys' => asked'[n].wish = tried'
    <3>1. CASE n = m
      BY <1>1, <2>5, <3>1
    <3>2. CASE n # m
      BY <2>13, <3>2 DEF AskedOK
    <3> QED  BY <3>1, <3>2
  <2>15. ASSUME NEW e \in replay' PROVE e.key > 0 /\ asked'[e.of].key = e.key
    <3>1. CASE e \in replay
      <4>1. e.key > 0 /\ asked[e.of].key = e.key /\ e.of \in Mine /\ e.of # m
        BY <2>1, <3>1 DEF AskedOK, AccessTypeOK
      <4> QED  BY <2>13, <4>1
    <3>2. CASE e.key = keys /\ e.of = m
      BY <1>1, <2>5, <3>2
    <3> QED  BY <2>11, <3>1, <3>2
  <2>16. AskedOK'
    BY <2>14, <2>15 DEF AskedOK
  <2>17. FormOK'
    <3>1. step = "done" => result # m
      BY <2>1 DEF FormOK
    <3> QED  BY <2>13, <3>1 DEF FormOK
  <2>18. SubmissionOK'
    BY <1>1, <2>3, <2>5 DEF SubmissionOK
  <2>19. \A r \in AccessRequest : Moves(r, real'[r])
    BY <2>7, <2>9 DEF Moves
  <2>20. DecisionOK'
    BY <2>1, <2>3, <2>8, <2>19, CallMoves
  <2>21. ReadsOK'
    BY <2>1, <2>8, <2>19, RealMoves, OrderlyStays
  <2> QED  BY <2>12, <2>16, <2>17, <2>18, <2>20, <2>21
<1> QED  BY <1>2, <1>3, <1>4

LEMMA AskedStays ==
  ASSUME AccessInv, UNCHANGED <<tried, keys, asked, replay>>,
         real' \in Requests, \A m \in Mine : real[m] = "none" => real'[m] = "none"
  PROVE  AskedOK'
  BY DEF AccessInv, AskedOK

LEMMA DecisionServed ==
  ASSUME AccessInv, call.at = "sent", call.what = "decide", Decides,
         UNCHANGED <<hidden, me, shown, want, step, preview, tried, keys, result, opened, told, again>>
  PROVE  AccessInv'
<1> USE DEF AccessInv
<1>1. call.of \in AccessRequest /\ real \in Requests /\ UNCHANGED <<seen, asked, replay, losses>>
  BY DEF DecisionOK, AccessTypeOK, Decides
<1>2. /\ \/ /\ real[call.of] = "pending" /\ real' = [real EXCEPT ![call.of] = Ruling(call.verb)]
            /\ voted' = voted
         \/ /\ call.of \in Reviewed /\ call.verb = "approve" /\ voted' = voted \cup {call.of}
            /\ real' = real
         \/ call'.at = "failed" /\ real' = real /\ voted' = voted
      /\ call' \in Call /\ call'.of = call.of /\ call'.what = "decide" /\ call'.verb = call.verb
  <2>1. CASE Takes(call.of)
    BY <1>1, <2>1, ReplyType DEF Decides, Takes, Pending
  <2>2. CASE ~Takes(call.of)
    BY <1>1, <2>2, ReplyType DEF Decides
  <2> QED  BY <2>1, <2>2
<1>3. Ruling(call.verb) \in {"approved", "denied"}
  BY DEF Ruling
<1>4. /\ real' \in Requests /\ \A r \in AccessRequest : Moves(r, real'[r])
      /\ call'.at = "ok" => real'[call.of] = Ruling(call.verb) \/ (call.verb = "approve" /\ call.of \in voted')
      /\ \A r \in AccessRequest : real[r] = "none" => real'[r] = "none"
      /\ voted \subseteq voted' /\ voted' \subseteq Reviewed
  <2>0. voted \subseteq Reviewed
    BY DEF AccessTypeOK
  <2>1. CASE real' = real /\ voted' = voted /\ call'.at = "failed"
    BY <1>1, <2>0, <2>1 DEF Moves
  <2>2. CASE real[call.of] = "pending" /\ real' = [real EXCEPT ![call.of] = Ruling(call.verb)]
             /\ voted' = voted
    BY <1>1, <1>3, <2>0, <2>2 DEF Moves, Requests, State
  <2>3. CASE call.of \in Reviewed /\ call.verb = "approve" /\ voted' = voted \cup {call.of}
             /\ real' = real
    BY <1>1, <2>0, <2>3 DEF Moves
  <2> QED  BY <1>2, <2>1, <2>2, <2>3
<1>5. AccessTypeOK'
  BY <1>1, <1>2, <1>4 DEF AccessTypeOK
<1>6. AskedOK'
  BY <1>1, <1>4, AskedStays DEF AccessRequest
<1>7. DecisionOK'
  <2>1. call'.at = "ok" => Holds(call.of, call.verb)'
    BY <1>2, <1>4 DEF Holds
  <2> QED  BY <1>1, <1>2, <1>4, <2>1, CallMoves
<1>8. SubmissionOK'
  BY <1>2 DEF SubmissionOK
<1>9. ReadsOK'
  BY <1>1, <1>4, RealMoves, OrderlyStays
<1> QED  BY <1>1, <1>5, <1>6, <1>7, <1>8, <1>9, FormFrame

LEMMA ServeAccess == ASSUME AccessInv, Serve PROVE AccessInv'
<1>1. /\ call.at = "sent"
      /\ UNCHANGED <<hidden, me, shown, want, step, preview, tried, keys, result, opened, told, again>>
  BY DEF Serve, wishes, decision
<1>2. CASE call.what = "preview" /\ Reply("ok", None) /\ UNCHANGED <<teleport, losses>>
  BY <1>1, <1>2, PreviewServed DEF teleport
<1>3. CASE call.what = "request" /\ CreatesRequest
  BY <1>1, <1>3, RequestServed
<1>4. CASE call.what = "decide" /\ Decides
  BY <1>1, <1>4, DecisionServed
<1> QED  BY <1>2, <1>3, <1>4 DEF Serve

LEMMA OthersAccess == ASSUME AccessInv, Others PROVE AccessInv'
<1> USE DEF AccessInv
<1>1. UNCHANGED <<hidden, seen, voted, asked, replay, me, shown, want, step, preview, tried, keys,
                  result, opened, told, again, call, losses>>
  BY DEF Others, wishes, decision
<1>2. real \in Requests
  BY DEF AccessTypeOK
<1>3. /\ real' \in Requests /\ \A r \in AccessRequest : Moves(r, real'[r])
      /\ \A m \in Mine : real[m] = "none" => real'[m] = "none"
  <2>1. CASE \E r \in Theirs : real[r] = "none" /\ real' = [real EXCEPT ![r] = "pending"]
    BY <1>2, <2>1, AccessAssumption DEF Moves, Requests, State, AccessRequest
  <2>2. CASE \E r \in AccessRequest, s \in {"approved", "denied"} :
               real[r] = "pending" /\ real' = [real EXCEPT ![r] = s]
    BY <1>2, <2>2 DEF Moves, Requests, State, AccessRequest
  <2> QED  BY <2>1, <2>2 DEF Others
<1>4. AccessTypeOK'
  BY <1>1, <1>3 DEF AccessTypeOK
<1>5. AskedOK'
  BY <1>1, <1>3, AskedStays
<1>6. DecisionOK'
  <2>1. \A r \in AccessRequest : \A v : Holds(r, v) => Holds(r, v)'
    BY <1>1, <1>3, RealMoves
  <2>2. told.of \in AccessRequest \cup {None}
    BY DEF AccessTypeOK, Verdict
  <2> QED  BY <1>1, <2>1, <2>2 DEF DecisionOK
<1>7. ReadsOK'
  BY <1>1, <1>3, RealMoves, OrderlyStays
<1> QED  BY <1>1, <1>4, <1>5, <1>6, <1>7, FormFrame, SubmissionFrame

LEMMA CacheAccess == ASSUME AccessInv, CacheCatchesUp PROVE AccessInv'
<1> USE DEF AccessInv
<1>1. /\ seen' = real
      /\ UNCHANGED <<hidden, real, voted, asked, replay, me, shown, want, step, preview, tried, keys,
                     result, opened, told, again, call, losses>>
  BY DEF CacheCatchesUp, wishes, decision
<1>2. AccessTypeOK'
  BY <1>1 DEF AccessTypeOK
<1>3. ReadsOK'
  BY <1>1, OrderlyLater, NotAheadOrder DEF ReadsOK
<1> QED
  BY <1>1, <1>2, <1>3, AskedFrame, FormFrame, SubmissionFrame, DecisionFrame DEF DecisionOK

LEMMA ForgetsAccess == ASSUME AccessInv, Forgets PROVE AccessInv'
<1> USE DEF AccessInv
<1>1. /\ replay' = {}
      /\ UNCHANGED <<hidden, real, seen, voted, asked, me, shown, want, step, preview, tried, keys,
                     result, opened, told, again, call, losses>>
  BY DEF Forgets, wishes, decision
<1>2. AccessTypeOK' /\ AskedOK'
  BY <1>1 DEF AccessTypeOK, AskedOK
<1> QED  BY <1>1, <1>2, FormFrame, SubmissionFrame, DecisionFrame, ReadsFrame DEF DecisionOK

LEMMA AccessVisited == ASSUME AccessInv, NEW p, AccessVisit(p) PROVE AccessInv' /\ ShownStep
<1>1. /\ FreshPage(p) /\ shown' = Dropped(shown)
      /\ me' \in {me, Dropped(me)} /\ UNCHANGED <<hidden, real, seen, voted, asked, replay, losses>>
  BY DEF AccessVisit, teleport
<1>2. me' \in Hook(Whoami) /\ losses' \in Nat
  BY <1>1, DroppedType DEF AccessInv, AccessTypeOK
<1> QED  BY <1>1, <1>2, PageIsFresh

LEMMA AccessUnloaded == ASSUME AccessInv, AccessUnload PROVE AccessInv' /\ ShownStep
<1> USE DEF AccessInv
<1>1. /\ me' = NoHook /\ shown' = NoHook /\ call' = NoCall
      /\ want' = None /\ step' = "form" /\ preview' = None /\ tried' = None /\ result' = None
      /\ opened' = NoVerdict /\ told' = NoVerdict /\ again' = FALSE
      /\ UNCHANGED <<hidden, real, seen, voted, asked, replay, keys, losses>>
  BY DEF AccessUnload, teleport
<1>2. again' \in BOOLEAN
  BY <1>1
<1>3. me' \in Hook(Whoami) /\ shown' \in Hook(Requests)
  BY <1>1, NoHookType
<1>4. AccessTypeOK'
  BY <1>1, <1>2, <1>3, NoVerdictType, NoCallType DEF AccessTypeOK
<1>5. AskedOK' /\ FormOK'
  BY <1>1 DEF AskedOK, FormOK
<1>6. SubmissionOK' /\ DecisionOK'
  BY <1>1, NoVerdictType, NoCallType DEF SubmissionOK, DecisionOK
<1>7. shown'.data = None /\ shown'.asks = {}
  BY <1>1 DEF NoHook
<1>8. ReadsOK'
  BY <1>1, <1>7 DEF ReadsOK, Orderly
<1> QED  BY <1>4, <1>5, <1>6, <1>7, <1>8 DEF ShownStep

LEMMA AccessStarts == ASSUME AccessInit PROVE AccessInv
<1> USE DEF AccessInv
<1>1. real \in Requests /\ seen = real
  <2>1. PICK S \in SUBSET Theirs : real = [r \in AccessRequest |-> IF r \in S THEN "pending" ELSE "none"]
    BY DEF AccessInit
  <2> QED  BY <2>1 DEF AccessInit, Requests, State
<1>2. \A m \in Mine : real[m] = "none"
  <2>1. PICK S \in SUBSET Theirs : real = [r \in AccessRequest |-> IF r \in S THEN "pending" ELSE "none"]
    BY DEF AccessInit
  <2> QED  BY <2>1, AccessAssumption DEF AccessRequest
<1>3. hidden \in BOOLEAN /\ again \in BOOLEAN
  BY DEF AccessInit
<1>4. /\ asked \in [Mine -> [wish : Wish \cup {None}, key : Nat]]
      /\ \A m \in Mine : asked[m].key = 0
  BY DEF AccessInit
<1>5. me \in Hook(Whoami) /\ shown \in Hook(Requests) /\ shown.data = None /\ shown.asks = {}
  BY NoHookType DEF AccessInit, NoHook
<1>6. AccessTypeOK
  BY <1>1, <1>3, <1>4, <1>5, NoVerdictType, NoCallType DEF AccessTypeOK, AccessInit
<1>7. AskedOK /\ FormOK
  BY <1>2, <1>4 DEF AskedOK, FormOK, AccessInit
<1>8. SubmissionOK /\ DecisionOK
  BY NoVerdictType, NoCallType DEF SubmissionOK, DecisionOK, AccessInit
<1>9. ReadsOK
  BY <1>1, <1>5, NotAheadOrder DEF ReadsOK, Orderly
<1> QED  BY <1>6, <1>7, <1>8, <1>9

LEMMA AccessSteps == ASSUME AccessInv, AccessNext PROVE AccessInv' /\ ShownStep
<1>1. CASE AskMe \/ Hide \/ Review \/ Edit \/ SubmitRequest \/ Another \/ Decide \/ Serve
  <2>1. shown' = shown
    BY <1>1 DEF AskMe, Hide, Review, Edit, SubmitRequest, Another, Decide, Serve
  <2> QED  BY <1>1, <2>1, ShownStays, AskMeAccess, HideAccess, ReviewAccess, EditAccess, SubmitAccess,
              AnotherAccess, DecideAccess, ServeAccess
<1>2. CASE Loses \/ Fails \/ Previewed \/ Requested \/ Others \/ CacheCatchesUp \/ Forgets
  <2>1. shown' = shown
    BY <1>2 DEF Loses, Fails, Previewed, Requested, Others, CacheCatchesUp, Forgets
  <2> QED  BY <1>2, <2>1, ShownStays, LosesAccess, FailsAccess, PreviewedAccess, RequestedAccess,
              OthersAccess, CacheAccess, ForgetsAccess
<1>3. CASE AskPage \/ Decided
  BY <1>3, AskPageAccess, DecidedAccess
<1>4. CASE \E a \in me.asks : ServeMe(a) \/ MeArrives(a) \/ \E s \in Failures : MeFails(a, s)
  <2>1. PICK a \in me.asks : ServeMe(a) \/ MeArrives(a) \/ \E s \in Failures : MeFails(a, s)
    BY <1>4
  <2>2. CASE ServeMe(a)
    BY <2>2, ServeMeAccess, ShownStays DEF ServeMe
  <2> QED  BY <2>1, <2>2, MeAccess
<1>5. CASE \E a \in shown.asks : ServePage(a) \/ PageArrives(a) \/ \E s \in Failures : PageFails(a, s)
  BY <1>5, ServePageAccess, PageAccess
<1>6. CASE \E w \in Wish : Choose(w)
  BY <1>6, ChooseAccess, ShownStays DEF Choose
<1>7. CASE \E r \in Theirs : OpenControls(r)
  BY <1>7, OpenControlsAccess, ShownStays DEF OpenControls
<1>8. CASE \E v \in {"none", "approve", "deny"} : ChooseVerb(v)
  BY <1>8, ChooseVerbAccess, ShownStays DEF ChooseVerb
<1> QED  BY <1>1, <1>2, <1>3, <1>4, <1>5, <1>6, <1>7, <1>8 DEF AccessNext

-----------------------------------------------------------------------------
(* The steps of the other pages. *)

LEMMA ConversationFrame ==
  ASSUME WorkInv, UNCHANGED <<page, chat, stored, question, spoken>> PROVE QuestionOK' /\ ChatOK' /\ AnswersStay'
<1>1. QuestionOK'
  BY DEF WorkInv, QuestionOK
<1>2. ChatOK' /\ AnswersStay'
  BY DEF WorkInv, ChatOK, Had, AnswersStay
<1> QED  BY <1>1, <1>2

\* Nothing but who is signed in, the page and the assistant stays as it is.
LEMMA Aside ==
  ASSUME WorkInv, UNCHANGED <<setup, page, who, chat, stored, chats, asks, question, spoken>>,
         signing' \in {"no", "looking", "ready", "popup"}, signing = "no" <=> signing' = "no",
         board' \in Hook(Nat), edition' \in Nat, promotion' \in Promotion, order' \in Order,
         runs' \in [Target -> Nat], account' \in Account, codes' \in Nat, outages' \in Nat
  PROVE  WorkInv'
<1> USE DEF WorkInv
<1>1. WorkTypeOK'
  BY DEF WorkTypeOK
<1>2. TabOK'
  BY DEF TabOK
<1> QED  BY <1>1, <1>2, ConversationFrame

\* The conversation changes on the page that is shown.
LEMMA Talk ==
  ASSUME WorkInv, UNCHANGED <<setup, page, who, signing, board, edition, promotion, order, runs,
                              account, codes>>,
         chat' = None \/ chat' \in Chat, stored' = None \/ stored' \in Chat,
         chats' \in Nat, asks' \in Nat, question' \in Question, spoken' \subseteq Exchange,
         outages' \in Nat, page = "assistant" => chat' \in Chat
  PROVE  WorkTypeOK' /\ TabOK'
  BY DEF WorkInv, WorkTypeOK, TabOK

LEMMA NewChatType ==
  ASSUME WorkInv, NEW p \in Provider, page # "sign-in"
  PROVE  /\ NewChat(p) \in Chat /\ NewChat(p).said = <<>> /\ DOMAIN NewChat(p).said = {}
<1>1. who \in Person /\ chats + 1 \in Nat
  BY DEF WorkInv, WorkTypeOK, TabOK
<1>2. <<>> \in Seq(Exchange) /\ DOMAIN <<>> = {}
  BY EmptySeq
<1>3. NewChat(p) = [id |-> chats + 1, provider |-> p, said |-> <<>>, by |-> who]
  BY DEF NewChat
<1> QED  BY <1>1, <1>2, <1>3 DEF Chat

LEMMA ResetChatWork == ASSUME WorkInv, NEW p \in Provider, ResetChat(p) PROVE WorkInv'
<1> USE DEF WorkInv
<1>1. /\ page = "assistant" /\ question.at = "idle"
      /\ chat' = NewChat(p) /\ stored' = NewChat(p) /\ chats' = chats + 1
      /\ UNCHANGED <<setup, page, who, signing, account, codes, asks, question, spoken, board, edition,
                     promotion, order, runs, outages>>
  BY DEF ResetChat, On, MayReset, ShowsChat, shell, profile, release
<1>2. NewChat(p) \in Chat /\ DOMAIN NewChat(p).said = {}
  BY <1>1, NewChatType
<1>3. WorkTypeOK' /\ TabOK'
  BY <1>1, <1>2, Talk DEF WorkTypeOK
<1>4. QuestionOK' /\ ChatOK' /\ AnswersStay'
  BY <1>1, <1>2 DEF QuestionOK, AnswersStay, ChatOK, Had
<1> QED  BY <1>3, <1>4

LEMMA SendQuestionWork == ASSUME WorkInv, SendQuestion PROVE WorkInv'
<1> USE DEF WorkInv
<1>1. /\ page = "assistant" /\ asks' = asks + 1
      /\ question' = [at |-> "sent", text |-> asks + 1, conv |-> chat.id, provider |-> chat.provider,
                      here |-> TRUE]
      /\ UNCHANGED <<setup, page, who, signing, account, codes, chat, stored, chats, spoken, board,
                     edition, promotion, order, runs, outages>>
  BY DEF SendQuestion, On, shell, profile, release
<1>2. chat \in Chat /\ asks \in Nat
  BY <1>1 DEF TabOK, WorkTypeOK
<1>3. chat.id \in Nat /\ chat.provider \in Provider
  BY <1>2 DEF Chat
<1>4. /\ question' \in Question /\ question'.at = "sent"
      /\ question'.conv = chat.id /\ question'.provider = chat.provider
  BY <1>1, <1>2, <1>3 DEF Question
<1>5. WorkTypeOK' /\ TabOK'
  BY <1>1, <1>2, <1>4, Talk DEF WorkTypeOK
<1>6. QuestionOK' /\ ChatOK' /\ AnswersStay'
  BY <1>1, <1>3, <1>4 DEF QuestionOK, AnswersStay, ChatOK, Had
<1> QED  BY <1>5, <1>6

LEMMA AgentAnswersWork == ASSUME WorkInv, AgentAnswers PROVE WorkInv'
<1> USE DEF WorkInv
<1> DEFINE e == [text |-> question.text, conv |-> question.conv, provider |-> question.provider]
<1>1. /\ question.at = "sent" /\ spoken' = spoken \cup {e} /\ question' = [question EXCEPT !.at = "ok"]
      /\ UNCHANGED <<setup, page, who, signing, account, codes, chat, stored, chats, asks, board,
                     edition, promotion, order, runs, outages>>
  BY DEF AgentAnswers, shell, profile, release
<1>2. question \in Question /\ question.provider \in Provider
  BY <1>1 DEF WorkTypeOK, QuestionOK
<1>3. e \in Exchange
  BY <1>2 DEF Exchange, Question
<1>4. /\ question' \in Question /\ question'.text = question.text /\ question'.conv = question.conv
      /\ question'.provider = question.provider /\ question'.here = question.here
  BY <1>1, <1>2 DEF Question
<1>5. [text |-> question'.text, conv |-> question'.conv, provider |-> question'.provider] = e
  BY <1>4
<1> HIDE DEF e
<1>6. WorkTypeOK' /\ TabOK'
  BY <1>1, <1>3, <1>4, Talk DEF WorkTypeOK, TabOK
<1>7. QuestionOK'
  BY <1>1, <1>2, <1>4, <1>5 DEF QuestionOK
<1>8. ChatOK' /\ AnswersStay'
  BY <1>1 DEF AnswersStay, ChatOK, Had
<1> QED  BY <1>6, <1>7, <1>8

LEMMA QuestionFailsWork == ASSUME WorkInv, QuestionFails PROVE WorkInv'
<1> USE DEF WorkInv
<1>1. /\ question.at # "idle" /\ question' = [question EXCEPT !.at = "failed"]
      /\ outages' \in {outages, outages + 1}
      /\ UNCHANGED <<setup, page, who, signing, account, codes, chat, stored, chats, asks, spoken, board,
                     edition, promotion, order, runs>>
  BY DEF QuestionFails, Fault, shell, profile, release
<1>2. /\ question' \in Question /\ question'.at = "failed" /\ question'.conv = question.conv
      /\ question'.provider = question.provider /\ question'.here = question.here
  BY <1>1 DEF WorkTypeOK, Question
<1>3. WorkTypeOK' /\ TabOK'
  BY <1>1, <1>2, Talk DEF WorkTypeOK, TabOK
<1>4. QuestionOK' /\ ChatOK' /\ AnswersStay'
  BY <1>1, <1>2 DEF QuestionOK, AnswersStay, ChatOK, Had
<1> QED  BY <1>3, <1>4

LEMMA NoQuestionType == NoQuestion \in Question /\ NoQuestion.at = "idle"
  BY DEF NoQuestion, Question

\* The answer is to the conversation that is shown: it had its question.
LEMMA AnswerArrivesWork == ASSUME WorkInv, AnswerArrives PROVE WorkInv'
<1> USE DEF WorkInv
<1> DEFINE e == [text |-> question.text, conv |-> question.conv, provider |-> question.provider]
           c == [chat EXCEPT !.said = Append(@, e)]
<1>1. /\ question' = NoQuestion
      /\ UNCHANGED <<setup, page, who, signing, account, codes, chats, asks, spoken, board, edition,
                     promotion, order, runs, outages>>
  BY DEF AnswerArrives, shell, profile, release
<1>2. CASE question.at = "ok" /\ question.here
  <2>1. chat' = c /\ stored' = c
    BY <1>2 DEF AnswerArrives, ShowsChat
  <2>2. /\ chat \in Chat /\ question.conv = chat.id /\ question.provider = chat.provider
        /\ e \in spoken /\ spoken \subseteq Exchange
    BY <1>2 DEF QuestionOK, TabOK, WorkTypeOK
  <2>3. e.conv = chat.id /\ e.provider = chat.provider
    BY <2>2
  <2> HIDE DEF e
  <2>4. chat.said \in Seq(Exchange) /\ e \in Exchange
    BY <2>2 DEF Chat
  <2>5. /\ Append(chat.said, e) \in Seq(Exchange)
        /\ \A i \in DOMAIN Append(chat.said, e) :
             (i \in DOMAIN chat.said /\ Append(chat.said, e)[i] = chat.said[i])
               \/ Append(chat.said, e)[i] = e
    BY <2>4, AppendProperties
  <2>6. c \in Chat /\ c.id = chat.id /\ c.provider = chat.provider /\ c.said = Append(chat.said, e)
    BY <2>2, <2>5 DEF Chat
  <2> HIDE DEF c
  <2>7. Had(chat)
    BY <1>2 DEF QuestionOK, ChatOK
  <2>8. \A i \in DOMAIN c.said :
          c.said[i].conv = c.id /\ c.said[i].provider = c.provider /\ c.said[i] \in spoken
    BY <2>2, <2>3, <2>5, <2>6, <2>7 DEF Had
  <2>9. ChatOK' /\ AnswersStay'
    BY <1>1, <2>1, <2>8 DEF AnswersStay, ChatOK, Had
  <2>10. WorkTypeOK' /\ TabOK'
    BY <1>1, <2>1, <2>6, NoQuestionType, Talk DEF WorkTypeOK
  <2> QED  BY <1>1, <2>9, <2>10, NoQuestionType DEF QuestionOK
<1>3. CASE ~(question.at = "ok" /\ question.here)
  <2>1. UNCHANGED <<chat, stored>>
    BY <1>3 DEF AnswerArrives
  <2>2. WorkTypeOK' /\ TabOK'
    BY <1>1, <2>1, NoQuestionType, Talk DEF WorkTypeOK, TabOK
  <2>3. QuestionOK' /\ ChatOK' /\ AnswersStay'
    BY <1>1, <2>1, NoQuestionType DEF QuestionOK, AnswersStay, ChatOK, Had
  <2> QED  BY <2>2, <2>3
<1> QED  BY <1>2, <1>3

LEMMA PlatformStatusType == ASSUME NEW c PROVE PlatformStatus(c) \in Answers
  BY DEF PlatformStatus, Answers

LEMMA BoardWork ==
  ASSUME WorkInv,
         Reload \/ BoardChanges \/
           \E a \in board.asks : BoardServed(a) \/ BoardArrives(a) \/ \E s \in Failures : BoardFails(a, s)
  PROVE  WorkInv'
<1>1. board \in Hook(Nat) /\ edition \in Nat /\ outages \in Nat
  BY DEF WorkInv, WorkTypeOK
<1>2. /\ UNCHANGED <<setup, page, who, signing, account, codes, chat, stored, chats, asks, question,
                     spoken, promotion, order, runs>>
      /\ edition' \in {edition, edition + 1} /\ outages' \in {outages, outages + 1}
  BY DEF Reload, BoardChanges, BoardServed, BoardArrives, BoardFails, Fault, shell, profile, assistant,
         release
<1>3. board' \in Hook(Nat)
  <2>1. CASE Reload
    BY <1>1, <2>1, AskingType DEF Reload
  <2>2. CASE BoardChanges
    BY <1>1, <2>2 DEF BoardChanges
  <2>3. ASSUME NEW a \in board.asks, BoardServed(a) PROVE board' \in Hook(Nat)
    BY <1>1, <2>3, PlatformStatusType, ServedType DEF BoardServed
  <2>4. ASSUME NEW a \in board.asks, BoardArrives(a) PROVE board' \in Hook(Nat)
    <3>1. a \in Ask(Nat) /\ a.status # "none"
      BY <1>1, <2>4, HookParts DEF BoardArrives
    <3>2. a.status \in Answers
      BY <3>1 DEF Ask
    <3> QED  BY <1>1, <2>4, <3>1, <3>2, TakenType DEF BoardArrives
  <2>5. ASSUME NEW a \in board.asks, NEW s \in Failures, BoardFails(a, s) PROVE board' \in Hook(Nat)
    BY <1>1, <2>5, FailsType DEF BoardFails
  <2> QED  BY <2>1, <2>2, <2>3, <2>4, <2>5
<1>4. edition' \in Nat /\ outages' \in Nat
  BY <1>1, <1>2
<1> QED  BY <1>2, <1>3, <1>4, Aside DEF WorkInv, WorkTypeOK

LEMMA PromotionWork ==
  ASSUME WorkInv,
         ReviewPromotion \/ Promote \/ Dispatch \/ OrderFails \/ OrderReturns \/ AnotherPromotion
           \/ \E t \in Target : ChooseTarget(t)
  PROVE  WorkInv'
<1>1. /\ promotion \in Promotion /\ order \in Order /\ runs \in [Target -> Nat] /\ outages \in Nat
  BY DEF WorkInv, WorkTypeOK
<1>2. /\ UNCHANGED <<setup, page, who, signing, account, codes, chat, stored, chats, asks, question,
                     spoken, board, edition>>
      /\ outages' \in {outages, outages + 1}
  BY DEF ReviewPromotion, Promote, Dispatch, OrderFails, OrderReturns, AnotherPromotion, ChooseTarget,
         Fault, shell, profile, assistant
<1>3. promotion' \in Promotion /\ order' \in Order /\ runs' \in [Target -> Nat]
  <2>1. CASE ReviewPromotion
    <3>1. promotion' = [promotion EXCEPT !.review = ~promotion.review] /\ UNCHANGED <<order, runs>>
      BY <2>1 DEF ReviewPromotion
    <3>2. (~promotion.review) \in BOOLEAN
      OBVIOUS
    <3> QED  BY <1>1, <3>1, <3>2 DEF Promotion
  <2>2. CASE Promote
    <3>1. /\ order' = [at |-> "sent", target |-> promotion.target, here |-> TRUE]
          /\ UNCHANGED <<promotion, runs>>
      BY <2>2 DEF Promote
    <3>2. promotion.target \in Target \cup {None}
      BY <1>1 DEF Promotion
    <3> QED  BY <1>1, <3>1, <3>2 DEF Order
  <2>3. CASE Dispatch
    <3>1. /\ runs' = [runs EXCEPT ![order.target] = @ + 1]
          /\ order' = [order EXCEPT !.at = "ok"] /\ UNCHANGED promotion
      BY <2>3 DEF Dispatch
    <3>2. runs' = [t \in Target |-> IF t = order.target THEN runs[t] + 1 ELSE runs[t]]
      BY <1>1, <3>1
    <3>3. runs' \in [Target -> Nat]
      BY <1>1, <3>2
    <3> QED  BY <1>1, <3>1, <3>3 DEF Order
  <2>4. CASE OrderFails
    BY <1>1, <2>4 DEF OrderFails, Order
  <2>5. CASE OrderReturns
    <3>1. /\ order' = NoOrder /\ UNCHANGED runs
          /\ promotion' \in {promotion, [promotion EXCEPT !.done = TRUE]}
      BY <2>5 DEF OrderReturns
    <3>2. [promotion EXCEPT !.done = TRUE] \in Promotion
      BY <1>1 DEF Promotion
    <3>3. NoOrder \in Order
      BY DEF NoOrder, Order
    <3> QED  BY <1>1, <3>1, <3>2, <3>3
  <2>6. CASE AnotherPromotion
    BY <1>1, <2>6 DEF AnotherPromotion, Promotion
  <2>7. CASE \E t \in Target : ChooseTarget(t)
    BY <1>1, <2>7 DEF ChooseTarget, Promotion
  <2> QED  BY <2>1, <2>2, <2>3, <2>4, <2>5, <2>6, <2>7
<1>4. outages' \in Nat
  BY <1>1, <1>2
<1> QED  BY <1>2, <1>3, <1>4, Aside DEF WorkInv, WorkTypeOK

LEMMA AccountWork ==
  ASSUME WorkInv, ToggleAccount \/ GenerateCode \/ CodeMade \/ CodeFails \/ CodeArrives \/ SignOutFails
  PROVE  WorkInv'
<1>1. account \in Account /\ codes \in Nat /\ outages \in Nat
  BY DEF WorkInv, WorkTypeOK
<1>2. /\ UNCHANGED <<setup, page, who, signing, chat, stored, chats, asks, question,
                     spoken, board, edition, promotion, order, runs>>
      /\ outages' \in {outages, outages + 1} /\ codes' \in {codes, codes + 1}
  BY DEF ToggleAccount, GenerateCode, CodeMade, CodeFails, CodeArrives, SignOutFails,
         Fault, shell, assistant, release
<1>3. account' \in Account
  <2>1. CASE ToggleAccount
    <3>1. account' = [account EXCEPT !.open = ~account.open]
      BY <2>1 DEF ToggleAccount
    <3>2. (~account.open) \in BOOLEAN
      OBVIOUS
    <3> QED  BY <1>1, <3>1, <3>2 DEF Account
  <2>2. CASE GenerateCode \/ CodeMade \/ CodeFails \/ SignOutFails
    BY <1>1, <2>2 DEF GenerateCode, CodeMade, CodeFails, SignOutFails, Account
  <2>3. CASE CodeArrives
    BY <1>1, <2>3 DEF CodeArrives, Account
  <2> QED  BY <2>1, <2>2, <2>3
<1>4. outages' \in Nat /\ codes' \in Nat
  BY <1>1, <1>2
<1> QED  BY <1>2, <1>3, <1>4, Aside DEF WorkInv, WorkTypeOK

LEMMA SigningWork ==
  ASSUME WorkInv, LooksForSession \/ PressSignIn \/ SignInFails PROVE WorkInv'
<1>1. /\ UNCHANGED <<setup, page, who, account, codes, chat, stored, chats, asks, question,
                     spoken, board, edition, promotion, order, runs, outages>>
      /\ signing # "no" /\ signing' \in {"ready", "popup"}
  BY DEF LooksForSession, PressSignIn, SignInFails, shell, assistant, release
<1> QED  BY <1>1, Aside DEF WorkInv, WorkTypeOK

LEMMA SignOutWork == ASSUME WorkInv, SignOut PROVE WorkInv'
<1> USE DEF WorkInv
<1>1. /\ account' = [account EXCEPT !.at = "leaving"] /\ stored' = None
      /\ UNCHANGED <<setup, page, who, signing, codes, chat, chats, asks, question, spoken, board,
                     edition, promotion, order, runs, outages>>
  BY DEF SignOut, shell, release
<1>2. account' \in Account
  BY <1>1 DEF WorkTypeOK, Account
<1>3. WorkTypeOK' /\ TabOK'
  BY <1>1, <1>2 DEF WorkTypeOK, TabOK
<1>4. QuestionOK' /\ ChatOK' /\ AnswersStay'
  BY <1>1 DEF QuestionOK, ChatOK, Had, AnswersStay
<1> QED  BY <1>3, <1>4

LEMMA WorkSteps == ASSUME WorkInv, WorkNext PROVE WorkInv'
<1>1. CASE SendQuestion \/ AgentAnswers \/ QuestionFails \/ AnswerArrives \/ \E p \in Provider : ResetChat(p)
  BY <1>1, SendQuestionWork, AgentAnswersWork, QuestionFailsWork, AnswerArrivesWork, ResetChatWork
<1>2. CASE Reload \/ BoardChanges
             \/ \E a \in board.asks :
                  BoardServed(a) \/ BoardArrives(a) \/ \E s \in Failures : BoardFails(a, s)
  BY <1>2, BoardWork
<1>3. CASE ReviewPromotion \/ Promote \/ Dispatch \/ OrderFails \/ OrderReturns \/ AnotherPromotion
             \/ \E t \in Target : ChooseTarget(t)
  BY <1>3, PromotionWork
<1>4. CASE ToggleAccount \/ GenerateCode \/ CodeMade \/ CodeFails \/ CodeArrives \/ SignOutFails
  BY <1>4, AccountWork
<1>5. CASE LooksForSession \/ PressSignIn \/ SignInFails \/ SignOut
  BY <1>5, SigningWork, SignOutWork
<1> QED  BY <1>1, <1>2, <1>3, <1>4, <1>5 DEF WorkNext

\* Another page is opened, in the same tab: the question on its way is for no page.
LEMMA WorkVisited == ASSUME WorkInv, NEW p \in Pages, WorkVisit(p) PROVE WorkInv'
<1> USE DEF WorkInv
<1>1. /\ page' = p /\ page # "sign-in" /\ p # "sign-in"
      /\ board' = Dropped(board) /\ promotion' = NoPromotion
      /\ question' = [question EXCEPT !.here = question.at = "idle"]
      /\ order' = [order EXCEPT !.here = order.at = "idle"]
      /\ UNCHANGED <<setup, who, signing, account, codes, asks, spoken, edition, runs, outages>>
  BY DEF WorkVisit, profile, Pages, PlatformPages, AccessPages
<1>2. board' \in Hook(Nat)
  BY <1>1, DroppedType DEF WorkTypeOK
<1>3. /\ question' \in Question /\ question'.at = question.at /\ question'.provider = question.provider
      /\ question'.conv = question.conv /\ question'.text = question.text
      /\ question.at # "idle" => ~question'.here
  <2>1. CASE question.at = "idle"
    BY <1>1, <2>1 DEF WorkTypeOK, Question
  <2>2. CASE question.at # "idle"
    BY <1>1, <2>2 DEF WorkTypeOK, Question
  <2> QED  BY <2>1, <2>2
<1>4. order' \in Order
  <2>1. CASE order.at = "idle"
    BY <1>1, <2>1 DEF WorkTypeOK, Order
  <2>2. CASE order.at # "idle"
    BY <1>1, <2>2 DEF WorkTypeOK, Order
  <2> QED  BY <2>1, <2>2
<1>5. promotion' \in Promotion
  BY <1>1 DEF NoPromotion, Promotion
<1>6. /\ chat' = None \/ chat' \in Chat
      /\ p = "assistant" => chat' \in Chat /\ Had(chat')
      /\ stored' = None \/ (stored' \in Chat /\ Had(stored'))
      /\ chats' \in Nat
  <2>0. stored = None \/ (stored \in Chat /\ Had(stored))
    BY DEF WorkTypeOK, AnswersStay, Had
  <2>1. CASE p = "assistant"
    <3>1. PICK default \in Provider : OpensAssistant(default)
      BY <2>1 DEF WorkVisit
    <3>2. CASE stored # None
      BY <2>0, <3>1, <3>2 DEF OpensAssistant, ShowsChat, WorkTypeOK
    <3>3. CASE stored = None
      <4>1. NewChat(default) \in Chat /\ DOMAIN NewChat(default).said = {}
        BY <1>1, NewChatType
      <4>2. Had(NewChat(default))
        BY <4>1 DEF Had
      <4>3. chat' = NewChat(default) /\ stored' = NewChat(default) /\ chats' = chats + 1
        BY <3>1, <3>3 DEF OpensAssistant, ShowsChat
      <4> QED  BY <4>1, <4>2, <4>3 DEF WorkTypeOK
    <3> QED  BY <3>2, <3>3
  <2>2. CASE p # "assistant"
    <3>1. chat' = None /\ UNCHANGED <<stored, chats>>
      BY <2>2 DEF WorkVisit
    <3> QED  BY <2>0, <2>2, <3>1 DEF WorkTypeOK
  <2> QED  BY <2>1, <2>2
<1>7. WorkTypeOK'
  BY <1>1, <1>2, <1>3, <1>4, <1>5, <1>6 DEF WorkTypeOK
<1>8. TabOK'
  BY <1>1, <1>6 DEF TabOK
<1>9. QuestionOK'
  BY <1>1, <1>3 DEF QuestionOK
<1>10. ChatOK' /\ AnswersStay'
  <2>1. p = "assistant" => Had(chat')
    BY <1>6
  <2>2. chat' = None \/ Had(chat')
    <3>1. CASE p = "assistant"
      BY <1>6, <3>1
    <3>2. CASE p # "assistant"
      BY <3>2 DEF WorkVisit
    <3> QED  BY <3>1, <3>2
  <2> QED  BY <1>1, <1>6, <2>1, <2>2 DEF ChatOK, AnswersStay, Had
<1> QED  BY <1>7, <1>8, <1>9, <1>10

LEMMA SignedOutWork == ASSUME WorkInv, SignedOut PROVE WorkInv'
<1> USE DEF WorkInv
<1>1. /\ page' = "sign-in" /\ who' = None /\ signing' = "looking"
      /\ chat' = None /\ board' = Dropped(board) /\ promotion' = NoPromotion
      /\ question' = NoQuestion /\ order' = NoOrder /\ account' = Closed
      /\ UNCHANGED <<setup, stored, chats, asks, spoken, edition, runs, codes, outages>>
  BY DEF SignedOut, Gone
<1>2. board' \in Hook(Nat)
  BY <1>1, DroppedType DEF WorkTypeOK
<1>3. promotion' \in Promotion /\ order' \in Order /\ account' \in Account
  <2>1. NoPromotion \in Promotion
    BY DEF NoPromotion, Promotion
  <2>2. NoOrder \in Order
    BY DEF NoOrder, Order
  <2>3. Closed \in Account
    BY DEF Closed, Account
  <2> QED  BY <1>1, <2>1, <2>2, <2>3
<1>4. WorkTypeOK' /\ TabOK'
  BY <1>1, <1>2, <1>3, NoQuestionType DEF WorkTypeOK, TabOK
<1>5. QuestionOK' /\ ChatOK' /\ AnswersStay'
  BY <1>1, NoQuestionType DEF QuestionOK, ChatOK, AnswersStay
<1> QED  BY <1>4, <1>5

LEMMA SignInWork == ASSUME WorkInv, NEW w \in Person, SignIn(w) PROVE WorkInv'
<1> USE DEF WorkInv
<1>1. /\ page = "sign-in" /\ signing' = "no" /\ who' = w /\ page' = "overview"
      /\ UNCHANGED <<setup, account, codes, chat, stored, chats, asks, question, spoken, board, edition,
                     promotion, order, runs, outages>>
  BY DEF SignIn, TabOK, assistant, release
<1>2. WorkTypeOK' /\ TabOK'
  BY <1>1, WorkAssumption DEF WorkTypeOK, TabOK, Pages, PlatformPages
<1>3. QuestionOK' /\ ChatOK' /\ AnswersStay'
  BY <1>1 DEF QuestionOK, ChatOK, AnswersStay
<1> QED  BY <1>2, <1>3

LEMMA WorkStarts ==
  ASSUME setup \in Setup, page \in Pages \ {"assistant"}, WorkInit PROVE WorkInv
<1> USE DEF WorkInv
<1>1. board \in Hook(Nat)
  BY NoHookType DEF WorkInit
<1>2. promotion \in Promotion /\ order \in Order /\ account \in Account
  <2>1. NoPromotion \in Promotion
    BY DEF NoPromotion, Promotion
  <2>2. NoOrder \in Order
    BY DEF NoOrder, Order
  <2>3. Closed \in Account
    BY DEF Closed, Account
  <2> QED  BY <2>1, <2>2, <2>3 DEF WorkInit
<1>3. WorkTypeOK
  BY <1>1, <1>2, NoQuestionType DEF WorkTypeOK, WorkInit
<1>4. TabOK
  BY WorkAssumption DEF TabOK, WorkInit, Pages, PlatformPages, AccessPages
<1>5. QuestionOK /\ ChatOK /\ AnswersStay
  BY NoQuestionType DEF QuestionOK, ChatOK, AnswersStay, WorkInit
<1> QED  BY <1>3, <1>4, <1>5

-----------------------------------------------------------------------------
(* The whole portal. *)

\* What leaves a part's variables alone leaves its invariant, whatever page is shown.
LEMMA EnvSame == ASSUME EnvInv, UNCHANGED envOnly PROVE EnvInv' /\ NoticeStep
<1> USE DEF EnvInv
<1>1. UNCHANGED <<env, minted, created, view, viewError, fetches, current, job, draft, attempt, issued,
                  earlier, dialog, notice, faults>>
  BY DEF envOnly, api, provider, form
<1>2. EnvTypeOK'
  BY <1>1 DEF EnvTypeOK
<1>3. KeysOK' /\ JobsOK' /\ FetchesOK'
  BY <1>1 DEF KeysOK, Made, JobsOK, FetchesOK
<1>4. NoticeStep
  BY <1>1 DEF NoticeStep
<1> QED  BY <1>2, <1>3, <1>4

LEMMA AccessSame == ASSUME AccessInv, UNCHANGED accessOnly PROVE AccessInv' /\ ShownStep
<1> USE DEF AccessInv
<1>1. UNCHANGED <<hidden, real, seen, voted, asked, replay, me, shown, want, step, preview, tried, keys, result,
                  opened, told, again, call, losses>>
  BY DEF accessOnly, teleport, wishes, decision
<1>2. AccessTypeOK'
  BY <1>1 DEF AccessTypeOK
<1>3. AskedOK' /\ FormOK' /\ SubmissionOK'
  BY <1>1 DEF AskedOK, FormOK, SubmissionOK
<1>4. DecisionOK'
  BY <1>1 DEF DecisionOK, Holds
<1>5. ReadsOK'
  BY <1>1 DEF ReadsOK, Orderly, NotAhead
<1> QED  BY <1>1, <1>2, <1>3, <1>4, <1>5, ShownStays

LEMMA WorkSame == ASSUME WorkInv, UNCHANGED <<setup, page, workOnly>> PROVE WorkInv'
<1> USE DEF WorkInv
<1>1. UNCHANGED <<setup, page, who, signing, account, codes, chat, stored, chats, asks, question, spoken,
                  board, edition, promotion, order, runs, outages>>
  BY DEF workOnly, profile, assistant, release
<1>2. WorkTypeOK'
  BY <1>1 DEF WorkTypeOK
<1>3. TabOK' /\ QuestionOK'
  BY <1>1 DEF TabOK, QuestionOK
<1>4. ChatOK' /\ AnswersStay'
  BY <1>1 DEF ChatOK, Had, AnswersStay
<1> QED  BY <1>2, <1>3, <1>4

\* Only the end of a creation opens a page by itself.
LEMMA EnvOpens == ASSUME EnvNext PROVE setup' = setup /\ page' \in {page, "environment"}
<1>1. CASE Poll \/ Retry \/ Submit \/ OpenDialog \/ CloseDialog \/ Delete \/ Elsewhere \/ ConfirmationArrives
  BY <1>1 DEF Poll, Retry, Submit, OpenDialog, CloseDialog, Delete, Elsewhere, ConfirmationArrives, shell
<1>2. CASE \E f \in fetches : Read(f) \/ Answered(f) \/ Unavailable(f)
  BY <1>2 DEF Read, Answered, Unavailable, Settle, shell
<1>3. CASE \E p \in Payload : Fill(p) \/ TemplateCreates(p)
  BY <1>3 DEF Fill, TemplateCreates, shell
<1>4. CASE \E what \in {"extend", "redeploy"} : Manage(what)
  BY <1>4 DEF Manage, shell
<1>5. CASE \E c \in Caller : CarryOut(c) \/ CallFails(c) \/ Refused(c) \/ Done(c)
  BY <1>5 DEF CarryOut, CallFails, Refused, Done, shell
<1> QED  BY <1>1, <1>2, <1>3, <1>4, <1>5 DEF EnvNext

LEMMA AccessStaysOnPage == ASSUME AccessNext PROVE UNCHANGED shell
<1>1. CASE AskMe \/ AskPage \/ Hide \/ Review \/ Edit \/ SubmitRequest \/ Another \/ Decide \/ Serve
  BY <1>1 DEF AskMe, AskPage, Hide, Review, Edit, SubmitRequest, Another, Decide, Serve
<1>2. CASE Loses \/ Fails \/ Previewed \/ Requested \/ Decided \/ Others \/ CacheCatchesUp \/ Forgets
  BY <1>2 DEF Loses, Fails, Previewed, Requested, Decided, Others, CacheCatchesUp, Forgets
<1>3. CASE \E a \in me.asks : ServeMe(a) \/ MeArrives(a) \/ \E s \in Failures : MeFails(a, s)
  BY <1>3 DEF ServeMe, MeArrives, MeFails, MeTakes
<1>4. CASE \E a \in shown.asks : ServePage(a) \/ PageArrives(a) \/ \E s \in Failures : PageFails(a, s)
  BY <1>4 DEF ServePage, PageArrives, PageFails, PageTakes
<1>5. CASE \/ \E w \in Wish : Choose(w)
           \/ \E r \in Theirs : OpenControls(r)
           \/ \E v \in {"none", "approve", "deny"} : ChooseVerb(v)
  BY <1>5 DEF Choose, OpenControls, ChooseVerb
<1> QED  BY <1>1, <1>2, <1>3, <1>4, <1>5 DEF AccessNext

LEMMA EnvStepKeeps ==
  ASSUME IInv, EnvStep PROVE IInv' /\ NoticeStep /\ ShownStep
<1> USE DEF IInv
<1>1. EnvNext /\ setup' = setup /\ page' \in {page, "environment"}
  BY EnvOpens DEF EnvStep, InTab
<1>2. EnvInv' /\ NoticeStep
  BY <1>1, EnvSteps, EnvStepsNotice
<1>3. CASE page' = page
  <2>1. UNCHANGED <<setup, page, accessOnly, workOnly>>
    BY <1>1, <1>3 DEF EnvStep, InTab
  <2> QED  BY <1>2, <2>1, AccessSame, WorkSame
<1>4. CASE page' # page
  <2>1. AccessVisit("environment") /\ WorkVisit("environment")
    BY <1>1, <1>4 DEF EnvStep, InTab
  <2>2. "environment" \in Pages
    BY DEF Pages, PlatformPages
  <2>3. AccessInv' /\ ShownStep
    BY <2>1, AccessVisited
  <2>4. WorkInv'
    BY <2>1, <2>2, WorkVisited
  <2> QED  BY <1>2, <2>3, <2>4
<1> QED  BY <1>3, <1>4

LEMMA Steps == ASSUME IInv, [Next]_vars PROVE IInv' /\ NoticeStep /\ ShownStep
<1> USE DEF IInv
<1>1. CASE EnvStep
  BY <1>1, EnvStepKeeps
<1>2. CASE AccessStep
  <2>1. AccessNext /\ UNCHANGED <<setup, page, envOnly, workOnly>>
    BY <1>2, AccessStaysOnPage DEF AccessStep, shell
  <2> QED  BY <2>1, AccessSteps, EnvSame, WorkSame
<1>3. CASE WorkStep
  <2>1. WorkNext /\ UNCHANGED <<envOnly, accessOnly>>
    BY <1>3 DEF WorkStep
  <2> QED  BY <2>1, WorkSteps, EnvSame, AccessSame
<1>4. CASE LeavesTab
  <2>1. SignedOut /\ EnvUnload /\ AccessUnload
    BY <1>4 DEF LeavesTab
  <2>2. NoticeStep
    BY <2>1 DEF EnvUnload, NoticeStep
  <2> QED  BY <2>1, <2>2, SignedOutWork, EnvUnloaded, AccessUnloaded
<1>5. CASE \E w \in Person : EntersTab(w)
  <2>1. PICK w \in Person : SignIn(w) /\ UNCHANGED <<envOnly, accessOnly>>
    BY <1>5 DEF EntersTab
  <2> QED  BY <2>1, SignInWork, EnvSame, AccessSame
<1>6. CASE \E p \in Pages : Visit(p)
  <2>1. PICK p \in Pages : EnvVisit(p) /\ AccessVisit(p) /\ WorkVisit(p)
    BY <1>6 DEF Visit
  <2>2. NoticeStep
    BY <2>1 DEF EnvVisit, NoticeStep
  <2> QED  BY <2>1, <2>2, EnvVisited, AccessVisited, WorkVisited
<1>7. CASE UNCHANGED vars
  <2>1. UNCHANGED <<setup, page, envOnly, accessOnly, workOnly>>
    BY <1>7 DEF vars, shell
  <2> QED  BY <2>1, EnvSame, AccessSame, WorkSame
<1> QED  BY <1>1, <1>2, <1>3, <1>4, <1>5, <1>6, <1>7 DEF Next

\* The three invariants hold together, always.
LEMMA Invariant == Spec => []IInv
<1>1. Init => IInv
  BY EnvStarts, AccessStarts, WorkStarts DEF Init, IInv
<1>2. IInv /\ [Next]_vars => IInv'
  BY Steps
<1> QED  BY <1>1, <1>2, PTL DEF Spec

\* Every variable of the portal stays in its set, for any requests, people, drafts, providers
\* and bounds (the reducers and hooks of packages/portal).
THEOREM TypeCorrect == Spec => []TypeOK
<1>1. IInv => TypeOK
  BY DEF IInv, EnvInv, AccessInv, WorkInv, TypeOK
<1> QED  BY <1>1, Invariant, PTL

\* What one form creates twice was filled in twice, with something else submitted in between,
\* however often the calls are retried and however their answers are lost (submit of the
\* creation page).
THEOREM CreatedOncePerForm == Spec => []OneCreationPerForm
<1>1. IInv => OneCreationPerForm
  BY KeysTellForms DEF IInv
<1> QED  BY <1>1, Invariant, PTL

\* The request that the form reports is for what was asked last, whatever was retried,
\* changed or asked for before (submit of the request page and its idempotency key).
THEOREM ReportsTrue == Spec => []ReportedIsWhatWasAsked
<1>1. IInv => ReportedIsWhatWasAsked
  BY DEF IInv, AccessInv, FormOK, ReportedIsWhatWasAsked
<1> QED  BY <1>1, Invariant, PTL

\* A decision that a page reports is the one Teleport holds, also when others decide the same
\* request at the same time and when the page's own data are old; an approval of a request that
\* takes several is at least a review that Teleport took, and the request may be pending still,
\* or be denied by another (DecisionControls, decide, resolve).
THEOREM DecisionsTrue == Spec => []ReportedDecisionHolds
<1>1. IInv => ReportedDecisionHolds
  BY DEF IInv, AccessInv, DecisionOK, ReportedDecisionHolds
<1> QED  BY <1>1, Invariant, PTL

\* No answer of the agent gets into a conversation that it was not given in, through changes
\* of page and provider, new conversations and signing out (Assistant).
THEOREM AnswersKept == Spec => []AnswersStay
<1>1. IInv => AnswersStay
  BY DEF IInv, WorkInv
<1> QED  BY <1>1, Invariant, PTL

\* A notice that something was done appears with a state of the environment that has it, or
\* with the warning that the data are old, whatever polls and refreshes overlap (refresh, mutate).
THEOREM NoticesAreShown == Spec => NoticeIsShown
<1>1. IInv /\ [Next]_vars => [notice' # notice /\ notice' # 0 => view'.gen >= notice' \/ viewError']_vars
  BY Steps DEF NoticeStep
<1> QED  BY <1>1, Invariant, PTL DEF Spec, NoticeIsShown

\* On a page that stays, no request goes back to an earlier state: of several reads in flight
\* only the answer to the latest is taken, and none was served from a cache that went back
\* (useAccess, version).
THEOREM ShownNeverOlder == Spec => NeverOlder
<1>1. IInv /\ [Next]_vars =>
        [page' = page /\ shown.data # None /\ shown'.data # None =>
           \A r \in AccessRequest : Rank(shown'.data[r]) >= Rank(shown.data[r])]_vars
  BY Steps DEF ShownStep
<1> QED  BY <1>1, Invariant, PTL DEF Spec, NeverOlder
=============================================================================
