------------------------------- MODULE Portal -------------------------------
(***************************************************************************)
(* The whole portal: its pages share one router, one back end and one tab. *)
(* Opening a page takes the one before away, whatever that had under way;  *)
(* a creation that is done opens its environment's page, wherever the      *)
(* person is by then; signing out loads the tab anew.                      *)
(***************************************************************************)
EXTENDS PortalEnvironments, PortalAccess, PortalWork

envOnly == <<api, provider, job, form, dialog, notice, faults>>
accessOnly == <<hidden, teleport, me, shown, wishes, decision, call, losses>>
workOnly == <<profile, assistant, board, edition, release, outages>>
vars == <<shell, envOnly, accessOnly, workOnly>>

TypeOK == EnvTypeOK /\ AccessTypeOK /\ WorkTypeOK

Init ==
  /\ setup \in Setup /\ page \in Pages \ {"assistant"}
  /\ EnvInit /\ AccessInit /\ WorkInit

-----------------------------------------------------------------------------
Visit(p) == page # "sign-in" /\ EnvVisit(p) /\ AccessVisit(p) /\ WorkVisit(p)

\* What an environment's page does, with what it may do to the page that is shown.
InTab(A) ==
  /\ page # "sign-in" /\ A
  /\ IF page' = page
       THEN UNCHANGED <<accessOnly, workOnly>>
       ELSE AccessVisit(page') /\ WorkVisit(page')

EnvStep == InTab(EnvNext)
AccessStep == AccessNext /\ UNCHANGED <<envOnly, workOnly>>
WorkStep == WorkNext /\ UNCHANGED <<envOnly, accessOnly>>

\* The tab loads anew for the sign-in page, and the app again once someone has signed in.
LeavesTab ==
  /\ SignedOut
  /\ EnvUnload /\ AccessUnload

EntersTab(w) ==
  /\ SignIn(w)
  /\ UNCHANGED <<envOnly, accessOnly>>

Next ==
  \/ EnvStep \/ AccessStep \/ WorkStep \/ LeavesTab
  \/ \E w \in Person : EntersTab(w)
  \/ \E p \in Pages : Visit(p)

-----------------------------------------------------------------------------
\* Every refresh ends one way or the other, and the timer goes on; a call ends, for the back
\* end gives every one of them a time; and a function runs on once its call has ended.
Refreshing(i) == \E f \in fetches : f.id = i /\ (Read(f) \/ Answered(f) \/ Unavailable(f))
Calling(c) == CarryOut(c) \/ CallFails(c) \/ Refused(c) \/ Done(c) \/ (c = "deletion" /\ ConfirmationArrives)

Fairness ==
  /\ WF_vars(InTab(Poll))
  /\ \A i \in 1 .. MaxFetches : WF_vars(InTab(Refreshing(i)))
  /\ \A c \in Caller : WF_vars(InTab(Calling(c)))

Spec == Init /\ [][Next]_vars /\ Fairness

-----------------------------------------------------------------------------
\* A notice about what was done is shown with a state of the environment in which it was
\* done, or next to the warning that the data shown are old (refresh, mutate).
NoticeIsShown ==
  [][notice' # notice /\ notice' # 0 => view'.gen >= notice' \/ viewError']_vars

\* Whatever polls, retries and calls overlap, the pages get to show what the lifecycle API
\* has (PlatformProvider).
ShownCatchesUp == setup.platform => []<>(view = env \/ page = "sign-in")

\* What one form creates twice was filled in twice, with something else submitted in between:
\* a press again after a lost answer creates nothing, whatever has become of the first
\* environment meanwhile (submit).
OneCreationPerForm ==
  \A m, n \in created :
    earlier < m.key /\ m.key < n.key /\ m.payload = n.payload =>
      \E k \in m.key .. n.key : issued[k] # m.payload

Rank(s) == IF s \in {"approved", "denied"} THEN 2 ELSE IF s = "pending" THEN 1 ELSE 0

\* While a page stays, no request on it goes back to an earlier state, however its reads
\* overlap and whatever order their answers come in (useAccess).
NeverOlder ==
  [][page' = page /\ shown.data # None /\ shown'.data # None =>
       \A r \in AccessRequest : Rank(shown'.data[r]) >= Rank(shown.data[r])]_vars

\* The request that the form reports is for what it was asked for, after any retries,
\* changes of mind and requests for another (submit, idempotency).
ReportedIsWhatWasAsked == step = "done" => asked[result].wish = tried

\* A decision that a page reports is the one that Teleport holds, unless it is an approval of
\* a request that takes several: then Teleport holds the person's review, and may have the
\* request pending, or denied by another (DecisionControls, decide, resolve).
ReportedDecisionHolds == told.of # None => Holds(told.of, told.verb)

\* Every exchange of a conversation, shown or stored, was had under its id and with its
\* provider (Assistant).
AnswersStay ==
  \A c \in {chat, stored} \ {None} :
    \A i \in DOMAIN c.said :
      /\ c.said[i].conv = c.id /\ c.said[i].provider = c.provider
      /\ c.said[i] \in spoken
=============================================================================
