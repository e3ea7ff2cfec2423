----------------------------- MODULE PortalShell -----------------------------
(***************************************************************************)
(* What the portal's pages share: the back end that passes their calls on, *)
(* the page that is shown, and the hook by which a page reads what it      *)
(* shows (useResource and useAccess).  A call is named by the last part of *)
(* its path; what else is in the path or the query is data.                *)
(***************************************************************************)
EXTENDS Integers, FiniteSets

CONSTANTS None

VARIABLES
  setup,   \* which mappings and services app-config names
  page     \* the page shown

shell == <<setup, page>>

-----------------------------------------------------------------------------
(* The back end (packages/backend). *)

Setup == [platform : BOOLEAN,   \* platform.identities maps the user
          access : BOOLEAN,     \* teleport.portalUrl and serviceToken are set
          teleport : BOOLEAN,   \* teleportSubject finds a Teleport subject
          approver : BOOLEAN]   \* which holds an approver role

\* What a page makes of an answer: 200, 403, 404, 503, or none that it could read.
Answers == {"ok", "refused", "unknown", "unconfigured", "unreached"}

PlatformRoutes ==
  {"me", "environments", "operations", "extend", "confirm-delete", "destroy", "redeploy",
   "diagnostics", "tools", "promotions", "policies", "link-code", "audit", "agent"}

AccessReads ==
  {"me", "cluster", "roles", "requestable-roles", "resources", "approvers", "requests",
   "request", "approvals"}

AccessWrites == {"requests", "preview", "approve", "deny"}

\* The first check that a call under /access fails, or "ok" when it is forwarded.
AccessStatus(call, known) ==
  IF ~setup.access THEN "unconfigured"
  ELSE IF ~setup.teleport THEN "refused"
  ELSE IF call \in known THEN "ok" ELSE "unknown"

\* The same for the other calls.
PlatformStatus(call) ==
  IF ~setup.platform THEN "refused"
  ELSE IF call \in PlatformRoutes THEN "ok" ELSE "unknown"

\* A service that does not answer in time, or at all, is caught and told as a refusal; the
\* browser may also not reach the back end.
Failures == {"refused", "unreached"}

-----------------------------------------------------------------------------
(* Pages. *)

PlatformPages == {"overview", "new", "environment", "releases", "tools", "policies", "assistant"}
AccessPages == {"my-access", "roles", "role", "request", "requests", "detail", "approvals"}
Pages == PlatformPages \cup AccessPages

-----------------------------------------------------------------------------
(* A hook: what it shows, the kind of the last answer it took, and its reads in flight.  A  *)
(* read is live while version.current is its own: then it is the latest, and its page there.*)

Ask(D) == [live : BOOLEAN, data : D \cup {None}, status : Answers \cup {"none"}]
Hook(D) == [data : D \cup {None}, status : Answers \cup {"none"}, asks : SUBSET Ask(D)]
NoHook == [data |-> None, status |-> "none", asks |-> {}]
NewAsk == [live |-> TRUE, data |-> None, status |-> "none"]

\* Variant: an answer is taken whatever was asked since.
AnyAnswer(h) == [h EXCEPT !.asks = @ \cup {NewAsk}]

\* reload: a new version, so that the answers to earlier reads are not for this one.
Asking(h) == [h EXCEPT !.asks = {[a EXCEPT !.live = FALSE] : a \in @} \cup {NewAsk}]

\* A page that goes away takes its data along; its reads are for no one.
Dropped(h) == [NoHook EXCEPT !.asks = {[a EXCEPT !.live = FALSE] : a \in h.asks}]

\* The service reads d for one of the hook's questions, or the back end stops it.
Served(h, a, status, d) ==
  [h EXCEPT !.asks = (@ \ {a}) \cup
     {[a EXCEPT !.status = status, !.data = IF status = "ok" THEN d ELSE None]}]

\* Its answer arrives and is taken if the read is live; the data of an earlier answer stay
\* when this one is an error.
Taken(h, a) ==
  LET rest == [h EXCEPT !.asks = @ \ {a}] IN
  IF ~a.live THEN rest
  ELSE IF a.status = "ok" THEN [rest EXCEPT !.status = "ok", !.data = a.data]
  ELSE [rest EXCEPT !.status = a.status]

\* The read fails on the way, as s: nothing of what the service said arrives.
FailsAs(h, a, s) ==
  Taken([h EXCEPT !.asks = @ \ {a}], [a EXCEPT !.status = s, !.data = None])

\* What a page says when it shows neither its data nor an error about them.
Loading(h) == h.data = None /\ h.status = "none"
=============================================================================
