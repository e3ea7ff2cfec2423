------------------------------- MODULE Preview ------------------------------
(***************************************************************************)
(* What the lifecycle API promises about preview environments, without     *)
(* operations, workers, clocks or restarts: somebody asks for a revision or *)
(* for nothing, the namespace is worked on only while the environment says  *)
(* so, and "ready" and "deleted" are said only of a namespace that holds    *)
(* what was asked for last.                                                 *)
(***************************************************************************)
CONSTANTS Env, Rev, None, Absent, Partial

VARIABLES
  want,     \* the revision asked for last, or Absent
  status,   \* what the API shows
  holds     \* what the namespace holds

vars == <<want, status, holds>>

Content == Rev \cup {None, Absent, Partial}

Init ==
  /\ want = [e \in Env |-> Absent]
  /\ status = [e \in Env |-> "none"]
  /\ holds = [e \in Env |-> Absent]

\* A creation or a redeployment is accepted: never while a teardown is under way.
Ask(e, r) ==
  /\ status[e] # "deleting"
  /\ want' = [want EXCEPT ![e] = r]
  /\ status' = [status EXCEPT ![e] = "pending"]
  /\ UNCHANGED holds

\* Environments are given up: one by its owner, or several that expired at once.
Retire(E) ==
  /\ \A e \in E : status[e] # "none"
  /\ want' = [e \in Env |-> IF e \in E THEN Absent ELSE want[e]]
  /\ status' = [e \in Env |-> IF e \in E THEN "deleting" ELSE status[e]]
  /\ UNCHANGED holds

\* The namespace changes, in any way, while the environment is on its way somewhere.
Work(e, c) ==
  /\ status[e] \in {"pending", "deleting"}
  /\ holds' = [holds EXCEPT ![e] = c]
  /\ UNCHANGED <<want, status>>

Succeed(e) ==
  /\ status[e] \in {"pending", "deleting"}
  /\ holds[e] = want[e]
  /\ status' = [status EXCEPT ![e] = IF @ = "pending" THEN "ready" ELSE "deleted"]
  /\ UNCHANGED <<want, holds>>

Fail(e) ==
  /\ status[e] = "pending"
  /\ status' = [status EXCEPT ![e] = "failed"]
  /\ UNCHANGED <<want, holds>>

Next ==
  \/ \E E \in SUBSET Env : Retire(E)
  \/ \E e \in Env :
       \/ \E r \in Rev : Ask(e, r)
       \/ \E c \in Content : Work(e, c)
       \/ Succeed(e) \/ Fail(e)

Spec == Init /\ [][Next]_vars
=============================================================================
