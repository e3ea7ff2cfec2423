---------------------------- MODULE AccessPromise ----------------------------
(***************************************************************************)
(* What the access broker promises about a request, without saying how:    *)
(* Teleport rules on it once; approvers are asked to look at it at most    *)
(* once; and a ruling is told only after it was made, as it was made.      *)
(***************************************************************************)
EXTENDS FiniteSets

CONSTANTS Request

VARIABLES
  ruling,  \* Teleport's, "open" until there is one
  asked,   \* the requests approvers were asked about
  told     \* the rulings told to the chat agent, per request

promiseVars == <<ruling, asked, told>>

Ruling == {"approved", "denied", "lapsed"}

PromiseInit ==
  /\ ruling = [r \in Request |-> "open"]
  /\ asked = {}
  /\ told = [r \in Request |-> {}]

Rule(r, v) ==
  /\ ruling[r] = "open" /\ v \in Ruling
  /\ ruling' = [ruling EXCEPT ![r] = v]
  /\ UNCHANGED <<asked, told>>

Ask(r) ==
  /\ r \notin asked
  /\ asked' = asked \cup {r}
  /\ UNCHANGED <<ruling, told>>

Tell(r) ==
  /\ ruling[r] \in {"approved", "denied"}
  /\ told' = [told EXCEPT ![r] = {ruling[r]}]
  /\ UNCHANGED <<ruling, asked>>

PromiseNext == \E r \in Request : Ask(r) \/ Tell(r) \/ \E v \in Ruling : Rule(r, v)

PromiseSpec == PromiseInit /\ [][PromiseNext]_promiseVars
=============================================================================
