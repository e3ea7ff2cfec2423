-------------------------- MODULE TeleportRequests --------------------------
(***************************************************************************)
(* Access requests as Teleport keeps them: external to the repository, and *)
(* modelled from how internal/teleportaccess/broker uses the API and from  *)
(* its test double (internal/teleportaccess/teleport/fake).  A decision is *)
(* accepted while the request is pending and is final; where reviews are   *)
(* submitted it takes Threshold approvals, and one denial.  Every change   *)
(* is put on the event stream of a connected watcher, with the state it led to; requests *)
(* nobody decided lapse without an event the broker looks at.              *)
(***************************************************************************)
EXTENDS Integers, FiniteSets, Sequences

CONSTANTS
  Request,     \* access requests, by their full ids
  User,        \* Teleport users who may decide requests
  Bot,         \* the broker's own identity
  None,
  Threshold,   \* approvals a reviewed request takes
  Elsewhere,   \* what tctl and the web UI may do to a request
  Lifetime,    \* how long Teleport keeps a request nobody decided
  MaxNow       \* bound: the clock stops here

ASSUME TeleportAssumption ==
  /\ Bot \notin User /\ Threshold \in Nat \ {0}
  /\ Elsewhere \subseteq {"approved", "denied", "promoted"}
  /\ Lifetime \in Nat \ {0} /\ MaxNow \in Nat

VARIABLES
  now,
  state,      \* AccessRequest.GetState
  how,        \* the annotation access-broker/mode of the update that decided it
  votes,      \* authors of the approving reviews
  born,       \* AccessRequest.GetCreationTime
  connected,  \* a watcher is connected
  stream      \* its events, oldest first

teleportVars == <<now, state, how, votes, born, connected, stream>>

State   == {"none", "pending", "approved", "denied", "promoted", "gone"}
Mode    == {"auto", "chat", "portal", "external"}
Event   == [req : Request, st : State]
Decided == {"approved", "denied", "promoted"}

TeleportTypeOK ==
  /\ now \in Nat
  /\ state \in [Request -> State]
  /\ how \in [Request -> Mode \cup {None}]
  /\ votes \in [Request -> SUBSET (User \cup {Bot})]
  /\ born \in [Request -> Nat]
  /\ connected \in BOOLEAN
  /\ stream \in Seq(Event)

TeleportInit ==
  /\ now = 0
  /\ state = [r \in Request |-> "none"]
  /\ how = [r \in Request |-> None]
  /\ votes = [r \in Request |-> {}]
  /\ born = [r \in Request |-> 0]
  /\ connected = FALSE /\ stream = <<>>

Pending == {r \in Request : state[r] = "pending"}

\* OpPut, to a connected watcher only.
Emit(r, s) == stream' = IF connected THEN Append(stream, [req |-> r, st |-> s]) ELSE stream

\* A request enters a state.
Enter(r, s, m) ==
  /\ state' = [state EXCEPT ![r] = s]
  /\ how' = [how EXCEPT ![r] = m]
  /\ Emit(r, s)
  /\ UNCHANGED <<now, born, connected>>

\* SetAccessRequestState.
SetState(r, s, m) == Enter(r, s, m) /\ UNCHANGED votes

\* SubmitAccessReview: a denial decides, an approval when it is the last one needed.
Review(author, r, s, m) ==
  /\ votes' = IF s = "approved" THEN [votes EXCEPT ![r] = votes[r] \cup {author}] ELSE votes
  /\ IF s = "denied" \/ Cardinality(votes[r]) + 1 >= Threshold
       THEN Enter(r, s, m)
       ELSE Emit(r, "pending") /\ UNCHANGED <<now, state, how, born, connected>>

\* Whether Teleport takes a state, and an author's review.
TakesState(r) == state[r] = "pending"
TakesReview(author, r) == TakesState(r) /\ author \notin votes[r]

-----------------------------------------------------------------------------
\* The requester creates the request.
Submit(r) ==
  /\ state[r] = "none"
  /\ state' = [state EXCEPT ![r] = "pending"]
  /\ born' = [born EXCEPT ![r] = now]
  /\ Emit(r, "pending")
  /\ UNCHANGED <<now, how, votes, connected>>

\* Somebody decides it without the broker (tctl, the web UI, another plugin).
DecideElsewhere(r, s) ==
  /\ state[r] = "pending" /\ s \in Elsewhere
  /\ Enter(r, s, "external") /\ UNCHANGED votes

Lapse(r) ==
  /\ state[r] = "pending" /\ now >= born[r] + Lifetime
  /\ state' = [state EXCEPT ![r] = "gone"]
  /\ UNCHANGED <<now, how, votes, born, connected, stream>>

\* The clock; Teleport does not keep a request beyond its lifetime.
Tick ==
  /\ now < MaxNow /\ \A r \in Pending : now < born[r] + Lifetime
  /\ now' = now + 1
  /\ UNCHANGED <<state, how, votes, born, connected, stream>>
=============================================================================
