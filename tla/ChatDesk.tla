------------------------------ MODULE ChatDesk ------------------------------
(***************************************************************************)
(* What the lifecycle API keeps for the chat agent: link codes, the links  *)
(* between chat accounts and subjects, and the outbox of notices with its  *)
(* leases (internal/platform/api.go, "internal").  Every operation is one  *)
(* transaction of the store.                                               *)
(*                                                                         *)
(* The clock is left out: a code lapses, and a lease ends, at any time.    *)
(* The delay of a lease doubles up to an hour with each attempt; any delay *)
(* is allowed here.  What makes and cancels notices is the subject of      *)
(* LifecycleStore; here they come and are superseded at any time.          *)
(***************************************************************************)
EXTENDS Integers, FiniteSets

CONSTANTS
  Subject,      \* who owns environments
  Configured,   \* the subjects auth.users lists
  Person,       \* chat accounts: channel, tenant and user
  Place,        \* conversations a link's destination can name
  Code, CodeOf, \* link codes, and the subject each is issued to
  Notice, Owner,\* notices, and whom each is for
  None,
  Batch         \* notices leased at a time: 20

ASSUME DeskAssumption ==
  /\ Configured \subseteq Subject /\ None \notin Subject
  /\ CodeOf \in [Code -> Subject] /\ Owner \in [Notice -> Subject]
  /\ IsFiniteSet(Notice) /\ Batch \in Nat \ {0}

VARIABLES
  codes,      \* st.LinkCodes: codes not issued yet, alive, and deleted
  links,      \* st.Links
  open,       \* notices neither delivered nor cancelled
  cancelled, delivered,
  leased      \* those whose NotBefore is still to come

outbox == <<open, cancelled, delivered, leased>>
deskVars == <<codes, links, outbox>>

-----------------------------------------------------------------------------
Link == [subject : Subject, place : Place, code : Code]

NoLink == [subject |-> None, place |-> None, code |-> None]

DeskTypeOK ==
  /\ codes \in [Code -> {"new", "live", "gone"}]
  /\ links \in [Person -> Link \cup {NoLink}]
  /\ open \subseteq Notice /\ cancelled \subseteq Notice /\ delivered \subseteq Notice
  /\ leased \subseteq Notice

DeskInit ==
  /\ codes = [c \in Code |-> "new"]
  /\ links = [p \in Person |-> NoLink]
  /\ open = {} /\ cancelled = {} /\ delivered = {} /\ leased = {}

-----------------------------------------------------------------------------
\* POST /v1/link-code, by the subject it is for.
IssueCode(c) ==
  /\ codes[c] = "new" /\ CodeOf[c] \in Configured
  /\ codes' = [codes EXCEPT ![c] = "live"]
  /\ UNCHANGED <<links, outbox>>

\* Five minutes are over.
LapseCode(c) ==
  /\ codes[c] = "live"
  /\ codes' = [codes EXCEPT ![c] = "gone"]
  /\ UNCHANGED <<links, outbox>>

\* Variant: the code is looked at and left.
MakeLinkOnly(p, place, c) ==
  /\ codes[c] = "live"
  /\ links' = [links EXCEPT ![p] = [subject |-> CodeOf[c], place |-> place, code |-> c]]
  /\ UNCHANGED <<codes, outbox>>

\* /internal/link: the code is spent on the link, which replaces any earlier one.
MakeLink(p, place, c) ==
  /\ codes[c] = "live"
  /\ links' = [links EXCEPT ![p] = [subject |-> CodeOf[c], place |-> place, code |-> c]]
  /\ codes' = [codes EXCEPT ![c] = "gone"]
  /\ UNCHANGED outbox

\* /internal/identity answers.
Known(p) == links[p] # NoLink /\ links[p].subject \in Configured

-----------------------------------------------------------------------------
Announce(n) ==
  /\ n \notin open \cup cancelled \cup delivered
  /\ open' = open \cup {n}
  /\ UNCHANGED <<codes, links, cancelled, delivered, leased>>

Supersede(n) ==
  /\ n \in open
  /\ open' = open \ {n} /\ cancelled' = cancelled \cup {n}
  /\ UNCHANGED <<codes, links, delivered, leased>>

\* The destinations of a notice.
Destinations(n) == {links[p].place : p \in {q \in Person : links[q].subject = Owner[n]}}

\* Notices whose turn it is and that somebody can be told.
Due == {n \in open : n \notin leased /\ Owner[n] \in Configured /\ Destinations(n) # {}}

\* /internal/notifications: which notices a batch may consist of, and the lease.
Batches ==
  {S \in SUBSET Due : Cardinality(S) = Batch \/ (S = Due /\ Cardinality(S) < Batch)}

Lease(S) ==
  /\ S \in Batches
  /\ leased' = leased \cup S
  /\ UNCHANGED <<codes, links, open, cancelled, delivered>>

LeaseOver(n) ==
  /\ n \in leased
  /\ leased' = leased \ {n}
  /\ UNCHANGED <<codes, links, open, cancelled, delivered>>

\* /internal/notifications/valid.
Valid(n) == n \in open

\* /internal/notifications/ack: delivered, whatever it was before.
Acknowledge(n) ==
  /\ open' = open \ {n} /\ delivered' = delivered \cup {n}
  /\ UNCHANGED <<codes, links, cancelled, leased>>
=============================================================================
