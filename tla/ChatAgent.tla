------------------------------ MODULE ChatAgent ------------------------------
(***************************************************************************)
(* The chat agent (services/agent): one Node process that answers messages *)
(* from chat platforms and questions from the portal, and passes notices   *)
(* on.  Code between two awaits runs undisturbed, so each action here is   *)
(* what happens from one await to the next.                                *)
(*                                                                         *)
(* A message's text is reduced to whether it is a link command.  The model *)
(* and the tools it calls are one step: what matters is that they ran.     *)
(* Signatures and tenant lists decide which messages are let in at all;    *)
(* Message holds those that are.                                           *)
(***************************************************************************)
EXTENDS ChatDesk

CONSTANTS
  Message,     \* messages let in, and questions from the portal
  Mail,        \* what each of them says
  Talk,        \* conversations
  Provider, Providers,   \* model providers, and those configured
  MaxActive,   \* AGENT_CONCURRENCY
  Dead,        \* places where nothing can be sent any more
  Unlimited,   \* places where sending has no time limit: those in Google Chat
  MaxMishaps   \* bound: crashes, stops, calls and writes that fail

ASSUME AgentAssumption ==
  /\ Mail \in [Message ->
       [route : {"chat"}, by : Person, place : Place, talk : Talk, private : BOOLEAN,
        code : Code \cup {None}, provider : Provider] \cup
       [route : {"portal"}, by : Subject, talk : Talk, code : {None}, provider : Provider]]
  /\ None \notin Code /\ Providers \subseteq Provider /\ None \notin Provider
  /\ IsFiniteSet(Message) /\ MaxActive \in Nat \ {0}
  /\ Dead \subseteq Place /\ Unlimited \subseteq Place /\ MaxMishaps \in Nat

VARIABLES
  up,         \* the process: off, on, or closing after a signal
  receipts,   \* receipts on disk
  task,       \* what is being done about each message
  active, locks,   \* the two module variables of these names
  session,    \* session.json of each conversation: the turns it holds, and its provider
  round,      \* the notification timer's run
  reached,    \* which notices were posted where
  asked,      \* how often the model was run for a message
  mishaps

taskVars == <<task, active, locks>>
disk == <<receipts, session>>
agentVars == <<up, disk, taskVars, round, reached, asked, mishaps>>
vars == <<deskVars, agentVars>>

-----------------------------------------------------------------------------
\* The lock's key: a subject's conversation.
Conversation == Subject \X Talk

Session == [provider : Provider \cup {None}, turns : SUBSET Message]
NoSession == [provider |-> None, turns |-> {}]

Phase == {"none", "link", "identify", "open", "model", "say", "sorry", "done"}
Answer == {"refused", "linked", "busy", "answer"}

Task ==
  [phase : Phase, subject : Subject \cup {None}, read : Session, say : Answer \cup {None}]

NoTask == [phase |-> "none", subject |-> None, read |-> NoSession, say |-> None]

Item == [notice : Notice, places : SUBSET Place]

Round ==
  [phase : {"idle"}, items : {{}}, notice : {None}, places : {{}}, left : {{}}] \cup
  [phase : {"next"}, items : SUBSET Item, notice : {None}, places : {{}}, left : {{}}] \cup
  [phase : {"send"}, items : SUBSET Item, notice : Notice, places : SUBSET Place,
   left : SUBSET Place]

NoRound == [phase |-> "idle", items |-> {}, notice |-> None, places |-> {}, left |-> {}]

AgentTypeOK ==
  /\ up \in {"off", "on", "closing"}
  /\ receipts \subseteq Message
  /\ task \in [Message -> Task]
  /\ active \in Int
  /\ locks \subseteq Conversation
  /\ session \in [Conversation -> Session]
  /\ round \in Round
  /\ reached \subseteq Notice \X Place
  /\ asked \in [Message -> Nat]
  /\ mishaps \in Nat

AgentInit ==
  /\ up = "off"
  /\ receipts = {}
  /\ task = [m \in Message |-> NoTask]
  /\ active = 0 /\ locks = {}
  /\ session = [k \in Conversation |-> NoSession]
  /\ round = NoRound
  /\ reached = {} /\ asked = [m \in Message |-> 0] /\ mishaps = 0

-----------------------------------------------------------------------------
FromChat(m) == Mail[m].route = "chat"

Key(m) == <<task[m].subject, Mail[m].talk>>

\* Something outside fails.
Mishap == mishaps < MaxMishaps /\ mishaps' = mishaps + 1

\* The task of m goes on to phase ph; a reply is one of the answers.
Goes(m, ph) == task' = [task EXCEPT ![m].phase = ph]
Says(m, what) == task' = [task EXCEPT ![m].phase = "say", ![m].say = what]

\* Variant: the portal is not told.
GivesUpSilently(m) == active' = active - 1 /\ Goes(m, "sorry")

\* A question failed, and is counted no more: an apology to the chat, a status to the portal.
GivesUp(m) ==
  /\ active' = active - 1
  /\ Goes(m, IF FromChat(m) THEN "sorry" ELSE "done")

-----------------------------------------------------------------------------
(* Messages come in. *)

\* processMessage: the receipt is created, exclusively, or exists and nothing is done.
Receive(m) ==
  /\ up = "on" /\ FromChat(m)
  /\ m \notin receipts /\ receipts' = receipts \cup {m}
  /\ IF ~Mail[m].private THEN Says(m, "refused")
     ELSE Goes(m, IF Mail[m].code # None THEN "link" ELSE "identify")
  /\ UNCHANGED <<deskVars, up, active, locks, session, round, reached, asked, mishaps>>

\* /internal/ask: counted at once, then checked with the lifecycle API.
Question(m) ==
  /\ up = "on" /\ ~FromChat(m) /\ task[m].phase = "none"
  /\ active < MaxActive /\ active' = active + 1
  /\ task' = [task EXCEPT ![m].phase = "identify", ![m].subject = Mail[m].by]
  /\ UNCHANGED <<deskVars, up, disk, locks, round, reached, asked, mishaps>>

\* /link: done, or refused; or the call fails, having taken effect or not.
SendLink(m) ==
  /\ task[m].phase = "link"
  /\ \/ MakeLink(Mail[m].by, Mail[m].place, Mail[m].code) /\ Says(m, "linked") /\ UNCHANGED mishaps
     \/ codes[Mail[m].code] # "live" /\ Goes(m, "sorry") /\ UNCHANGED <<deskVars, mishaps>>
     \/ /\ Mishap /\ Goes(m, "sorry")
        /\ UNCHANGED deskVars \/ MakeLink(Mail[m].by, Mail[m].place, Mail[m].code)
  /\ UNCHANGED <<up, disk, active, locks, round, reached, asked>>

\* Variant: a conversation is not looked up among the locks.
FreeAnyway(k) == TRUE

\* No question of this conversation is being answered.
Free(k) == k \notin locks

\* Agent.ask up to its first await, with the number of questions active then.
Starts(m, s, before) ==
  IF Mail[m].provider \in Providers /\ Free(<<s, Mail[m].talk>>)
    THEN /\ locks' = locks \cup {<<s, Mail[m].talk>>}
         /\ active' = before
         /\ task' = [task EXCEPT ![m].phase = "open", ![m].subject = s]
    ELSE /\ active' = before - 1
         /\ Goes(m, IF FromChat(m) THEN "sorry" ELSE "done")
         /\ UNCHANGED locks

\* The answer of the lifecycle API: who asks, or that the subject exists.
Identified(m) ==
  IF ~FromChat(m) THEN Mail[m].by \in Configured /\ Starts(m, Mail[m].by, active)
  ELSE /\ Known(Mail[m].by)
       /\ IF active < MaxActive THEN Starts(m, links[Mail[m].by].subject, active + 1)
          ELSE Says(m, "busy") /\ UNCHANGED <<active, locks>>

NotIdentified(m) ==
  /\ IF FromChat(m) THEN Goes(m, "sorry") /\ UNCHANGED active ELSE GivesUp(m)
  /\ UNCHANGED locks

Identify(m) ==
  /\ task[m].phase = "identify"
  /\ \/ Identified(m) /\ UNCHANGED mishaps
     \/ /\ IF FromChat(m) THEN ~Known(Mail[m].by) ELSE Mail[m].by \notin Configured
        /\ NotIdentified(m) /\ UNCHANGED mishaps
     \/ Mishap /\ NotIdentified(m)
  /\ UNCHANGED <<deskVars, up, disk, round, reached, asked>>

-----------------------------------------------------------------------------
(* Agent.ask from its first await on. *)

\* The conversation has no session yet, or one with this provider.
Pinned(m) == session[Key(m)].provider \in {None, Mail[m].provider}

\* The conversation's directory and session.json; the model is run.
\* Making the directory is outside the try block that gives the lock back.
Open(m) ==
  /\ task[m].phase = "open"
  /\ \/ /\ Pinned(m)
        /\ task' = [task EXCEPT ![m].phase = "model", ![m].read = session[Key(m)]]
        /\ asked' = [asked EXCEPT ![m] = @ + 1]
        /\ UNCHANGED <<active, locks, mishaps>>
     \/ /\ ~Pinned(m)
        /\ GivesUp(m) /\ locks' = locks \ {Key(m)} /\ UNCHANGED <<asked, mishaps>>
     \/ /\ Mishap /\ GivesUp(m) /\ UNCHANGED asked
        /\ locks' = locks \ {Key(m)} \/ UNCHANGED locks
  /\ UNCHANGED <<deskVars, up, disk, round, reached>>

\* The model answered, and the session with this turn is put in place.
Answered(m) ==
  /\ task[m].phase = "model"
  /\ session' = [session EXCEPT ![Key(m)] =
       [provider |-> Mail[m].provider, turns |-> task[m].read.turns \cup {m}]]
  /\ locks' = locks \ {Key(m)}
  /\ IF FromChat(m) THEN Says(m, "answer") /\ UNCHANGED active
     ELSE Goes(m, "done") /\ active' = active - 1
  /\ UNCHANGED <<deskVars, up, receipts, round, reached, asked, mishaps>>

\* It did not: an error, twelve turns, two minutes, or session.json cannot be written.
NotAnswered(m) ==
  /\ task[m].phase = "model"
  /\ GivesUp(m)
  /\ locks' = locks \ {Key(m)}
  /\ UNCHANGED <<deskVars, up, disk, round, reached, asked, mishaps>>

-----------------------------------------------------------------------------
(* Replies.  The receipt says "handled" afterwards, which nothing reads. *)

\* Variant: the counter goes down for questions that were answered only.
CountedDownAnswered(m, ok) == IF task[m].say = "answer" /\ ok THEN active - 1 ELSE active

\* A question stays active until its answer is sent, or is not.
CountedDown(m, ok) == IF task[m].say = "answer" THEN active - 1 ELSE active

Say(m) ==
  /\ task[m].phase = "say"
  /\ \/ /\ Mail[m].place \notin Dead
        /\ Goes(m, "done") /\ active' = CountedDown(m, TRUE) /\ UNCHANGED mishaps
     \/ /\ (Mail[m].place \in Dead /\ UNCHANGED mishaps) \/ Mishap
        /\ Goes(m, "sorry") /\ active' = CountedDown(m, FALSE)
  /\ UNCHANGED <<deskVars, up, disk, locks, round, reached, asked>>

\* A reply to a conversation in Google Chat is sent, for as long as that takes.
Hanging(m) == /\ FromChat(m) /\ task[m].phase \in {"say", "sorry"} /\ Mail[m].place \in Unlimited

\* Whether the apology arrives is not looked at.
Apologise(m) ==
  /\ task[m].phase = "sorry" /\ FromChat(m)
  /\ Goes(m, "done")
  /\ UNCHANGED <<deskVars, up, disk, active, locks, round, reached, asked, mishaps>>

-----------------------------------------------------------------------------
(* The timer that passes notices on; "notifying" keeps it to one run at a time. *)

Poll ==
  /\ up = "on" /\ round = NoRound
  /\ \E S \in Batches \ {{}} :
       /\ Lease(S)
       /\ \/ /\ round' = [NoRound EXCEPT !.phase = "next",
                 !.items = {[notice |-> n, places |-> Destinations(n)] : n \in S}]
             /\ UNCHANGED mishaps
          \/ Mishap /\ UNCHANGED round
  /\ UNCHANGED <<up, disk, taskVars, reached, asked>>

\* Variant: the timer does not learn that its run ended.
DeferForGood == round' = [NoRound EXCEPT !.phase = "next"]

\* An error ends the run, and what is left of the batch waits for its leases.
Defer == round' = NoRound

\* The next item is still worth passing on, or is only acknowledged.
Check(i) ==
  /\ round.phase = "next" /\ i \in round.items
  /\ \/ /\ round' = [phase |-> "send", items |-> round.items \ {i}, notice |-> i.notice,
                     places |-> i.places, left |-> IF Valid(i.notice) THEN i.places ELSE {}]
        /\ UNCHANGED mishaps
     \/ Mishap /\ Defer
  /\ UNCHANGED <<deskVars, up, disk, taskVars, reached, asked>>

Post(p) ==
  /\ round.phase = "send" /\ p \in round.left
  /\ \/ /\ p \notin Dead /\ round' = [round EXCEPT !.left = round.left \ {p}]
        /\ reached' = reached \cup {<<round.notice, p>>} /\ UNCHANGED mishaps
     \/ p \in Dead /\ Defer /\ UNCHANGED <<reached, mishaps>>
     \/ /\ Mishap /\ Defer
        /\ \/ UNCHANGED reached
           \/ p \notin Dead /\ reached' = reached \cup {<<round.notice, p>>}
  /\ UNCHANGED <<deskVars, up, disk, taskVars, asked>>

\* A place in Google Chat is still to be posted to, for as long as that takes.
Waiting == round.phase = "send" /\ round.left \cap Unlimited # {}

\* The loop's body ends, or the call fails, having taken effect or not.
Acknowledging ==
  \/ /\ Acknowledge(round.notice) /\ UNCHANGED mishaps
     /\ round' = IF round.items = {} THEN NoRound
                 ELSE [NoRound EXCEPT !.phase = "next", !.items = round.items]
  \/ /\ Mishap /\ Defer
     /\ UNCHANGED deskVars \/ Acknowledge(round.notice)

\* Variant: it is acknowledged before all places have been tried.
TriedOne == TRUE

AllTried == round.left = {}

Report ==
  /\ round.phase = "send" /\ AllTried /\ Acknowledging
  /\ UNCHANGED <<up, disk, taskVars, reached, asked>>

-----------------------------------------------------------------------------
(* The process. *)

Start ==
  /\ up = "off" /\ up' = "on"
  /\ UNCHANGED <<deskVars, disk, taskVars, round, reached, asked, mishaps>>

\* A signal: no new messages, no new rounds; what is under way goes on.
Stop ==
  /\ up = "on" /\ Mishap /\ up' = "closing"
  /\ UNCHANGED <<deskVars, disk, taskVars, round, reached, asked>>

Busy == \E m \in Message : task[m].phase \notin {"none", "done"}

Exit ==
  /\ up = "closing" /\ ~Busy /\ round = NoRound
  /\ up' = "off" /\ locks' = {}
  /\ UNCHANGED <<deskVars, disk, task, active, round, reached, asked, mishaps>>

\* Variant: the receipts are kept in memory.
NoReceipts == {}

\* What is left of the receipts when the process is gone.
Kept == receipts

\* The process dies: killed, or by a receipt it could not write, which nobody catches.
Crash ==
  /\ up # "off" /\ Mishap /\ up' = "off"
  /\ task' = [m \in Message |-> IF task[m].phase = "done" THEN task[m] ELSE NoTask]
  /\ active' = 0 /\ locks' = {} /\ round' = NoRound
  /\ receipts' = Kept
  /\ UNCHANGED <<deskVars, session, reached, asked>>
=============================================================================
