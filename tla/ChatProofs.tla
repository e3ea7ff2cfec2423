------------------------------ MODULE ChatProofs ------------------------------
(***************************************************************************)
(* Theorems about the chat agent and the desk it works with: types, one    *)
(* question per conversation, sessions that only grow, messages asked at   *)
(* most once, codes that link once, acknowledgements that are true, and    *)
(* an exact counter of active questions.                                   *)
(***************************************************************************)
EXTENDS Chat, FiniteSetTheorems, TLAPS

-----------------------------------------------------------------------------
(* What a step does to the desk. *)

DeskStep ==
  \/ UNCHANGED deskVars
  \/ \E c \in Code : \/ IssueCode(c) \/ LapseCode(c)
                     \/ \E p \in Person, pl \in Place : MakeLink(p, pl, c)
  \/ \E n \in Notice : Announce(n) \/ Supersede(n) \/ LeaseOver(n) \/ Acknowledge(n)
  \/ \E S \in SUBSET Notice : Lease(S)

\* A link message carries a code and comes from a chat account.
LEMMA MailType ==
  ASSUME NEW m \in Message
  PROVE  /\ FromChat(m) => /\ Mail[m].by \in Person /\ Mail[m].place \in Place
                           /\ Mail[m].code \in Code \cup {None}
         /\ ~FromChat(m) => Mail[m].by \in Subject /\ Mail[m].code = None
         /\ Mail[m].talk \in Talk /\ Mail[m].provider \in Provider
BY AgentAssumption DEF AgentAssumption, FromChat

\* Only chat messages with a code are ever in the phase "link".
LinkMessages == \A m \in Message : task[m].phase = "link" => FromChat(m) /\ Mail[m].code # None

\* Whoever works on a question knows whose it is.
AskersKnown == \A m \in Message : task[m].phase \in {"open", "model"} => task[m].subject \in Subject

TypeInv == TypeOK /\ LinkMessages /\ AskersKnown

LEMMA DeskSteps ==
  ASSUME TypeInv, [Next]_vars
  PROVE  DeskStep
<1>1. CASE World
  BY <1>1 DEF World, DeskStep
<1>2. CASE Rounds
  <2>1. CASE Poll
    BY <2>1 DEF Poll, Lease, Batches, Due, DeskStep, TypeInv, TypeOK, DeskTypeOK
  <2>2. CASE Report
    <3>1. round.phase = "send" => round.notice \in Notice
      BY DEF TypeInv, TypeOK, AgentTypeOK, Round
    <3> QED
      BY <2>2, <3>1 DEF Report, Acknowledging, DeskStep
  <2> QED
    BY <1>2, <2>1, <2>2 DEF Rounds, Check, Post, DeskStep
<1>3. ASSUME NEW m \in Message, SendLink(m)
      PROVE  DeskStep
  <2>1. Mail[m].by \in Person /\ Mail[m].place \in Place /\ Mail[m].code \in Code
    BY <1>3, MailType DEF SendLink, TypeInv, LinkMessages
  <2> QED
    BY <1>3, <2>1 DEF SendLink, DeskStep
<1>4. CASE \E m \in Message : Receive(m) \/ Question(m) \/ Identify(m) \/ Open(m) \/ Answered(m)
                               \/ NotAnswered(m) \/ Say(m) \/ Apologise(m)
  BY <1>4 DEF Receive, Question, Identify, Open, Answered, NotAnswered, Say, Apologise, DeskStep
<1>5. CASE Start \/ Stop \/ Exit \/ Crash
  BY <1>5 DEF Start, Stop, Exit, Crash, DeskStep
<1>6. CASE UNCHANGED vars
  BY <1>6 DEF vars, DeskStep
<1> QED
  BY <1>1, <1>2, <1>3, <1>4, <1>5, <1>6 DEF Next, Handle

LEMMA DeskType ==
  ASSUME DeskTypeOK, DeskStep
  PROVE  DeskTypeOK'
<1> USE DeskAssumption DEF DeskAssumption, DeskTypeOK
<1>1. CASE UNCHANGED deskVars
  BY <1>1 DEF deskVars, outbox
<1>2. ASSUME NEW c \in Code, IssueCode(c) \/ LapseCode(c)
      PROVE  DeskTypeOK'
  BY <1>2 DEF IssueCode, LapseCode, outbox
<1>3. ASSUME NEW c \in Code, NEW p \in Person, NEW pl \in Place, MakeLink(p, pl, c)
      PROVE  DeskTypeOK'
  <2>1. [subject |-> CodeOf[c], place |-> pl, code |-> c] \in Link
    BY DEF Link
  <2> QED
    BY <1>3, <2>1 DEF MakeLink, outbox
<1>4. ASSUME NEW n \in Notice, Announce(n) \/ Supersede(n) \/ LeaseOver(n) \/ Acknowledge(n)
      PROVE  DeskTypeOK'
  BY <1>4 DEF Announce, Supersede, LeaseOver, Acknowledge
<1>5. ASSUME NEW S \in SUBSET Notice, Lease(S)
      PROVE  DeskTypeOK'
  BY <1>5 DEF Lease
<1> QED
  BY <1>1, <1>2, <1>3, <1>4, <1>5 DEF DeskStep

-----------------------------------------------------------------------------
(* Types of the agent's own variables. *)

messageVars == <<receipts, session, task, active, locks, asked>>

\* All that happens to messages happens in these steps.
MessageStep(m) ==
  \/ Receive(m) \/ Question(m) \/ SendLink(m) \/ Identify(m) \/ Open(m) \/ Answered(m)
  \/ NotAnswered(m) \/ Say(m) \/ Apologise(m)

LEMMA MessageSteps ==
  ASSUME [Next]_vars
  PROVE  UNCHANGED messageVars \/ Exit \/ Crash \/ \E m \in Message : MessageStep(m)
BY DEF Next, Handle, MessageStep, messageVars, World, Rounds, Poll, Report, Check, Post, Start, Stop,
       vars, agentVars, disk, taskVars

\* The phase, the subject and the reply of a task are set one at a time.
LEMMA TaskType ==
  ASSUME task \in [Message -> Task], NEW m \in Message
  PROVE  /\ \A ph \in Phase : Goes(m, ph) => task' \in [Message -> Task]
         /\ \A what \in Answer : Says(m, what) => task' \in [Message -> Task]
         /\ \A ph \in Phase, s \in Subject :
              [task EXCEPT ![m].phase = ph, ![m].subject = s] \in [Message -> Task]
         /\ \A ph \in Phase, x \in Session :
              [task EXCEPT ![m].phase = ph, ![m].read = x] \in [Message -> Task]
<1>1. task[m] \in Task
  OBVIOUS
<1>2. ASSUME NEW ph \in Phase
      PROVE  [task[m] EXCEPT !.phase = ph] \in Task
  BY <1>1 DEF Task
<1>3. ASSUME NEW what \in Answer
      PROVE  [task[m] EXCEPT !.phase = "say", !.say = what] \in Task
  BY <1>1 DEF Task, Phase
<1>4. ASSUME NEW ph \in Phase, NEW s \in Subject
      PROVE  [task[m] EXCEPT !.phase = ph, !.subject = s] \in Task
  BY <1>1 DEF Task
<1>5. ASSUME NEW ph \in Phase, NEW x \in Session
      PROVE  [task[m] EXCEPT !.phase = ph, !.read = x] \in Task
  BY <1>1 DEF Task
<1> QED
  BY <1>2, <1>3, <1>4, <1>5 DEF Goes, Says

LEMMA NoTaskType == NoTask \in Task /\ NoSession \in Session
BY DEF NoTask, Task, NoSession, Session, Phase

\* A step that moves m into a phase that says nothing of its subject.
LEMMA MoveKeeps ==
  ASSUME TypeInv, NEW m \in Message, NEW ph \in Phase \ {"link", "open", "model"},
         \/ Goes(m, ph)
         \/ \E what \in Answer : Says(m, what)
  PROVE  task' \in [Message -> Task] /\ LinkMessages' /\ AskersKnown'
<1> USE DEF TypeInv, TypeOK, AgentTypeOK
<1>1. task' \in [Message -> Task]
  BY TaskType
<1>2. \A k \in Message \ {m} : task'[k] = task[k]
  BY DEF Goes, Says
<1>3. task'[m].phase \notin {"link", "open", "model"}
  BY DEF Goes, Says, Task
<1> QED
  BY <1>1, <1>2, <1>3 DEF LinkMessages, AskersKnown

\* So does giving up.
LEMMA GiveUpKeeps ==
  ASSUME TypeInv, NEW m \in Message, GivesUp(m)
  PROVE  task' \in [Message -> Task] /\ LinkMessages' /\ AskersKnown' /\ active' \in Int
<1>1. active' \in Int
  BY DEF GivesUp, TypeInv, TypeOK, AgentTypeOK
<1>2. \E ph \in Phase \ {"link", "open", "model"} : Goes(m, ph)
  BY DEF GivesUp, Phase
<1> QED
  BY <1>1, <1>2, MoveKeeps

\* The beginning of Agent.ask.
LEMMA StartKeeps ==
  ASSUME TypeInv, NEW m \in Message, NEW s \in Subject, NEW n \in Int, Starts(m, s, n)
  PROVE  /\ task' \in [Message -> Task] /\ LinkMessages' /\ AskersKnown'
         /\ active' \in Int /\ locks' \subseteq Conversation
<1> USE DEF TypeInv, TypeOK, AgentTypeOK
<1>1. CASE task' = [task EXCEPT ![m].phase = "open", ![m].subject = s]
           /\ active' = n /\ locks' = locks \cup {<<s, Mail[m].talk>>}
  <2>1. task' \in [Message -> Task]
    BY <1>1, TaskType DEF Phase
  <2>2. \A k \in Message \ {m} : task'[k] = task[k]
    BY <1>1
  <2>3. task'[m].phase = "open" /\ task'[m].subject = s
    BY <1>1 DEF Task
  <2>4. locks' \subseteq Conversation
    BY <1>1, MailType DEF Conversation
  <2> QED
    BY <1>1, <2>1, <2>2, <2>3, <2>4 DEF LinkMessages, AskersKnown
<1>2. CASE /\ Goes(m, IF FromChat(m) THEN "sorry" ELSE "done")
           /\ active' = n - 1 /\ UNCHANGED locks
  <2>1. \E ph \in Phase \ {"link", "open", "model"} : Goes(m, ph)
    BY <1>2 DEF Phase
  <2> QED
    BY <1>2, <2>1, MoveKeeps
<1> QED
  BY <1>1, <1>2 DEF Starts

MessageTypes ==
  /\ receipts \subseteq Message
  /\ session \in [Conversation -> Session]
  /\ task \in [Message -> Task]
  /\ active \in Int
  /\ locks \subseteq Conversation
  /\ asked \in [Message -> Nat]
  /\ LinkMessages /\ AskersKnown

LEMMA MessageType ==
  ASSUME TypeInv, [Next]_vars
  PROVE  MessageTypes'
<1> USE DEF TypeInv, TypeOK, AgentTypeOK
<1>0. MessageTypes /\ IsFiniteSet(Message)
  BY AgentAssumption DEF MessageTypes, AgentAssumption
<1>1. CASE UNCHANGED messageVars
  <2>1. LinkMessages' /\ AskersKnown'
    BY <1>1 DEF messageVars, LinkMessages, AskersKnown
  <2> QED
    BY <1>0, <1>1, <2>1 DEF messageVars, MessageTypes
<1>2. CASE Exit
  <2>1. LinkMessages' /\ AskersKnown'
    BY <1>2 DEF Exit, LinkMessages, AskersKnown
  <2> QED
    BY <1>0, <1>2, <2>1 DEF Exit, disk, MessageTypes
<1>3. CASE Crash
  <2>1. task' \in [Message -> Task]
    BY <1>3, NoTaskType DEF Crash
  <2>2. \A m \in Message : task'[m].phase \in {"none", "done"}
    BY <1>3 DEF Crash, NoTask
  <2>3. LinkMessages' /\ AskersKnown'
    BY <2>2 DEF LinkMessages, AskersKnown
  <2> QED
    BY <1>0, <1>3, <2>1, <2>3 DEF Crash, Kept, MessageTypes
<1>4. ASSUME NEW m \in Message, Receive(m)
      PROVE  MessageTypes'
  <2>1. CASE Goes(m, "link") /\ Mail[m].code # None
    <3>1. task' \in [Message -> Task]
      BY <2>1, TaskType DEF Phase
    <3>2. \A k \in Message \ {m} : task'[k] = task[k]
      BY <2>1 DEF Goes
    <3>3. task'[m].phase = "link" /\ FromChat(m)
      BY <1>4, <2>1 DEF Goes, Task, Receive
    <3>4. LinkMessages' /\ AskersKnown'
      BY <2>1, <3>2, <3>3 DEF LinkMessages, AskersKnown, FromChat
    <3> QED
      BY <1>0, <1>4, <3>1, <3>4 DEF Receive, MessageTypes
  <2>2. CASE Goes(m, "identify") \/ Says(m, "refused")
    <3>1. task' \in [Message -> Task] /\ LinkMessages' /\ AskersKnown'
      BY <2>2, MoveKeeps DEF Phase, Answer
    <3> QED
      BY <1>0, <1>4, <3>1 DEF Receive, MessageTypes
  <2> QED
    BY <1>4, <2>1, <2>2 DEF Receive
<1>5. ASSUME NEW m \in Message, Question(m)
      PROVE  MessageTypes'
  <2>1. Mail[m].by \in Subject
    BY <1>5, MailType DEF Question
  <2>2. task' \in [Message -> Task]
    BY <1>5, <2>1, TaskType DEF Question, Phase
  <2>3. \A k \in Message \ {m} : task'[k] = task[k]
    BY <1>5 DEF Question
  <2>4. task'[m].phase = "identify"
    BY <1>5 DEF Question, Task
  <2>5. LinkMessages' /\ AskersKnown'
    BY <2>3, <2>4 DEF LinkMessages, AskersKnown
  <2> QED
    BY <1>0, <1>5, <2>2, <2>5 DEF Question, disk, MessageTypes
<1>6. ASSUME NEW m \in Message, SendLink(m)
      PROVE  MessageTypes'
  <2>1. Goes(m, "sorry") \/ Says(m, "linked")
    BY <1>6 DEF SendLink
  <2>2. task' \in [Message -> Task] /\ LinkMessages' /\ AskersKnown'
    BY <2>1, MoveKeeps DEF Phase, Answer
  <2> QED
    BY <1>0, <1>6, <2>2 DEF SendLink, disk, MessageTypes
<1>7. ASSUME NEW m \in Message, Identify(m)
      PROVE  MessageTypes'
  <2>1. receipts' \subseteq Message /\ session' \in [Conversation -> Session] /\ asked' \in [Message -> Nat]
    BY <1>0, <1>7 DEF Identify, disk, MessageTypes
  <2>2. CASE Identified(m)
    <3>1. CASE ~FromChat(m)
      BY <2>1, <2>2, <3>1, MailType, StartKeeps DEF Identified, MessageTypes
    <3>2. CASE FromChat(m) /\ active < MaxActive
      <4>1. links[Mail[m].by].subject \in Subject
        BY <2>2, <3>2, DeskAssumption DEF Identified, Known, DeskAssumption
      <4>2. Starts(m, links[Mail[m].by].subject, active + 1) /\ active + 1 \in Int
        BY <2>2, <3>2 DEF Identified
      <4> QED
        BY <2>1, <4>1, <4>2, StartKeeps DEF MessageTypes
    <3>3. CASE FromChat(m) /\ ~(active < MaxActive)
      <4>1. Says(m, "busy") /\ UNCHANGED <<active, locks>>
        BY <2>2, <3>3 DEF Identified
      <4>2. task' \in [Message -> Task] /\ LinkMessages' /\ AskersKnown'
        BY <4>1, MoveKeeps DEF Phase, Answer
      <4> QED
        BY <1>0, <2>1, <4>1, <4>2 DEF MessageTypes
    <3> QED
      BY <3>1, <3>2, <3>3
  <2>3. CASE NotIdentified(m)
    <3>1. task' \in [Message -> Task] /\ LinkMessages' /\ AskersKnown' /\ active' \in Int
      <4>1. CASE Goes(m, "sorry") /\ UNCHANGED active
        BY <1>0, <4>1, MoveKeeps DEF Phase, MessageTypes
      <4> QED
        BY <2>3, <4>1, GiveUpKeeps DEF NotIdentified
    <3> QED
      BY <1>0, <2>1, <2>3, <3>1 DEF NotIdentified, MessageTypes
  <2> QED
    BY <1>7, <2>2, <2>3 DEF Identify
<1>8. ASSUME NEW m \in Message, Open(m)
      PROVE  MessageTypes'
  <2>1. receipts' \subseteq Message /\ session' \in [Conversation -> Session] /\ locks' \subseteq Conversation
    BY <1>0, <1>8 DEF Open, disk, MessageTypes
  <2>2. CASE /\ task' = [task EXCEPT ![m].phase = "model", ![m].read = session[Key(m)]]
             /\ asked' = [asked EXCEPT ![m] = @ + 1] /\ UNCHANGED active
    <3>1. Key(m) \in Conversation
      BY <1>8, MailType DEF Open, AskersKnown, Key, Conversation
    <3>2. session[Key(m)] \in Session
      BY <3>1
    <3>3. task' \in [Message -> Task]
      BY <2>2, <3>2, TaskType DEF Phase
    <3>4. \A k \in Message \ {m} : task'[k] = task[k]
      BY <2>2
    <3>5. task'[m].phase = "model" /\ task'[m].subject = task[m].subject
      BY <2>2 DEF Task
    <3>6. LinkMessages' /\ AskersKnown'
      BY <1>8, <3>4, <3>5 DEF Open, LinkMessages, AskersKnown
    <3>7. asked' \in [Message -> Nat]
      BY <2>2
    <3> QED
      BY <1>0, <2>1, <2>2, <3>3, <3>6, <3>7 DEF MessageTypes
  <2>3. CASE GivesUp(m) /\ UNCHANGED asked
    BY <1>0, <2>1, <2>3, GiveUpKeeps DEF MessageTypes
  <2> QED
    BY <1>8, <2>2, <2>3 DEF Open
<1>9. ASSUME NEW m \in Message, Answered(m)
      PROVE  MessageTypes'
  <2>1. [provider |-> Mail[m].provider, turns |-> task[m].read.turns \cup {m}] \in Session
    <3>1. task[m].read \in Session
      BY DEF Task
    <3> QED
      BY <3>1, MailType DEF Session
  <2>2. session' \in [Conversation -> Session]
    BY <1>9, <2>1 DEF Answered
  <2>3. task' \in [Message -> Task] /\ LinkMessages' /\ AskersKnown'
    BY <1>9, MoveKeeps DEF Answered, Phase, Answer
  <2>4. active' \in Int /\ locks' \subseteq Conversation
    BY <1>9 DEF Answered
  <2> QED
    BY <1>0, <1>9, <2>2, <2>3, <2>4 DEF Answered, MessageTypes
<1>10. ASSUME NEW m \in Message, NotAnswered(m)
       PROVE  MessageTypes'
  BY <1>0, <1>10, GiveUpKeeps DEF NotAnswered, disk, MessageTypes
<1>11. ASSUME NEW m \in Message, Say(m) \/ Apologise(m)
       PROVE  MessageTypes'
  <2>1. Goes(m, "done") \/ Goes(m, "sorry")
    BY <1>11 DEF Say, Apologise
  <2>2. task' \in [Message -> Task] /\ LinkMessages' /\ AskersKnown'
    BY <2>1, MoveKeeps DEF Phase
  <2>3. active' \in Int
    BY <1>11 DEF Say, Apologise, CountedDown
  <2> QED
    BY <1>0, <1>11, <2>2, <2>3 DEF Say, Apologise, disk, MessageTypes
<1> QED
  BY <1>1, <1>2, <1>3, <1>4, <1>5, <1>6, <1>7, <1>8, <1>9, <1>10, <1>11, MessageSteps DEF MessageStep

-----------------------------------------------------------------------------
(* Types of the timer's run, and of the process. *)

LEMMA PlacesAreLinked ==
  ASSUME DeskTypeOK, NEW n \in Notice
  PROVE  Destinations(n) \subseteq Place
<1> SUFFICES ASSUME NEW p \in Person, links[p].subject = Owner[n]
             PROVE  links[p].place \in Place
  BY DEF Destinations
<1>1. Owner[n] # None
  BY DeskAssumption DEF DeskAssumption
<1>2. links[p] \in Link
  BY <1>1 DEF DeskTypeOK, NoLink
<1> QED
  BY <1>2 DEF Link

LEMMA NoRoundType == NoRound \in Round
BY DEF NoRound, Round

\* The rest of the batch, or nothing.
LEMMA NextRoundType ==
  ASSUME NEW S \in SUBSET Item
  PROVE  [NoRound EXCEPT !.phase = "next", !.items = S] \in Round
BY DEF NoRound, Round

LEMMA SendRoundType ==
  ASSUME NEW S \in SUBSET Item, NEW n \in Notice, NEW P \in SUBSET Place, NEW L \in SUBSET Place
  PROVE  [phase |-> "send", items |-> S, notice |-> n, places |-> P, left |-> L] \in Round
BY DEF Round

LEMMA MishapType ==
  ASSUME mishaps \in Nat
  PROVE  Mishap \/ UNCHANGED mishaps => mishaps' \in Nat
BY DEF Mishap

LEMMA RoundType ==
  ASSUME TypeInv, [Next]_vars
  PROVE  round' \in Round /\ reached' \subseteq Notice \X Place /\ mishaps' \in Nat
         /\ up' \in {"off", "on", "closing"}
<1> USE DEF TypeInv, TypeOK, AgentTypeOK
<1>0. round \in Round /\ NoRound \in Round
  BY NoRoundType
<1>1. CASE Poll
  <2>1. ASSUME NEW S \in SUBSET Notice
        PROVE  {[notice |-> n, places |-> Destinations(n)] : n \in S} \in SUBSET Item
    BY PlacesAreLinked DEF Item
  <2>2. \A S \in Batches : S \in SUBSET Notice
    BY DEF Batches, Due, DeskTypeOK
  <2>3. round' \in Round
    BY <1>0, <1>1, <2>1, <2>2, NextRoundType DEF Poll
  <2> QED
    BY <1>1, <2>3 DEF Poll, Mishap
<1>2. CASE Report
  <2>1. round.phase = "send" => round.items \in SUBSET Item
    BY <1>0 DEF Round
  <2>2. round' \in Round
    BY <1>0, <1>2, <2>1, NextRoundType DEF Report, Acknowledging, Defer
  <2> QED
    BY <1>2, <2>2 DEF Report, Acknowledging, Mishap
<1>3. ASSUME NEW i \in round.items, Check(i)
      PROVE  round' \in Round /\ reached' \subseteq Notice \X Place /\ mishaps' \in Nat
             /\ up' \in {"off", "on", "closing"}
  <2>1. i \in Item /\ round.items \in SUBSET Item
    BY <1>0, <1>3 DEF Check, Round
  <2>2. i.notice \in Notice /\ i.places \in SUBSET Place
    BY <2>1 DEF Item
  <2>3. ASSUME round' = [phase |-> "send", items |-> round.items \ {i}, notice |-> i.notice,
                    places |-> i.places, left |-> IF Valid(i.notice) THEN i.places ELSE {}]
        PROVE  round' \in Round
    <3> DEFINE L == IF Valid(i.notice) THEN i.places ELSE {}
    <3>1. L \in SUBSET Place /\ round.items \ {i} \in SUBSET Item
      BY <2>1, <2>2
    <3>2. [phase |-> "send", items |-> round.items \ {i}, notice |-> i.notice,
           places |-> i.places, left |-> L] \in Round
      BY <2>2, <3>1, SendRoundType
    <3> QED
      BY <2>3, <3>2
  <2>4. round' \in Round
    BY <1>0, <1>3, <2>3 DEF Check, Defer
  <2> QED
    BY <1>3, <2>4 DEF Check, Mishap
<1>4. ASSUME NEW p \in round.left, Post(p)
      PROVE  round' \in Round /\ reached' \subseteq Notice \X Place /\ mishaps' \in Nat
             /\ up' \in {"off", "on", "closing"}
  <2>1. round.notice \in Notice /\ round.left \in SUBSET Place /\ round.items \in SUBSET Item
        /\ round.places \in SUBSET Place
    BY <1>0, <1>4 DEF Post, Round
  <2>2. [round EXCEPT !.left = round.left \ {p}] \in Round
    BY <1>0, <1>4, <2>1 DEF Post, Round
  <2>3. reached' \subseteq Notice \X Place
    BY <1>4, <2>1 DEF Post
  <2>4. round' \in Round
    BY <1>0, <1>4, <2>2 DEF Post, Defer
  <2>5. UNCHANGED up /\ (Mishap \/ UNCHANGED mishaps)
    BY <1>4 DEF Post
  <2> QED
    BY <2>3, <2>4, <2>5, MishapType
<1>5. CASE World \/ UNCHANGED vars
  BY <1>0, <1>5 DEF World, vars, agentVars
<1>6. CASE Start \/ Stop \/ Exit \/ Crash
  BY <1>0, <1>6 DEF Start, Stop, Exit, Crash, Mishap
<1>7. ASSUME NEW m \in Message, MessageStep(m)
      PROVE  round' \in Round /\ reached' \subseteq Notice \X Place /\ mishaps' \in Nat
             /\ up' \in {"off", "on", "closing"}
  <2>1. UNCHANGED <<up, round, reached>>
    BY <1>7 DEF MessageStep, Receive, Question, SendLink, Identify, Open, Answered, NotAnswered,
                Say, Apologise
  <2>2. Mishap \/ UNCHANGED mishaps
    BY <1>7 DEF MessageStep, Receive, Question, SendLink, Identify, Open, Answered, NotAnswered,
                Say, Apologise
  <2> QED
    BY <1>0, <2>1, <2>2, MishapType
<1> QED
  BY <1>1, <1>2, <1>3, <1>4, <1>5, <1>6, <1>7 DEF Next, Rounds, Handle, MessageStep

LEMMA TypeStep ==
  ASSUME TypeInv, [Next]_vars
  PROVE  TypeInv'
<1>1. DeskTypeOK'
  BY DeskSteps, DeskType DEF TypeInv, TypeOK
<1> QED
  BY <1>1, MessageType, RoundType DEF TypeInv, TypeOK, AgentTypeOK, MessageTypes

LEMMA TypeInit ==
  ASSUME Init
  PROVE  TypeInv
<1>1. DeskTypeOK
  BY DEF Init, DeskInit, DeskTypeOK
<1>2. AgentTypeOK
  BY NoTaskType, NoRoundType DEF Init, AgentInit, AgentTypeOK
<1>3. LinkMessages /\ AskersKnown
  BY DEF Init, AgentInit, LinkMessages, AskersKnown, NoTask
<1> QED
  BY <1>1, <1>2, <1>3 DEF TypeInv, TypeOK

LEMMA TypeInvariant == Spec => []TypeInv
<1>1. Init => TypeInv
  BY TypeInit
<1>2. TypeInv /\ [Next]_vars => TypeInv'
  BY TypeStep
<1> QED
  BY <1>1, <1>2, PTL DEF Spec

\* Every variable of the agent and of the desk keeps its type.
THEOREM TypeCorrect == Spec => []TypeOK
<1>1. TypeInv => TypeOK
  BY DEF TypeInv
<1> QED
  BY <1>1, TypeInvariant, PTL

-----------------------------------------------------------------------------
(* Codes link once. *)

\* No code makes two links, and each link is its subject's: a code is gone with the
\* link it makes, and codes that are gone stay so.
THEOREM CodesOnce == Spec => []CodesLinkOnce
<1>1. Init => CodesLinkOnce
  BY DEF Init, DeskInit, CodesLinkOnce
<1>2. TypeInv /\ CodesLinkOnce /\ [Next]_vars => CodesLinkOnce'
  <2> SUFFICES ASSUME TypeInv, CodesLinkOnce, DeskStep
               PROVE  CodesLinkOnce'
    BY DeskSteps
  <2> USE DEF TypeInv, TypeOK, DeskTypeOK, CodesLinkOnce
  <2>0. \A p \in Person : links[p] # NoLink => links[p].code \in Code
    BY DEF Link
  <2>1. CASE UNCHANGED <<codes, links>>
    BY <2>1
  <2>2. ASSUME NEW c \in Code, IssueCode(c) \/ LapseCode(c)
        PROVE  CodesLinkOnce'
    BY <2>0, <2>2 DEF IssueCode, LapseCode
  <2>3. ASSUME NEW c \in Code, NEW p \in Person, NEW pl \in Place, MakeLink(p, pl, c)
        PROVE  CodesLinkOnce'
    <3>1. \A q \in Person \ {p} : links'[q] = links[q]
      BY <2>3 DEF MakeLink
    <3>2. links'[p].code = c /\ links'[p].subject = CodeOf[c]
      BY <2>3 DEF MakeLink
    <3>3. \A q \in Person : links[q] # NoLink => links[q].code # c
      BY <2>3 DEF MakeLink
    <3>4. codes' = [codes EXCEPT ![c] = "gone"]
      BY <2>3 DEF MakeLink
    <3> QED
      BY <2>0, <3>1, <3>2, <3>3, <3>4
  <2>4. CASE UNCHANGED deskVars \/ (\E n \in Notice : Announce(n) \/ Supersede(n) \/ LeaseOver(n)
                 \/ Acknowledge(n)) \/ \E S \in SUBSET Notice : Lease(S)
    BY <2>1, <2>4 DEF deskVars, Announce, Supersede, LeaseOver, Acknowledge, Lease
  <2> QED
    BY <2>2, <2>3, <2>4 DEF DeskStep
<1> QED
  BY <1>1, <1>2, TypeInvariant, PTL DEF Spec

-----------------------------------------------------------------------------
(* One question per conversation. *)

\* What the model was given is still the conversation's session.
ReadIsCurrent == \A m \in Message : task[m].phase = "model" => task[m].read = session[Key(m)]

QuestionInv == OneQuestionPerConversation /\ ReadIsCurrent

\* A task that does not come to the model, or leaves it, giving back its own lock at
\* most and writing its own session at most.
LEMMA OutOfModel ==
  ASSUME TypeInv, QuestionInv, NEW m \in Message,
         \A k \in Message \ {m} : task'[k] = task[k],
         task'[m].phase \notin {"open", "model"},
         \/ UNCHANGED <<locks, session>>
         \/ /\ m \in InModel /\ locks \ {Key(m)} \subseteq locks'
            /\ \A k \in Conversation \ {Key(m)} : session'[k] = session[k]
  PROVE  QuestionInv'
<1>1. InModel' \subseteq InModel \ {m}
  BY DEF InModel
<1>2. \A k \in InModel' : Key(k)' = Key(k)
  BY <1>1 DEF Key, InModel
<1>3. \A k \in InModel : Key(k) \in Conversation
  BY MailType DEF InModel, TypeInv, AskersKnown, Key, Conversation
<1>4. CASE UNCHANGED <<locks, session>>
  BY <1>1, <1>2, <1>4 DEF QuestionInv, OneQuestionPerConversation, ReadIsCurrent, InModel
<1>5. CASE /\ m \in InModel /\ locks \ {Key(m)} \subseteq locks'
           /\ \A k \in Conversation \ {Key(m)} : session'[k] = session[k]
  <2>1. \A k \in InModel' : Key(k) # Key(m)
    BY <1>1, <1>5 DEF QuestionInv, OneQuestionPerConversation
  <2>2. OneQuestionPerConversation'
    BY <1>1, <1>2, <1>5, <2>1 DEF QuestionInv, OneQuestionPerConversation
  <2>3. ASSUME NEW k \in Message, task'[k].phase = "model"
        PROVE  task'[k].read = session'[Key(k)']
    <3>1. k \in InModel' /\ k # m
      BY <2>3 DEF InModel
    <3>2. task[k].read = session[Key(k)]
      BY <2>3, <3>1 DEF QuestionInv, ReadIsCurrent
    <3>3. session'[Key(k)] = session[Key(k)]
      BY <1>1, <1>3, <1>5, <2>1, <3>1
    <3> QED
      BY <1>2, <3>1, <3>2, <3>3
  <2> QED
    BY <2>2, <2>3 DEF QuestionInv, ReadIsCurrent
<1> QED
  BY <1>4, <1>5

\* A task that moves on, and a question that fails, in those terms.
LEMMA MovedOut ==
  ASSUME TypeInv, NEW m \in Message,
         GivesUp(m) \/ Goes(m, "done") \/ Goes(m, "sorry") \/ Goes(m, "link") \/ Goes(m, "identify")
         \/ \E what \in Answer : Says(m, what)
  PROVE  /\ \A k \in Message \ {m} : task'[k] = task[k]
         /\ task'[m].phase \notin {"open", "model"}
BY DEF TypeInv, TypeOK, AgentTypeOK, Task, GivesUp, Goes, Says

\* Agent.ask takes the lock of a free conversation.
LEMMA StartsAlone ==
  ASSUME TypeInv, QuestionInv, NEW m \in Message, NEW s \in Subject, NEW n \in Int,
         task[m].phase = "identify", Starts(m, s, n), UNCHANGED session
  PROVE  QuestionInv'
<1>1. CASE /\ <<s, Mail[m].talk>> \notin locks /\ locks' = locks \cup {<<s, Mail[m].talk>>}
           /\ task' = [task EXCEPT ![m].phase = "open", ![m].subject = s]
  <2>1. \A k \in Message \ {m} : task'[k] = task[k]
    BY <1>1 DEF TypeInv, TypeOK, AgentTypeOK
  <2>2. task'[m].phase = "open" /\ task'[m].subject = s
    BY <1>1 DEF TypeInv, TypeOK, AgentTypeOK, Task
  <2>3. Key(m)' = <<s, Mail[m].talk>> /\ \A k \in Message \ {m} : Key(k)' = Key(k)
    BY <2>1, <2>2 DEF Key
  <2>4. InModel' = InModel \cup {m} /\ m \notin InModel
    BY <2>1, <2>2 DEF InModel
  <2>5. \A k \in InModel : Key(k) \in locks
    BY DEF QuestionInv, OneQuestionPerConversation
  <2>6. OneQuestionPerConversation'
    <3>1. \A k \in InModel : k \in Message /\ k # m /\ Key(k) # <<s, Mail[m].talk>>
      BY <1>1, <2>4, <2>5 DEF InModel
    <3>2. \A k \in InModel' : k = m \/ k \in InModel
      BY <2>4
    <3>3. \A k \in InModel : Key(k)' = Key(k) /\ Key(k) \in locks'
      BY <1>1, <2>3, <2>5, <3>1
    <3>4. \A k1, k2 \in InModel : Key(k1) = Key(k2) => k1 = k2
      BY DEF QuestionInv, OneQuestionPerConversation
    <3>5. <<s, Mail[m].talk>> \in locks'
      BY <1>1
    <3> QED
      BY <2>3, <3>1, <3>2, <3>3, <3>4, <3>5 DEF OneQuestionPerConversation
  <2>7. ReadIsCurrent'
    BY <2>1, <2>2, <2>3 DEF QuestionInv, ReadIsCurrent
  <2> QED
    BY <2>6, <2>7 DEF QuestionInv
<1>2. CASE Goes(m, IF FromChat(m) THEN "sorry" ELSE "done") /\ UNCHANGED locks
  <2>1. Goes(m, "sorry") \/ Goes(m, "done")
    BY <1>2
  <2> QED
    BY <1>2, <2>1, MovedOut, OutOfModel
<1> QED
  BY <1>1, <1>2 DEF Starts, Free

LEMMA QuestionStep ==
  ASSUME TypeInv, QuestionInv, [Next]_vars
  PROVE  QuestionInv'
<1>1. CASE UNCHANGED messageVars
  BY <1>1 DEF messageVars, QuestionInv, OneQuestionPerConversation, ReadIsCurrent, InModel, Key
<1>2. CASE Exit
  <2>1. InModel = {}
    BY <1>2 DEF Exit, Busy, InModel
  <2> QED
    BY <1>2, <2>1 DEF Exit, QuestionInv, OneQuestionPerConversation, ReadIsCurrent, InModel
<1>3. CASE Crash
  <2>1. \A m \in Message : task'[m].phase \in {"none", "done"}
    BY <1>3 DEF Crash, NoTask
  <2> QED
    BY <2>1 DEF QuestionInv, OneQuestionPerConversation, ReadIsCurrent, InModel
<1>4. ASSUME NEW m \in Message, Receive(m) \/ SendLink(m) \/ Say(m) \/ Apologise(m)
      PROVE  QuestionInv'
  <2>1. UNCHANGED <<locks, session>>
    BY <1>4 DEF Receive, SendLink, Say, Apologise, disk
  <2>2. Goes(m, "done") \/ Goes(m, "sorry") \/ Goes(m, "link") \/ Goes(m, "identify")
        \/ \E what \in Answer : Says(m, what)
    BY <1>4 DEF Receive, SendLink, Say, Apologise, Answer
  <2> QED
    BY <2>1, <2>2, MovedOut, OutOfModel
<1>5. ASSUME NEW m \in Message, Question(m)
      PROVE  QuestionInv'
  <2>1. \A k \in Message \ {m} : task'[k] = task[k]
    BY <1>5 DEF Question, TypeInv, TypeOK, AgentTypeOK
  <2>2. task'[m].phase \notin {"open", "model"}
    BY <1>5 DEF Question, TypeInv, TypeOK, AgentTypeOK, Task
  <2> QED
    BY <1>5, <2>1, <2>2, OutOfModel DEF Question, disk
<1>6. ASSUME NEW m \in Message, Identify(m)
      PROVE  QuestionInv'
  <2>0. task[m].phase = "identify" /\ UNCHANGED session /\ active \in Int
    BY <1>6 DEF Identify, disk, TypeInv, TypeOK, AgentTypeOK
  <2>1. CASE NotIdentified(m)
    <3>1. UNCHANGED locks /\ (GivesUp(m) \/ Goes(m, "sorry"))
      BY <2>1 DEF NotIdentified
    <3> QED
      BY <2>0, <3>1, MovedOut, OutOfModel
  <2>2. CASE Says(m, "busy") /\ UNCHANGED locks
    BY <2>0, <2>2, MovedOut, OutOfModel DEF Answer
  <2>3. ASSUME NEW s \in Subject, NEW n \in Int, Starts(m, s, n)
        PROVE  QuestionInv'
    BY <2>0, <2>3, StartsAlone
  <2>4. ASSUME Identified(m)
        PROVE  \/ Says(m, "busy") /\ UNCHANGED locks
               \/ \E s \in Subject, n \in Int : Starts(m, s, n)
    <3>1. CASE ~FromChat(m)
      BY <2>0, <2>4, <3>1, MailType DEF Identified
    <3>2. CASE FromChat(m)
      <4>1. links[Mail[m].by].subject \in Subject
        BY <2>4, <3>2, DeskAssumption DEF Identified, Known, DeskAssumption
      <4>2. active + 1 \in Int
        BY <2>0
      <4> QED
        BY <2>4, <3>2, <4>1, <4>2 DEF Identified
    <3> QED
      BY <3>1, <3>2
  <2> QED
    BY <1>6, <2>1, <2>2, <2>3, <2>4 DEF Identify
<1>7. ASSUME NEW m \in Message, Open(m)
      PROVE  QuestionInv'
  <2>1. m \in InModel /\ UNCHANGED session
    BY <1>7 DEF Open, InModel, disk
  <2>2. CASE /\ task' = [task EXCEPT ![m].phase = "model", ![m].read = session[Key(m)]]
             /\ UNCHANGED locks
    <3>1. \A k \in Message \ {m} : task'[k] = task[k]
      BY <2>2 DEF TypeInv, TypeOK, AgentTypeOK
    <3>2. /\ task'[m].phase = "model" /\ task'[m].read = session[Key(m)]
          /\ task'[m].subject = task[m].subject
      BY <2>2 DEF TypeInv, TypeOK, AgentTypeOK, Task
    <3>3. \A k \in Message : Key(k)' = Key(k)
      BY <3>1, <3>2 DEF Key
    <3>4. InModel' = InModel
      BY <2>1, <3>1, <3>2 DEF InModel
    <3>5. OneQuestionPerConversation'
      <4>1. \A k \in InModel : k \in Message
        BY DEF InModel
      <4> QED
        BY <2>2, <3>3, <3>4, <4>1 DEF QuestionInv, OneQuestionPerConversation
    <3>6. ReadIsCurrent'
      BY <2>1, <3>1, <3>2, <3>3 DEF QuestionInv, ReadIsCurrent
    <3> QED
      BY <3>5, <3>6 DEF QuestionInv
  <2>3. CASE GivesUp(m) /\ (locks' = locks \ {Key(m)} \/ UNCHANGED locks)
    BY <2>1, <2>3, MovedOut, OutOfModel
  <2> QED
    BY <1>7, <2>2, <2>3 DEF Open
<1>8. ASSUME NEW m \in Message, Answered(m) \/ NotAnswered(m)
      PROVE  QuestionInv'
  <2>1. m \in InModel /\ locks' = locks \ {Key(m)}
    BY <1>8 DEF Answered, NotAnswered, InModel
  <2>2. \A k \in Conversation \ {Key(m)} : session'[k] = session[k]
    BY <1>8 DEF Answered, NotAnswered, disk, TypeInv, TypeOK, AgentTypeOK
  <2>3. GivesUp(m) \/ Goes(m, "done") \/ \E what \in Answer : Says(m, what)
    BY <1>8 DEF Answered, NotAnswered, Answer
  <2> QED
    BY <2>1, <2>2, <2>3, MovedOut, OutOfModel
<1> QED
  BY <1>1, <1>2, <1>3, <1>4, <1>5, <1>6, <1>7, <1>8, MessageSteps DEF MessageStep

LEMMA QuestionInvariant == Spec => []QuestionInv
<1>1. Init => QuestionInv
  BY DEF Init, AgentInit, NoTask, QuestionInv, OneQuestionPerConversation, ReadIsCurrent, InModel
<1>2. TypeInv /\ QuestionInv /\ [Next]_vars => QuestionInv'
  BY QuestionStep
<1> QED
  BY <1>1, <1>2, TypeInvariant, PTL DEF Spec

\* Two questions never work on one conversation, whoever asked them and however
\* those before them ended.
THEOREM OneQuestion == Spec => []OneQuestionPerConversation
<1>1. QuestionInv => OneQuestionPerConversation
  BY DEF QuestionInv
<1> QED
  BY <1>1, QuestionInvariant, PTL

-----------------------------------------------------------------------------
(* What one message's step may do to its task. *)

\* A message comes in; a question from the portal does; Agent.ask begins; the model is
\* run; or the task goes on to a reply or its end.
ComesIn(m) ==
  /\ FromChat(m) /\ m \notin receipts /\ receipts' = receipts \cup {m}
  /\ asked'[m] = asked[m] /\ task'[m].phase \in {"say", "link", "identify"}

IsAsked(m) ==
  /\ ~FromChat(m) /\ UNCHANGED receipts /\ asked'[m] = asked[m] /\ task'[m].phase = "identify"

Begins(m) ==
  /\ UNCHANGED receipts /\ asked'[m] = asked[m]
  /\ task[m].phase = "identify" /\ task'[m].phase = "open"

IsPut(m) ==
  /\ UNCHANGED receipts /\ asked'[m] = asked[m] + 1 /\ Pinned(m)
  /\ task[m].phase = "open" /\ task'[m].phase = "model" /\ task'[m].read = session[Key(m)]

Ends(m) ==
  /\ UNCHANGED receipts /\ asked'[m] = asked[m]
  /\ task[m].phase # "none" /\ task'[m].phase \in {"say", "sorry", "done"}

LEMMA Moved ==
  ASSUME TypeInv, NEW m \in Message,
         \/ GivesUp(m)
         \/ \E ph \in {"done", "sorry"} : Goes(m, ph)
         \/ \E what \in Answer : Says(m, what)
  PROVE  task'[m].phase \in {"say", "sorry", "done"}
BY DEF TypeInv, TypeOK, AgentTypeOK, Task, GivesUp, Goes, Says

LEMMA OthersStay ==
  ASSUME TypeInv, NEW m \in Message, MessageStep(m)
  PROVE  \A k \in Message \ {m} : task'[k] = task[k] /\ asked'[k] = asked[k]
<1> USE DEF TypeInv, TypeOK, AgentTypeOK
<1>1. CASE Receive(m) \/ SendLink(m) \/ Say(m) \/ Apologise(m)
  BY <1>1 DEF Receive, SendLink, Say, Apologise, Goes, Says
<1>2. CASE Question(m) \/ Answered(m) \/ NotAnswered(m)
  BY <1>2 DEF Question, Answered, NotAnswered, GivesUp, Goes, Says
<1>3. CASE Open(m)
  <2>1. \A k \in Message \ {m} : task'[k] = task[k]
    BY <1>3 DEF Open, GivesUp, Goes
  <2>2. \A k \in Message \ {m} : asked'[k] = asked[k]
    BY <1>3 DEF Open
  <2> QED
    BY <2>1, <2>2
<1>4. CASE Identify(m)
  <2>1. UNCHANGED asked
    BY <1>4 DEF Identify
  <2>2. \A k \in Message \ {m} : task'[k] = task[k]
    BY <1>4 DEF Identify, Identified, NotIdentified, Starts, GivesUp, Goes, Says
  <2> QED
    BY <2>1, <2>2
<1> QED
  BY <1>1, <1>2, <1>3, <1>4 DEF MessageStep

LEMMA MessageMoves ==
  ASSUME TypeInv, NEW m \in Message, MessageStep(m)
  PROVE  ComesIn(m) \/ IsAsked(m) \/ Begins(m) \/ IsPut(m) \/ Ends(m)
<1>0. task \in [Message -> Task] /\ asked \in [Message -> Nat]
  BY DEF TypeInv, TypeOK, AgentTypeOK
<1>1. CASE Receive(m)
  <2>1. task'[m].phase \in {"say", "link", "identify"}
    BY <1>0, <1>1 DEF Receive, Goes, Says, Task
  <2> QED
    BY <1>1, <2>1 DEF Receive, ComesIn
<1>2. CASE Question(m)
  <2>1. task'[m].phase = "identify"
    BY <1>0, <1>2 DEF Question, Task
  <2> QED
    BY <1>2, <2>1 DEF Question, disk, IsAsked
<1>3. CASE SendLink(m) \/ Say(m) \/ Apologise(m)
  <2>1. \/ \E ph \in {"done", "sorry"} : Goes(m, ph)
        \/ \E what \in Answer : Says(m, what)
    BY <1>3 DEF SendLink, Say, Apologise, Answer
  <2>2. UNCHANGED <<receipts, asked>> /\ task[m].phase # "none"
    BY <1>3 DEF SendLink, Say, Apologise, disk
  <2> QED
    BY <2>1, <2>2, Moved DEF Ends
<1>4. CASE Answered(m) \/ NotAnswered(m)
  <2>1. \/ GivesUp(m)
        \/ \E ph \in {"done", "sorry"} : Goes(m, ph)
        \/ \E what \in Answer : Says(m, what)
    BY <1>4 DEF Answered, NotAnswered, Answer
  <2>2. UNCHANGED <<receipts, asked>> /\ task[m].phase # "none"
    BY <1>4 DEF Answered, NotAnswered, disk
  <2> QED
    BY <2>1, <2>2, Moved DEF Ends
<1>5. CASE Identify(m)
  <2>1. UNCHANGED <<receipts, asked>> /\ task[m].phase = "identify"
    BY <1>5 DEF Identify, disk
  <2>2. \/ \E s \in Subject \cup {links[Mail[m].by].subject} :
             task' = [task EXCEPT ![m].phase = "open", ![m].subject = s]
        \/ GivesUp(m)
        \/ \E ph \in {"done", "sorry"} : Goes(m, ph)
        \/ \E what \in Answer : Says(m, what)
    <3>1. CASE NotIdentified(m)
      BY <3>1 DEF NotIdentified
    <3>2. CASE Identified(m)
      BY <3>2, MailType DEF Identified, Starts, Answer
    <3> QED
      BY <1>5, <3>1, <3>2 DEF Identify
  <2>3. ASSUME NEW s, task' = [task EXCEPT ![m].phase = "open", ![m].subject = s]
        PROVE  task'[m].phase = "open"
    BY <1>0, <2>3 DEF Task
  <2> QED
    BY <2>1, <2>2, <2>3, Moved DEF Begins, Ends
<1>6. CASE Open(m)
  <2>1. CASE /\ Pinned(m) /\ asked' = [asked EXCEPT ![m] = asked[m] + 1]
             /\ task' = [task EXCEPT ![m].phase = "model", ![m].read = session[Key(m)]]
    <3>1. task'[m].phase = "model" /\ task'[m].read = session[Key(m)]
      BY <1>0, <2>1 DEF Task
    <3>2. asked'[m] = asked[m] + 1
      BY <1>0, <2>1
    <3> QED
      BY <1>6, <2>1, <3>1, <3>2 DEF Open, disk, IsPut
  <2>2. CASE GivesUp(m) /\ UNCHANGED asked
    BY <1>6, <2>2, Moved DEF Open, disk, Ends
  <2> QED
    BY <1>6, <2>1, <2>2 DEF Open
<1> QED
  BY <1>1, <1>2, <1>3, <1>4, <1>5, <1>6 DEF MessageStep

-----------------------------------------------------------------------------
(* At most once. *)

\* A chat message without a receipt has not been touched, and one that is on its way
\* to the model has not been there.
AskInv ==
  \A m \in Message : FromChat(m) =>
    /\ m \notin receipts => asked[m] = 0 /\ task[m].phase = "none"
    /\ task[m].phase \in {"link", "identify", "open"} => asked[m] = 0
    /\ asked[m] <= 1

LEMMA AskStep ==
  ASSUME TypeInv, AskInv, [Next]_vars
  PROVE  AskInv'
<1>0. asked \in [Message -> Nat]
  BY DEF TypeInv, TypeOK, AgentTypeOK
<1>1. CASE UNCHANGED messageVars
  BY <1>1 DEF messageVars, AskInv, FromChat
<1>2. CASE Exit
  BY <1>2 DEF Exit, disk, AskInv, FromChat
<1>3. CASE Crash
  <2>1. \A m \in Message : task'[m].phase \in {"none", "done"} /\ (task[m].phase = "none" => task'[m] = NoTask)
    BY <1>3 DEF Crash, NoTask
  <2>2. UNCHANGED <<receipts, asked>>
    BY <1>3 DEF Crash, Kept
  <2> QED
    BY <2>1, <2>2 DEF AskInv, FromChat, NoTask
<1>4. ASSUME NEW m \in Message, MessageStep(m)
      PROVE  AskInv'
  <2>1. \A k \in Message \ {m} : /\ task'[k] = task[k] /\ asked'[k] = asked[k]
                                 /\ k \notin receipts' => k \notin receipts
    BY <1>4, OthersStay, MessageMoves DEF ComesIn, IsAsked, Begins, IsPut, Ends
  <2>2. FromChat(m) =>
          /\ m \notin receipts' => asked'[m] = 0 /\ task'[m].phase = "none"
          /\ task'[m].phase \in {"link", "identify", "open"} => asked'[m] = 0
          /\ asked'[m] <= 1
    <3>1. CASE ComesIn(m)
      BY <3>1 DEF ComesIn, AskInv
    <3>2. CASE IsAsked(m)
      BY <3>2 DEF IsAsked
    <3>3. CASE Begins(m) \/ Ends(m)
      BY <3>3 DEF Begins, Ends, AskInv
    <3>4. CASE IsPut(m)
      BY <3>4 DEF IsPut, AskInv
    <3> QED
      BY <1>4, <3>1, <3>2, <3>3, <3>4, MessageMoves
  <2> QED
    BY <2>1, <2>2 DEF AskInv, FromChat
<1> QED
  BY <1>1, <1>2, <1>3, <1>4, MessageSteps

LEMMA AskInvariant == Spec => []AskInv
<1>1. Init => AskInv
  BY DEF Init, AgentInit, NoTask, AskInv
<1>2. TypeInv /\ AskInv /\ [Next]_vars => AskInv'
  BY AskStep
<1> QED
  BY <1>1, <1>2, TypeInvariant, PTL DEF Spec

\* No chat message is put to the model twice, whatever is delivered again and whenever
\* the process dies.
THEOREM AskedOnce == Spec => []AskedAtMostOnce
<1>1. AskInv => AskedAtMostOnce
  BY DEF AskInv, AskedAtMostOnce
<1> QED
  BY <1>1, AskInvariant, PTL

-----------------------------------------------------------------------------
(* Sessions grow. *)

\* A session is continued with the provider it began with.
ReadIsPinned ==
  \A m \in Message :
    task[m].phase = "model" => task[m].read.provider \in {None, Mail[m].provider}

LEMMA PinStep ==
  ASSUME TypeInv, ReadIsPinned, [Next]_vars
  PROVE  ReadIsPinned'
<1>1. CASE UNCHANGED messageVars \/ Exit
  BY <1>1 DEF messageVars, Exit, ReadIsPinned
<1>2. CASE Crash
  BY <1>2 DEF Crash, NoTask, ReadIsPinned
<1>3. ASSUME NEW m \in Message, MessageStep(m)
      PROVE  ReadIsPinned'
  <2>1. \A k \in Message \ {m} : task'[k] = task[k]
    BY <1>3, OthersStay
  <2>2. task'[m].phase = "model" => task'[m].read.provider \in {None, Mail[m].provider}
    BY <1>3, MessageMoves DEF ComesIn, IsAsked, Begins, IsPut, Ends, Pinned
  <2> QED
    BY <2>1, <2>2 DEF ReadIsPinned
<1> QED
  BY <1>1, <1>2, <1>3, MessageSteps

\* The step of SessionsGrow.
SessionStep ==
  \A k \in Conversation : session'[k] # session[k] =>
    /\ session[k].provider \in {None, session'[k].provider}
    /\ \E m \in Message : session'[k].turns = session[k].turns \cup {m}

LEMMA OnlyAnswersWrite ==
  ASSUME TypeInv, QuestionInv, ReadIsPinned, [Next]_vars
  PROVE  SessionStep
<1>1. CASE UNCHANGED session
  BY <1>1 DEF SessionStep
<1>2. ASSUME NEW m \in Message, Answered(m)
      PROVE  SessionStep
  <2>1. task[m].read = session[Key(m)] /\ task[m].read.provider \in {None, Mail[m].provider}
    BY <1>2 DEF Answered, QuestionInv, ReadIsCurrent, ReadIsPinned
  <2>2. \A k \in Conversation \ {Key(m)} : session'[k] = session[k]
    BY <1>2 DEF Answered, TypeInv, TypeOK, AgentTypeOK
  <2>3. Key(m) \in Conversation =>
          session'[Key(m)] = [provider |-> Mail[m].provider, turns |-> session[Key(m)].turns \cup {m}]
    BY <1>2, <2>1 DEF Answered, TypeInv, TypeOK, AgentTypeOK
  <2> QED
    BY <2>1, <2>2, <2>3 DEF SessionStep
<1>3. UNCHANGED session \/ \E m \in Message : Answered(m)
  <2>1. CASE UNCHANGED messageVars \/ Exit \/ Crash
    BY <2>1 DEF messageVars, Exit, Crash, disk
  <2>2. ASSUME NEW m \in Message, MessageStep(m)
        PROVE  UNCHANGED session \/ Answered(m)
    BY <2>2 DEF MessageStep, Receive, Question, SendLink, Identify, Open, NotAnswered, Say, Apologise, disk
  <2> QED
    BY <2>1, <2>2, MessageSteps
<1> QED
  BY <1>1, <1>2, <1>3

\* A conversation's session is never overwritten by an older one: it grows by one turn
\* at a time, under one provider.
THEOREM SessionGrowth == Spec => SessionsGrow
<1>1. Init => ReadIsPinned
  BY DEF Init, AgentInit, NoTask, ReadIsPinned
<1>2. TypeInv /\ ReadIsPinned /\ [Next]_vars => ReadIsPinned'
  BY PinStep
<1>3. TypeInv /\ QuestionInv /\ ReadIsPinned /\ [Next]_vars => [SessionStep]_vars
  BY OnlyAnswersWrite
<1>4. Spec => [][SessionStep]_vars
  BY <1>1, <1>2, <1>3, TypeInvariant, QuestionInvariant, PTL DEF Spec
<1> QED
  BY <1>4 DEF SessionsGrow, SessionStep

-----------------------------------------------------------------------------
(* Acknowledgements are true. *)

Raised == open \cup cancelled \cup delivered

Settled == cancelled \cup delivered

\* A notice that was raised stays so, and one that is settled does.
LEMMA NoticesStay ==
  ASSUME DeskStep
  PROVE  Raised \subseteq Raised' /\ Settled \subseteq Settled'
<1> USE DEF Raised, Settled
<1>1. CASE UNCHANGED deskVars
  BY <1>1 DEF deskVars, outbox
<1>2. ASSUME NEW c \in Code, \/ IssueCode(c) \/ LapseCode(c)
                             \/ \E p \in Person, pl \in Place : MakeLink(p, pl, c)
      PROVE  Raised \subseteq Raised' /\ Settled \subseteq Settled'
  BY <1>2 DEF IssueCode, LapseCode, MakeLink, outbox
<1>3. ASSUME NEW n \in Notice, Announce(n) \/ Supersede(n) \/ LeaseOver(n) \/ Acknowledge(n)
      PROVE  Raised \subseteq Raised' /\ Settled \subseteq Settled'
  BY <1>3 DEF Announce, Supersede, LeaseOver, Acknowledge
<1>4. ASSUME NEW S \in SUBSET Notice, Lease(S)
      PROVE  Raised \subseteq Raised' /\ Settled \subseteq Settled'
  BY <1>4 DEF Lease
<1> QED
  BY <1>1, <1>2, <1>3, <1>4 DEF DeskStep

\* A batch names notices that were raised, and somebody to tell; the notice being
\* passed on has reached every place that is not left, unless it was settled meanwhile.
ItemsInv == \A i \in round.items : i.notice \in Raised /\ i.places # {}

SendInv ==
  round.phase = "send" =>
    /\ round.notice \in Raised /\ round.places # {}
    /\ \/ round.notice \in Settled
       \/ \A p \in round.places \ round.left : <<round.notice, p>> \in reached

ToldInv == ItemsInv /\ SendInv

\* Without a run there is nothing to show, and the rest of a batch is part of it.
LEMMA RestToldInv ==
  ASSUME ToldInv, Raised \subseteq Raised',
         \/ round' = NoRound
         \/ round' = [NoRound EXCEPT !.phase = "next", !.items = round.items]
  PROVE  ToldInv'
<1>1. CASE round' = NoRound
  BY <1>1 DEF ToldInv, ItemsInv, SendInv, NoRound
<1>2. CASE round' = [NoRound EXCEPT !.phase = "next", !.items = round.items]
  <2>1. round'.phase = "next" /\ round'.items = round.items
    BY <1>2 DEF NoRound
  <2> QED
    BY <2>1 DEF ToldInv, ItemsInv, SendInv
<1> QED
  BY <1>1, <1>2

LEMMA ToldStep ==
  ASSUME TypeInv, ToldInv, [Next]_vars
  PROVE  ToldInv'
<1>0. Raised \subseteq Raised' /\ Settled \subseteq Settled'
  BY DeskSteps, NoticesStay
<1>r. round \in Round
  BY DEF TypeInv, TypeOK, AgentTypeOK
<1>1. CASE UNCHANGED <<round, reached>>
  BY <1>0, <1>1 DEF ToldInv, ItemsInv, SendInv
<1>2. CASE Poll
  <2>1. CASE UNCHANGED <<round, reached>>
    BY <1>1, <2>1
  <2>2. ASSUME NEW S \in Batches, UNCHANGED open,
               round' = [NoRound EXCEPT !.phase = "next",
                           !.items = {[notice |-> n, places |-> Destinations(n)] : n \in S}]
        PROVE  ToldInv'
    <3>1. round'.phase = "next"
          /\ round'.items = {[notice |-> n, places |-> Destinations(n)] : n \in S}
      BY <2>2 DEF NoRound
    <3>2. \A n \in S : n \in open /\ Destinations(n) # {}
      BY DEF Batches, Due
    <3> QED
      BY <2>2, <3>1, <3>2 DEF ToldInv, ItemsInv, SendInv, Raised
  <2> QED
    BY <1>2, <2>1, <2>2 DEF Poll, Lease
<1>3. ASSUME NEW i \in round.items, Check(i)
      PROVE  ToldInv'
  <2>1. CASE round' = NoRound
    BY <1>0, <2>1, RestToldInv
  <2>2. CASE round' = [phase |-> "send", items |-> round.items \ {i}, notice |-> i.notice,
                       places |-> i.places, left |-> IF Valid(i.notice) THEN i.places ELSE {}]
    <3>1. i.notice \in Raised /\ i.places # {}
      BY DEF ToldInv, ItemsInv
    <3>2. CASE Valid(i.notice)
      BY <1>0, <2>2, <3>1, <3>2 DEF ToldInv, ItemsInv, SendInv
    <3>3. CASE ~Valid(i.notice)
      <4>1. i.notice \in Settled
        BY <3>1, <3>3 DEF Valid, Raised, Settled
      <4> QED
        BY <1>0, <2>2, <3>1, <4>1 DEF ToldInv, ItemsInv, SendInv
    <3> QED
      BY <3>2, <3>3
  <2> QED
    BY <1>3, <2>1, <2>2 DEF Check, Defer
<1>4. ASSUME NEW p \in round.left, Post(p)
      PROVE  ToldInv'
  <2>1. CASE round' = NoRound
    BY <1>0, <2>1, RestToldInv
  <2>2. CASE /\ round' = [round EXCEPT !.left = round.left \ {p}]
             /\ reached' = reached \cup {<<round.notice, p>>}
    <3>1. /\ round'.phase = round.phase /\ round'.items = round.items
          /\ round'.notice = round.notice /\ round'.places = round.places
          /\ round'.left = round.left \ {p}
      BY <1>4, <1>r, <2>2 DEF Post, Round
    <3> QED
      BY <1>0, <2>2, <3>1 DEF ToldInv, ItemsInv, SendInv
  <2> QED
    BY <1>4, <2>1, <2>2 DEF Post, Defer
<1>5. CASE Report
  BY <1>0, <1>5, RestToldInv DEF Report, Acknowledging, Defer
<1>6. CASE Crash
  BY <1>0, <1>6, RestToldInv DEF Crash
<1>7. CASE World \/ Start \/ Stop \/ Exit \/ UNCHANGED vars
  BY <1>1, <1>7 DEF World, Start, Stop, Exit, vars, agentVars
<1>8. ASSUME NEW m \in Message, MessageStep(m)
      PROVE  ToldInv'
  <2>1. UNCHANGED <<round, reached>>
    BY <1>8 DEF MessageStep, Receive, Question, SendLink, Identify, Open, Answered, NotAnswered,
                Say, Apologise
  <2> QED
    BY <1>1, <2>1
<1> QED
  BY <1>2, <1>3, <1>4, <1>5, <1>6, <1>7, <1>8 DEF Next, Rounds, Handle, MessageStep

\* The step of AcknowledgedWasTold.
TellingStep ==
  \A n \in delivered' \ delivered :
    \/ n \in cancelled
    \/ /\ round.places # {}
       /\ \A p \in round.places : <<n, p>> \in reached

LEMMA OnlyReportsSettle ==
  ASSUME TypeInv, ToldInv, [Next]_vars
  PROVE  TellingStep
<1>1. CASE Report
  <2>1. delivered' \subseteq delivered \cup {round.notice}
    BY <1>1 DEF Report, Acknowledging, Acknowledge, deskVars, outbox
  <2>2. /\ round.places # {}
        /\ \/ round.notice \in Settled
           \/ \A p \in round.places : <<round.notice, p>> \in reached
    BY <1>1 DEF Report, AllTried, ToldInv, SendInv
  <2> QED
    BY <2>1, <2>2 DEF TellingStep, Settled
<1>2. CASE ~Report
  <2>1. UNCHANGED delivered
    <3>1. CASE World
      BY <3>1 DEF World, IssueCode, LapseCode, Announce, Supersede, LeaseOver, outbox
    <3>2. CASE Rounds
      BY <1>2, <3>2 DEF Rounds, Poll, Lease, Check, Post, deskVars, outbox
    <3>3. CASE Start \/ Stop \/ Exit \/ Crash \/ UNCHANGED vars
      BY <3>3 DEF Start, Stop, Exit, Crash, vars, deskVars, outbox
    <3>4. ASSUME NEW m \in Message, MessageStep(m)
          PROVE  UNCHANGED delivered
      BY <3>4 DEF MessageStep, Receive, Question, SendLink, MakeLink, Identify, Open, Answered,
                  NotAnswered, Say, Apologise, deskVars, outbox
    <3> QED
      BY <3>1, <3>2, <3>3, <3>4 DEF Next, Handle, MessageStep
  <2> QED
    BY <2>1 DEF TellingStep
<1> QED
  BY <1>1, <1>2

\* What the agent acknowledges was superseded, or posted at every place it was leased
\* for, whichever posts and calls failed before.
THEOREM Told == Spec => AcknowledgedWasTold
<1>1. Init => ToldInv
  BY DEF Init, AgentInit, NoRound, ToldInv, ItemsInv, SendInv
<1>2. TypeInv /\ ToldInv /\ [Next]_vars => ToldInv'
  BY ToldStep
<1>3. TypeInv /\ ToldInv /\ [Next]_vars => [TellingStep]_vars
  BY OnlyReportsSettle
<1>4. Spec => [][TellingStep]_vars
  BY <1>1, <1>2, <1>3, TypeInvariant, PTL DEF Spec
<1> QED
  BY <1>4 DEF AcknowledgedWasTold, TellingStep

-----------------------------------------------------------------------------
(* The counter. *)

IsCounted(m) ==
  \/ task[m].phase \in {"open", "model"}
  \/ task[m].phase = "identify" /\ ~FromChat(m)
  \/ task[m].phase = "say" /\ task[m].say = "answer"

\* What a message's step does to the counter and to what is counted.
Takes(m) == ~IsCounted(m) /\ IsCounted(m)' /\ active < MaxActive /\ active' = active + 1

GivesBack(m) == IsCounted(m) /\ ~IsCounted(m)' /\ active' = active - 1

Holds(m) == (IsCounted(m) <=> IsCounted(m)') /\ active' = active

LEMMA AfterMove ==
  ASSUME TypeInv, NEW m \in Message
  PROVE  /\ \A ph \in {"done", "sorry", "link"} : Goes(m, ph) => ~IsCounted(m)'
         /\ FromChat(m) /\ Goes(m, "identify") => ~IsCounted(m)'
         /\ \A what \in Answer \ {"answer"} : Says(m, what) => ~IsCounted(m)'
         /\ Says(m, "answer") => IsCounted(m)'
<1>0. task \in [Message -> Task]
  BY DEF TypeInv, TypeOK, AgentTypeOK
<1>1. ASSUME NEW ph \in {"done", "sorry", "link", "identify"}, Goes(m, ph)
      PROVE  task'[m].phase = ph
  BY <1>0, <1>1 DEF Goes, Task
<1>2. ASSUME NEW what, Says(m, what)
      PROVE  task'[m].phase = "say" /\ task'[m].say = what
  BY <1>0, <1>2 DEF Says, Task
<1>3. FromChat(m)' = FromChat(m)
  BY DEF FromChat
<1> QED
  BY <1>1, <1>2, <1>3 DEF IsCounted

LEMMA GivingUp ==
  ASSUME TypeInv, NEW m \in Message, IsCounted(m), GivesUp(m)
  PROVE  GivesBack(m)
BY AfterMove DEF GivesUp, GivesBack

LEMMA Starting ==
  ASSUME TypeInv, NEW m \in Message, NEW s, NEW n \in Int,
         task[m].phase = "identify", Starts(m, s, n),
         IF FromChat(m) THEN n = active + 1 /\ active < MaxActive ELSE n = active
  PROVE  Takes(m) \/ GivesBack(m) \/ Holds(m)
<1>0. task \in [Message -> Task] /\ active \in Int
  BY DEF TypeInv, TypeOK, AgentTypeOK
<1>1. IsCounted(m) <=> ~FromChat(m)
  BY DEF IsCounted
<1>2. CASE /\ active' = n
           /\ task' = [task EXCEPT ![m].phase = "open", ![m].subject = s]
  <2>1. task'[m].phase = "open"
    BY <1>0, <1>2 DEF Task
  <2>2. IsCounted(m)'
    BY <2>1 DEF IsCounted
  <2> QED
    BY <1>1, <1>2, <2>2 DEF Takes, Holds
<1>3. CASE /\ active' = n - 1
           /\ Goes(m, IF FromChat(m) THEN "sorry" ELSE "done")
  <2>1. ~IsCounted(m)'
    BY <1>3, AfterMove
  <2> QED
    BY <1>0, <1>1, <1>3, <2>1 DEF GivesBack, Holds
<1> QED
  BY <1>2, <1>3 DEF Starts

LEMMA Counting ==
  ASSUME TypeInv, AskInv, NEW m \in Message, MessageStep(m)
  PROVE  Takes(m) \/ GivesBack(m) \/ Holds(m)
<1>0. task \in [Message -> Task] /\ active \in Int
  BY DEF TypeInv, TypeOK, AgentTypeOK
<1>1. CASE Receive(m)
  <2>1. ~IsCounted(m)
    BY <1>1 DEF Receive, AskInv, IsCounted
  <2>2. ~IsCounted(m)'
    BY <1>1, AfterMove DEF Receive, Answer
  <2> QED
    BY <1>1, <2>1, <2>2 DEF Receive, Holds
<1>2. CASE Question(m)
  <2>1. ~IsCounted(m)
    BY <1>2 DEF Question, IsCounted
  <2>2. task'[m].phase = "identify" /\ ~FromChat(m)'
    BY <1>0, <1>2 DEF Question, Task, FromChat
  <2>3. IsCounted(m)'
    BY <2>2 DEF IsCounted
  <2> QED
    BY <1>2, <2>1, <2>3 DEF Question, Takes
<1>3. CASE SendLink(m)
  <2>1. ~IsCounted(m)
    BY <1>3 DEF SendLink, IsCounted
  <2>2. Goes(m, "sorry") \/ Says(m, "linked")
    BY <1>3 DEF SendLink
  <2>3. ~IsCounted(m)'
    BY <2>2, AfterMove DEF Answer
  <2> QED
    BY <1>3, <2>1, <2>3 DEF SendLink, Holds
<1>4. CASE Identify(m)
  <2>0. task[m].phase = "identify"
    BY <1>4 DEF Identify
  <2>1. IsCounted(m) <=> ~FromChat(m)
    BY <2>0 DEF IsCounted
  <2>2. CASE NotIdentified(m)
    <3>1. CASE FromChat(m)
      BY <2>1, <2>2, <3>1, AfterMove DEF NotIdentified, Holds
    <3>2. CASE ~FromChat(m)
      BY <2>1, <2>2, <3>2, GivingUp DEF NotIdentified
    <3> QED
      BY <3>1, <3>2
  <2>3. CASE Identified(m)
    <3>1. CASE ~FromChat(m)
      BY <1>0, <2>0, <2>3, <3>1, Starting DEF Identified
    <3>2. CASE FromChat(m) /\ active < MaxActive
      <4>1. active + 1 \in Int
        BY <1>0
      <4>2. Starts(m, links[Mail[m].by].subject, active + 1)
        BY <2>3, <3>2 DEF Identified
      <4> QED
        BY <2>0, <3>2, <4>1, <4>2, Starting
    <3>3. CASE FromChat(m) /\ ~(active < MaxActive)
      <4>1. Says(m, "busy") /\ UNCHANGED active
        BY <2>3, <3>3 DEF Identified
      <4>2. ~IsCounted(m)'
        BY <4>1, AfterMove DEF Answer
      <4> QED
        BY <2>1, <3>3, <4>1, <4>2 DEF Holds
    <3> QED
      BY <3>1, <3>2, <3>3
  <2> QED
    BY <1>4, <2>2, <2>3 DEF Identify
<1>5. CASE Open(m)
  <2>1. IsCounted(m)
    BY <1>5 DEF Open, IsCounted
  <2>2. CASE GivesUp(m)
    BY <2>1, <2>2, GivingUp
  <2>3. CASE /\ task' = [task EXCEPT ![m].phase = "model", ![m].read = session[Key(m)]]
             /\ UNCHANGED active
    <3>1. task'[m].phase = "model"
      BY <1>0, <2>3 DEF Task
    <3> QED
      BY <2>1, <2>3, <3>1 DEF IsCounted, Holds
  <2> QED
    BY <1>5, <2>2, <2>3 DEF Open
<1>6. CASE Answered(m)
  <2>1. IsCounted(m)
    BY <1>6 DEF Answered, IsCounted
  <2>2. CASE FromChat(m)
    BY <1>6, <2>1, <2>2, AfterMove DEF Answered, Holds
  <2>3. CASE ~FromChat(m)
    BY <1>6, <2>1, <2>3, AfterMove DEF Answered, GivesBack
  <2> QED
    BY <2>2, <2>3
<1>7. CASE NotAnswered(m)
  BY <1>7, GivingUp DEF NotAnswered, IsCounted
<1>8. CASE Say(m)
  <2>1. ~IsCounted(m)' /\ task[m].phase = "say"
    BY <1>8, AfterMove DEF Say
  <2>2. active' = IF task[m].say = "answer" THEN active - 1 ELSE active
    BY <1>8 DEF Say, CountedDown
  <2>3. IsCounted(m) <=> task[m].say = "answer"
    BY <2>1 DEF IsCounted
  <2> QED
    BY <2>1, <2>2, <2>3 DEF GivesBack, Holds
<1>9. CASE Apologise(m)
  <2>1. ~IsCounted(m) /\ ~IsCounted(m)'
    BY <1>9, AfterMove DEF Apologise, IsCounted
  <2> QED
    BY <1>9, <2>1 DEF Apologise, Holds
<1> QED
  BY <1>1, <1>2, <1>3, <1>4, <1>5, <1>6, <1>7, <1>8, <1>9 DEF MessageStep

LEMMA CountedIsFinite ==
  /\ IsFiniteSet(Counted) /\ Cardinality(Counted) \in Nat
  /\ \A m \in Message : m \in Counted <=> IsCounted(m)
<1>1. Counted \subseteq Message
  BY DEF Counted
<1>2. IsFiniteSet(Message)
  BY AgentAssumption DEF AgentAssumption
<1> QED
  BY <1>1, <1>2, FS_Subset, FS_CardinalityType DEF Counted, IsCounted

LEMMA CountStep ==
  ASSUME TypeInv, AskInv, ActiveIsCount, [Next]_vars
  PROVE  ActiveIsCount'
<1>0. MaxActive \in Nat /\ active = Cardinality(Counted) /\ active <= MaxActive
      /\ Cardinality(Counted) \in Nat
  BY AgentAssumption, CountedIsFinite DEF AgentAssumption, ActiveIsCount
<1>1. CASE UNCHANGED messageVars \/ Exit
  <2>1. UNCHANGED <<task, active>>
    BY <1>1 DEF messageVars, Exit
  <2> QED
    BY <2>1 DEF ActiveIsCount, Counted, FromChat
<1>2. CASE Crash
  <2>1. \A m \in Message : task'[m].phase \in {"none", "done"}
    BY <1>2 DEF Crash, NoTask
  <2>2. Counted' = {}
    BY <2>1 DEF Counted
  <2> QED
    BY <1>0, <1>2, <2>2, FS_EmptySet DEF Crash, ActiveIsCount
<1>3. ASSUME NEW m \in Message, MessageStep(m)
      PROVE  ActiveIsCount'
  <2>1. \A k \in Message \ {m} : k \in Counted' <=> k \in Counted
    BY <1>3, OthersStay DEF Counted, FromChat
  <2>2. (m \in Counted <=> IsCounted(m)) /\ (m \in Counted' <=> IsCounted(m)')
    BY DEF Counted, IsCounted
  <2>3. Counted \subseteq Message /\ Counted' \subseteq Message /\ IsFiniteSet(Counted)
    BY CountedIsFinite DEF Counted
  <2>4. CASE Takes(m)
    <3>1. m \notin Counted /\ Counted' = Counted \cup {m}
      BY <2>1, <2>2, <2>3, <2>4 DEF Takes
    <3>2. Cardinality(Counted') = Cardinality(Counted) + 1
      BY <2>3, <3>1, FS_AddElement
    <3> QED
      BY <1>0, <2>4, <3>2 DEF Takes, ActiveIsCount
  <2>5. CASE GivesBack(m)
    <3>1. m \in Counted /\ Counted' = Counted \ {m}
      BY <2>1, <2>2, <2>3, <2>5 DEF GivesBack
    <3>2. Cardinality(Counted') = Cardinality(Counted) - 1
      BY <2>3, <3>1, FS_RemoveElement
    <3> QED
      BY <1>0, <2>5, <3>2 DEF GivesBack, ActiveIsCount
  <2>6. CASE Holds(m)
    <3>1. Counted' = Counted
      BY <2>1, <2>2, <2>3, <2>6 DEF Holds
    <3> QED
      BY <1>0, <2>6, <3>1 DEF Holds, ActiveIsCount
  <2> QED
    BY <1>3, <2>4, <2>5, <2>6, Counting
<1> QED
  BY <1>1, <1>2, <1>3, MessageSteps

\* The counter is exact: no way a question ends, or does not begin, leaves it too high
\* for the questions still to come, and no order of checks lets one too many in.
THEOREM CounterExact == Spec => []ActiveIsCount
<1>1. Init => ActiveIsCount
  <2> SUFFICES ASSUME Init
               PROVE  ActiveIsCount
    OBVIOUS
  <2>1. Counted = {} /\ active = 0
    BY DEF Init, AgentInit, NoTask, Counted
  <2>2. MaxActive \in Nat
    BY AgentAssumption DEF AgentAssumption
  <2> QED
    BY <2>1, <2>2, FS_EmptySet DEF ActiveIsCount
<1>2. TypeInv /\ AskInv /\ ActiveIsCount /\ [Next]_vars => ActiveIsCount'
  BY CountStep
<1> QED
  BY <1>1, <1>2, TypeInvariant, AskInvariant, PTL DEF Spec
=============================================================================
