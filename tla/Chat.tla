--------------------------------- MODULE Chat --------------------------------
(***************************************************************************)
(* The chat agent at work: people link accounts and ask, the portal asks,  *)
(* notices are raised, superseded and passed on, the process stops, dies   *)
(* and comes back.                                                         *)
(***************************************************************************)
EXTENDS ChatAgent

World ==
  /\ \/ \E c \in Code : IssueCode(c) \/ LapseCode(c)
     \/ \E n \in Notice : Announce(n) \/ Supersede(n) \/ LeaseOver(n)
  /\ UNCHANGED agentVars

\* What is left to do for a message that was let in.
Handle(m) ==
  \/ SendLink(m) \/ Identify(m) \/ Open(m) \/ Answered(m) \/ NotAnswered(m)
  \/ Say(m) \/ Apologise(m)

Rounds ==
  \/ Poll \/ Report
  \/ \E i \in round.items : Check(i)
  \/ \E p \in round.left : Post(p)

Init == DeskInit /\ AgentInit

Next ==
  \/ World \/ Rounds \/ Start \/ Stop \/ Exit \/ Crash
  \/ \E m \in Message : Receive(m) \/ Question(m) \/ Handle(m)

Spec == Init /\ [][Next]_vars

TypeOK == DeskTypeOK /\ AgentTypeOK

(***************************************************************************)
(* Fairness: the process is restarted, and leaves when it has nothing to   *)
(* do.  Calls to the lifecycle API, to Slack and to Teams have a time      *)
(* limit, so a message that was let in goes on, and so does the round the  *)
(* interval starts; sending to Google Chat has none, and neither the       *)
(* message nor the round need ever get past it.  A lease ends.  Where a    *)
(* batch has several items, its order is that of a Go map, which starts    *)
(* anywhere: any item comes first every now and then.                      *)
(***************************************************************************)
Fairness ==
  /\ WF_vars(Start) /\ WF_vars(Exit)
  /\ \A m \in Message : WF_vars(~Hanging(m) /\ Handle(m))
  /\ WF_vars(Poll) /\ WF_vars(~Waiting /\ Rounds)
  /\ \A n \in Notice : /\ WF_vars(LeaseOver(n) /\ UNCHANGED agentVars)
                       /\ SF_vars(\E i \in round.items : i.notice = n /\ Check(i))

FairSpec == Spec /\ Fairness

-----------------------------------------------------------------------------
\* The questions counted as active.
Counted ==
  {m \in Message : \/ task[m].phase \in {"open", "model"}
                   \/ task[m].phase = "identify" /\ ~FromChat(m)
                   \/ task[m].phase = "say" /\ task[m].say = "answer"}

\* "active" is the number of questions under way, however they end (an unknown
\* provider, a conversation that is taken, a failed answer), and never exceeds
\* the limit although chat and portal count at different points.
ActiveIsCount == active = Cardinality(Counted) /\ active <= MaxActive

InModel == {m \in Message : task[m].phase \in {"open", "model"}}

\* Two questions never work on the same conversation at once, and whoever works
\* on one holds its lock.
OneQuestionPerConversation ==
  /\ \A m \in InModel : Key(m) \in locks
  /\ \A m1, m2 \in InModel : Key(m1) = Key(m2) => m1 = m2

\* A conversation's session only grows, by one turn at a time, and stays with the
\* provider it began with, although it is read before the model runs and written
\* after.
SessionsGrow ==
  [][\A k \in Conversation : session'[k] # session[k] =>
       /\ session[k].provider \in {None, session'[k].provider}
       /\ \E m \in Message : session'[k].turns = session[k].turns \cup {m}]_vars

\* A chat message is put to the model at most once, however often the platform
\* delivers it and whenever the process dies: what it did is not done again.
AskedAtMostOnce == \A m \in Message : FromChat(m) => asked[m] <= 1

\* A link stands for a code its subject asked for, and no code makes two links.
CodesLinkOnce ==
  \A p \in Person : links[p] # NoLink =>
    /\ codes[links[p].code] = "gone" /\ links[p].subject = CodeOf[links[p].code]
    /\ \A q \in Person : links[q] # NoLink /\ links[q].code = links[p].code => q = p

\* A notice is acknowledged only when it was superseded, or has been posted at
\* every place its batch named, across failed posts, lost answers and restarts.
AcknowledgedWasTold ==
  [][\A n \in delivered' \ delivered :
       \/ n \in cancelled
       \/ /\ round.places # {}
          /\ \A p \in round.places : <<n, p>> \in reached]_vars

-----------------------------------------------------------------------------
\* Every message let in is dealt with, or lost with the process, unless its reply hangs
\* in Google Chat: nothing else can keep a message, nor its place among the active
\* ones.  Messages are finitely many here, so that says it of each of them.
UnderWay(m) == task[m].phase \notin {"none", "done"}

MessagesAreHandled == Busy ~> \A m \in Message : UnderWay(m) => Hanging(m)

\* A notice somebody can be told of is passed on or superseded, although other
\* notices of its batch cannot be, unless a post to Google Chat hangs for ever:
\* then the round does ("notifying" stays true), or a process told to stop never leaves.
Reachable(n) == Owner[n] \in Configured /\ Destinations(n) # {} /\ Destinations(n) \cap Dead = {}

Held == Waiting \/ (up = "closing" /\ \E m \in Message : Hanging(m))

NoticesArePassedOn ==
  []<>~Held => \A n \in Notice : (n \in open /\ Reachable(n)) ~> (n \notin open \/ ~Reachable(n))
=============================================================================
