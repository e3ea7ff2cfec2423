----------------------------- MODULE AgentTurns -----------------------------
(***************************************************************************)
(* The access agent's conversations (services/access-agent): a question    *)
(* from chat is taken for a Teleport user, answered by Claude with that    *)
(* user's tools, and kept in the conversation.  Two back ends: the API     *)
(* with the agent's own transcripts and a pool of MCP sessions, or the     *)
(* Claude Code program with its sessions and a proxy for each turn.        *)
(*                                                                         *)
(* Who a person is on their platform is settled before; the words of a     *)
(* message are its kind.  Code between two awaits is one step.             *)
(***************************************************************************)
EXTENDS Integers, Sequences, FiniteSets

CONSTANTS
  None,
  Person, User,  \* people in chat, and Teleport's users
  Thread,        \* channels' threads
  Terminal,      \* the threads of the command line, which takes one line at a time
  Turn,          \* questions
  Backend,       \* CLAUDE_AUTH_MODE, "api-key" or "subscription"
  MaxTurns,      \* SESSION_MAX_TURNS: the messages a transcript keeps
  MaxRounds,     \* the rounds of one answer (12)
  OnFile,        \* SESSION_BACKEND: transcripts and ids are kept in files
  MaxMishaps     \* bound: calls and processes that fail, users that change

ASSUME TurnsAssumption ==
  /\ None \notin User /\ Terminal \subseteq Thread
  /\ Backend \subseteq {"api-key", "subscription"}
  /\ MaxTurns \in Nat \ {0} /\ MaxRounds \in Nat \ {0}
  /\ OnFile \in BOOLEAN /\ MaxMishaps \in Nat

VARIABLES
  up, backend,
  login,       \* the broker's answer to who a person is in Teleport
  turn,        \* handleMessage, for each question
  pool,        \* McpSessionPool: a session for a person and a user
  catalogue,   \* its list of tools
  bound, live, \* the MCP server: who each session acts for, and those not ended
  transcript,  \* the session store, and its file
  saved,
  ids,         \* the id store, and its file
  savedIds,
  claude,      \* Claude Code's sessions: the questions each was asked
  held,        \* those it still has
  proxy,       \* the turns whose proxy listens
  stale, mishaps

server == <<bound, live>>
pooled == <<pool, catalogue, server>>
kept == <<transcript, saved>>
coded == <<ids, savedIds, claude, held, proxy>>
vars == <<up, backend, login, turn, pooled, kept, coded, stale, mishaps>>

-----------------------------------------------------------------------------
\* A message of a transcript: the question, Claude's words and calls, or a tool's answer.
Message == [turn : Turn, kind : {"ask", "say", "result"}]

Phase == {"none", "ask", "open", "connecting", "listing", "model", "keep",
          "starting", "child", "hung", "closing", "done"}

TurnState ==
  [phase : Phase, who : Person \cup {None}, thread : Thread \cup {None}, user : User \cup {None},
   session : Nat, history : Seq(Message), fresh : Seq(Message), id : Nat, resume : BOOLEAN,
   end : {"none", "ok", "failed", "auth", "gone", "unwritten"}]

NoTurn == [phase |-> "none", who |-> None, thread |-> None, user |-> None, session |-> 0,
           history |-> <<>>, fresh |-> <<>>, id |-> 0, resume |-> FALSE, end |-> "none"]

\* sessionKey: two people in one thread have two conversations.
Key(t) == <<turn[t].thread, turn[t].who>>

\* Variant: a session is the person's.
PoolKeyOfPerson(t) == <<turn[t].who, CHOOSE u \in User : TRUE>>

\* sessionKeyFor.
PoolKey(t) == <<turn[t].who, turn[t].user>>

Conversation == Thread \X Person

TypeOK ==
  /\ up \in BOOLEAN /\ backend \in Backend
  /\ login \in [Person -> User \cup {None}]
  /\ turn \in [Turn -> TurnState]
  /\ pool \in [Person \X User -> 0..Len(bound)] /\ catalogue \in BOOLEAN
  /\ bound \in Seq(User) /\ live \subseteq DOMAIN bound
  /\ transcript \in [Conversation -> Seq(Message)] /\ saved \in [Conversation -> Seq(Message)]
  /\ ids \in [Conversation -> 0..Len(claude)] /\ savedIds \in [Conversation -> 0..Len(claude)]
  /\ claude \in Seq(SUBSET Turn) /\ held \subseteq DOMAIN claude
  /\ proxy \subseteq Turn
  /\ stale \in BOOLEAN /\ mishaps \in Nat

Init ==
  /\ up = TRUE /\ backend \in Backend
  /\ login \in [Person -> User]
  /\ turn = [t \in Turn |-> NoTurn]
  /\ pool = [k \in Person \X User |-> 0] /\ catalogue = FALSE
  /\ bound = <<>> /\ live = {}
  /\ transcript = [k \in Conversation |-> <<>>] /\ saved = transcript
  /\ ids = [k \in Conversation |-> 0] /\ savedIds = ids
  /\ claude = <<>> /\ held = {} /\ proxy = {}
  /\ stale = FALSE /\ mishaps = 0

Mishap == mishaps < MaxMishaps /\ mishaps' = mishaps + 1

To(t, r) == turn' = [turn EXCEPT ![t] = r]

\* The turn is over; what is kept is whose question it was.
Over(t) == [NoTurn EXCEPT !.phase = "done", !.who = turn[t].who, !.thread = turn[t].thread]

-----------------------------------------------------------------------------
(* A question, and for whom. *)

Running(t) == turn[t].phase \notin {"none", "done"}

Asks(t, p, th) ==
  /\ up /\ turn[t].phase = "none"
  /\ To(t, [NoTurn EXCEPT !.phase = "ask", !.who = p, !.thread = th])
  /\ UNCHANGED <<up, backend, login, pooled, kept, coded, stale, mishaps>>

\* A message that an adapter takes to the agent, whatever else is being answered.
AskInChat(t, p, th) == th \notin Terminal /\ Asks(t, p, th)

\* A line at the terminal, unless it is busy with another one.
AskAtTerminal(t, p, th) ==
  /\ th \in Terminal /\ \A o \in Turn : Running(o) => turn[o].thread # th
  /\ Asks(t, p, th)

\* IdentityResolver.resolve: nobody's user, or the broker does not answer, and it ends here.
Identify(t) ==
  /\ turn[t].phase = "ask"
  /\ \/ /\ login[turn[t].who] # None
        /\ To(t, [turn[t] EXCEPT !.phase = "open", !.user = login[turn[t].who]])
        /\ UNCHANGED mishaps
     \/ login[turn[t].who] = None /\ To(t, Over(t)) /\ UNCHANGED mishaps
     \/ Mishap /\ To(t, Over(t))
  /\ UNCHANGED <<up, backend, login, pooled, kept, coded, stale>>

-----------------------------------------------------------------------------
(* ApiKeyBackend.run. *)

\* The catalogue is at hand or has to be asked for; history is a copy of the transcript.
Equipped(t, s) ==
  [turn[t] EXCEPT !.session = s, !.phase = IF catalogue THEN "model" ELSE "listing",
                  !.history = IF catalogue THEN transcript[Key(t)] ELSE <<>>,
                  !.fresh = IF catalogue THEN <<[turn |-> t, kind |-> "ask"]>> ELSE <<>>]

\* McpSessionPool.for: the pooled session, or a connection is begun.
Open(t) ==
  /\ turn[t].phase = "open" /\ backend = "api-key"
  /\ To(t, IF pool[PoolKey(t)] # 0 THEN Equipped(t, pool[PoolKey(t)])
           ELSE [turn[t] EXCEPT !.phase = "connecting"])
  /\ UNCHANGED <<up, backend, login, pooled, kept, coded, stale, mishaps>>

\* The server binds a session to the subject of the assertion it is opened with; the pool takes
\* it, whatever it held before.
Connect(t) ==
  /\ turn[t].phase = "connecting"
  /\ \/ /\ bound' = Append(bound, turn[t].user)
        /\ live' = live \cup {Len(bound')}
        /\ pool' = [pool EXCEPT ![PoolKey(t)] = Len(bound')]
        /\ To(t, Equipped(t, Len(bound')))
        /\ UNCHANGED mishaps
     \/ Mishap /\ To(t, Over(t)) /\ UNCHANGED <<pool, server>>
  /\ UNCHANGED <<up, backend, login, catalogue, kept, coded, stale>>

\* McpSessionPool.tools, with a session that may have ended.
ListTools(t) ==
  /\ turn[t].phase = "listing"
  /\ IF turn[t].session \in live
     THEN /\ catalogue' = TRUE
          /\ To(t, [turn[t] EXCEPT !.phase = "model", !.history = transcript[Key(t)],
                                   !.fresh = <<[turn |-> t, kind |-> "ask"]>>])
     ELSE To(t, Over(t)) /\ UNCHANGED catalogue
  /\ UNCHANGED <<up, backend, login, pool, server, kept, coded, stale, mishaps>>

\* One round of the tool runner: a call, with its result; the answer; an answer cut short, which
\* the runner has not added to its messages; or the API fails.
Round(t) ==
  LET said == [turn |-> t, kind |-> "say"]  result == [turn |-> t, kind |-> "result"]
      fresh == turn[t].fresh
  IN /\ turn[t].phase = "model"
     /\ \/ /\ Len(fresh) < 2 * MaxRounds
           /\ To(t, [turn[t] EXCEPT !.fresh = fresh \o <<said, result>>])
           /\ UNCHANGED mishaps
        \/ /\ To(t, [turn[t] EXCEPT !.phase = "keep",
                       !.fresh = IF Len(fresh) < 2 * MaxRounds THEN Append(fresh, said) ELSE fresh])
           /\ UNCHANGED mishaps
        \/ To(t, [turn[t] EXCEPT !.phase = "keep"]) /\ UNCHANGED mishaps
        \/ Mishap /\ To(t, Over(t))
     /\ UNCHANGED <<up, backend, login, pooled, kept, coded, stale>>

\* Where a transcript may begin: at its first message, or at a later question.
Beginnings(s) == {1} \cup {i \in 2..Len(s) : s[i].kind = "ask"}

\* Variant: the last messages are kept.
LastMessages(s) == SubSeq(s, IF Len(s) > MaxTurns THEN Len(s) - MaxTurns + 1 ELSE 1, Len(s))

\* MemorySessionStore.append: questions are dropped from the front with all that belongs to
\* them, until the rest fits or is the last one.
Trimmed(s) ==
  LET fits == {i \in Beginnings(s) : Len(s) - i + 1 <= MaxTurns}
      from == IF fits # {} THEN CHOOSE i \in fits : \A j \in fits : i <= j
              ELSE CHOOSE i \in Beginnings(s) : \A j \in Beginnings(s) : j <= i
  IN SubSeq(s, from, Len(s))

\* Variant: the transcript as it was read, and what this turn adds.
Rewritten(t) == Trimmed(turn[t].history \o turn[t].fresh)

\* The transcript as it is now, and what this turn adds.
Longer(t) == Trimmed(transcript[Key(t)] \o turn[t].fresh)

\* The exchange is kept, and the file written; when that fails the asker is told of an error.
Keep(t) ==
  /\ turn[t].phase = "keep"
  /\ transcript' = [transcript EXCEPT ![Key(t)] = Longer(t)]
  /\ \/ /\ saved' = IF OnFile THEN transcript' ELSE saved
        /\ stale' = FALSE /\ UNCHANGED mishaps
     \/ OnFile /\ Mishap /\ UNCHANGED <<saved, stale>>
  /\ To(t, Over(t))
  /\ UNCHANGED <<up, backend, login, pooled, coded>>

\* evict, when a session was not asked for in 15 minutes: the server is told to end it.
Evict(k) ==
  /\ up /\ pool[k] # 0
  /\ pool' = [pool EXCEPT ![k] = 0]
  /\ live' = live \ {pool[k]}
  /\ UNCHANGED <<up, backend, login, turn, catalogue, bound, kept, coded, stale, mishaps>>

-----------------------------------------------------------------------------
(* ClaudeCodeBackend.run. *)

\* The conversation's session, if it has one, and a proxy is begun.
Resume(t) ==
  /\ turn[t].phase = "open" /\ backend = "subscription"
  /\ To(t, [turn[t] EXCEPT !.phase = "starting", !.id = ids[Key(t)], !.resume = ids[Key(t)] # 0])
  /\ UNCHANGED <<up, backend, login, pooled, kept, coded, stale, mishaps>>

\* once: the proxy listens, the child gets its address and the question.  When the file with
\* the address cannot be written the proxy is left listening.
StartChild(t) ==
  /\ turn[t].phase = "starting"
  /\ \/ /\ claude' = IF turn[t].resume THEN claude ELSE Append(claude, {})
        /\ To(t, [turn[t] EXCEPT !.phase = "child", !.id = IF turn[t].resume THEN @ ELSE Len(claude')])
        /\ proxy' = proxy \cup {t} /\ UNCHANGED mishaps
     \/ /\ Mishap
        /\ \/ proxy' = proxy \cup {t} /\ To(t, [Over(t) EXCEPT !.end = "unwritten"])
           \/ UNCHANGED proxy /\ To(t, Over(t))
        /\ UNCHANGED claude
  /\ UNCHANGED <<up, backend, login, pooled, kept, ids, savedIds, held, stale>>

\* The program works and ends, or waits for what never comes.
Ends(t, e) ==
  /\ To(t, [turn[t] EXCEPT !.phase = "closing", !.end = e])
  /\ stale' = (e = "auth" \/ (stale /\ e # "ok"))

ChildEnds(t) ==
  LET known == turn[t].resume => turn[t].id \in held
      heard == claude' = [claude EXCEPT ![turn[t].id] = @ \cup {t}] /\ held' = held \cup {turn[t].id}
  IN /\ turn[t].phase = "child"
     /\ \/ known /\ heard /\ Ends(t, "ok") /\ UNCHANGED mishaps
        \/ ~known /\ Ends(t, "gone") /\ UNCHANGED <<claude, held, mishaps>>
        \/ /\ Mishap
           /\ \E e \in {"failed", "auth"} : Ends(t, e)
           /\ (known /\ heard) \/ UNCHANGED <<claude, held>>
     /\ UNCHANGED <<up, backend, login, pooled, kept, ids, savedIds, proxy>>

ChildHangs(t) ==
  /\ turn[t].phase = "child" /\ Mishap
  /\ To(t, [turn[t] EXCEPT !.phase = "hung"])
  /\ UNCHANGED <<up, backend, login, pooled, kept, coded, stale>>

\* Variant: only the child, whose own children keep its pipes open.
KilledAlone(t) == [turn[t] EXCEPT !.phase = "hung"]

\* The child's whole process group is killed.
Killed(t) == [turn[t] EXCEPT !.phase = "closing", !.end = "failed"]

Timeout(t) ==
  /\ turn[t].phase = "hung"
  /\ To(t, Killed(t))
  /\ UNCHANGED <<up, backend, login, pooled, kept, coded, stale, mishaps>>

\* FileSessionIdStore.persist does its best.
PersistIds ==
  \/ savedIds' = (IF OnFile THEN ids' ELSE savedIds) /\ UNCHANGED mishaps
  \/ OnFile /\ Mishap /\ UNCHANGED savedIds

\* Variant: the proxy is closed when the turn has its answer.
ClosedWhenAnswered(t) == IF turn[t].end = "gone" THEN proxy ELSE proxy \ {t}

\* The end of once, in whatever way: its proxy is closed.
Closed(t) == proxy \ {t}

\* A session the child could not resume is forgotten, and the question asked in a new one;
\* otherwise the id the child reported is remembered, if it reported one.
Close(t) ==
  /\ turn[t].phase = "closing"
  /\ proxy' = Closed(t)
  /\ IF turn[t].end = "gone"
     THEN /\ ids' = [ids EXCEPT ![Key(t)] = 0] /\ PersistIds
          /\ To(t, [turn[t] EXCEPT !.phase = "starting", !.id = 0, !.resume = FALSE, !.end = "none"])
     ELSE /\ \/ turn[t].end # "auth" /\ ids' = [ids EXCEPT ![Key(t)] = turn[t].id] /\ PersistIds
             \/ turn[t].end # "ok" /\ UNCHANGED <<ids, savedIds, mishaps>>
          /\ To(t, Over(t))
  /\ UNCHANGED <<up, backend, login, pooled, kept, claude, held, stale>>

-----------------------------------------------------------------------------
(* The probes, the broker's directory, the server, and the process. *)

\* ApiKeyBackend.probe at the start: the key is taken, refused, or nothing is learnt.
Probe ==
  /\ up /\ backend = "api-key"
  /\ stale' \in BOOLEAN /\ stale' # stale
  /\ Mishap
  /\ UNCHANGED <<up, backend, login, turn, pooled, kept, coded>>

\* A person gets another Teleport user, or none.
Relink(p, u) ==
  /\ Mishap
  /\ login' = [login EXCEPT ![p] = u] /\ login' # login
  /\ UNCHANGED <<up, backend, turn, pooled, kept, coded, stale>>

\* The server ends a session: it was idle for 30 minutes, or the server was started again.
SessionEnds(s) ==
  /\ s \in live /\ Mishap
  /\ live' = live \ {s}
  /\ UNCHANGED <<up, backend, login, turn, pool, catalogue, bound, kept, coded, stale>>

\* The process ends.  On a signal it first ends the sessions of its pool.
Quit ==
  /\ up /\ up' = FALSE /\ Mishap
  /\ turn' = [t \in Turn |-> IF turn[t].phase = "none" THEN turn[t] ELSE Over(t)]
  /\ live' \in {live, live \ {pool[k] : k \in DOMAIN pool}}
  /\ pool' = [k \in DOMAIN pool |-> 0] /\ catalogue' = FALSE
  /\ proxy' = {} /\ stale' = FALSE
  /\ transcript' = saved /\ ids' = savedIds
  /\ UNCHANGED <<backend, login, bound, saved, savedIds, claude, held>>

\* It is started again; Claude Code's sessions are there if its directory is a lasting volume.
Restart ==
  /\ ~up /\ up' = TRUE
  /\ held' \in {held, {}}
  /\ UNCHANGED <<backend, login, turn, pooled, kept, ids, savedIds, claude, proxy, stale, mishaps>>

-----------------------------------------------------------------------------
ApiStep(t) == Open(t) \/ Connect(t) \/ ListTools(t) \/ Round(t) \/ Keep(t)

ChildStep(t) == Resume(t) \/ StartChild(t) \/ ChildEnds(t) \/ ChildHangs(t) \/ Timeout(t) \/ Close(t)

TurnStep(t) == Identify(t) \/ ApiStep(t) \/ ChildStep(t)

Next ==
  \/ \E t \in Turn :
       TurnStep(t) \/ \E p \in Person, th \in Thread : AskInChat(t, p, th) \/ AskAtTerminal(t, p, th)
  \/ \E k \in Person \X User : Evict(k)
  \/ \E p \in Person, u \in User \cup {None} : Relink(p, u)
  \/ \E s \in live : SessionEnds(s)
  \/ Probe \/ Quit \/ Restart

Spec == Init /\ [][Next]_vars

\* The process is started again, and goes on with its turns: every one of them is a bounded
\* number of steps, and a child that hangs is timed out.
Fairness == WF_vars(Restart) /\ WF_vars(\E t \in Turn : TurnStep(t))

FairSpec == Spec /\ Fairness

-----------------------------------------------------------------------------
(* Properties. *)

\* Whatever session or proxy a turn's tools go through, the MCP server takes them for the user
\* the turn was begun for, though people change users and turns share a pool (mcp/client.ts:4-7).
CallsActForAsker ==
  \A t \in Turn : turn[t].phase \in {"listing", "model"} => bound[turn[t].session] = turn[t].user

\* A transcript can be replayed: it begins with a question, and a tool's result follows the call
\* of its own turn, however turns of a conversation overlap (session-store.ts:1-6).
Replayable ==
  \A k \in Conversation : LET s == transcript[k] IN
    /\ s # <<>> => s[1].kind = "ask"
    /\ \A i \in 2..Len(s) : s[i].kind # "ask" =>
         s[i].turn = s[i - 1].turn /\ (s[i].kind = "result" => s[i - 1].kind = "say")

\* A turn that ends adds its exchange to the conversation as that is by then; what is lost for it
\* is a beginning, and only for want of room (session-store.ts:2-3).
NoExchangeLost ==
  [][\A t \in Turn : turn[t].phase = "keep" /\ turn'[t].phase = "done" /\ up' =>
       LET old == transcript[Key(t)]  all == old \o turn[t].fresh
       IN \E d \in 0..Len(old) :
            /\ transcript'[Key(t)] = SubSeq(all, d + 1, Len(all))
            /\ Len(all) <= MaxTurns => d = 0]_vars

\* A proxy listens for a turn that runs, whichever way it ends; but for the turn whose child was
\* never told of it (mcp/assertion-proxy.ts:5).
ProxyPerTurn ==
  \A t \in proxy : turn[t].phase \in {"child", "hung", "closing"} \/ turn[t].end = "unwritten"

\* Every question comes to an end, though Claude hangs and the process dies.
TurnsEnd == \A t \in Turn : turn[t].phase = "ask" ~> turn[t].phase = "done"
=============================================================================
