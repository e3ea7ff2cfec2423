----------------------------- MODULE PortalWork -----------------------------
(***************************************************************************)
(* The portal's other pages that do something: the assistant, whose        *)
(* conversation lives in the tab's session storage, the promotion form,    *)
(* the two pages that only read (tools and policies), and the account      *)
(* dialog and sign-in page around them.  The chat agent's memory of a      *)
(* conversation and GitHub's workflow runs are outside.                    *)
(***************************************************************************)
EXTENDS PortalShell, Sequences

CONSTANTS
  Person,         \* who may sign in in this tab
  Provider,       \* the inference providers
  Target,         \* the environments that images are promoted to
  MaxChats,       \* bound: conversations
  MaxSaid,        \* bound: exchanges of one conversation, and questions put
  MaxEditions,    \* bound: changes of what the reading pages show
  MaxOutages      \* bound: calls that fail or whose answer is lost

ASSUME WorkAssumption ==
  /\ None \notin Person \cup Provider \cup Target
  /\ MaxChats \in Nat /\ MaxSaid \in Nat /\ MaxEditions \in Nat /\ MaxOutages \in Nat

VARIABLES
  who,         \* who is signed in
  signing,     \* the sign-in page: looking for a session, waiting for the pop-up, or for a press
  chat,        \* the assistant's conversation, and the copy in the session storage
  stored,
  chats,       \* conversations begun, and questions put
  asks,
  question,    \* the question on its way, if any
  spoken,      \* the agent's memory: the questions it answered, with the conversation of each
  board,       \* the hook of the page that only reads, and what there is to read
  edition,
  promotion,   \* the promotion form
  order,       \* its call
  runs,        \* the workflow runs started for each target
  account,     \* the account dialog: its call, and the link code it shows
  codes,       \* how many link codes the lifecycle API gave out
  outages

assistant == <<chat, stored, chats, asks, question, spoken>>
release == <<promotion, order, runs>>
profile == <<who, signing, account, codes>>
workVars == <<shell, profile, assistant, board, edition, release, outages>>

-----------------------------------------------------------------------------
\* An exchange is known by its question; conv and provider are what the question was sent with.
Exchange == [text : Nat, conv : Nat, provider : Provider]
Chat == [id : Nat, provider : Provider, said : Seq(Exchange), by : Person]

\* here: the page that asked is still shown.
Question == [at : {"idle", "sent", "ok", "failed"}, text : Nat, conv : Nat,
             provider : Provider \cup {None}, here : BOOLEAN]
NoQuestion == [at |-> "idle", text |-> 0, conv |-> 0, provider |-> None, here |-> TRUE]

Promotion == [target : Target \cup {None}, review : BOOLEAN, done : BOOLEAN]
NoPromotion == [target |-> None, review |-> FALSE, done |-> FALSE]

Order == [at : {"idle", "sent", "ok", "failed"}, target : Target \cup {None}, here : BOOLEAN]
NoOrder == [at |-> "idle", target |-> None, here |-> TRUE]

Account == [open : BOOLEAN, at : {"idle", "sent", "ok", "failed", "leaving"}, code : Nat]
Closed == [open |-> FALSE, at |-> "idle", code |-> 0]

WorkTypeOK ==
  /\ setup \in Setup /\ page \in Pages \cup {"sign-in"}
  /\ who \in Person \cup {None} /\ signing \in {"no", "looking", "ready", "popup"}
  /\ chat = None \/ chat \in Chat
  /\ stored = None \/ stored \in Chat
  /\ chats \in Nat /\ asks \in Nat
  /\ question \in Question /\ spoken \subseteq Exchange
  /\ board \in Hook(Nat) /\ edition \in Nat
  /\ promotion \in Promotion /\ order \in Order /\ runs \in [Target -> Nat]
  /\ account \in Account /\ codes \in Nat /\ outages \in Nat

WorkInit ==
  /\ who \in Person /\ signing = "no"
  /\ chat = None /\ stored = None /\ chats = 0 /\ asks = 0
  /\ question = NoQuestion /\ spoken = {}
  /\ board = NoHook /\ edition = 1
  /\ promotion = NoPromotion /\ order = NoOrder /\ runs = [t \in Target |-> 0]
  /\ account = Closed /\ codes = 0 /\ outages = 0

Fault == outages < MaxOutages /\ outages' = outages + 1

\* Nothing under the account dialog can be pressed.
On(p) == page = p /\ ~account.open

-----------------------------------------------------------------------------
(* The assistant. *)

NewChat(p) == [id |-> chats + 1, provider |-> p, said |-> <<>>, by |-> who]

\* What a mounted assistant shows is written to the session storage.
ShowsChat(c) == chat' = c /\ stored' = c

\* The page is opened with the stored conversation, or a new one with the default provider.
OpensAssistant(default) ==
  IF stored # None
    THEN ShowsChat(stored) /\ UNCHANGED chats
    ELSE chats < MaxChats /\ ShowsChat(NewChat(default)) /\ chats' = chats + 1

\* Variant: a conversation may be dropped while its question is answered.
AtAnyTime == TRUE

\* "New conversation" and the choice of a provider wait for the answer.
MayReset == question.at = "idle"

ResetChat(p) ==
  /\ On("assistant") /\ MayReset /\ chats < MaxChats
  /\ ShowsChat(NewChat(p)) /\ chats' = chats + 1
  /\ UNCHANGED <<shell, profile, asks, question, spoken, board, edition, release, outages>>

SendQuestion ==
  /\ On("assistant") /\ question.at = "idle" /\ asks < MaxSaid
  /\ asks' = asks + 1
  /\ question' = [at |-> "sent", text |-> asks + 1, conv |-> chat.id, provider |-> chat.provider,
                  here |-> TRUE]
  /\ UNCHANGED <<shell, profile, chat, stored, chats, spoken, board, edition, release, outages>>

\* The chat agent answers, within the 125 seconds that the back end gives it.
AgentAnswers ==
  /\ question.at = "sent" /\ PlatformStatus("agent") = "ok"
  /\ spoken' = spoken \cup {[text |-> question.text, conv |-> question.conv,
                             provider |-> question.provider]}
  /\ question' = [question EXCEPT !.at = "ok"]
  /\ UNCHANGED <<shell, profile, chat, stored, chats, asks, board, edition, release, outages>>

QuestionFails ==
  /\ question.at \in {"sent", "ok"}
  /\ IF PlatformStatus("agent") = "ok" THEN Fault ELSE UNCHANGED outages
  /\ question' = [question EXCEPT !.at = "failed"]
  /\ UNCHANGED <<shell, profile, chat, stored, chats, asks, spoken, board, edition, release>>

\* The answer is added to the conversation that is shown by then, if the page still is; a
\* failure keeps the draft.
AnswerArrives ==
  /\ question.at \in {"ok", "failed"}
  /\ question' = NoQuestion
  /\ IF question.at = "ok" /\ question.here
       THEN ShowsChat([chat EXCEPT !.said = Append(@,
              [text |-> question.text, conv |-> question.conv, provider |-> question.provider])])
       ELSE UNCHANGED <<chat, stored>>
  /\ UNCHANGED <<shell, profile, chats, asks, spoken, board, edition, release, outages>>

-----------------------------------------------------------------------------
(* Tools and policies. *)

\* Read when the page is opened, and when "Refresh" is pressed, which waits for the read.
Reload ==
  /\ page \in {"tools", "policies"} /\ \A a \in board.asks : ~a.live
  /\ board' = Asking(board)
  /\ UNCHANGED <<shell, profile, assistant, edition, release, outages>>

BoardServed(a) ==
  /\ a.status = "none"
  /\ board' = Served(board, a, PlatformStatus("tools"), edition)
  /\ UNCHANGED <<shell, profile, assistant, edition, release, outages>>

BoardArrives(a) ==
  /\ a.status # "none"
  /\ board' = Taken(board, a)
  /\ UNCHANGED <<shell, profile, assistant, edition, release, outages>>

BoardFails(a, s) ==
  /\ Fault
  /\ board' = FailsAs(board, a, s)
  /\ UNCHANGED <<shell, profile, assistant, edition, release>>

BoardChanges ==
  /\ edition < MaxEditions /\ edition' = edition + 1
  /\ UNCHANGED <<shell, profile, assistant, board, release, outages>>

-----------------------------------------------------------------------------
(* Promotions. *)

ChooseTarget(t) ==
  /\ On("releases") /\ ~promotion.review /\ ~promotion.done /\ promotion.target # t
  /\ promotion' = [promotion EXCEPT !.target = t]
  /\ UNCHANGED <<shell, profile, assistant, board, edition, order, runs, outages>>

\* "Review promotion", and back with "Edit details".
ReviewPromotion ==
  /\ On("releases") /\ promotion.target # None /\ ~promotion.done /\ order.at = "idle"
  /\ promotion' = [promotion EXCEPT !.review = ~@]
  /\ UNCHANGED <<shell, profile, assistant, board, edition, order, runs, outages>>

Promote ==
  /\ On("releases") /\ promotion.review /\ ~promotion.done /\ order.at = "idle"
  /\ order' = [at |-> "sent", target |-> promotion.target, here |-> TRUE]
  /\ UNCHANGED <<shell, profile, assistant, board, edition, promotion, runs, outages>>

\* GitHub starts a run for every call that reaches it: a promotion has no idempotency key.
Dispatch ==
  /\ order.at = "sent" /\ PlatformStatus("promotions") = "ok" /\ runs[order.target] < 2
  /\ runs' = [runs EXCEPT ![order.target] = @ + 1]
  /\ order' = [order EXCEPT !.at = "ok"]
  /\ UNCHANGED <<shell, profile, assistant, board, edition, promotion, outages>>

OrderFails ==
  /\ order.at \in {"sent", "ok"}
  /\ IF PlatformStatus("promotions") = "ok" THEN Fault ELSE UNCHANGED outages
  /\ order' = [order EXCEPT !.at = "failed"]
  /\ UNCHANGED <<shell, profile, assistant, board, edition, promotion, runs>>

\* The result is shown, unless it failed or the page is gone.
OrderReturns ==
  /\ order.at \in {"ok", "failed"}
  /\ order' = NoOrder
  /\ promotion' = IF order.at = "ok" /\ order.here THEN [promotion EXCEPT !.done = TRUE] ELSE promotion
  /\ UNCHANGED <<shell, profile, assistant, board, edition, runs, outages>>

\* "Request another promotion" keeps what the form holds.
AnotherPromotion ==
  /\ On("releases") /\ promotion.done
  /\ promotion' = [promotion EXCEPT !.done = FALSE, !.review = FALSE]
  /\ UNCHANGED <<shell, profile, assistant, board, edition, order, runs, outages>>

-----------------------------------------------------------------------------
(* The account dialog and signing in. *)

\* The dialog is opened over the page, and closed unless its call is under way; the code it
\* showed stays.
ToggleAccount ==
  /\ page # "sign-in" /\ account.at = "idle"
  /\ account' = [account EXCEPT !.open = ~@]
  /\ UNCHANGED <<shell, who, signing, codes, assistant, board, edition, release, outages>>

\* "Generate link code".
GenerateCode ==
  /\ account.open /\ account.at = "idle" /\ codes < 2
  /\ account' = [account EXCEPT !.at = "sent"]
  /\ UNCHANGED <<shell, who, signing, codes, assistant, board, edition, release, outages>>

CodeMade ==
  /\ account.at = "sent" /\ PlatformStatus("link-code") = "ok"
  /\ codes' = codes + 1 /\ account' = [account EXCEPT !.at = "ok"]
  /\ UNCHANGED <<shell, who, signing, assistant, board, edition, release, outages>>

CodeFails ==
  /\ account.at \in {"sent", "ok"}
  /\ IF PlatformStatus("link-code") = "ok" THEN Fault ELSE UNCHANGED outages
  /\ account' = [account EXCEPT !.at = "failed"]
  /\ UNCHANGED <<shell, who, signing, codes, assistant, board, edition, release>>

CodeArrives ==
  /\ account.at \in {"ok", "failed"}
  /\ account' = [account EXCEPT !.at = "idle", !.code = IF account.at = "ok" THEN codes ELSE @]
  /\ UNCHANGED <<shell, who, signing, codes, assistant, board, edition, release, outages>>

\* "Sign out" removes the stored conversation and then asks the identity API.
SignOut ==
  /\ account.open /\ account.at = "idle"
  /\ account' = [account EXCEPT !.at = "leaving"]
  /\ stored' = None
  /\ UNCHANGED <<shell, who, signing, codes, chat, chats, asks, question, spoken, board, edition,
                 release, outages>>

\* That fails, and the person stays.
SignOutFails ==
  /\ account.at = "leaving" /\ Fault
  /\ account' = [account EXCEPT !.at = "idle"]
  /\ UNCHANGED <<shell, who, signing, codes, assistant, board, edition, release>>

\* What a page and its calls are when another one is opened, or the tab loads anew.
Gone ==
  /\ chat' = None
  /\ board' = Dropped(board)
  /\ promotion' = NoPromotion

\* Another page is opened.  Model: not one whose own call is under way.
WorkVisit(p) ==
  /\ page' = p /\ p # page /\ page # "sign-in"
  /\ p = "releases" => order.at = "idle"
  /\ p = "assistant" => question.at = "idle"
  /\ board' = Dropped(board)
  /\ promotion' = NoPromotion
  /\ IF p = "assistant"
       THEN \E default \in Provider : OpensAssistant(default)
       ELSE chat' = None /\ UNCHANGED <<stored, chats>>
  /\ question' = [question EXCEPT !.here = question.at = "idle"]
  /\ order' = [order EXCEPT !.here = order.at = "idle"]
  /\ UNCHANGED <<setup, profile, asks, spoken, edition, runs, outages>>

\* The tab loads anew: of all that the pages held only the session storage is left.
SignedOut ==
  /\ account.at = "leaving"
  /\ page' = "sign-in" /\ who' = None /\ signing' = "looking"
  /\ Gone
  /\ question' = NoQuestion /\ order' = NoOrder /\ account' = Closed
  /\ UNCHANGED <<setup, stored, chats, asks, spoken, edition, runs, codes, outages>>

\* The sign-in page looks for a session first; there is none after signing out.
LooksForSession ==
  /\ signing = "looking" /\ signing' = "ready"
  /\ UNCHANGED <<shell, who, account, codes, assistant, board, edition, release, outages>>

PressSignIn ==
  /\ signing = "ready" /\ signing' = "popup"
  /\ UNCHANGED <<shell, who, account, codes, assistant, board, edition, release, outages>>

\* The pop-up ends with an identity, or without: then the page waits for another press.
SignIn(w) ==
  /\ signing = "popup"
  /\ signing' = "no" /\ who' = w /\ page' = "overview"
  /\ UNCHANGED <<setup, account, codes, assistant, board, edition, release, outages>>

SignInFails ==
  /\ signing = "popup" /\ signing' = "ready"
  /\ UNCHANGED <<shell, who, account, codes, assistant, board, edition, release, outages>>

-----------------------------------------------------------------------------
WorkNext ==
  \/ SendQuestion \/ AgentAnswers \/ QuestionFails \/ AnswerArrives
  \/ Reload \/ BoardChanges \/ ReviewPromotion \/ Promote \/ Dispatch \/ OrderFails \/ OrderReturns
  \/ AnotherPromotion \/ ToggleAccount \/ GenerateCode \/ CodeMade \/ CodeFails \/ CodeArrives
  \/ SignOut \/ SignOutFails \/ LooksForSession \/ PressSignIn \/ SignInFails
  \/ \E p \in Provider : ResetChat(p)
  \/ \E a \in board.asks : BoardServed(a) \/ BoardArrives(a) \/ \E s \in Failures : BoardFails(a, s)
  \/ \E t \in Target : ChooseTarget(t)
=============================================================================
