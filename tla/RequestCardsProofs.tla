-------------------------- MODULE RequestCardsProofs -------------------------
(***************************************************************************)
(* Proofs about RequestCards for any number of requests, people, platforms *)
(* and clicks, any broker that keeps AccessPromise, and any bounds.        *)
(***************************************************************************)
EXTENDS RequestCards, TLAPS, SequenceTheorems

-----------------------------------------------------------------------------
(* Where cards go. *)

\* Counting through n columns row by row.
LEMMA RowAndColumn ==
  ASSUME NEW n \in Nat, NEW m \in Nat, NEW i \in 1..(n * m)
  PROVE  /\ ((i - 1) % n) + 1 \in 1..n /\ ((i - 1) \div n) + 1 \in 1..m
         /\ i - 1 = n * ((i - 1) \div n) + ((i - 1) % n)
<1>1. n > 0 /\ m > 0
  OBVIOUS
<1> DEFINE q == (i - 1) \div n  r == (i - 1) % n
<1>2. q \in Int /\ r \in 0..(n - 1) /\ i - 1 = n * q + r
  BY <1>1
<1>3. q >= 0
  BY <1>1, <1>2
<1>4. q < m
  BY <1>1, <1>2
<1> QED  BY <1>2, <1>3, <1>4

LEMMA TargetsType == ASSUME NEW r \in Request PROVE Targets(r) \in Seq(Platform)
  BY CardsAssumption DEF Targets, Configured

LEMMA DirectsType ==
  ASSUME NEW r \in Request
  PROVE  Directs(r) \in Seq(Place) /\ \A i \in DOMAIN Directs(r) : Directs(r)[i] \in Platform \X Person
<1> DEFINE n == Len(Targets(r))  m == Len(Mentioned)
<1>1. n \in Nat /\ m \in Nat /\ n * m \in Nat
  BY TargetsType, CardsAssumption
<1>2. ASSUME NEW i \in 1..(n * m)
      PROVE  /\ <<Targets(r)[((i - 1) % n) + 1], Mentioned[((i - 1) \div n) + 1]>> \in Place
             /\ <<Targets(r)[((i - 1) % n) + 1], Mentioned[((i - 1) \div n) + 1]>> \in Platform \X Person
  <2> DEFINE c == ((i - 1) % n) + 1  d == ((i - 1) \div n) + 1
  <2>1. c \in 1..n /\ d \in 1..m
    BY <1>1, RowAndColumn
  <2>2. Targets(r)[c] \in Platform /\ Mentioned[d] \in Person /\ d \in DOMAIN Mentioned
    BY <2>1, TargetsType, CardsAssumption
  <2> QED  BY <2>2 DEF Place
<1> QED  BY <1>1, <1>2 DEF Directs

LEMMA PlacesType == ASSUME NEW r \in Request PROVE Places(r) \in Seq(Place)
<1>1. Channels \in Seq(Place)
  BY CardsAssumption DEF Place
<1> QED  BY <1>1, DirectsType, ConcatProperties DEF Places

\* No channel and no approver is named twice.
NamedOnce ==
  /\ \A i, j \in DOMAIN Channels : Channels[i] = Channels[j] => i = j
  /\ \A i, j \in DOMAIN Mentioned : Mentioned[i] = Mentioned[j] => i = j

LEMMA TargetsDiffer ==
  ASSUME NEW r \in Request
  PROVE  \A i, j \in DOMAIN Targets(r) : Targets(r)[i] = Targets(r)[j] => i = j
  BY CardsAssumption DEF Targets, Configured

LEMMA DirectsDiffer ==
  ASSUME NamedOnce, NEW r \in Request,
         NEW i \in DOMAIN Directs(r), NEW j \in DOMAIN Directs(r), Directs(r)[i] = Directs(r)[j]
  PROVE  i = j
<1> DEFINE n == Len(Targets(r))  m == Len(Mentioned)
           col(k) == ((k - 1) % n) + 1   row(k) == ((k - 1) \div n) + 1
<1>1. n \in Nat /\ m \in Nat /\ DOMAIN Targets(r) = 1..n /\ DOMAIN Mentioned = 1..m
  BY TargetsType, CardsAssumption
<1>2. i \in 1..(n * m) /\ j \in 1..(n * m)
  BY DEF Directs
<1>3. ASSUME NEW k \in 1..(n * m)
      PROVE  col(k) \in 1..n /\ row(k) \in 1..m /\ k - 1 = n * (row(k) - 1) + (col(k) - 1)
  <2> DEFINE q == (k - 1) \div n  c == (k - 1) % n
  <2>1. c + 1 \in 1..n /\ q + 1 \in 1..m /\ k - 1 = n * q + c
    BY <1>1, RowAndColumn
  <2>2. q \in Int /\ c \in Int /\ (q + 1) - 1 = q /\ (c + 1) - 1 = c
    BY <1>1, <2>1
  <2> QED  BY <2>1, <2>2
<1>4. Targets(r)[col(i)] = Targets(r)[col(j)] /\ Mentioned[row(i)] = Mentioned[row(j)]
  BY <1>2 DEF Directs
<1>5. col(i) = col(j) /\ row(i) = row(j)
  BY <1>1, <1>2, <1>3, <1>4, TargetsDiffer DEF NamedOnce
<1>6. i - 1 = j - 1
  BY <1>2, <1>3, <1>5
<1> QED  BY <1>1, <1>2, <1>6

LEMMA PlacesDiffer ==
  ASSUME NamedOnce, NEW r \in Request,
         NEW i \in DOMAIN Places(r), NEW j \in DOMAIN Places(r), Places(r)[i] = Places(r)[j]
  PROVE  i = j
<1> DEFINE n == Len(Channels)  d == Directs(r)
<1>1. /\ Channels \in Seq(Channel) /\ d \in Seq(Place) /\ n \in Nat
      /\ DOMAIN Channels = 1..n /\ DOMAIN d = 1..Len(d) /\ DOMAIN Places(r) = 1..(n + Len(d))
  BY CardsAssumption, DirectsType DEF Places
<1>2. \A k \in DOMAIN Places(r) : Places(r)[k] = IF k <= n THEN Channels[k] ELSE d[k - n]
  BY <1>1 DEF Places
<1>3. \A k \in 1..n : Channels[k] \in Channel
  BY <1>1
<1>4. \A k \in 1..Len(d) : d[k] \notin Channel
  BY <1>1, DirectsType, CardsAssumption
<1>5. CASE i <= n /\ j <= n
  BY <1>1, <1>2, <1>5 DEF NamedOnce
<1>6. CASE i > n /\ j > n
  <2>1. i - n \in DOMAIN d /\ j - n \in DOMAIN d /\ d[i - n] = d[j - n]
    BY <1>1, <1>2, <1>6
  <2>2. i - n = j - n
    BY <2>1, DirectsDiffer
  <2> QED  BY <1>1, <2>2
<1>7. CASE ~(i <= n <=> j <= n)
  BY <1>1, <1>2, <1>3, <1>4, <1>7
<1> QED  BY <1>1, <1>5, <1>6, <1>7
-----------------------------------------------------------------------------
(* The invariant. *)

AllOf(s, r) == \A i \in DOMAIN s : s[i].req = r

\* The agent's runs are numbered; a run that has ended has left nothing in memory, and of the
\* clicks only those that have not come in yet.
LifeOK ==
  /\ up => life >= 1
  /\ ~up =>
       /\ life < MaxLife /\ seen = {}
       /\ \A r \in Request : tracked[r] = Untracked
       /\ \A e \in Event : handling[e] = NotHandled
       /\ \A k \in Click : click[k].phase \in {"none", "modal", "sent"}

\* The cards of a request are its own, under a nonce of this run.
TrackedOK ==
  \A r \in Request : tracked[r].nonce \in {0, life} /\ AllOf(tracked[r].posts, r)

\* A handler has to do with the cards of its request, and posts for this run.
HandlingOK ==
  \A e \in Event :
    /\ AllOf(handling[e].left, e.req) /\ AllOf(handling[e].posts, e.req)
    /\ handling[e].phase # "none" => e \in seen
    /\ handling[e].phase = "post" =>
         e.kind = "pending" /\ \A i \in DOMAIN handling[e].left : handling[e].left[i].life = life

\* What is known of a click, the further it has come: that whoever can be found now was a
\* member when it came, that the card is of this run, and that the ruling is the button's.
ClickOK(k) ==
  LET p == click[k] IN
  /\ p.phase \in {"modal", "sent"} => p.stood
  /\ p.phase \in {"vet", "verify"} => (Resolves(k) => p.stood)
  /\ p.phase \in {"verify", "decide", "answer", "update"} =>
       p.card.life = life /\ AllOf(p.left, p.card.req)
  /\ p.phase \in {"decide", "answer", "update"} => p.stood
  /\ p.phase \in {"decide", "answer", "update"} => p.button \in Verdict
  /\ p.phase \in {"answer", "update"} => p.button = ruling[p.card.req]

ClicksOK == \A k \in Click : ClickOK(k)

\* What was told, and what is shown, is the ruling.
TellingOK ==
  /\ \A r \in Request : told[r] \subseteq {ruling[r]} /\ informed[r] \subseteq {ruling[r]}
  /\ \A c \in Card : shown[c] \in Verdict => shown[c] = ruling[c.req]

\* The broker has attempts left as long as it tries.
MailOK ==
  \A e \in Event :
    /\ mail[e].phase = "none" => mail[e].tries = 0
    /\ mail[e].phase \in {"due", "waiting"} => mail[e].tries < MaxTries

IInv == TypeOK /\ MailOK /\ LifeOK /\ TrackedOK /\ HandlingOK /\ ClicksOK /\ TellingOK

\* What is still to be posted has not been posted, and nothing twice.
Asking(r) == [kind |-> "pending", req |-> r, nr |-> 1]

PostedOnce ==
  /\ OneCardPerPlace
  /\ \A c \in Card : c.life > life => copies[c] = 0
  /\ \A c \in Card : up /\ c.life = life /\ Asking(c.req) \notin seen => copies[c] = 0
  /\ \A r \in Request : handling[Asking(r)].phase = "post" =>
       LET left == handling[Asking(r)].left IN
       /\ \A i \in DOMAIN left : copies[left[i]] = 0
       /\ \A i, j \in DOMAIN left : left[i] = left[j] => i = j

-----------------------------------------------------------------------------
(* What a step leaves alone stays as it is. *)

LEMMA LifeStays ==
  ASSUME LifeOK, UNCHANGED <<up, life, seen, tracked, handling>>,
         \A k \in Click : click'[k].phase = click[k].phase \/ up
  PROVE  LifeOK'
  BY DEF LifeOK

LEMMA TrackedStays == ASSUME TrackedOK, UNCHANGED <<tracked, life>> PROVE TrackedOK'
  BY DEF TrackedOK, AllOf

LEMMA HandlingStays == ASSUME HandlingOK, UNCHANGED <<handling, seen, life>> PROVE HandlingOK'
  BY DEF HandlingOK, AllOf

\* A request is ruled on once.
RulingsStand == \A r \in Request : ruling[r] # "open" => ruling'[r] = ruling[r]

\* A click that does not move: rulings stand, and people only leave.
LEMMA ClickStays ==
  ASSUME TypeOK, ClicksOK, NEW k \in Click, UNCHANGED <<click[k], life>>, members' \subseteq members,
         RulingsStand
  PROVE  ClickOK(k)'
<1>1. ClickOK(k) /\ click[k] \in Press /\ click'[k] = click[k]
  BY DEF ClicksOK, TypeOK
<1>2. click[k].phase \in {"answer", "update"} =>
        ruling'[click[k].card.req] = ruling[click[k].card.req]
  <2> SUFFICES ASSUME click[k].phase \in {"answer", "update"}
               PROVE  ruling'[click[k].card.req] = ruling[click[k].card.req]
    OBVIOUS
  <2>1. click[k].card \in Card /\ ruling[click[k].card.req] \in Verdict
    BY <1>1 DEF ClickOK, Press
  <2> QED  BY <2>1 DEF Card, Verdict, RulingsStand
<1>3. Resolves(k)' => Resolves(k)
  BY <1>1 DEF Resolves
<1> QED  BY <1>1, <1>2, <1>3 DEF ClickOK, AllOf

LEMMA ClicksStay ==
  ASSUME TypeOK, ClicksOK, UNCHANGED <<click, life>>, members' \subseteq members, RulingsStand
  PROVE  ClicksOK'
  BY ClickStays DEF ClicksOK

LEMMA TellingStays ==
  ASSUME TypeOK, TellingOK, UNCHANGED <<told, informed, shown>>, RulingsStand
  PROVE  TellingOK'
<1>1. \A r \in Request : told[r] \subseteq Verdict /\ informed[r] \subseteq Verdict /\ "open" \notin Verdict
  BY DEF TypeOK, Verdict
<1>2. \A c \in Card : c.req \in Request
  BY DEF Card
<1> QED  BY <1>1, <1>2 DEF TellingOK, RulingsStand

-----------------------------------------------------------------------------
(* The broker's steps. *)

\* AccessPromise: a ruling is made once, and told as it was made.
LEMMA PromiseSteps ==
  ASSUME TypeOK, TellingOK, NEW r \in Request,
         Ask(r) \/ Tell(r) \/ (\E v \in Ruling : Rule(r, v)) \/ UNCHANGED promiseVars,
         UNCHANGED <<informed, shown>>
  PROVE  /\ RulingsStand /\ TellingOK'
         /\ ruling' \in [Request -> Ruling \cup {"open"}] /\ asked' \subseteq Request
         /\ told' \in [Request -> SUBSET Verdict]
<1>0. /\ ruling \in [Request -> Ruling \cup {"open"}] /\ asked \subseteq Request
      /\ told \in [Request -> SUBSET Verdict]
  BY DEF TypeOK
<1>1. CASE Ask(r) \/ UNCHANGED promiseVars
  BY <1>0, <1>1, TellingStays DEF Ask, promiseVars, RulingsStand
<1>2. CASE Tell(r)
  <2>1. UNCHANGED ruling /\ ruling[r] \in Verdict /\ told' = [told EXCEPT ![r] = {ruling[r]}]
    BY <1>2 DEF Tell, Verdict
  <2>2. UNCHANGED <<asked, informed, shown>>
    BY <1>2 DEF Tell
  <2>3. told' \in [Request -> SUBSET Verdict]
    BY <1>0, <2>1
  <2>4. \A q \in Request : told'[q] \subseteq {ruling[q]}
    BY <1>0, <2>1 DEF TellingOK
  <2> QED  BY <1>0, <2>1, <2>2, <2>3, <2>4 DEF RulingsStand, TellingOK
<1>3. CASE \E v \in Ruling : Rule(r, v)
  <2>1. PICK v \in Ruling : ruling[r] = "open" /\ ruling' = [ruling EXCEPT ![r] = v] /\ UNCHANGED <<asked, told>>
    BY <1>3 DEF Rule
  <2>2. RulingsStand
    BY <1>0, <2>1 DEF RulingsStand
  <2>3. TellingOK'
    BY <2>1, <2>2, TellingStays
  <2> QED  BY <1>0, <2>1, <2>2, <2>3
<1> QED  BY <1>1, <1>2, <1>3

LEMMA MailStays == ASSUME MailOK, UNCHANGED mail PROVE MailOK'
  BY DEF MailOK

LEMMA EnqueueMail ==
  ASSUME TypeOK, MailOK, NEW e \in Event, Enqueue(e)
  PROVE  MailOK' /\ mail' \in [Event -> Delivery]
<1>1. mail[e] = [phase |-> "none", tries |-> 0]
  BY DEF TypeOK, MailOK, Enqueue, Delivery
<1> QED  BY <1>1, CardsAssumption DEF TypeOK, MailOK, Enqueue, Delivery

LEMMA FailedMail ==
  ASSUME TypeOK, MailOK, NEW e \in Event, mail[e].phase \in {"due", "waiting"}, Failed(e)
  PROVE  MailOK' /\ mail' \in [Event -> Delivery]
<1>1. mail[e].tries + 1 \in 1..MaxTries
  BY CardsAssumption DEF TypeOK, MailOK, Delivery
<1>2. mail'[e] \in Delivery /\ (mail'[e].phase = "due" => mail'[e].tries < MaxTries)
       /\ mail'[e].phase \in {"due", "lost"}
  BY <1>1, CardsAssumption DEF TypeOK, Failed, Delivery
<1>3. \A x \in Event \ {e} : mail'[x] = mail[x]
  BY DEF TypeOK, Failed
<1> QED  BY <1>2, <1>3 DEF TypeOK, MailOK, Failed

\* The promise's variables and the mail move, and nothing else.
LEMMA BrokerKeeps ==
  ASSUME IInv, NEW r \in Request,
         Ask(r) \/ Tell(r) \/ (\E v \in Ruling : Rule(r, v)) \/ UNCHANGED promiseVars,
         MailOK' /\ mail' \in [Event -> Delivery],
         UNCHANGED <<agentVars, platformVars, click, mishaps>>
  PROVE  IInv'
<1> USE DEF IInv
<1>1. UNCHANGED <<up, life, seen, tracked, handling, cached, postedCards, known, shown, copies,
                  informed, members, click, mishaps>>
  BY DEF agentVars, memory, platformVars
<1>2. /\ RulingsStand /\ TellingOK'
      /\ ruling' \in [Request -> Ruling \cup {"open"}] /\ asked' \subseteq Request
      /\ told' \in [Request -> SUBSET Verdict]
  BY <1>1, PromiseSteps
<1>3. TypeOK'
  BY <1>1, <1>2 DEF TypeOK
<1>4. LifeOK' /\ TrackedOK' /\ HandlingOK'
  BY <1>1, LifeStays, TrackedStays, HandlingStays
<1>5. ClicksOK'
  BY <1>1, <1>2, ClicksStay
<1> QED  BY <1>2, <1>3, <1>4, <1>5

LEMMA BrokerInv == ASSUME IInv, BrokerNext PROVE IInv'
<1>1. ASSUME NEW r \in Request, AskReview(r) PROVE IInv'
  <2>1. [kind |-> "pending", req |-> r, nr |-> 1] \in Event
    BY DEF Event
  <2>2. MailOK' /\ mail' \in [Event -> Delivery]
    BY <1>1, <2>1, EnqueueMail DEF AskReview, IInv
  <2> QED  BY <1>1, <2>2, BrokerKeeps DEF AskReview
<1>2. ASSUME NEW r \in Request, RuleElsewhere(r) PROVE IInv'
  <2>1. MailOK' /\ mail' \in [Event -> Delivery]
    BY <1>2, MailStays DEF RuleElsewhere, IInv, TypeOK
  <2> QED  BY <1>2, <2>1, BrokerKeeps DEF RuleElsewhere
<1>3. ASSUME NEW r \in Request, TellRuling(r) PROVE IInv'
  <2>1. PICK n \in 1..MaxTold : Enqueue([kind |-> "resolved", req |-> r, nr |-> n])
    BY <1>3 DEF TellRuling
  <2>2. [kind |-> "resolved", req |-> r, nr |-> n] \in Event
    BY DEF Event
  <2>3. MailOK' /\ mail' \in [Event -> Delivery]
    BY <2>1, <2>2, EnqueueMail DEF IInv
  <2> QED  BY <1>3, <2>3, BrokerKeeps DEF TellRuling
<1>4. ASSUME NEW e \in Event, TurnedAway(e) \/ GiveUpWaiting(e) PROVE IInv'
  <2>1. MailOK' /\ mail' \in [Event -> Delivery]
    BY <1>4, FailedMail DEF TurnedAway, GiveUpWaiting, IInv
  <2>2. e.req \in Request
    BY DEF Event
  <2> QED  BY <1>4, <2>1, <2>2, BrokerKeeps DEF TurnedAway, GiveUpWaiting
<1> QED  BY <1>1, <1>2, <1>3, <1>4 DEF BrokerNext

-----------------------------------------------------------------------------
(* The handler's steps. *)

LEMMA StillRuled == ASSUME UNCHANGED ruling PROVE RulingsStand
  BY DEF RulingsStand

LEMMA LifeUp == ASSUME LifeOK, up, UNCHANGED <<up, life>> PROVE LifeOK'
  BY DEF LifeOK

\* A handler that has begun, and its next card.
LEMMA HandlerIs ==
  ASSUME IInv, NEW e \in Event
  PROVE  /\ e.req \in Request
         /\ handling[e] \in Handling
         /\ handling[e].phase # "none" => up /\ e \in seen
         /\ handling[e].left # <<>> =>
              /\ Head(handling[e].left) \in Card /\ Tail(handling[e].left) \in Seq(Card)
              /\ Head(handling[e].left).req = e.req
              /\ AllOf(Tail(handling[e].left), e.req)
              /\ handling[e].phase = "post" =>
                   \A i \in DOMAIN Tail(handling[e].left) : Tail(handling[e].left)[i].life = life
<1>1. e.req \in Request /\ handling[e] \in Handling
  BY DEF Event, IInv, TypeOK
<1>2. handling[e].phase # "none" => up /\ e \in seen
  BY DEF IInv, LifeOK, HandlingOK, NotHandled
<1>3. ASSUME handling[e].left # <<>>
      PROVE  /\ Head(handling[e].left) \in Card /\ Tail(handling[e].left) \in Seq(Card)
             /\ Head(handling[e].left) = handling[e].left[1] /\ 1 \in DOMAIN handling[e].left
             /\ \A i \in DOMAIN Tail(handling[e].left) :
                  i + 1 \in DOMAIN handling[e].left /\ Tail(handling[e].left)[i] = handling[e].left[i + 1]
  <2>1. handling[e].left \in Seq(Card)
    BY <1>1 DEF Handling
  <2> QED  BY <1>3, <2>1
<1> QED  BY <1>1, <1>2, <1>3 DEF IInv, HandlingOK, AllOf

\* One handler moves, in a record that suits its event.
LEMMA HandlerMoves ==
  ASSUME IInv, NEW e \in Event, NEW h \in Handling, handling' = [handling EXCEPT ![e] = h],
         e \in seen', seen \subseteq seen', UNCHANGED life,
         AllOf(h.left, e.req), AllOf(h.posts, e.req),
         h.phase = "post" => e.kind = "pending" /\ \A i \in DOMAIN h.left : h.left[i].life = life
  PROVE  HandlingOK' /\ handling' \in [Event -> Handling]
<1>1. handling \in [Event -> Handling]
  BY DEF IInv, TypeOK
<1>2. handling'[e] = h /\ \A x \in Event \ {e} : handling'[x] = handling[x]
  BY <1>1
<1>3. ASSUME NEW x \in Event
      PROVE  /\ AllOf(handling'[x].left, x.req) /\ AllOf(handling'[x].posts, x.req)
             /\ handling'[x].phase # "none" => x \in seen'
             /\ handling'[x].phase = "post" =>
                  x.kind = "pending" /\ \A i \in DOMAIN handling'[x].left : handling'[x].left[i].life = life'
  BY <1>2, <1>3 DEF IInv, HandlingOK
<1> QED  BY <1>1, <1>3 DEF HandlingOK, AllOf

\* What an event sets off is of its request, and to be posted in this run.
LEMMA OpeningSuits ==
  ASSUME IInv, NEW e \in Event, up
  PROVE  /\ Opening(e) \in Handling
         /\ AllOf(Opening(e).left, e.req) /\ AllOf(Opening(e).posts, e.req)
         /\ Opening(e).phase = "post" =>
              e.kind = "pending" /\ \A i \in DOMAIN Opening(e).left : Opening(e).left[i].life = life
<1> DEFINE t == tracked[e.req]  new(p) == [req |-> e.req, place |-> p, life |-> life]
<1>1. e.req \in Request /\ life \in 1..MaxLife /\ t \in Tracked \cup {Untracked}
  BY CardsAssumption DEF Event, IInv, TypeOK, LifeOK
<1>2. <<>> \in Seq(Card) /\ AllOf(<<>>, e.req)
  BY DEF AllOf
<1>3. CASE e.kind = "pending" /\ t # Untracked
  BY <1>2, <1>3 DEF Opening, NotHandled, Handling
<1>4. CASE e.kind = "pending" /\ t = Untracked
  <2> DEFINE left == [i \in DOMAIN Places(e.req) |-> new(Places(e.req)[i])]
  <2>1. Places(e.req) \in Seq(Place)
    BY <1>1, PlacesType
  <2>2. \A i \in DOMAIN Places(e.req) : Places(e.req)[i] \in Place
    BY <2>1
  <2>3. left \in Seq(Card)
    <3>1. DOMAIN Places(e.req) = 1..Len(Places(e.req)) /\ Len(Places(e.req)) \in Nat
      BY <2>1
    <3>2. \A i \in DOMAIN Places(e.req) : new(Places(e.req)[i]) \in Card
      BY <1>1, <2>2 DEF Card
    <3> QED  BY <3>1, <3>2
  <2>4. Opening(e) = [phase |-> "post", posts |-> <<>>, left |-> left]
    BY <1>4 DEF Opening
  <2>5. AllOf(left, e.req) /\ \A i \in DOMAIN left : left[i].life = life
    BY DEF AllOf
  <2> HIDE DEF left
  <2> QED  BY <1>2, <1>4, <2>3, <2>4, <2>5 DEF Handling
<1>5. CASE e.kind # "pending"
  <2>1. t.posts \in Seq(Card) /\ AllOf(t.posts, e.req)
    <3>1. AllOf(t.posts, e.req)
      BY <1>1 DEF IInv, TrackedOK
    <3>2. CASE t \in Tracked
      BY <3>1, <3>2 DEF Tracked
    <3>3. CASE t = Untracked
      BY <1>2, <3>3 DEF Untracked
    <3> QED  BY <1>1, <3>2, <3>3
  <2>2. Opening(e) = [phase |-> IF t # Untracked THEN "update" ELSE "tell", left |-> t.posts, posts |-> t.posts]
    BY <1>5 DEF Opening
  <2> QED  BY <2>1, <2>2 DEF Handling
<1> QED  BY <1>3, <1>4, <1>5

LEMMA DeliverInv == ASSUME IInv, NEW e \in Event, Deliver(e) PROVE IInv'
<1>1. /\ up /\ handling' = [handling EXCEPT ![e] = Opening(e)] /\ seen' = seen \cup {e}
      /\ mail[e].phase = "due" /\ mail' = [mail EXCEPT ![e].phase = "waiting"]
      /\ UNCHANGED <<ruling, asked, told, up, life, tracked, cached, postedCards, known, shown, copies,
                     informed, members, click, mishaps>>
  BY DEF Deliver, promiseVars, platformVars
<1>2. HandlingOK' /\ handling' \in [Event -> Handling]
  BY <1>1, OpeningSuits, HandlerMoves
<1>3. MailOK' /\ mail' \in [Event -> Delivery]
  BY <1>1 DEF IInv, MailOK, TypeOK, Delivery
<1>4. TypeOK'
  BY <1>1, <1>2, <1>3 DEF IInv, TypeOK
<1>5. LifeOK' /\ TrackedOK' /\ ClicksOK' /\ TellingOK'
  BY <1>1, LifeUp, TrackedStays, StillRuled, ClicksStay, TellingStays DEF IInv
<1> QED  BY <1>2, <1>3, <1>4, <1>5 DEF IInv

\* A card is posted, or not; verdicts shown stay.
LEMMA PostedShows ==
  ASSUME IInv, NEW c \in Card, Posted(c) \/ UNCHANGED <<shown, copies>>,
         UNCHANGED <<ruling, told, informed>>
  PROVE  TellingOK' /\ shown' \in [Card -> Status \cup {"none"}] /\ copies' \in [Card -> Nat]
<1>1. shown \in [Card -> Status \cup {"none"}] /\ copies \in [Card -> Nat]
  BY DEF IInv, TypeOK
<1>2. "pending" \in Status /\ "pending" \notin Verdict
  BY DEF Status, Verdict
<1> QED  BY <1>1, <1>2 DEF IInv, TellingOK, Posted

LEMMA PostCardInv == ASSUME IInv, NEW e \in Event, PostCard(e) PROVE IInv'
<1> DEFINE h == handling[e]  c == Head(h.left)
<1>1. /\ h.phase = "post" /\ h.left # <<>>
      /\ UNCHANGED <<ruling, asked, told, up, life, seen, tracked, cached, known, informed, members,
                     mail, click>>
  BY DEF PostCard, promiseVars
<1>2. /\ up /\ e \in seen /\ h \in Handling /\ c \in Card /\ Tail(h.left) \in Seq(Card) /\ c.req = e.req
      /\ AllOf(Tail(h.left), e.req) /\ \A i \in DOMAIN Tail(h.left) : Tail(h.left)[i].life = life
      /\ e.kind = "pending" /\ AllOf(h.posts, e.req) /\ h.posts \in Seq(Card)
  BY <1>1, HandlerIs DEF IInv, HandlingOK, Handling
<1>3. PICK posts \in {h.posts, Append(h.posts, c)} : Handle(e, "post", Tail(h.left), posts)
  BY DEF PostCard
<1>4. posts \in Seq(Card) /\ AllOf(posts, e.req)
  <2>1. CASE posts = h.posts
    BY <1>2, <2>1
  <2>2. CASE posts = Append(h.posts, c)
    BY <1>2, <2>2 DEF AllOf
  <2> QED  BY <2>1, <2>2
<1>5. HandlingOK' /\ handling' \in [Event -> Handling]
  <2> DEFINE new == [phase |-> "post", left |-> Tail(h.left), posts |-> posts]
  <2>1. new \in Handling
    BY <1>2, <1>4 DEF Handling
  <2>2. handling' = [handling EXCEPT ![e] = new]
    BY <1>3 DEF Handle
  <2> QED  BY <1>1, <1>2, <1>4, <2>1, <2>2, HandlerMoves
<1>6. Posted(c) \/ UNCHANGED <<shown, copies>>
  BY DEF PostCard
<1>7. TellingOK' /\ shown' \in [Card -> Status \cup {"none"}] /\ copies' \in [Card -> Nat]
  BY <1>1, <1>2, <1>6, PostedShows
<1>8. postedCards' \subseteq Card /\ mishaps' \in Nat
  BY <1>2 DEF PostCard, Mishap, IInv, TypeOK
<1>9. TypeOK'
  BY <1>1, <1>5, <1>7, <1>8 DEF IInv, TypeOK
<1>10. MailOK' /\ LifeOK' /\ TrackedOK' /\ ClicksOK'
  BY <1>1, <1>2, MailStays, LifeUp, TrackedStays, StillRuled, ClicksStay DEF IInv
<1> QED  BY <1>5, <1>7, <1>9, <1>10 DEF IInv

LEMMA TrackInv == ASSUME IInv, NEW e \in Event, Track(e) PROVE IInv'
<1> DEFINE h == handling[e]
<1>1. /\ h.phase = "post" /\ h.left = <<>>
      /\ tracked' = [tracked EXCEPT ![e.req] = [nonce |-> life, posts |-> h.posts]]
      /\ handling' = [handling EXCEPT ![e].phase = "done"]
      /\ UNCHANGED <<ruling, asked, told, up, life, seen, cached, postedCards, known, shown, copies,
                     informed, members, mail, click, mishaps>>
  BY DEF Track, promiseVars, platformVars
<1>2. up /\ e \in seen /\ e.req \in Request /\ h \in Handling /\ AllOf(h.posts, e.req) /\ AllOf(h.left, e.req)
  BY <1>1, HandlerIs DEF IInv, HandlingOK
<1>3. HandlingOK' /\ handling' \in [Event -> Handling]
  <2> DEFINE new == [h EXCEPT !.phase = "done"]
  <2>1. new \in Handling /\ new.left = h.left /\ new.posts = h.posts /\ new.phase = "done"
    BY <1>2 DEF Handling
  <2>2. handling' = [handling EXCEPT ![e] = new]
    BY <1>1
  <2> QED  BY <1>1, <1>2, <2>1, <2>2, HandlerMoves
<1>4. TrackedOK' /\ tracked' \in [Request -> Tracked \cup {Untracked}]
  <2>1. life \in 1..MaxLife /\ h.posts \in Seq(Card)
    BY <1>2, CardsAssumption DEF IInv, TypeOK, LifeOK, Handling
  <2>2. [nonce |-> life, posts |-> h.posts] \in Tracked
    BY <2>1 DEF Tracked
  <2>3. tracked \in [Request -> Tracked \cup {Untracked}] /\ TrackedOK
    BY DEF IInv, TypeOK
  <2> QED  BY <1>1, <1>2, <2>2, <2>3 DEF TrackedOK, AllOf
<1>5. TypeOK'
  BY <1>1, <1>3, <1>4 DEF IInv, TypeOK
<1>6. MailOK' /\ LifeOK' /\ ClicksOK' /\ TellingOK'
  BY <1>1, <1>2, MailStays, LifeUp, StillRuled, ClicksStay, TellingStays DEF IInv
<1> QED  BY <1>3, <1>4, <1>5, <1>6 DEF IInv

LEMMA UpdateCardInv == ASSUME IInv, NEW e \in Event, UpdateCard(e) PROVE IInv'
<1> DEFINE h == handling[e]  c == Head(h.left)
<1>1. /\ h.phase = "update" /\ h.left # <<>> /\ Handle(e, "update", Tail(h.left), h.posts)
      /\ UNCHANGED <<ruling, asked, told, up, life, seen, tracked, cached, postedCards, known, copies,
                     informed, members, mail, click>>
  BY DEF UpdateCard, Onward, promiseVars
<1>2. /\ up /\ e \in seen /\ h \in Handling /\ c \in Card /\ Tail(h.left) \in Seq(Card) /\ c.req = e.req
      /\ AllOf(Tail(h.left), e.req) /\ AllOf(h.posts, e.req) /\ h.posts \in Seq(Card) /\ e.req \in Request
  BY <1>1, HandlerIs DEF IInv, HandlingOK, Handling
<1>3. HandlingOK' /\ handling' \in [Event -> Handling]
  <2> DEFINE new == [phase |-> "update", left |-> Tail(h.left), posts |-> h.posts]
  <2>1. new \in Handling
    BY <1>2 DEF Handling
  <2>2. handling' = [handling EXCEPT ![e] = new]
    BY <1>1 DEF Handle
  <2> QED  BY <1>1, <1>2, <2>1, <2>2, HandlerMoves
<1>4. TellingOK' /\ shown' \in [Card -> Status \cup {"none"}]
  <2>1. CASE \E v \in told[e.req] : shown' = [shown EXCEPT ![c] = v]
    <3>1. PICK v \in told[e.req] : shown' = [shown EXCEPT ![c] = v]
      BY <2>1
    <3>2. v \in Status /\ v = ruling[c.req]
      BY <1>2 DEF IInv, TypeOK, TellingOK, Status
    <3> QED  BY <1>1, <1>2, <3>1, <3>2 DEF IInv, TypeOK, TellingOK
  <2>2. CASE UNCHANGED shown
    BY <1>1, <2>2, StillRuled, TellingStays DEF IInv, TypeOK
  <2> QED  BY <2>1, <2>2 DEF UpdateCard
<1>5. mishaps' \in Nat
  BY DEF UpdateCard, Mishap, IInv, TypeOK
<1>6. TypeOK'
  BY <1>1, <1>3, <1>4, <1>5 DEF IInv, TypeOK
<1>7. MailOK' /\ LifeOK' /\ TrackedOK' /\ ClicksOK'
  BY <1>1, <1>2, MailStays, LifeUp, TrackedStays, StillRuled, ClicksStay DEF IInv
<1> QED  BY <1>3, <1>4, <1>6, <1>7 DEF IInv

LEMMA UntrackInv == ASSUME IInv, NEW e \in Event, Untrack(e) PROVE IInv'
<1> DEFINE h == handling[e]
<1>1. /\ h.phase = "update" /\ Handle(e, "tell", <<>>, h.posts)
      /\ tracked' = [tracked EXCEPT ![e.req] = Untracked]
      /\ UNCHANGED <<ruling, asked, told, up, life, seen, cached, postedCards, known, shown, copies,
                     informed, members, mail, click, mishaps>>
  BY DEF Untrack, promiseVars, platformVars
<1>2. up /\ e \in seen /\ e.req \in Request /\ h \in Handling /\ AllOf(h.posts, e.req)
  BY <1>1, HandlerIs DEF IInv, HandlingOK
<1>3. HandlingOK' /\ handling' \in [Event -> Handling]
  <2> DEFINE new == [phase |-> "tell", left |-> <<>>, posts |-> h.posts]
  <2>1. new \in Handling /\ AllOf(<<>>, e.req)
    BY <1>2 DEF Handling, AllOf
  <2>2. handling' = [handling EXCEPT ![e] = new]
    BY <1>1 DEF Handle
  <2> QED  BY <1>1, <1>2, <2>1, <2>2, HandlerMoves
<1>4. TrackedOK' /\ tracked' \in [Request -> Tracked \cup {Untracked}]
  BY <1>1, <1>2 DEF IInv, TypeOK, TrackedOK, AllOf, Untracked
<1>5. TypeOK'
  BY <1>1, <1>3, <1>4 DEF IInv, TypeOK
<1>6. MailOK' /\ LifeOK' /\ ClicksOK' /\ TellingOK'
  BY <1>1, <1>2, MailStays, LifeUp, StillRuled, ClicksStay, TellingStays DEF IInv
<1> QED  BY <1>3, <1>4, <1>5, <1>6 DEF IInv

LEMMA TellRequesterInv == ASSUME IInv, NEW e \in Event, TellRequester(e) PROVE IInv'
<1>1. /\ handling[e].phase = "tell"
      /\ Handle(e, "done", <<>>, <<>>)
      /\ informed' = [informed EXCEPT ![e.req] = @ \cup told[e.req]] \/ UNCHANGED informed
      /\ UNCHANGED <<ruling, asked, told, up, life, seen, tracked, cached, postedCards, known, shown,
                     copies, members, mail, click, mishaps>>
  BY DEF TellRequester, promiseVars
<1>2. up /\ e \in seen /\ e.req \in Request
  BY <1>1, HandlerIs
<1>3. HandlingOK' /\ handling' \in [Event -> Handling]
  <2> DEFINE new == [phase |-> "done", left |-> <<>>, posts |-> <<>>]
  <2>1. <<>> \in Seq(Card) /\ AllOf(<<>>, e.req)
    BY DEF AllOf
  <2>2. new \in Handling
    BY <2>1 DEF Handling
  <2>3. handling' = [handling EXCEPT ![e] = new]
    BY <1>1 DEF Handle
  <2> QED  BY <1>1, <1>2, <2>1, <2>2, <2>3, HandlerMoves
<1>4. TellingOK' /\ informed' \in [Request -> SUBSET Verdict]
  <2>1. CASE UNCHANGED informed
    BY <1>1, <2>1, StillRuled, TellingStays DEF IInv, TypeOK
  <2>2. CASE informed' = [informed EXCEPT ![e.req] = @ \cup told[e.req]]
    <3>1. /\ informed \in [Request -> SUBSET Verdict] /\ told[e.req] \subseteq Verdict
          /\ told[e.req] \subseteq {ruling[e.req]}
      BY <1>2 DEF IInv, TypeOK, TellingOK
    <3>2. /\ informed'[e.req] = informed[e.req] \cup told[e.req]
          /\ \A r \in Request \ {e.req} : informed'[r] = informed[r]
      BY <1>2, <2>2, <3>1
    <3>3. \A r \in Request : informed'[r] \subseteq Verdict /\ informed'[r] \subseteq {ruling[r]}
      BY <3>1, <3>2 DEF IInv, TellingOK
    <3>4. informed' \in [Request -> SUBSET Verdict]
      BY <2>2, <3>1, <3>3
    <3> QED  BY <1>1, <3>3, <3>4 DEF IInv, TellingOK
  <2> QED  BY <1>1, <2>1, <2>2
<1>5. TypeOK'
  BY <1>1, <1>3, <1>4 DEF IInv, TypeOK
<1>6. MailOK' /\ LifeOK' /\ TrackedOK' /\ ClicksOK'
  BY <1>1, <1>2, MailStays, LifeUp, TrackedStays, StillRuled, ClicksStay DEF IInv
<1> QED  BY <1>3, <1>4, <1>5, <1>6 DEF IInv

LEMMA AcknowledgeInv == ASSUME IInv, NEW e \in Event, Acknowledge(e) PROVE IInv'
<1>1. /\ mail' = [mail EXCEPT ![e].phase = "done"] /\ UNCHANGED promiseVars
      /\ UNCHANGED <<agentVars, platformVars, click, mishaps>>
  BY DEF Acknowledge
<1>2. MailOK' /\ mail' \in [Event -> Delivery]
  BY <1>1 DEF IInv, MailOK, TypeOK, Delivery
<1>3. e.req \in Request
  BY DEF Event
<1> QED  BY <1>1, <1>2, <1>3, BrokerKeeps

LEMMA HandlerInv == ASSUME IInv, NEW e \in Event, HandlerStep(e) PROVE IInv'
  BY DeliverInv, PostCardInv, TrackInv, UpdateCardInv, UntrackInv, TellRequesterInv, AcknowledgeInv
     DEF HandlerStep

-----------------------------------------------------------------------------
(* The clicks' steps. *)

LEMMA ClickIs ==
  ASSUME IInv, NEW k \in Click, click[k].phase # "none"
  PROVE  /\ click[k].card \in Card /\ click[k].by \in Person /\ click[k].card.req \in Request
         /\ click[k].button \in Verdict \cup {"details"}
         /\ click[k].stood \in BOOLEAN /\ click[k].left \in Seq(Card)
         /\ click[k].phase \notin {"modal", "sent"} => up
  BY DEF IInv, TypeOK, Press, Card, LifeOK

\* One click moves, to a press that suits.
LEMMA ClickKeeps ==
  ASSUME IInv, NEW k \in Click, NEW p \in Press, click' = [click EXCEPT ![k] = p], ClickOK(k)',
         up \/ p.phase \in {"none", "modal", "sent"},
         RulingsStand, ruling' \in [Request -> Ruling \cup {"open"}],
         TellingOK', shown' \in [Card -> Status \cup {"none"}],
         cached' \subseteq Person, mishaps' \in Nat,
         UNCHANGED <<asked, told, mail, handling, seen, tracked, postedCards, known, up, life, copies,
                     informed, members>>
  PROVE  IInv'
<1> USE DEF IInv
<1>1. click' \in [Click -> Press] /\ click'[k] = p /\ \A j \in Click \ {k} : UNCHANGED click[j]
  BY DEF TypeOK
<1>2. ClicksOK'
  BY <1>1, ClickStays DEF ClicksOK
<1>3. TypeOK'
  BY <1>1 DEF TypeOK
<1>4. LifeOK'
  BY <1>1 DEF LifeOK
<1> QED  BY <1>2, <1>3, <1>4, MailStays, TrackedStays, HandlingStays

\* A click that moves and leaves the rulings and the cards.
LEMMA ClickOnly ==
  ASSUME IInv, NEW k \in Click, NEW p \in Press, click' = [click EXCEPT ![k] = p], ClickOK(k)',
         up \/ p.phase \in {"none", "modal", "sent"},
         cached' \subseteq Person, mishaps' \in Nat, UNCHANGED platformVars, NotAgent
  PROVE  IInv'
<1>1. UNCHANGED <<ruling, asked, told, mail, handling, seen, tracked, postedCards, known, up, life, shown,
                  copies, informed, members>>
  BY DEF NotAgent, platformVars, promiseVars
<1>2. TellingOK' /\ RulingsStand
  BY <1>1, StillRuled, TellingStays DEF IInv
<1> QED  BY <1>1, <1>2, ClickKeeps DEF IInv, TypeOK

\* A click ends, or goes on to another phase.
LEMMA Presses ==
  ASSUME IInv, NEW k \in Click
  PROVE  /\ NotPressed \in Press
         /\ Ends(k) => click' = [click EXCEPT ![k] = NotPressed] /\ ClickOK(k)'
         /\ NotPressed.phase = "none"
         /\ \A ph \in {"sent", "decide", "answer", "update"} :
              OnPhase(k, ph) /\ click[k].phase # "none" =>
                /\ click' = [click EXCEPT ![k] = [click[k] EXCEPT !.phase = ph]]
                /\ [click[k] EXCEPT !.phase = ph] \in Press
<1>1. NotPressed \in Press /\ NotPressed.phase = "none"
  BY DEF NotPressed, Press
<1>2. Ends(k) => click' = [click EXCEPT ![k] = NotPressed] /\ ClickOK(k)'
  <2> SUFFICES ASSUME Ends(k) PROVE click' = [click EXCEPT ![k] = NotPressed] /\ ClickOK(k)'
    OBVIOUS
  <2>1. click'[k] = NotPressed
    BY DEF Ends, IInv, TypeOK
  <2>2. click'[k].phase = "none"
    BY <2>1 DEF NotPressed
  <2> QED  BY <2>2 DEF Ends, ClickOK
<1>3. ASSUME NEW ph \in {"sent", "decide", "answer", "update"}, OnPhase(k, ph), click[k].phase # "none"
      PROVE  /\ click' = [click EXCEPT ![k] = [click[k] EXCEPT !.phase = ph]]
             /\ [click[k] EXCEPT !.phase = ph] \in Press
  BY <1>3 DEF OnPhase, IInv, TypeOK, Press
<1> QED  BY <1>1, <1>2, <1>3

LEMMA PressButtonInv ==
  ASSUME IInv, NEW k \in Click, NEW c \in Card, NEW p \in Person, NEW b \in Verdict \cup {"details"},
         PressButton(k, c, p, b)
  PROVE  IInv'
<1>1. PICK ph \in {"modal", "sent"} :
        click' = [click EXCEPT ![k] =
          [phase |-> ph, card |-> c, by |-> p, button |-> b, stood |-> TRUE, left |-> <<>>]]
  BY DEF PressButton
<1> DEFINE new == [phase |-> ph, card |-> c, by |-> p, button |-> b, stood |-> TRUE, left |-> <<>>]
<1>2. <<>> \in Seq(Card)
  OBVIOUS
<1>3. new \in Press
  BY <1>2 DEF Press
<1>4. ClickOK(k)'
  <2>1. click'[k] = new
    BY <1>1 DEF IInv, TypeOK
  <2> QED  BY <2>1 DEF ClickOK
<1>5. UNCHANGED <<cached, platformVars, mishaps>> /\ NotAgent
  BY DEF PressButton
<1> QED  BY <1>1, <1>3, <1>4, <1>5, ClickOnly DEF IInv, TypeOK

LEMMA SubmitInv == ASSUME IInv, NEW k \in Click, Submit(k) PROVE IInv'
<1>1. /\ click[k].phase = "modal" /\ OnPhase(k, "sent")
      /\ UNCHANGED <<cached, platformVars, mishaps>> /\ NotAgent
  BY DEF Submit
<1> DEFINE new == [click[k] EXCEPT !.phase = "sent"]
<1>2. new \in Press /\ click' = [click EXCEPT ![k] = new]
  BY <1>1, Presses
<1>3. new.phase = "sent" /\ new.stood = click[k].stood
  BY <1>1, ClickIs DEF IInv, TypeOK, Press
<1>4. click'[k] = new
  BY <1>2 DEF IInv, TypeOK
<1>5. click[k].stood
  BY <1>1 DEF IInv, ClicksOK, ClickOK
<1>6. ClickOK(k)'
  BY <1>3, <1>4, <1>5 DEF ClickOK
<1> QED  BY <1>1, <1>2, <1>3, <1>6, ClickOnly DEF IInv, TypeOK

\* onClick begins: from the card's nonce it follows that the card is of this run.
LEMMA CheckedSuits ==
  ASSUME IInv, up, NEW k \in Click, click[k].phase # "none",
         NEW current \in BOOLEAN, Checked(k, current),
         current => Current(k), Resolves(k) => click[k].stood,
         cached' \subseteq Person, UNCHANGED <<platformVars, mishaps>>, NotAgent
  PROVE  IInv'
<1>1. CASE ~current
  <2>1. Ends(k)
    BY <1>1 DEF Checked
  <2> QED  BY <2>1, Presses, ClickOnly DEF IInv, TypeOK
<1>2. CASE current
  <2> DEFINE r == click[k].card.req  posts == tracked[r].posts
             new == [click[k] EXCEPT !.phase = "verify", !.left = posts]
  <2>1. click' = [click EXCEPT ![k].phase = "verify", ![k].left = posts]
    BY <1>2 DEF Checked
  <2>2. click[k].card \in Card /\ r \in Request /\ click[k] \in Press
    BY ClickIs DEF IInv, TypeOK
  <2>3. tracked[r].nonce = click[k].card.life /\ click[k].card.life \in 1..MaxLife
    BY <1>2, <2>2 DEF Current, Card
  <2>4. tracked[r] \in Tracked \cup {Untracked} /\ tracked[r].nonce \in {0, life} /\ AllOf(posts, r)
    BY <2>2 DEF IInv, TypeOK, TrackedOK
  <2>5. posts \in Seq(Card) /\ click[k].card.life = life
    BY <2>3, <2>4, CardsAssumption DEF Tracked, Untracked
  <2>6. new \in Press /\ new.phase = "verify" /\ new.left = posts /\ new.card = click[k].card
        /\ new.by = click[k].by /\ new.stood = click[k].stood
    BY <2>2, <2>5, ClickIs DEF Press
  <2>7. click' = [click EXCEPT ![k] = new]
    BY <2>1, <2>2 DEF IInv, TypeOK
  <2>8. click'[k] = new
    BY <2>7 DEF IInv, TypeOK
  <2>9. UNCHANGED <<life, members>>
    BY DEF NotAgent, platformVars
  <2>10. Resolves(k)' => new.stood
    BY <2>6, <2>8, <2>9 DEF Resolves
  <2> HIDE DEF new, posts
  <2>11. ClickOK(k)'
    BY <1>2, <2>4, <2>5, <2>6, <2>8, <2>9, <2>10 DEF ClickOK, AllOf
  <2> QED  BY <2>6, <2>7, <2>11, ClickOnly DEF IInv, TypeOK
<1> QED  BY <1>1, <1>2

LEMMA ArriveFromGchatInv == ASSUME IInv, NEW k \in Click, ArriveFromGchat(k) PROVE IInv'
<1>1. /\ click[k].phase = "sent" /\ up
      /\ Checked(k, click[k].card \in postedCards /\ Current(k))
      /\ UNCHANGED <<cached, platformVars, mishaps>> /\ NotAgent
  BY DEF ArriveFromGchat
<1>2. click[k].stood
  BY <1>1 DEF IInv, ClicksOK, ClickOK
<1> DEFINE current == click[k].card \in postedCards /\ Current(k)
<1>3. current \in BOOLEAN /\ (current => Current(k))
  BY DEF Current
<1> HIDE DEF current
<1> QED  BY <1>1, <1>2, <1>3, CheckedSuits DEF IInv, TypeOK, current

LEMMA ArriveInv == ASSUME IInv, NEW k \in Click, Arrive(k) PROVE IInv'
<1>1. /\ click[k].phase = "sent" /\ up /\ PlatformOf(click[k].card.place) # "gchat"
      /\ click' = [click EXCEPT ![k].phase = "vet", ![k].stood = click[k].by \in members]
      /\ UNCHANGED <<cached, platformVars, mishaps>> /\ NotAgent
  BY DEF Arrive
<1>0. PICK st \in BOOLEAN : st <=> click[k].by \in members
  OBVIOUS
<1> DEFINE new == [click[k] EXCEPT !.phase = "vet", !.stood = st]
<1>2. new \in Press /\ new.phase = "vet" /\ new.card = click[k].card /\ new.by = click[k].by
      /\ new.stood = st
  BY <1>0, <1>1, ClickIs DEF IInv, TypeOK, Press
<1>3. click' = [click EXCEPT ![k] = new] /\ click'[k] = new
  <2>1. st = (click[k].by \in members)
    BY <1>0
  <2> QED  BY <1>1, <2>1 DEF IInv, TypeOK
<1>4. UNCHANGED members
  BY <1>1 DEF platformVars
<1> HIDE DEF new
<1>5. ClickOK(k)'
  BY <1>0, <1>1, <1>2, <1>3, <1>4 DEF ClickOK, Resolves
<1> QED  BY <1>1, <1>2, <1>3, <1>5, ClickOnly DEF IInv, TypeOK

LEMMA CacheType ==
  ASSUME IInv, NEW k \in Click, click[k].phase # "none", Remembers(k)
  PROVE  cached' \subseteq Person
  BY ClickIs DEF Remembers, IInv, TypeOK

\* The look for the user may fail: Slack's adapter then ends the click.
LEMMA VetInv == ASSUME IInv, NEW k \in Click, Vet(k) PROVE IInv'
<1> DEFINE current == (PlatformOf(click[k].card.place) = "teams" \/ Resolves(k)) /\ Current(k)
<1>1. click[k].phase = "vet" /\ UNCHANGED platformVars /\ NotAgent /\ up
  BY ClickIs DEF Vet
<1>2. CASE Checked(k, current) /\ Remembers(k) /\ UNCHANGED mishaps
  <2>1. cached' \subseteq Person
    BY <1>1, <1>2, CacheType
  <2>2. current \in BOOLEAN /\ (current => Current(k))
    BY DEF Current, Resolves
  <2>3. Resolves(k) => click[k].stood
    BY <1>1 DEF IInv, ClicksOK, ClickOK
  <2>4. click[k].phase # "none" /\ UNCHANGED <<platformVars, mishaps>> /\ NotAgent /\ Checked(k, current)
    BY <1>1, <1>2
  <2> HIDE DEF current
  <2> QED  BY <1>1, <2>1, <2>2, <2>3, <2>4, CheckedSuits
<1>3. CASE Mishap /\ Ends(k) /\ UNCHANGED cached
  <2>1. cached' \subseteq Person /\ mishaps' \in Nat
    BY <1>3 DEF Mishap, IInv, TypeOK
  <2> QED  BY <1>1, <1>3, <2>1, Presses, ClickOnly
<1> QED  BY <1>2, <1>3 DEF Vet

\* Who is a member now was one when the click came.
LEMMA VerifyInv == ASSUME IInv, NEW k \in Click, Verify(k) PROVE IInv'
<1>1. click[k].phase = "verify" /\ UNCHANGED platformVars /\ NotAgent /\ mishaps' \in Nat
  BY DEF Verify, Mishap, IInv, TypeOK
<1>2. up /\ cached' \subseteq Person
  <2>1. Remembers(k) \/ UNCHANGED cached
    BY DEF Verify
  <2> QED  BY <1>1, <2>1, ClickIs, CacheType DEF IInv, TypeOK
<1>3. CASE Ends(k)
  BY <1>1, <1>2, <1>3, Presses, ClickOnly
<1>4. CASE Resolves(k) /\ click[k].button # "details" /\ OnPhase(k, "decide")
  <2> DEFINE new == [click[k] EXCEPT !.phase = "decide"]
  <2>1. new \in Press /\ click' = [click EXCEPT ![k] = new] /\ click'[k] = new
    BY <1>1, <1>4, Presses DEF IInv, TypeOK
  <2>2. /\ new.phase = "decide" /\ new.stood = click[k].stood /\ new.card = click[k].card
        /\ new.left = click[k].left /\ new.button = click[k].button
    BY <1>1, ClickIs DEF IInv, TypeOK, Press
  <2>3. /\ click[k].stood /\ click[k].card.life = life /\ AllOf(click[k].left, click[k].card.req)
        /\ click[k].button \in Verdict
    BY <1>1, <1>4, ClickIs DEF IInv, ClicksOK, ClickOK
  <2>4. UNCHANGED life
    BY <1>1 DEF NotAgent
  <2> HIDE DEF new
  <2>5. ClickOK(k)'
    BY <2>1, <2>2, <2>3, <2>4 DEF ClickOK, AllOf
  <2> QED  BY <1>1, <1>2, <2>1, <2>5, ClickOnly
<1> QED  BY <1>3, <1>4 DEF Verify

LEMMA DecideInv == ASSUME IInv, NEW k \in Click, Decide(k) PROVE IInv'
<1> DEFINE r == click[k].card.req  b == click[k].button
<1>1. /\ click[k].phase = "decide" /\ mishaps' \in Nat
      /\ UNCHANGED <<up, life, seen, tracked, handling, cached, postedCards, known, shown, copies,
                     informed, members, mail>>
  BY DEF Decide, Mishap, IInv, TypeOK, agentVars, memory, platformVars
<1>2. /\ up /\ r \in Request /\ b \in Verdict /\ click[k].stood /\ click[k].card.life = life
      /\ AllOf(click[k].left, r) /\ click[k] \in Press
  BY <1>1, ClickIs DEF IInv, TypeOK, ClicksOK, ClickOK
<1>3. (\E v \in Ruling : Rule(r, v)) \/ UNCHANGED promiseVars
  <2>1. b \in Ruling
    BY <1>2 DEF Verdict, Ruling
  <2> QED  BY <2>1 DEF Decide, Rules, Refused
<1>4. /\ RulingsStand /\ TellingOK' /\ ruling' \in [Request -> Ruling \cup {"open"}]
      /\ UNCHANGED <<asked, told>>
  <2>1. UNCHANGED <<asked, told>>
    BY <1>3 DEF Rule, promiseVars
  <2> QED  BY <1>1, <1>2, <1>3, <2>1, PromiseSteps DEF IInv
<1>5. CASE Ends(k)
  BY <1>1, <1>4, <1>5, Presses, ClickKeeps DEF IInv, TypeOK
<1>6. CASE Rules(k) /\ OnPhase(k, "answer")
  <2> DEFINE new == [click[k] EXCEPT !.phase = "answer"]
  <2>1. new \in Press /\ click' = [click EXCEPT ![k] = new] /\ click'[k] = new
    BY <1>1, <1>6, Presses DEF IInv, TypeOK
  <2>2. /\ new.phase = "answer" /\ new.stood = click[k].stood /\ new.card = click[k].card
        /\ new.left = click[k].left /\ new.button = b
    BY <1>1, ClickIs DEF IInv, TypeOK, Press
  <2>3. ruling'[r] = b
    BY <1>2, <1>6 DEF Rules, Rule, IInv, TypeOK
  <2> HIDE DEF new
  <2>4. ClickOK(k)'
    BY <1>1, <1>2, <2>1, <2>2, <2>3 DEF ClickOK, AllOf
  <2> QED  BY <1>1, <1>2, <1>4, <2>1, <2>4, ClickKeeps DEF IInv, TypeOK
<1> QED  BY <1>5, <1>6 DEF Decide, Refused

LEMMA AnswerClickInv == ASSUME IInv, NEW k \in Click, AnswerClick(k) PROVE IInv'
<1>1. /\ click[k].phase = "answer" /\ UNCHANGED <<cached, platformVars>> /\ NotAgent
      /\ mishaps' \in Nat
  BY DEF AnswerClick, Mishap, IInv, TypeOK
<1>2. CASE Ends(k)
  BY <1>1, <1>2, Presses, ClickOnly DEF IInv, TypeOK
<1>3. CASE OnPhase(k, "update")
  <2> DEFINE new == [click[k] EXCEPT !.phase = "update"]
  <2>1. new \in Press /\ click' = [click EXCEPT ![k] = new] /\ click'[k] = new
    BY <1>1, <1>3, Presses DEF IInv, TypeOK
  <2>2. /\ new.phase = "update" /\ new.stood = click[k].stood /\ new.card = click[k].card
        /\ new.left = click[k].left /\ new.button = click[k].button
    BY <1>1, ClickIs DEF IInv, TypeOK, Press
  <2>3. UNCHANGED <<life, ruling>>
    BY <1>1 DEF NotAgent, promiseVars
  <2>4. ClickOK(k)
    BY DEF IInv, ClicksOK
  <2> HIDE DEF new
  <2>5. ClickOK(k)'
    BY <1>1, <2>1, <2>2, <2>3, <2>4 DEF ClickOK, AllOf
  <2>6. up
    BY <1>1, ClickIs
  <2> QED  BY <1>1, <2>1, <2>5, <2>6, ClickOnly DEF IInv, TypeOK
<1> QED  BY <1>2, <1>3 DEF AnswerClick

LEMMA UpdateFromClickInv == ASSUME IInv, NEW k \in Click, UpdateFromClick(k) PROVE IInv'
<1> DEFINE p == click[k]  c == Head(p.left)
<1>1. /\ p.phase = "update" /\ mishaps' \in Nat /\ NotAgent
      /\ UNCHANGED <<ruling, asked, told, mail, handling, seen, tracked, postedCards, known, up, life,
                     cached, copies, informed, members>>
  BY DEF UpdateFromClick, Mishap, IInv, TypeOK, NotAgent, promiseVars
<1>2. /\ up /\ p \in Press /\ p.left \in Seq(Card) /\ ClickOK(k) /\ p.card.req \in Request
      /\ p.button = ruling[p.card.req] /\ p.button \in Verdict /\ AllOf(p.left, p.card.req)
  BY <1>1, ClickIs DEF IInv, TypeOK, ClicksOK, ClickOK
<1>3. RulingsStand
  BY <1>1, StillRuled
<1>4. CASE p.left = <<>>
  <2>1. Ends(k) /\ UNCHANGED shown
    BY <1>4 DEF UpdateFromClick
  <2>2. TellingOK'
    BY <1>1, <1>3, <2>1, TellingStays DEF IInv
  <2> QED  BY <1>1, <1>3, <2>1, <2>2, Presses, ClickKeeps DEF IInv, TypeOK
<1>5. CASE p.left # <<>>
  <2> DEFINE new == [p EXCEPT !.left = Tail(p.left)]
  <2>1. /\ click' = [click EXCEPT ![k].left = Tail(@)]
        /\ shown' = [shown EXCEPT ![c] = p.button] \/ UNCHANGED shown
    BY <1>5 DEF UpdateFromClick
  <2>2. /\ c = p.left[1] /\ 1 \in DOMAIN p.left /\ c \in Card /\ Tail(p.left) \in Seq(Card)
        /\ \A i \in DOMAIN Tail(p.left) : i + 1 \in DOMAIN p.left /\ Tail(p.left)[i] = p.left[i + 1]
    BY <1>2, <1>5
  <2>3. c.req = p.card.req /\ AllOf(Tail(p.left), p.card.req)
    BY <1>2, <2>2 DEF AllOf
  <2>4. /\ new \in Press /\ new.phase = "update" /\ new.stood = p.stood /\ new.card = p.card
        /\ new.left = Tail(p.left) /\ new.button = p.button
    BY <1>1, <1>2, <2>2, ClickIs DEF Press
  <2>5. click' = [click EXCEPT ![k] = new] /\ click'[k] = new
    BY <2>1 DEF IInv, TypeOK
  <2> HIDE DEF new
  <2>6. ClickOK(k)'
    BY <1>1, <1>2, <2>3, <2>4, <2>5 DEF ClickOK, AllOf
  <2>7. TellingOK' /\ shown' \in [Card -> Status \cup {"none"}]
    <3>1. CASE UNCHANGED shown
      BY <1>1, <1>3, <3>1, TellingStays DEF IInv, TypeOK
    <3>2. CASE shown' = [shown EXCEPT ![c] = p.button]
      BY <1>1, <1>2, <2>2, <2>3, <3>2 DEF IInv, TypeOK, TellingOK, Status
    <3> QED  BY <2>1, <3>1, <3>2
  <2> QED  BY <1>1, <1>2, <1>3, <2>4, <2>5, <2>6, <2>7, ClickKeeps DEF IInv, TypeOK
<1> QED  BY <1>4, <1>5

LEMMA ClickInv == ASSUME IInv, NEW k \in Click, ClickStep(k) PROVE IInv'
  BY ArriveFromGchatInv, ArriveInv, VetInv, VerifyInv, DecideInv, AnswerClickInv, UpdateFromClickInv
     DEF ClickStep

-----------------------------------------------------------------------------
(* People, and the process. *)

LEMMA WriteInv == ASSUME IInv, NEW p \in Person, NEW a \in Platform, Write(p, a) PROVE IInv'
<1>1. /\ cached' \subseteq Person /\ known' \subseteq Place
      /\ UNCHANGED <<ruling, asked, told, up, life, seen, tracked, handling, postedCards, shown, copies,
                     informed, members, mail, click, mishaps>>
  BY DEF Write, promiseVars, platformVars, IInv, TypeOK
<1>2. TypeOK'
  BY <1>1 DEF IInv, TypeOK
<1> QED  BY <1>1, <1>2, StillRuled, MailStays, LifeStays, TrackedStays, HandlingStays, ClicksStay,
            TellingStays DEF IInv

LEMMA LeaveInv == ASSUME IInv, NEW p \in Person, Leave(p) PROVE IInv'
<1>1. /\ members' \subseteq members
      /\ UNCHANGED <<ruling, asked, told, up, life, seen, tracked, handling, cached, postedCards, known,
                     shown, copies, informed, mail, click, mishaps>>
  BY DEF Leave, promiseVars, agentVars, memory
<1>2. TypeOK'
  BY <1>1 DEF IInv, TypeOK
<1> QED  BY <1>1, <1>2, StillRuled, MailStays, LifeStays, TrackedStays, HandlingStays, ClicksStay,
            TellingStays DEF IInv

LEMMA PeopleInv == ASSUME IInv, PeopleNext PROVE IInv'
  BY LeaveInv, WriteInv, SubmitInv, PressButtonInv DEF PeopleNext

\* A new run finds nothing in memory, and no click that has got past the adapter.
LEMMA StartInv == ASSUME IInv, Start PROVE IInv'
<1>1. /\ ~up /\ up' = TRUE /\ life' = life + 1
      /\ UNCHANGED <<ruling, asked, told, seen, tracked, handling, cached, postedCards, known, shown,
                     copies, informed, members, mail, click, mishaps>>
  BY DEF Start, promiseVars, memory, platformVars
<1>2. /\ life \in 0..MaxLife /\ life < MaxLife
      /\ \A r \in Request : tracked[r] = Untracked
      /\ \A e \in Event : handling[e] = NotHandled
      /\ \A k \in Click : click[k].phase \in {"none", "modal", "sent"}
  BY <1>1 DEF IInv, TypeOK, LifeOK
<1>3. TypeOK'
  BY <1>1, <1>2, CardsAssumption DEF IInv, TypeOK
<1>4. LifeOK'
  BY <1>1, <1>2 DEF LifeOK
<1>5. TrackedOK'
  BY <1>1, <1>2 DEF TrackedOK, Untracked, AllOf
<1>6. HandlingOK'
  BY <1>1, <1>2 DEF HandlingOK, NotHandled, AllOf
<1>7. ClicksOK'
  BY <1>1, <1>2 DEF IInv, ClicksOK, ClickOK
<1> QED  BY <1>1, <1>3, <1>4, <1>5, <1>6, <1>7, StillRuled, MailStays, TellingStays DEF IInv

\* What is left of a run that has ended.
LEMMA Emptied ==
  ASSUME seen = {}, \A r \in Request : tracked[r] = Untracked,
         \A e \in Event : handling[e] = NotHandled
  PROVE  TrackedOK /\ HandlingOK
  BY DEF TrackedOK, HandlingOK, Untracked, NotHandled, AllOf

LEMMA CrashInv == ASSUME IInv, Crash PROVE IInv'
<1>1. /\ up' = FALSE /\ life < MaxLife /\ mishaps' = mishaps + 1
      /\ seen' = {} /\ tracked' = [r \in Request |-> Untracked]
      /\ handling' = [e \in Event |-> NotHandled]
      /\ cached' = {} /\ postedCards' = {} /\ known' = {}
      /\ click' = [k \in Click |->
           IF click[k].phase \in {"modal", "sent"} THEN click[k] ELSE NotPressed]
      /\ UNCHANGED <<ruling, asked, told, life, shown, copies, informed, members, mail>>
  BY DEF Crash, Forgotten, Mishap, promiseVars, platformVars
<1>2. /\ Untracked \in Tracked \cup {Untracked} /\ NotHandled \in Handling /\ NotPressed \in Press
      /\ NotPressed.phase = "none"
  <2>1. <<>> \in Seq(Card)
    OBVIOUS
  <2> QED  BY <2>1 DEF NotHandled, Handling, NotPressed, Press
<1>3. click' \in [Click -> Press]
  BY <1>1, <1>2 DEF IInv, TypeOK
<1>4. TypeOK'
  <2>0. up' \in BOOLEAN
    BY <1>1
  <2>3. mishaps' \in Nat
    <3>1. mishaps \in Nat /\ mishaps' = mishaps + 1
      BY <1>1 DEF IInv, TypeOK
    <3> QED  BY <3>1
  <2>1. tracked' \in [Request -> Tracked \cup {Untracked}] /\ handling' \in [Event -> Handling]
    BY <1>1, <1>2
  <2>2. /\ seen' \subseteq Event /\ cached' \subseteq Person /\ postedCards' \subseteq Card
        /\ known' \subseteq Place
    BY <1>1
  <2> QED  BY <1>1, <1>3, <2>0, <2>1, <2>2, <2>3 DEF IInv, TypeOK
<1>5. \A k \in Click : click'[k].phase \in {"none", "modal", "sent"}
  BY <1>1, <1>2
<1>6. LifeOK'
  BY <1>1, <1>5 DEF LifeOK
<1>7. TrackedOK' /\ HandlingOK'
  BY <1>1 DEF TrackedOK, HandlingOK, Untracked, NotHandled, AllOf
<1>8. ClicksOK'
  <2> SUFFICES ASSUME NEW k \in Click PROVE ClickOK(k)'
    BY DEF ClicksOK
  <2>1. click'[k] = click[k] \/ click'[k].phase = "none"
    BY <1>1, <1>2
  <2>2. ClickOK(k)
    BY DEF IInv, ClicksOK
  <2> QED  BY <1>5, <2>1, <2>2 DEF ClickOK
<1> QED  BY <1>1, <1>4, <1>6, <1>7, <1>8, StillRuled, MailStays, TellingStays DEF IInv

LEMMA InitInv == Init => IInv
<1> SUFFICES ASSUME Init PROVE IInv
  OBVIOUS
<1> USE DEF Init, PromiseInit
<1>1. /\ NotHandled \in Handling /\ NotPressed \in Press /\ NotPressed.phase = "none"
      /\ \A e \in Event : [phase |-> "none", tries |-> 0] \in Delivery
  <2>1. <<>> \in Seq(Card)
    OBVIOUS
  <2> QED  BY <2>1, CardsAssumption DEF NotHandled, Handling, NotPressed, Press, Delivery
<1>2. TypeOK
  <2>1. /\ tracked \in [Request -> Tracked \cup {Untracked}] /\ handling \in [Event -> Handling]
        /\ mail \in [Event -> Delivery] /\ click \in [Click -> Press]
    BY <1>1
  <2>2. /\ ruling \in [Request -> Ruling \cup {"open"}]
        /\ told \in [Request -> SUBSET Verdict] /\ informed \in [Request -> SUBSET Verdict]
        /\ shown \in [Card -> Status \cup {"none"}] /\ copies \in [Card -> Nat]
    OBVIOUS
  <2>3. up \in BOOLEAN
    OBVIOUS
  <2>4. life = 0 /\ mishaps = 0
    OBVIOUS
  <2>5. life \in 0..MaxLife /\ mishaps \in Nat
    BY <2>4, CardsAssumption
  <2> QED  BY <2>1, <2>2, <2>3, <2>5 DEF TypeOK
<1>3. MailOK
  BY DEF MailOK
<1>4. LifeOK
  BY <1>1, CardsAssumption DEF LifeOK
<1>5. TrackedOK /\ HandlingOK
  BY Emptied
<1>6. ClicksOK
  BY <1>1 DEF ClicksOK, ClickOK
<1>7. TellingOK
  BY DEF TellingOK, Verdict
<1> QED  BY <1>2, <1>3, <1>4, <1>5, <1>6, <1>7 DEF IInv

LEMMA StepInv == IInv /\ [Next]_vars => IInv'
<1> SUFFICES ASSUME IInv, [Next]_vars PROVE IInv'
  OBVIOUS
<1>1. CASE Next
  BY <1>1, BrokerInv, PeopleInv, StartInv, CrashInv, HandlerInv, ClickInv DEF Next
<1>2. CASE UNCHANGED vars
  <2>1. UNCHANGED <<ruling, asked, told, up, life, seen, tracked, handling, cached, postedCards, known,
                    shown, copies, informed, members, mail, click, mishaps>>
    BY <1>2 DEF vars, promiseVars, agentVars, memory, platformVars
  <2>2. TypeOK'
    BY <2>1 DEF IInv, TypeOK
  <2> QED  BY <2>1, <2>2, StillRuled, MailStays, LifeStays, TrackedStays, HandlingStays, ClicksStay,
              TellingStays DEF IInv
<1> QED  BY <1>1, <1>2

LEMMA Always == Spec => []IInv
<1>1. Init => IInv
  BY InitInv
<1>2. IInv /\ [Next]_vars => IInv'
  BY StepInv
<1> QED  BY <1>1, <1>2, PTL DEF Spec

-----------------------------------------------------------------------------
(* What follows. *)

\* Every variable of the agent, the broker's mail and the platforms keeps its type.
THEOREM TypeCorrect == Spec => []TypeOK
<1>1. IInv => TypeOK
  BY DEF IInv
<1> QED  BY <1>1, Always, PTL

\* Whatever is on a card or in a message to a requester is Teleport's ruling: the verdict of a
\* click is written only after the broker has taken it, and events carry rulings that stand.
THEOREM CardsTrue == Spec => []CardsTell
<1>1. IInv => CardsTell
  BY DEF IInv, TellingOK, CardsTell, Card
<1> QED  BY <1>1, Always, PTL

\* A click that is looked at came from a card of this run, whose nonce was drawn by it, and one
\* that gets to the broker came from somebody who was a member when the agent took it up: who
\* is found at the second look was found there before, or could have been.
THEOREM ClicksChecked == Spec => []ClicksAreChecked
<1>1. IInv => ClicksAreChecked
  BY DEF IInv, ClicksOK, ClickOK, ClicksAreChecked
<1> QED  BY <1>1, Always, PTL

-----------------------------------------------------------------------------
(* A card is posted once in a place. *)

\* No card is posted, and no handler begins to post.
LEMMA PostedStays ==
  ASSUME PostedOnce, UNCHANGED <<copies, life>>, up' => up, up => seen \subseteq seen',
         \A r \in Request : handling'[Asking(r)].phase = "post" =>
           handling'[Asking(r)] = handling[Asking(r)]
  PROVE  PostedOnce'
<1>1. OneCardPerPlace' /\ \A c \in Card : c.life > life' => copies'[c] = 0
  BY DEF PostedOnce, OneCardPerPlace
<1>2. \A c \in Card : up' /\ c.life = life' /\ Asking(c.req) \notin seen' => copies'[c] = 0
  BY DEF PostedOnce
<1>3. ASSUME NEW r \in Request, handling'[Asking(r)].phase = "post"
      PROVE  LET left == handling'[Asking(r)].left IN
             /\ \A i \in DOMAIN left : copies'[left[i]] = 0
             /\ \A i, j \in DOMAIN left : left[i] = left[j] => i = j
  BY <1>3 DEF PostedOnce
<1> QED  BY <1>1, <1>2, <1>3 DEF PostedOnce, Asking

\* One handler takes a step that is not a posting.
LEMMA PostedElsewhere ==
  ASSUME IInv, PostedOnce, UNCHANGED <<copies, life, up, seen>>, NEW e \in Event, NEW h,
         handling' = [handling EXCEPT ![e] = h], h.phase # "post"
  PROVE  PostedOnce'
<1>1. \A x \in Event : handling'[x] = IF x = e THEN h ELSE handling[x]
  BY DEF IInv, TypeOK
<1>2. \A r \in Request : Asking(r) \in Event
  BY DEF Asking, Event
<1>3. \A r \in Request : handling'[Asking(r)].phase = "post" =>
        handling'[Asking(r)] = handling[Asking(r)]
  BY <1>1, <1>2
<1> QED  BY <1>3, PostedStays

\* The cards an event sets off are all different, and of those none has been posted.
LEMMA DeliverPosts ==
  ASSUME NamedOnce, IInv, PostedOnce, NEW e \in Event, Deliver(e) PROVE PostedOnce'
<1>1. /\ up /\ e \notin seen /\ seen' = seen \cup {e} /\ handling' = [handling EXCEPT ![e] = Opening(e)]
      /\ UNCHANGED <<up, life, copies>>
  BY DEF Deliver, Unseen, platformVars
<1>2. \A x \in Event : handling'[x] = IF x = e THEN Opening(e) ELSE handling[x]
  BY <1>1 DEF IInv, TypeOK
<1>3. e.req \in Request /\ (e.kind = "pending" => e = Asking(e.req))
  BY DEF Event, Asking
<1>4. \A r \in Request : Asking(r) \in Event /\ Asking(r).req = r
  BY DEF Asking, Event
<1>5. CASE Opening(e).phase # "post"
  <2>1. \A r \in Request : handling'[Asking(r)].phase = "post" =>
          handling'[Asking(r)] = handling[Asking(r)]
    BY <1>2, <1>4, <1>5
  <2> QED  BY <1>1, <2>1, PostedStays
<1>6. CASE Opening(e).phase = "post"
  <2> DEFINE left == Opening(e).left  pl == Places(e.req)
  <2>1. e.kind = "pending" /\ e = Asking(e.req) /\ left \in Seq(Card)
        /\ AllOf(left, e.req) /\ \A i \in DOMAIN left : left[i].life = life
    BY <1>1, <1>3, <1>6, OpeningSuits DEF Handling
  <2>2. \A i \in DOMAIN left : copies[left[i]] = 0
    <3> SUFFICES ASSUME NEW i \in DOMAIN left PROVE copies[left[i]] = 0
      OBVIOUS
    <3>1. left[i] \in Card /\ left[i].req = e.req /\ left[i].life = life
      BY <2>1 DEF AllOf
    <3> QED  BY <1>1, <2>1, <3>1 DEF PostedOnce
  <2>3. \A i, j \in DOMAIN left : left[i] = left[j] => i = j
    <3>1. left = [i \in DOMAIN pl |-> [req |-> e.req, place |-> pl[i], life |-> life]]
      BY <1>6, <2>1 DEF Opening, NotHandled
    <3>2. DOMAIN left = DOMAIN pl /\ \A i \in DOMAIN pl : left[i].place = pl[i]
      BY <3>1
    <3> QED  BY <1>3, <3>2, PlacesDiffer
  <2>4. ASSUME NEW r \in Request, handling'[Asking(r)].phase = "post"
        PROVE  LET l == handling'[Asking(r)].left IN
               /\ \A i \in DOMAIN l : copies'[l[i]] = 0
               /\ \A i, j \in DOMAIN l : l[i] = l[j] => i = j
    <3>1. CASE Asking(r) = e
      BY <1>1, <1>2, <2>2, <2>3, <3>1
    <3>2. CASE Asking(r) # e
      BY <1>1, <1>2, <1>4, <2>4, <3>2 DEF PostedOnce
    <3> QED  BY <3>1, <3>2
  <2>5. OneCardPerPlace' /\ \A c \in Card : c.life > life' => copies'[c] = 0
    BY <1>1 DEF PostedOnce, OneCardPerPlace
  <2>6. \A c \in Card : up' /\ c.life = life' /\ Asking(c.req) \notin seen' => copies'[c] = 0
    BY <1>1 DEF PostedOnce
  <2> QED  BY <2>4, <2>5, <2>6 DEF PostedOnce, Asking
<1> QED  BY <1>5, <1>6

\* The card that is posted was not, and is not among those left.
LEMMA PostCardPosts ==
  ASSUME IInv, PostedOnce, NEW e \in Event, PostCard(e) PROVE PostedOnce'
<1> DEFINE h == handling[e]  c == Head(h.left)  rest == Tail(h.left)
<1>1. /\ h.phase = "post" /\ h.left # <<>> /\ UNCHANGED <<up, life, seen>>
      /\ Posted(c) \/ UNCHANGED <<shown, copies>>
  BY DEF PostCard
<1>2. PICK posts : handling' = [handling EXCEPT ![e] = [phase |-> "post", left |-> rest, posts |-> posts]]
  BY DEF PostCard, Handle
<1>3. \A x \in Event : handling'[x].left = (IF x = e THEN rest ELSE handling[x].left)
                     /\ handling'[x].phase = handling[x].phase
  BY <1>1, <1>2 DEF IInv, TypeOK
<1>4. /\ up /\ e \in seen /\ h \in Handling /\ e.req \in Request /\ e.kind = "pending" /\ c \in Card
      /\ c.req = e.req /\ e = Asking(e.req)
  BY <1>1, HandlerIs DEF IInv, HandlingOK, Event, Asking
<1>5. /\ h.left \in Seq(Card) /\ c = h.left[1] /\ 1 \in DOMAIN h.left
      /\ \A i \in DOMAIN rest : i \in Nat \ {0} /\ i + 1 \in DOMAIN h.left /\ rest[i] = h.left[i + 1]
  BY <1>1, <1>4 DEF Handling
<1>6. c.life = life
  BY <1>1, <1>5 DEF IInv, HandlingOK
<1>7. copies[c] = 0 /\ \A i \in DOMAIN rest : copies[rest[i]] = 0 /\ rest[i] # c
  <2>1. /\ \A i \in DOMAIN h.left : copies[h.left[i]] = 0
        /\ \A i, j \in DOMAIN h.left : h.left[i] = h.left[j] => i = j
    BY <1>1, <1>4 DEF PostedOnce
  <2> QED  BY <1>5, <2>1
<1>8. copies \in [Card -> Nat] /\ copies'[c] \in {0, 1} /\ \A d \in Card \ {c} : copies'[d] = copies[d]
  BY <1>1, <1>4, <1>7 DEF Posted, IInv, TypeOK
<1>9. OneCardPerPlace'
  BY <1>8 DEF PostedOnce, OneCardPerPlace
<1>10. \A d \in Card : d.life > life' => copies'[d] = 0
  <2>1. life \in Int
    BY DEF IInv, TypeOK
  <2> QED  BY <1>1, <1>6, <1>8, <2>1 DEF PostedOnce
<1>11. \A d \in Card : up' /\ d.life = life' /\ Asking(d.req) \notin seen' => copies'[d] = 0
  BY <1>1, <1>4, <1>8 DEF PostedOnce
<1>12. ASSUME NEW r \in Request, handling'[Asking(r)].phase = "post"
       PROVE  LET l == handling'[Asking(r)].left IN
              /\ \A i \in DOMAIN l : copies'[l[i]] = 0
              /\ \A i, j \in DOMAIN l : l[i] = l[j] => i = j
  <2>1. Asking(r) \in Event /\ Asking(r).req = r
    BY DEF Asking, Event
  <2>2. CASE r = e.req
    <3>1. handling'[Asking(r)].left = rest
      BY <1>3, <1>4, <2>2
    <3>2. \A i \in DOMAIN rest : rest[i] \in Card /\ copies'[rest[i]] = 0
      BY <1>5, <1>7, <1>8
    <3>3. \A i, j \in DOMAIN h.left : h.left[i] = h.left[j] => i = j
      BY <1>1, <1>4 DEF PostedOnce
    <3>4. \A i, j \in DOMAIN rest : rest[i] = rest[j] => i = j
      BY <1>5, <3>3
    <3> QED  BY <3>1, <3>2, <3>4
  <2>3. CASE r # e.req
    <3> DEFINE left == handling[Asking(r)].left
    <3>1. handling'[Asking(r)].left = left /\ handling[Asking(r)].phase = "post"
      BY <1>3, <1>12, <2>1, <2>3
    <3>2. left \in Seq(Card) /\ AllOf(left, r)
      BY <2>1 DEF IInv, TypeOK, HandlingOK, Handling
    <3>3. \A i \in DOMAIN left : left[i] \in Card \ {c}
      BY <1>4, <2>3, <3>2 DEF AllOf
    <3>4. /\ \A i \in DOMAIN left : copies[left[i]] = 0
          /\ \A i, j \in DOMAIN left : left[i] = left[j] => i = j
      BY <3>1 DEF PostedOnce
    <3> QED  BY <1>8, <3>1, <3>3, <3>4
  <2> QED  BY <2>2, <2>3
<1> QED  BY <1>9, <1>10, <1>11, <1>12 DEF PostedOnce, Asking

LEMMA HandlerPosts ==
  ASSUME NamedOnce, IInv, PostedOnce, NEW e \in Event, HandlerStep(e) PROVE PostedOnce'
<1>1. CASE Track(e)
  <2>1. handling' = [handling EXCEPT ![e] = [handling[e] EXCEPT !.phase = "done"]]
        /\ UNCHANGED <<copies, life, up, seen>>
    BY <1>1 DEF Track, platformVars
  <2>2. [handling[e] EXCEPT !.phase = "done"].phase = "done"
    BY HandlerIs DEF Handling
  <2> QED  BY <2>1, <2>2, PostedElsewhere
<1>2. CASE UpdateCard(e) \/ Untrack(e) \/ TellRequester(e)
  <2>1. /\ UNCHANGED <<copies, life, up, seen>>
        /\ \E ph \in {"update", "tell", "done"} : \E left, posts : Handle(e, ph, left, posts)
    BY <1>2 DEF UpdateCard, Untrack, TellRequester, platformVars
  <2>2. PICK ph \in {"update", "tell", "done"} : \E left, posts : Handle(e, ph, left, posts)
    BY <2>1
  <2>3. PICK left, posts : Handle(e, ph, left, posts)
    BY <2>2
  <2> DEFINE h == [phase |-> ph, left |-> left, posts |-> posts]
  <2>4. h.phase # "post" /\ handling' = [handling EXCEPT ![e] = h]
    BY <2>2, <2>3 DEF Handle
  <2> HIDE DEF h
  <2> QED  BY <2>1, <2>4, PostedElsewhere
<1>3. CASE Acknowledge(e)
  BY <1>3, PostedStays DEF Acknowledge, agentVars, memory, platformVars
<1> QED  BY <1>1, <1>2, <1>3, DeliverPosts, PostCardPosts DEF HandlerStep

LEMMA StepPosts == ASSUME NamedOnce, IInv, PostedOnce, [Next]_vars PROVE PostedOnce'
<1>1. CASE \E e \in Event : HandlerStep(e)
  BY <1>1, HandlerPosts
<1>2. CASE BrokerNext \/ UNCHANGED vars
  <2>1. UNCHANGED <<copies, life, up, seen, handling>>
    BY <1>2 DEF BrokerNext, AskReview, RuleElsewhere, TellRuling, TurnedAway, GiveUpWaiting, vars,
                agentVars, memory, platformVars
  <2> QED  BY <2>1, PostedStays
<1>3. CASE PeopleNext
  <2>1. UNCHANGED <<copies, life, up, seen, handling>>
    BY <1>3 DEF PeopleNext, Leave, Write, Submit, PressButton, NotAgent, agentVars, memory, platformVars
  <2> QED  BY <2>1, PostedStays
<1>4. CASE \E k \in Click : ClickStep(k)
  <2>1. UNCHANGED <<copies, life, up, seen, handling>>
    BY <1>4 DEF ClickStep, ArriveFromGchat, Arrive, Vet, Verify, Decide, AnswerClick, UpdateFromClick,
                NotAgent, agentVars, memory, platformVars
  <2> QED  BY <2>1, PostedStays
<1>5. CASE Start
  <2>1. ~up /\ life' = life + 1 /\ UNCHANGED <<copies, seen, handling>>
    BY <1>5 DEF Start, memory, platformVars
  <2>2. life \in Int /\ (\A c \in Card : c.life \in Int) /\ \A e \in Event : handling[e].phase = "none"
    BY <2>1 DEF IInv, TypeOK, LifeOK, NotHandled, Card
  <2>3. \A r \in Request : Asking(r) \in Event
    BY DEF Asking, Event
  <2>4. \A c \in Card : c.life >= life' => copies'[c] = 0
    BY <2>1, <2>2 DEF PostedOnce
  <2>5. OneCardPerPlace'
    BY <2>1 DEF PostedOnce, OneCardPerPlace
  <2>6. \A r \in Request : handling'[Asking(r)].phase # "post"
    BY <2>1, <2>2, <2>3
  <2>7. life' \in Int
    BY <2>1, <2>2
  <2> QED  BY <2>2, <2>4, <2>5, <2>6, <2>7 DEF PostedOnce, Asking
<1>6. CASE Crash
  <2>1. ~up' /\ handling' = [e \in Event |-> NotHandled] /\ UNCHANGED <<copies, life>>
    BY <1>6 DEF Crash, Forgotten, platformVars
  <2>2. \A r \in Request : Asking(r) \in Event
    BY DEF Asking, Event
  <2>3. \A r \in Request : handling'[Asking(r)].phase # "post"
    BY <2>1, <2>2 DEF NotHandled
  <2>4. OneCardPerPlace' /\ \A c \in Card : c.life > life' => copies'[c] = 0
    BY <2>1 DEF PostedOnce, OneCardPerPlace
  <2> QED  BY <2>1, <2>3, <2>4 DEF PostedOnce, Asking
<1> QED  BY <1>1, <1>2, <1>3, <1>4, <1>5, <1>6 DEF Next

\* Unless a channel or an approver is named twice, which approverEmails does when somebody holds
\* two of the roles, a run of the agent posts a card once in a place, however often the broker
\* tries an event.
THEOREM PostedOncePerPlace == ASSUME NamedOnce PROVE Spec => []OneCardPerPlace
<1>1. Init => PostedOnce
  <2> SUFFICES ASSUME Init PROVE PostedOnce
    OBVIOUS
  <2>1. \A r \in Request : Asking(r) \in Event
    BY DEF Asking, Event
  <2>2. \A r \in Request : handling[Asking(r)].phase # "post"
    BY <2>1 DEF Init, NotHandled
  <2>3. \A c \in Card : copies[c] = 0
    BY DEF Init
  <2> QED  BY <2>2, <2>3 DEF PostedOnce, OneCardPerPlace
<1>2. IInv /\ PostedOnce /\ [Next]_vars => PostedOnce'
  BY StepPosts
<1>3. PostedOnce => OneCardPerPlace
  BY DEF PostedOnce
<1> QED  BY <1>1, <1>2, <1>3, Always, PTL DEF Spec
=============================================================================
