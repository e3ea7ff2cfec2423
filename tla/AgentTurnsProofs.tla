--------------------------- MODULE AgentTurnsProofs ---------------------------
(***************************************************************************)
(* Proofs about AgentTurns, for every number of people, threads, questions *)
(* and messages kept: whom a turn's tools act for, that a transcript can   *)
(* always be replayed and loses nothing but its beginning, and that        *)
(* proxies do not outlive their turns.                                     *)
(***************************************************************************)
EXTENDS AgentTurns, TLAPS, SequenceTheorems, NaturalsInduction, WellFoundedInduction

(* Where a transcript is cut. *)

LEMMA LeastOf ==
  ASSUME NEW T \in SUBSET Nat, T # {}
  PROVE  \E i \in T : \A j \in T : i <= j
<1> DEFINE Less == {ss \in Nat \X Nat : ss[1] < ss[2]}
<1>1. IsWellFoundedOn(Less, Nat)  BY NatLessThanWellFounded DEF OpToRel
<1>2. PICK i \in T : \A j \in T : ~ (<<j, i>> \in Less)
  <2> HIDE DEF Less
  <2> QED  BY <1>1, WFMin
<1>3. \A j \in T : ~ (j < i)  BY <1>2
<1> QED  BY <1>3

LEMMA GreatestOf ==
  ASSUME NEW n \in Nat, NEW T \in SUBSET (0..n), T # {}
  PROVE  \E i \in T : \A j \in T : j <= i
<1> DEFINE Down == {n - i : i \in T}
<1>1. Down \in SUBSET Nat /\ Down # {}
  <2>1. \A i \in T : n - i \in Nat  OBVIOUS
  <2> QED  BY <2>1
<1>2. PICK d \in Down : \A e \in Down : d <= e
  <2> HIDE DEF Down
  <2> QED  BY <1>1, LeastOf
<1>3. PICK i \in T : d = n - i  OBVIOUS
<1>4. \A j \in T : d <= n - j  BY <1>2
<1>5. \A j \in T : j <= i  BY <1>3, <1>4
<1> QED  BY <1>5

\* A transcript is cut at one of its beginnings, and not at all when there is room for it.
LEMMA TrimmedCuts ==
  ASSUME NEW s \in Seq(Message)
  PROVE  \E b \in Beginnings(s) : /\ Trimmed(s) = SubSeq(s, b, Len(s))
                                  /\ Len(s) <= MaxTurns => b = 1
<1> DEFINE fits == {i \in Beginnings(s) : Len(s) - i + 1 <= MaxTurns}
           First == CHOOSE i \in fits : \A j \in fits : i <= j
           Last == CHOOSE i \in Beginnings(s) : \A j \in Beginnings(s) : j <= i
<1>1. Len(s) \in Nat  OBVIOUS
<1>2. Beginnings(s) \in SUBSET (0..(Len(s) + 1)) /\ 1 \in Beginnings(s)
  BY <1>1 DEF Beginnings
<1>3. Trimmed(s) = SubSeq(s, IF fits # {} THEN First ELSE Last, Len(s))  BY DEF Trimmed
<1>4. CASE fits # {}
  <2>1. fits \in SUBSET Nat  BY <1>1, <1>2
  <2>2. First \in fits /\ \A j \in fits : First <= j
    <3> HIDE DEF fits
    <3> QED  BY <1>4, <2>1, LeastOf
  <2>3. First \in Beginnings(s)  BY <2>2
  <2>4. Len(s) <= MaxTurns => First = 1
    <3>1. Len(s) <= MaxTurns => 1 \in fits  BY <1>1, <1>2
    <3>2. \A i \in Beginnings(s) : i \in Nat /\ 1 <= i  BY DEF Beginnings
    <3> HIDE DEF fits, First
    <3> QED  BY <2>2, <2>3, <3>1, <3>2
  <2> HIDE DEF fits, First, Last
  <2> QED  BY <1>3, <1>4, <2>3, <2>4
<1>5. CASE fits = {}
  <2>1. Last \in Beginnings(s)
    <3>1. Len(s) + 1 \in Nat  BY <1>1
    <3>2. \E i \in Beginnings(s) : \A j \in Beginnings(s) : j <= i  BY <1>2, <3>1, GreatestOf
    <3> QED  BY <3>2
  <2>2. ~ (Len(s) <= MaxTurns)
    <3>1. Len(s) <= MaxTurns => 1 \in fits  BY <1>1, <1>2
    <3> QED  BY <1>5, <3>1
  <2> HIDE DEF fits, First, Last
  <2> QED  BY <1>3, <1>5, <2>1, <2>2
<1> QED  BY <1>4, <1>5

-----------------------------------------------------------------------------
(* Transcripts and exchanges. *)

\* Replayable, of one transcript.
Replays(s) ==
  /\ s # <<>> => s[1].kind = "ask"
  /\ \A i \in 2..Len(s) : s[i].kind # "ask" =>
       s[i].turn = s[i - 1].turn /\ (s[i].kind = "result" => s[i - 1].kind = "say")

\* What a turn adds: its question first, and then no other.
Exchange(t, f) ==
  /\ f # <<>> /\ f[1].kind = "ask" /\ \A i \in 1..Len(f) : f[i].turn = t
  /\ \A i \in 2..Len(f) : f[i].kind # "ask" /\ (f[i].kind = "result" => f[i - 1].kind = "say")

LEMMA ExchangeBegins ==
  ASSUME NEW t \in Turn
  PROVE  /\ <<[turn |-> t, kind |-> "ask"]>> \in Seq(Message)
         /\ Exchange(t, <<[turn |-> t, kind |-> "ask"]>>)
<1>1. [turn |-> t, kind |-> "ask"] \in Message  BY DEF Message
<1> DEFINE f == <<[turn |-> t, kind |-> "ask"]>>
<1>2. f \in Seq(Message) /\ Len(f) = 1 /\ f[1] = [turn |-> t, kind |-> "ask"]  BY <1>1
<1> HIDE DEF f
<1>3. f # <<>> /\ f[1].kind = "ask" /\ f[1].turn = t  BY <1>2
<1>4. Exchange(t, f)  BY <1>2, <1>3 DEF Exchange
<1> QED  BY <1>2, <1>4 DEF f

\* Claude's words are added to an exchange.
LEMMA ExchangeSays ==
  ASSUME NEW t \in Turn, NEW f \in Seq(Message), Exchange(t, f)
  PROVE  /\ Append(f, [turn |-> t, kind |-> "say"]) \in Seq(Message)
         /\ Exchange(t, Append(f, [turn |-> t, kind |-> "say"]))
<1> DEFINE m == [turn |-> t, kind |-> "say"]
           g == Append(f, m)
<1>1. m \in Message /\ m.turn = t /\ m.kind = "say"  BY DEF Message
<1>2. g \in Seq(Message) /\ Len(g) = Len(f) + 1 /\ Len(f) \in Nat
  <2> HIDE DEF m
  <2> QED  BY <1>1
<1>3. \A i \in 1..Len(f) : g[i] = f[i]
  <2> HIDE DEF m
  <2> QED  BY <1>1
<1>4. g[Len(f) + 1] = m  OBVIOUS
<1>5. 1 <= Len(f)  BY DEF Exchange
<1> HIDE DEF g, m
<1>6. g # <<>> /\ g[1].kind = "ask"  BY <1>2, <1>3, <1>5 DEF Exchange
<1>7. \A i \in 1..Len(g) : g[i].turn = t  BY <1>1, <1>2, <1>3, <1>4 DEF Exchange
<1>8. \A i \in 2..Len(g) : g[i].kind # "ask" /\ (g[i].kind = "result" => g[i - 1].kind = "say")
  <2>1. SUFFICES ASSUME NEW i \in 2..Len(g)
                 PROVE  g[i].kind # "ask" /\ (g[i].kind = "result" => g[i - 1].kind = "say")
    OBVIOUS
  <2>2. CASE i = Len(f) + 1  BY <1>1, <1>4, <2>2
  <2>3. CASE i # Len(f) + 1
    <3>1. i \in 2..Len(f) /\ i - 1 \in 1..Len(f)  BY <1>2, <2>3
    <3> QED  BY <1>3, <3>1 DEF Exchange
  <2> QED  BY <2>2, <2>3
<1> QED  BY <1>2, <1>6, <1>7, <1>8 DEF Exchange, g, m

\* So is a call with its result.
LEMMA ExchangeCalls ==
  ASSUME NEW t \in Turn, NEW f \in Seq(Message), Exchange(t, f)
  PROVE  LET g == f \o <<[turn |-> t, kind |-> "say"], [turn |-> t, kind |-> "result"]>>
         IN g \in Seq(Message) /\ Exchange(t, g)
<1> DEFINE said == [turn |-> t, kind |-> "say"]
           result == [turn |-> t, kind |-> "result"]
           g == f \o <<said, result>>
<1>1. /\ said \in Message /\ said.turn = t /\ said.kind = "say"
      /\ result \in Message /\ result.turn = t /\ result.kind = "result"
  BY DEF Message
<1> HIDE DEF said, result
<1>2. g \in Seq(Message) /\ Len(g) = Len(f) + 2 /\ Len(f) \in Nat  BY <1>1
<1>3. \A i \in 1..Len(f) : g[i] = f[i]  BY <1>1
<1>4. g[Len(f) + 1] = said /\ g[Len(f) + 2] = result  BY <1>1
<1>5. 1 <= Len(f)  BY DEF Exchange
<1> HIDE DEF g
<1>6. g # <<>> /\ g[1].kind = "ask"  BY <1>2, <1>3, <1>5 DEF Exchange
<1>7. \A i \in 1..Len(g) : g[i].turn = t
  <2>1. SUFFICES ASSUME NEW i \in 1..Len(g) PROVE g[i].turn = t  OBVIOUS
  <2>2. i \in 1..Len(f) \/ i = Len(f) + 1 \/ i = Len(f) + 2  BY <1>2
  <2> QED  BY <1>1, <1>3, <1>4, <2>2 DEF Exchange
<1>8. \A i \in 2..Len(g) : g[i].kind # "ask" /\ (g[i].kind = "result" => g[i - 1].kind = "say")
  <2>1. SUFFICES ASSUME NEW i \in 2..Len(g)
                 PROVE  g[i].kind # "ask" /\ (g[i].kind = "result" => g[i - 1].kind = "say")
    OBVIOUS
  <2>2. CASE i = Len(f) + 1  BY <1>1, <1>4, <2>2
  <2>3. CASE i = Len(f) + 2
    <3>1. i - 1 = Len(f) + 1  BY <1>2, <2>3
    <3> QED  BY <1>1, <1>4, <2>3, <3>1
  <2>4. CASE i \in 2..Len(f)
    <3>1. i - 1 \in 1..Len(f) /\ i \in 1..Len(f)  BY <1>2, <2>4
    <3> QED  BY <1>3, <2>4, <3>1 DEF Exchange
  <2> QED  BY <1>2, <2>2, <2>3, <2>4
<1> QED  BY <1>2, <1>6, <1>7, <1>8 DEF Exchange, g, said, result

\* A transcript and an exchange after it.
LEMMA AddedReplays ==
  ASSUME NEW t \in Turn, NEW s \in Seq(Message), Replays(s), NEW f \in Seq(Message), Exchange(t, f)
  PROVE  /\ s \o f \in Seq(Message)
         /\ Replays(s \o f)
         /\ \A i \in Beginnings(s \o f) : i <= Len(s) + 1
<1> DEFINE g == s \o f
<1>1. /\ g \in Seq(Message) /\ Len(g) = Len(s) + Len(f)
      /\ \A i \in 1..Len(s) + Len(f) : g[i] = IF i <= Len(s) THEN s[i] ELSE f[i - Len(s)]
  BY ConcatProperties
<1>2. Len(s) \in Nat /\ Len(f) \in Nat /\ 1 <= Len(f)  BY DEF Exchange
<1> HIDE DEF g
<1>3. \A i \in 1..Len(s) : g[i] = s[i]  BY <1>1, <1>2
<1>4. \A i \in 1..Len(f) : g[Len(s) + i] = f[i]
  <2>1. SUFFICES ASSUME NEW i \in 1..Len(f) PROVE g[Len(s) + i] = f[i]  OBVIOUS
  <2>2. Len(s) + i \in 1..Len(s) + Len(f) /\ ~ (Len(s) + i <= Len(s)) /\ (Len(s) + i) - Len(s) = i  BY <1>2
  <2> QED  BY <1>1, <2>2
<1>5. f[1].kind = "ask"  BY DEF Exchange
<1>6. g # <<>> /\ g[1].kind = "ask"
  <2>1. CASE Len(s) = 0
    <3>1. g[1] = f[1]  BY <1>2, <1>4, <2>1
    <3> QED  BY <1>1, <1>2, <1>5, <3>1
  <2>2. CASE Len(s) # 0
    <3>1. g[1] = s[1] /\ s # <<>>  BY <1>2, <1>3, <2>2
    <3> QED  BY <1>1, <1>2, <3>1 DEF Replays
  <2> QED  BY <2>1, <2>2
<1>7. ASSUME NEW i \in 2..Len(g), g[i].kind # "ask"
      PROVE  g[i].turn = g[i - 1].turn /\ (g[i].kind = "result" => g[i - 1].kind = "say")
  <2>1. CASE i <= Len(s)
    <3>1. i \in 2..Len(s) /\ i \in 1..Len(s) /\ i - 1 \in 1..Len(s)  BY <1>2, <2>1
    <3>2. g[i] = s[i] /\ g[i - 1] = s[i - 1]  BY <1>3, <3>1
    <3> QED  BY <1>7, <3>1, <3>2 DEF Replays
  <2>2. CASE i = Len(s) + 1
    <3>1. g[i] = f[1]  BY <1>2, <1>4, <2>2
    <3> QED  BY <1>5, <1>7, <3>1
  <2>3. CASE i > Len(s) + 1
    <3>1. PICK j \in 2..Len(f) : i = Len(s) + j
      <4>1. i - Len(s) \in 2..Len(f) /\ i = Len(s) + (i - Len(s))  BY <1>1, <1>2, <2>3
      <4> QED  BY <4>1
    <3>2. j \in 1..Len(f) /\ j - 1 \in 1..Len(f) /\ i - 1 = Len(s) + (j - 1)  BY <1>2, <3>1
    <3>3. g[i] = f[j] /\ g[i - 1] = f[j - 1]  BY <1>4, <3>1, <3>2
    <3> QED  BY <3>2, <3>3 DEF Exchange
  <2> QED  BY <1>1, <1>2, <2>1, <2>2, <2>3
<1>8. Replays(g)  BY <1>6, <1>7 DEF Replays
<1>9. ASSUME NEW i \in Beginnings(g) PROVE i <= Len(s) + 1
  <2>1. SUFFICES ASSUME i > Len(s) + 1 PROVE FALSE  BY <1>2, <1>9 DEF Beginnings
  <2>2. i \in 2..Len(g) /\ g[i].kind = "ask"  BY <1>2, <1>9, <2>1 DEF Beginnings
  <2>3. i - Len(s) \in 2..Len(f) /\ i = Len(s) + (i - Len(s))  BY <1>1, <1>2, <2>1, <2>2
  <2>4. i - Len(s) \in 1..Len(f)  BY <1>2, <2>3
  <2>5. g[i] = f[i - Len(s)]  BY <1>4, <2>3, <2>4
  <2> QED  BY <2>2, <2>3, <2>5 DEF Exchange
<1> QED  BY <1>1, <1>8, <1>9 DEF g

\* What is left of a transcript that can be replayed can be replayed.
LEMMA TrimmedReplays ==
  ASSUME NEW s \in Seq(Message), Replays(s)
  PROVE  Trimmed(s) \in Seq(Message) /\ Replays(Trimmed(s))
<1>1. PICK b \in Beginnings(s) : Trimmed(s) = SubSeq(s, b, Len(s))  BY TrimmedCuts
<1> DEFINE g == SubSeq(s, b, Len(s))
<1>2. Len(s) \in Nat /\ b \in Nat /\ 1 <= b /\ (b = 1 \/ (b \in 2..Len(s) /\ s[b].kind = "ask"))
  BY DEF Beginnings
<1>3. \A i \in b..Len(s) : s[i] \in Message  BY <1>2
<1>4. /\ g \in Seq(Message)
      /\ Len(g) = IF b <= Len(s) THEN Len(s) - b + 1 ELSE 0
      /\ \A i \in 1..Len(s) - b + 1 : g[i] = s[b + i - 1]
  <2>1. b \in Int /\ Len(s) \in Int  BY <1>2
  <2> QED  BY <1>3, <2>1, SubSeqProperties
<1> HIDE DEF g
<1>5. ASSUME g # <<>> PROVE g[1].kind = "ask"
  <2>1. Len(g) # 0  BY <1>4, <1>5
  <2>2. 1 \in 1..Len(s) - b + 1 /\ b + 1 - 1 = b /\ 1 <= Len(s)  BY <1>2, <1>4, <2>1
  <2>3. g[1] = s[b]  BY <1>4, <2>2
  <2>4. s # <<>>  BY <2>2
  <2> QED  BY <1>2, <2>3, <2>4 DEF Replays
<1>6. ASSUME NEW i \in 2..Len(g), g[i].kind # "ask"
      PROVE  g[i].turn = g[i - 1].turn /\ (g[i].kind = "result" => g[i - 1].kind = "say")
  <2>1. Len(g) = Len(s) - b + 1  BY <1>2, <1>4, <1>6
  <2>2. i \in 1..Len(s) - b + 1 /\ i - 1 \in 1..Len(s) - b + 1  BY <1>2, <2>1
  <2>3. b + i - 1 \in 2..Len(s) /\ b + (i - 1) - 1 = (b + i - 1) - 1  BY <1>2, <2>1
  <2>4. g[i] = s[b + i - 1] /\ g[i - 1] = s[(b + i - 1) - 1]  BY <1>4, <2>2, <2>3
  <2> QED  BY <1>6, <2>3, <2>4 DEF Replays
<1>7. Replays(g)  BY <1>5, <1>6 DEF Replays
<1> QED  BY <1>1, <1>4, <1>7 DEF g

-----------------------------------------------------------------------------
(* The inductive invariant. *)

\* A turn's record r, when the server's sessions are b and Claude Code's are c.
Sound(t, r, b, c) ==
  /\ r \in TurnState
  /\ r.phase \notin {"none", "done"} => r.who \in Person /\ r.thread \in Thread
  /\ r.phase \notin {"none", "ask", "done"} => r.user \in User
  /\ r.phase \in {"listing", "model"} => r.session \in DOMAIN b /\ b[r.session] = r.user
  /\ r.phase \in {"model", "keep"} => Exchange(t, r.fresh)
  /\ r.id <= Len(c) /\ (r.resume \/ r.phase = "child" => r.id # 0)
  /\ r.end = "unwritten" => r.phase = "done"

TurnsSound == \A t \in Turn : Sound(t, turn[t], bound, claude)

\* The pool's sessions act for the users they are pooled for.
PoolIsTrue == \A k \in Person \X User : pool[k] # 0 => bound[pool[k]] = k[2]

AllReplay == \A k \in Conversation : Replays(transcript[k]) /\ Replays(saved[k])

\* What is kept by the process, but for its turns.
ServerOK ==
  /\ pool \in [Person \X User -> 0..Len(bound)]
  /\ bound \in Seq(User) /\ live \subseteq DOMAIN bound
  /\ PoolIsTrue

KeptOK ==
  /\ transcript \in [Conversation -> Seq(Message)] /\ saved \in [Conversation -> Seq(Message)]
  /\ AllReplay

CodedOK ==
  /\ ids \in [Conversation -> 0..Len(claude)] /\ savedIds \in [Conversation -> 0..Len(claude)]
  /\ claude \in Seq(SUBSET Turn) /\ held \subseteq DOMAIN claude

ProxyOK == proxy \subseteq Turn /\ ProxyPerTurn

PlainOK ==
  /\ up \in BOOLEAN /\ catalogue \in BOOLEAN /\ stale \in BOOLEAN
  /\ backend \in Backend /\ login \in [Person -> User \cup {None}]
  /\ mishaps \in Nat

TurnsOK == turn \in [Turn -> TurnState] /\ TurnsSound

IInv == TurnsOK /\ ServerOK /\ KeptOK /\ CodedOK /\ ProxyOK /\ PlainOK

LEMMA IInvTypes == IInv => TypeOK /\ CallsActForAsker /\ Replayable /\ ProxyPerTurn
<1> SUFFICES ASSUME IInv PROVE TypeOK /\ CallsActForAsker /\ Replayable /\ ProxyPerTurn
  OBVIOUS
<1>1. TypeOK  BY DEF IInv, TurnsOK, ServerOK, KeptOK, CodedOK, ProxyOK, PlainOK, TypeOK
<1>2. CallsActForAsker
  <2>1. SUFFICES ASSUME NEW t \in Turn, turn[t].phase \in {"listing", "model"}
                 PROVE  bound[turn[t].session] = turn[t].user
    BY DEF CallsActForAsker
  <2>2. Sound(t, turn[t], bound, claude)  BY DEF IInv, TurnsOK, TurnsSound
  <2> QED  BY <2>1, <2>2 DEF Sound
<1>3. Replayable  BY DEF IInv, KeptOK, AllReplay, Replayable, Replays
<1> QED  BY <1>1, <1>2, <1>3 DEF IInv, ProxyOK

-----------------------------------------------------------------------------
(* The records of turns. *)

LEMMA NoTurnIs ==
  /\ NoTurn \in TurnState
  /\ NoTurn.phase = "none" /\ NoTurn.end = "none" /\ NoTurn.id = 0 /\ NoTurn.resume = FALSE
<1>1. <<>> \in Seq(Message)  OBVIOUS
<1> QED  BY <1>1 DEF NoTurn, TurnState, Phase

LEMMA OverIs ==
  ASSUME NEW t \in Turn, turn[t] \in TurnState
  PROVE  /\ Over(t) \in TurnState
         /\ Over(t).phase = "done" /\ Over(t).end = "none" /\ Over(t).id = 0 /\ Over(t).resume = FALSE
<1>1. turn[t].who \in Person \cup {None} /\ turn[t].thread \in Thread \cup {None}  BY DEF TurnState
<1>2. Over(t).phase = "done" /\ Over(t).end = "none" /\ Over(t).id = 0 /\ Over(t).resume = FALSE
  BY DEF Over, NoTurn
<1>3. <<>> \in Seq(Message)  OBVIOUS
<1>4. Over(t) \in TurnState  BY <1>1, <1>3 DEF Over, NoTurn, TurnState, Phase
<1> QED  BY <1>2, <1>4

\* A turn that is over asks for nothing.
LEMMA OverSound ==
  ASSUME NEW t \in Turn, turn[t] \in TurnState, NEW b, NEW c \in Seq(SUBSET Turn)
  PROVE  Sound(t, Over(t), b, c)
<1>1. 0 <= Len(c)  OBVIOUS
<1> QED  BY <1>1, OverIs DEF Sound

LEMMA SoundType ==
  ASSUME NEW t, NEW r, NEW b, NEW c, Sound(t, r, b, c)
  PROVE  r \in TurnState
  BY DEF Sound

\* New sessions of either server leave the turns that are there sound.
LEMMA SoundGrows ==
  ASSUME NEW t, NEW r, NEW b, NEW c, NEW b2, NEW c2 \in Seq(SUBSET Turn), c \in Seq(SUBSET Turn),
         Sound(t, r, b, c), DOMAIN b \subseteq DOMAIN b2, \A i \in DOMAIN b : b2[i] = b[i], Len(c) <= Len(c2)
  PROVE  Sound(t, r, b2, c2)
<1>1. r.id \in Nat  BY DEF Sound, TurnState
<1>2. r.id <= Len(c2)
  <2>1. r.id <= Len(c) /\ Len(c) \in Nat /\ Len(c2) \in Nat  BY DEF Sound
  <2> QED  BY <1>1, <2>1
<1> QED  BY <1>2 DEF Sound

\* One turn moves on to r, which is sound; the others stay.
LEMMA OneMoves ==
  ASSUME IInv, NEW t \in Turn, NEW r, To(t, r), Sound(t, r, bound', claude'),
         \A o \in Turn \ {t} : Sound(o, turn[o], bound', claude')
  PROVE  TurnsOK'
<1>1. turn \in [Turn -> TurnState]  BY DEF IInv, TurnsOK
<1>2. r \in TurnState  BY SoundType
<1>3. turn' \in [Turn -> TurnState] /\ turn'[t] = r /\ \A o \in Turn \ {t} : turn'[o] = turn[o]
  BY <1>1, <1>2 DEF To
<1>4. \A o \in Turn : Sound(o, turn'[o], bound', claude')
  <2>1. SUFFICES ASSUME NEW o \in Turn PROVE Sound(o, turn'[o], bound', claude')  OBVIOUS
  <2> QED  BY <1>3
<1> QED  BY <1>3, <1>4 DEF TurnsOK, TurnsSound

\* The same when no session is begun.
LEMMA OneMovesAlone ==
  ASSUME IInv, NEW t \in Turn, NEW r, To(t, r), Sound(t, r, bound, claude), UNCHANGED <<bound, claude>>
  PROVE  TurnsOK'
<1>1. \A o \in Turn : Sound(o, turn[o], bound, claude)  BY DEF IInv, TurnsOK, TurnsSound
<1> QED  BY <1>1, OneMoves

LEMMA NoneMoves ==
  ASSUME IInv, UNCHANGED <<turn, bound, claude>>
  PROVE  TurnsOK'
  BY DEF IInv, TurnsOK, TurnsSound

LEMMA Facts ==
  ASSUME IInv, NEW t \in Turn
  PROVE  /\ turn \in [Turn -> TurnState] /\ turn[t] \in TurnState /\ Sound(t, turn[t], bound, claude)
         /\ bound \in Seq(User) /\ claude \in Seq(SUBSET Turn)
<1>1. turn \in [Turn -> TurnState] /\ Sound(t, turn[t], bound, claude)  BY DEF IInv, TurnsOK, TurnsSound
<1>2. bound \in Seq(User) /\ claude \in Seq(SUBSET Turn)  BY DEF IInv, ServerOK, CodedOK
<1> QED  BY <1>1, <1>2

LEMMA Keys ==
  ASSUME IInv, NEW t \in Turn
  PROVE  /\ turn[t].phase \notin {"none", "done"} => Key(t) \in Conversation
         /\ turn[t].phase \notin {"none", "ask", "done"} => PoolKey(t) \in Person \X User /\ PoolKey(t)[2] = turn[t].user
<1>1. Sound(t, turn[t], bound, claude)  BY Facts
<1> QED  BY <1>1 DEF Sound, Key, PoolKey, Conversation

LEMMA OverMoves ==
  ASSUME IInv, NEW t \in Turn, To(t, Over(t)), UNCHANGED <<bound, claude>>
  PROVE  TurnsOK'
  BY Facts, OverSound, OneMovesAlone

\* A turn that has its session is sound.
LEMMA EquippedSound ==
  ASSUME IInv, NEW t \in Turn, turn[t].phase \notin {"none", "ask", "done"}, turn[t].end # "unwritten",
         NEW s \in Nat, NEW b, s \in DOMAIN b, b[s] = turn[t].user
  PROVE  Sound(t, Equipped(t, s), b, claude)
<1> DEFINE r == turn[t]
           q == Equipped(t, s)
           ask == <<[turn |-> t, kind |-> "ask"]>>
<1>1. r \in TurnState /\ Sound(t, r, bound, claude)  BY Facts
<1>2. transcript[Key(t)] \in Seq(Message)  BY Keys DEF IInv, KeptOK
<1>3. ask \in Seq(Message) /\ Exchange(t, ask)  BY ExchangeBegins
<1>4. <<>> \in Seq(Message)  OBVIOUS
<1> HIDE DEF ask
<1>5. /\ q.session = s /\ q.phase \in {"model", "listing"} /\ q.who = r.who /\ q.thread = r.thread
      /\ q.user = r.user /\ q.id = r.id /\ q.resume = r.resume /\ q.end = r.end
      /\ q.phase = "model" => q.fresh = ask
  BY <1>1 DEF Equipped, TurnState, ask
<1>6. q \in TurnState
  <2>1. q = [r EXCEPT !.session = s, !.phase = IF catalogue THEN "model" ELSE "listing",
                  !.history = IF catalogue THEN transcript[Key(t)] ELSE <<>>,
                  !.fresh = IF catalogue THEN ask ELSE <<>>]
    BY DEF Equipped, ask
  <2>2. (IF catalogue THEN transcript[Key(t)] ELSE <<>>) \in Seq(Message) /\ (IF catalogue THEN ask ELSE <<>>) \in Seq(Message)
    BY <1>2, <1>3, <1>4
  <2> HIDE DEF q, r
  <2> QED  BY <1>1, <2>1, <2>2 DEF TurnState, Phase
<1> HIDE DEF q
<1> QED  BY <1>1, <1>3, <1>5, <1>6 DEF Sound, q

-----------------------------------------------------------------------------
(* What each action does to the turns. *)

LEMMA AsksTurns == ASSUME IInv, NEW t \in Turn, NEW p \in Person, NEW th \in Thread, Asks(t, p, th) PROVE TurnsOK'
<1> DEFINE r == [NoTurn EXCEPT !.phase = "ask", !.who = p, !.thread = th]
<1>1. To(t, r) /\ UNCHANGED <<bound, claude>>  BY DEF Asks, pooled, server, coded
<1>2. <<>> \in Seq(Message)  OBVIOUS
<1>3. r \in TurnState  BY <1>2 DEF NoTurn, TurnState, Phase
<1>4. /\ r.phase = "ask" /\ r.who = p /\ r.thread = th /\ r.id = 0 /\ r.resume = FALSE /\ r.end = "none"
  BY DEF NoTurn
<1> HIDE DEF r
<1>5. 0 <= Len(claude)  BY Facts
<1>6. Sound(t, r, bound, claude)  BY <1>3, <1>4, <1>5 DEF Sound
<1> QED  BY <1>1, <1>6, OneMovesAlone

LEMMA IdentifyTurns == ASSUME IInv, NEW t \in Turn, Identify(t) PROVE TurnsOK'
<1>1. UNCHANGED <<bound, claude>> /\ turn[t].phase = "ask"  BY DEF Identify, pooled, server, coded
<1>2. CASE To(t, Over(t))  BY <1>1, <1>2, OverMoves
<1>3. CASE login[turn[t].who] # None /\ To(t, [turn[t] EXCEPT !.phase = "open", !.user = login[turn[t].who]])
  <2> DEFINE r == [turn[t] EXCEPT !.phase = "open", !.user = login[turn[t].who]]
  <2>1. turn[t] \in TurnState /\ Sound(t, turn[t], bound, claude)  BY Facts
  <2>2. login[turn[t].who] \in User
    <3>1. turn[t].who \in Person  BY <1>1, <2>1 DEF Sound
    <3>2. login[turn[t].who] \in User \cup {None}  BY <3>1 DEF IInv, PlainOK
    <3> QED  BY <1>3, <3>2
  <2>3. r \in TurnState  BY <2>1, <2>2 DEF TurnState, Phase
  <2>4. /\ r.phase = "open" /\ r.user = login[turn[t].who] /\ r.who = turn[t].who /\ r.thread = turn[t].thread
        /\ r.id = turn[t].id /\ r.resume = turn[t].resume /\ r.end = turn[t].end
    BY <2>1 DEF TurnState
  <2> HIDE DEF r
  <2>5. Sound(t, r, bound, claude)  BY <1>1, <2>1, <2>2, <2>3, <2>4 DEF Sound
  <2> QED  BY <1>1, <1>3, <2>5, OneMovesAlone DEF r
<1> QED  BY <1>2, <1>3 DEF Identify

LEMMA OpenTurns == ASSUME IInv, NEW t \in Turn, Open(t) PROVE TurnsOK'
<1> DEFINE s == pool[PoolKey(t)]
<1>1. UNCHANGED <<bound, claude>> /\ turn[t].phase = "open"  BY DEF Open, pooled, server, coded
<1>2. turn[t] \in TurnState /\ Sound(t, turn[t], bound, claude)  BY Facts
<1>3. turn[t].end # "unwritten"  BY <1>1, <1>2 DEF Sound
<1>4. CASE s # 0 /\ To(t, Equipped(t, s))
  <2>1. PoolKey(t) \in Person \X User /\ PoolKey(t)[2] = turn[t].user  BY <1>1, Keys
  <2>2. s \in 0..Len(bound) /\ bound \in Seq(User)  BY <2>1 DEF IInv, ServerOK
  <2>3. s \in Nat /\ s \in DOMAIN bound  BY <1>4, <2>2
  <2>4. bound[s] = turn[t].user  BY <1>4, <2>1 DEF IInv, ServerOK, PoolIsTrue
  <2> HIDE DEF s
  <2>5. Sound(t, Equipped(t, s), bound, claude)  BY <1>1, <1>3, <2>3, <2>4, EquippedSound
  <2> QED  BY <1>1, <1>4, <2>5, OneMovesAlone
<1>5. CASE s = 0 /\ To(t, [turn[t] EXCEPT !.phase = "connecting"])
  <2> DEFINE r == [turn[t] EXCEPT !.phase = "connecting"]
  <2>1. r \in TurnState /\ Sound(t, r, bound, claude)  BY <1>1, <1>2 DEF Sound, TurnState, Phase
  <2> QED  BY <1>1, <1>5, <2>1, OneMovesAlone
<1> QED  BY <1>4, <1>5 DEF Open

LEMMA ConnectTurns == ASSUME IInv, NEW t \in Turn, Connect(t) PROVE TurnsOK'
<1>1. UNCHANGED claude /\ turn[t].phase = "connecting"  BY DEF Connect, coded
<1>2. turn[t] \in TurnState /\ Sound(t, turn[t], bound, claude) /\ bound \in Seq(User)  BY Facts
<1>3. CASE To(t, Over(t)) /\ UNCHANGED server  BY <1>1, <1>3, OverMoves DEF server
<1>4. CASE bound' = Append(bound, turn[t].user) /\ To(t, Equipped(t, Len(bound')))
  <2>1. turn[t].user \in User /\ turn[t].end # "unwritten"  BY <1>1, <1>2 DEF Sound
  <2>2. /\ bound' \in Seq(User) /\ Len(bound') = Len(bound) + 1 /\ Len(bound') \in Nat
        /\ Len(bound') \in DOMAIN bound' /\ bound'[Len(bound')] = turn[t].user
        /\ DOMAIN bound \subseteq DOMAIN bound' /\ \A i \in DOMAIN bound : bound'[i] = bound[i]
    BY <1>2, <1>4, <2>1
  <2>3. Sound(t, Equipped(t, Len(bound')), bound', claude)  BY <1>1, <2>1, <2>2, EquippedSound
  <2>4. ASSUME NEW o \in Turn PROVE Sound(o, turn[o], bound', claude)
    <3>1. Sound(o, turn[o], bound, claude) /\ claude \in Seq(SUBSET Turn)  BY Facts
    <3>2. Len(claude) <= Len(claude)  BY <3>1
    <3> QED  BY <2>2, <3>1, <3>2, SoundGrows
  <2> QED  BY <1>1, <1>4, <2>3, <2>4, OneMoves
<1> QED  BY <1>3, <1>4 DEF Connect

LEMMA ListToolsTurns == ASSUME IInv, NEW t \in Turn, ListTools(t) PROVE TurnsOK'
<1> DEFINE ask == <<[turn |-> t, kind |-> "ask"]>>
           r == [turn[t] EXCEPT !.phase = "model", !.history = transcript[Key(t)], !.fresh = ask]
<1>1. UNCHANGED <<bound, claude>> /\ turn[t].phase = "listing"  BY DEF ListTools, server, coded
<1>2. turn[t] \in TurnState /\ Sound(t, turn[t], bound, claude)  BY Facts
<1>3. CASE To(t, Over(t))  BY <1>1, <1>3, OverMoves
<1>4. CASE To(t, r)
  <2>1. transcript[Key(t)] \in Seq(Message)  BY <1>1, Keys DEF IInv, KeptOK
  <2>2. ask \in Seq(Message) /\ Exchange(t, ask)  BY ExchangeBegins
  <2> HIDE DEF ask
  <2>3. r \in TurnState  BY <1>2, <2>1, <2>2 DEF TurnState, Phase
  <2>4. /\ r.phase = "model" /\ r.user = turn[t].user /\ r.who = turn[t].who /\ r.thread = turn[t].thread
        /\ r.id = turn[t].id /\ r.resume = turn[t].resume /\ r.end = turn[t].end
        /\ r.session = turn[t].session /\ r.fresh = ask
    BY <1>2 DEF TurnState
  <2> HIDE DEF r
  <2>5. Sound(t, r, bound, claude)  BY <1>1, <1>2, <2>2, <2>3, <2>4 DEF Sound
  <2> QED  BY <1>1, <1>4, <2>5, OneMovesAlone
<1> QED  BY <1>3, <1>4 DEF ListTools

\* A turn that goes on with the model, or to the keeping, with a longer exchange.
LEMMA RoundMoves ==
  ASSUME IInv, NEW t \in Turn, turn[t].phase = "model", UNCHANGED <<bound, claude>>,
         NEW ph \in {"model", "keep"}, NEW f \in Seq(Message), Exchange(t, f),
         To(t, [turn[t] EXCEPT !.phase = ph, !.fresh = f])
  PROVE  TurnsOK'
<1> DEFINE r == [turn[t] EXCEPT !.phase = ph, !.fresh = f]
<1>1. turn[t] \in TurnState /\ Sound(t, turn[t], bound, claude)  BY Facts
<1>2. r \in TurnState  BY <1>1 DEF TurnState, Phase
<1>3. /\ r.phase = ph /\ r.user = turn[t].user /\ r.who = turn[t].who /\ r.thread = turn[t].thread
      /\ r.id = turn[t].id /\ r.resume = turn[t].resume /\ r.end = turn[t].end
      /\ r.session = turn[t].session /\ r.fresh = f
  BY <1>1 DEF TurnState
<1> HIDE DEF r
<1>4. Sound(t, r, bound, claude)  BY <1>1, <1>2, <1>3 DEF Sound
<1> QED  BY <1>4, OneMovesAlone DEF r

LEMMA RoundTurns == ASSUME IInv, NEW t \in Turn, Round(t) PROVE TurnsOK'
<1> DEFINE said == [turn |-> t, kind |-> "say"]
           result == [turn |-> t, kind |-> "result"]
           fresh == turn[t].fresh
<1>1. UNCHANGED <<bound, claude>> /\ turn[t].phase = "model"  BY DEF Round, pooled, server, coded
<1>2. turn[t] \in TurnState /\ Sound(t, turn[t], bound, claude)  BY Facts
<1>3. fresh \in Seq(Message) /\ Exchange(t, fresh)  BY <1>1, <1>2 DEF Sound, TurnState
<1>4. CASE To(t, Over(t))  BY <1>1, <1>4, OverMoves
<1>5. CASE To(t, [turn[t] EXCEPT !.fresh = fresh \o <<said, result>>])
  <2> DEFINE f == fresh \o <<said, result>>
  <2>1. f \in Seq(Message) /\ Exchange(t, f)  BY <1>3, ExchangeCalls
  <2> HIDE DEF f
  <2>2. [turn[t] EXCEPT !.fresh = f] = [turn[t] EXCEPT !.phase = "model", !.fresh = f]
    BY <1>1, <1>2 DEF TurnState
  <2> QED  BY <1>1, <1>5, <2>1, <2>2, RoundMoves DEF f
<1>6. CASE To(t, [turn[t] EXCEPT !.phase = "keep",
                    !.fresh = IF Len(fresh) < 2 * MaxRounds THEN Append(fresh, said) ELSE fresh])
  <2> DEFINE f == IF Len(fresh) < 2 * MaxRounds THEN Append(fresh, said) ELSE fresh
  <2>1. f \in Seq(Message) /\ Exchange(t, f)  BY <1>3, ExchangeSays
  <2> HIDE DEF f
  <2> QED  BY <1>1, <1>6, <2>1, RoundMoves DEF f
<1>7. CASE To(t, [turn[t] EXCEPT !.phase = "keep"])
  <2>1. [turn[t] EXCEPT !.phase = "keep"] = [turn[t] EXCEPT !.phase = "keep", !.fresh = fresh]
    BY <1>2 DEF TurnState
  <2> QED  BY <1>1, <1>3, <1>7, <2>1, RoundMoves
<1> QED  BY <1>4, <1>5, <1>6, <1>7 DEF Round

LEMMA KeepTurns == ASSUME IInv, NEW t \in Turn, Keep(t) PROVE TurnsOK'
  BY OverMoves DEF Keep, pooled, server, coded

-----------------------------------------------------------------------------
\* A turn sets out for a child, with session i to resume if h.
LEMMA SetsOut ==
  ASSUME NEW t, NEW r \in TurnState, NEW b, NEW c, Sound(t, r, b, c), r.phase \notin {"none", "ask", "done"},
         NEW i \in Nat, NEW h \in BOOLEAN, i <= Len(c), h => i # 0
  PROVE  Sound(t, [r EXCEPT !.phase = "starting", !.id = i, !.resume = h], b, c)
<1> DEFINE q == [r EXCEPT !.phase = "starting", !.id = i, !.resume = h]
<1>1. q \in TurnState  BY DEF TurnState, Phase
<1>2. /\ q.phase = "starting" /\ q.user = r.user /\ q.who = r.who /\ q.thread = r.thread
      /\ q.id = i /\ q.end = r.end
  BY DEF TurnState
<1>3. q.resume = h  BY DEF TurnState
<1> HIDE DEF q
<1>4. q.resume \/ q.phase = "child" => q.id # 0  BY <1>2, <1>3
<1> QED  BY <1>1, <1>2, <1>4 DEF Sound, q

LEMMA ResumeTurns == ASSUME IInv, NEW t \in Turn, Resume(t) PROVE TurnsOK'
<1> DEFINE i == ids[Key(t)]
           h == i # 0
<1>1. UNCHANGED <<bound, claude>> /\ turn[t].phase = "open"  BY DEF Resume, pooled, server, coded
<1>2. turn[t] \in TurnState /\ Sound(t, turn[t], bound, claude)  BY Facts
<1>3. i \in 0..Len(claude) /\ Len(claude) \in Nat
  <2>1. Key(t) \in Conversation  BY <1>1, Keys
  <2> QED  BY <2>1 DEF IInv, CodedOK
<1>4. To(t, [turn[t] EXCEPT !.phase = "starting", !.id = i, !.resume = h])  BY DEF Resume
<1>5. i \in Nat /\ i <= Len(claude) /\ (h => i # 0) /\ h \in BOOLEAN  BY <1>3
<1> HIDE DEF h, i
<1>6. Sound(t, [turn[t] EXCEPT !.phase = "starting", !.id = i, !.resume = h], bound, claude)
  BY <1>1, <1>2, <1>5, SetsOut
<1> QED  BY <1>1, <1>4, <1>6, OneMovesAlone

LEMMA StartChildTurns == ASSUME IInv, NEW t \in Turn, StartChild(t) PROVE TurnsOK'
<1>1. UNCHANGED bound /\ turn[t].phase = "starting"  BY DEF StartChild, pooled, server
<1>2. turn[t] \in TurnState /\ Sound(t, turn[t], bound, claude) /\ claude \in Seq(SUBSET Turn)  BY Facts
<1>3. CASE To(t, Over(t)) /\ UNCHANGED claude  BY <1>1, <1>3, OverMoves
<1>4. CASE To(t, [Over(t) EXCEPT !.end = "unwritten"]) /\ UNCHANGED claude
  <2> DEFINE r == [Over(t) EXCEPT !.end = "unwritten"]
  <2>1. /\ Over(t) \in TurnState /\ Over(t).phase = "done" /\ Over(t).id = 0 /\ Over(t).resume = FALSE
    BY <1>2, OverIs
  <2>2. r \in TurnState /\ r.phase = "done" /\ r.id = 0 /\ r.resume = FALSE
    <3> HIDE DEF Over
    <3> QED  BY <2>1 DEF TurnState
  <2>3. 0 <= Len(claude)  BY <1>2
  <2> HIDE DEF r
  <2>4. Sound(t, r, bound, claude)  BY <2>2, <2>3 DEF Sound
  <2> QED  BY <1>1, <1>4, <2>4, OneMovesAlone DEF r
<1>5. CASE /\ claude' = IF turn[t].resume THEN claude ELSE Append(claude, {})
           /\ To(t, [turn[t] EXCEPT !.phase = "child", !.id = IF turn[t].resume THEN @ ELSE Len(claude')])
  <2> DEFINE i == IF turn[t].resume THEN turn[t].id ELSE Len(claude')
             r == [turn[t] EXCEPT !.phase = "child", !.id = i]
  <2>1. claude' \in Seq(SUBSET Turn) /\ Len(claude) <= Len(claude') /\ Len(claude') \in Nat
    BY <1>2, <1>5
  <2>2. i \in Nat /\ i # 0 /\ i <= Len(claude')
    <3>1. CASE turn[t].resume
      <4>1. turn[t].id \in Nat /\ turn[t].id # 0 /\ turn[t].id <= Len(claude) /\ Len(claude) \in Nat
        BY <1>2, <3>1 DEF Sound, TurnState
      <4> QED  BY <2>1, <3>1, <4>1
    <3>2. CASE ~ turn[t].resume
      <4>1. Len(claude') = Len(claude) + 1 /\ Len(claude) \in Nat  BY <1>2, <1>5, <3>2
      <4> QED  BY <3>2, <4>1
    <3> QED  BY <3>1, <3>2
  <2>3. To(t, r)  BY <1>5
  <2> HIDE DEF i
  <2>4. r \in TurnState  BY <1>2, <2>2 DEF TurnState, Phase
  <2>5. /\ r.phase = "child" /\ r.user = turn[t].user /\ r.who = turn[t].who /\ r.thread = turn[t].thread
        /\ r.id = i /\ r.end = turn[t].end
    BY <1>2 DEF TurnState
  <2> HIDE DEF r
  <2>6. Sound(t, r, bound, claude')  BY <1>1, <1>2, <2>2, <2>4, <2>5 DEF Sound
  <2>7. ASSUME NEW o \in Turn PROVE Sound(o, turn[o], bound, claude')
    <3>1. Sound(o, turn[o], bound, claude)  BY Facts
    <3> QED  BY <1>2, <2>1, <3>1, SoundGrows
  <2> QED  BY <1>1, <2>3, <2>6, <2>7, OneMoves
<1> QED  BY <1>3, <1>4, <1>5 DEF StartChild

\* A turn whose child runs or has run only goes to another such phase, and its end is told.
LEMMA ChildMoves ==
  ASSUME IInv, NEW t \in Turn, turn[t].phase \in {"child", "hung"}, UNCHANGED bound,
         claude' \in Seq(SUBSET Turn), Len(claude') = Len(claude),
         NEW ph \in {"hung", "closing"}, NEW e \in {"none", "ok", "failed", "auth", "gone"},
         To(t, [turn[t] EXCEPT !.phase = ph, !.end = e])
  PROVE  TurnsOK'
<1> DEFINE r == [turn[t] EXCEPT !.phase = ph, !.end = e]
<1>1. turn[t] \in TurnState /\ Sound(t, turn[t], bound, claude) /\ claude \in Seq(SUBSET Turn)  BY Facts
<1>2. r \in TurnState  BY <1>1 DEF TurnState, Phase
<1>3. /\ r.phase = ph /\ r.user = turn[t].user /\ r.who = turn[t].who /\ r.thread = turn[t].thread
      /\ r.id = turn[t].id /\ r.resume = turn[t].resume /\ r.end = e
  BY <1>1 DEF TurnState
<1> HIDE DEF r
<1>4. Sound(t, r, bound, claude')  BY <1>1, <1>2, <1>3 DEF Sound
<1>5. ASSUME NEW o \in Turn PROVE Sound(o, turn[o], bound, claude')
  <2>1. Sound(o, turn[o], bound, claude)  BY Facts
  <2>2. Len(claude) <= Len(claude')  BY <1>1
  <2> QED  BY <1>1, <2>1, <2>2, SoundGrows
<1> QED  BY <1>4, <1>5, OneMoves DEF r

\* What the child heard is added to its session.
LEMMA Heard ==
  ASSUME IInv, NEW t \in Turn, turn[t].phase = "child"
  PROVE  LET c == [claude EXCEPT ![turn[t].id] = @ \cup {t}]
         IN c \in Seq(SUBSET Turn) /\ Len(c) = Len(claude) /\ DOMAIN c = DOMAIN claude /\ turn[t].id \in DOMAIN claude
<1>1. turn[t] \in TurnState /\ Sound(t, turn[t], bound, claude) /\ claude \in Seq(SUBSET Turn)  BY Facts
<1>2. turn[t].id \in 1..Len(claude)  BY <1>1 DEF Sound, TurnState
<1>3. claude[turn[t].id] \cup {t} \in SUBSET Turn  BY <1>1, <1>2
<1> QED  BY <1>1, <1>2, <1>3

LEMMA ChildEndsTurns == ASSUME IInv, NEW t \in Turn, ChildEnds(t) PROVE TurnsOK'
<1>1. UNCHANGED bound /\ turn[t].phase = "child"  BY DEF ChildEnds, pooled, server
<1>2. claude' \in Seq(SUBSET Turn) /\ Len(claude') = Len(claude)
  <2>1. claude' = claude \/ claude' = [claude EXCEPT ![turn[t].id] = @ \cup {t}]  BY DEF ChildEnds
  <2> QED  BY <2>1, Heard, <1>1, Facts
<1>3. \E e \in {"ok", "gone", "failed", "auth"} : To(t, [turn[t] EXCEPT !.phase = "closing", !.end = e])
  BY DEF ChildEnds, Ends
<1> QED  BY <1>1, <1>2, <1>3, ChildMoves

LEMMA ChildHangsTurns == ASSUME IInv, NEW t \in Turn, ChildHangs(t) PROVE TurnsOK'
<1>1. UNCHANGED <<bound, claude>> /\ turn[t].phase = "child"  BY DEF ChildHangs, pooled, server, coded
<1>2. turn[t] \in TurnState /\ Sound(t, turn[t], bound, claude) /\ claude \in Seq(SUBSET Turn)  BY Facts
<1>3. turn[t].end \in {"none", "ok", "failed", "auth", "gone"}  BY <1>1, <1>2 DEF Sound, TurnState
<1>4. [turn[t] EXCEPT !.phase = "hung"] = [turn[t] EXCEPT !.phase = "hung", !.end = turn[t].end]
  BY <1>2 DEF TurnState
<1>5. To(t, [turn[t] EXCEPT !.phase = "hung", !.end = turn[t].end])  BY <1>4 DEF ChildHangs
<1> QED  BY <1>1, <1>2, <1>3, <1>5, ChildMoves

LEMMA TimeoutTurns == ASSUME IInv, NEW t \in Turn, Timeout(t) PROVE TurnsOK'
<1>1. UNCHANGED <<bound, claude>> /\ turn[t].phase = "hung"  BY DEF Timeout, pooled, server, coded
<1>2. To(t, [turn[t] EXCEPT !.phase = "closing", !.end = "failed"])  BY DEF Timeout, Killed
<1>3. claude \in Seq(SUBSET Turn)  BY Facts
<1> QED  BY <1>1, <1>2, <1>3, ChildMoves

LEMMA CloseTurns == ASSUME IInv, NEW t \in Turn, Close(t) PROVE TurnsOK'
<1>1. UNCHANGED <<bound, claude>> /\ turn[t].phase = "closing"  BY DEF Close, pooled, server
<1>2. turn[t] \in TurnState /\ Sound(t, turn[t], bound, claude) /\ claude \in Seq(SUBSET Turn)  BY Facts
<1>3. CASE To(t, Over(t))  BY <1>1, <1>3, OverMoves
<1>4. CASE To(t, [turn[t] EXCEPT !.phase = "starting", !.id = 0, !.resume = FALSE, !.end = "none"])
  <2> DEFINE r == [turn[t] EXCEPT !.phase = "starting", !.id = 0, !.resume = FALSE, !.end = "none"]
  <2>1. r \in TurnState  BY <1>2 DEF TurnState, Phase
  <2>2. /\ r.phase = "starting" /\ r.user = turn[t].user /\ r.who = turn[t].who /\ r.thread = turn[t].thread
        /\ r.id = 0 /\ r.resume = FALSE /\ r.end = "none"
    BY <1>2 DEF TurnState
  <2>3. 0 <= Len(claude)  BY <1>2
  <2> HIDE DEF r
  <2>4. Sound(t, r, bound, claude)  BY <1>1, <1>2, <2>1, <2>2, <2>3 DEF Sound
  <2> QED  BY <1>1, <1>4, <2>4, OneMovesAlone DEF r
<1> QED  BY <1>3, <1>4 DEF Close

LEMMA QuitTurns == ASSUME IInv, Quit PROVE TurnsOK'
<1>1. turn' = [t \in Turn |-> IF turn[t].phase = "none" THEN turn[t] ELSE Over(t)]  BY DEF Quit
<1>2. UNCHANGED <<bound, claude>>  BY DEF Quit
<1>3. ASSUME NEW t \in Turn PROVE turn'[t] \in TurnState /\ Sound(t, turn'[t], bound, claude)
  <2>1. turn[t] \in TurnState /\ Sound(t, turn[t], bound, claude) /\ claude \in Seq(SUBSET Turn)  BY Facts
  <2>2. Sound(t, Over(t), bound, claude) /\ Over(t) \in TurnState  BY <2>1, OverSound, OverIs
  <2>3. turn'[t] = turn[t] \/ turn'[t] = Over(t)  BY <1>1
  <2> QED  BY <2>1, <2>2, <2>3
<1> QED  BY <1>1, <1>2, <1>3 DEF TurnsOK, TurnsSound

\* The actions of no turn.
Elsewhere ==
  \/ \E k \in Person \X User : Evict(k)
  \/ \E p \in Person, u \in User \cup {None} : Relink(p, u)
  \/ \E s \in live : SessionEnds(s)
  \/ Probe \/ Restart

LEMMA ElsewhereTurns == ASSUME IInv, Elsewhere PROVE TurnsOK'
<1>1. UNCHANGED <<turn, bound, claude>>
  BY DEF Elsewhere, Evict, Relink, SessionEnds, Probe, Restart, pooled, server, coded
<1> QED  BY <1>1, NoneMoves

-----------------------------------------------------------------------------
(* What the actions do to the sessions, transcripts, ids and proxies. *)

LEMMA ConnectServer == ASSUME IInv, NEW t \in Turn, Connect(t) PROVE ServerOK'
<1>1. turn[t].phase = "connecting"  BY DEF Connect
<1>2. PoolKey(t) \in Person \X User /\ PoolKey(t)[2] = turn[t].user /\ turn[t].user \in User
  BY <1>1, Keys, Facts DEF Sound
<1>3. pool \in [Person \X User -> 0..Len(bound)] /\ bound \in Seq(User) /\ live \subseteq DOMAIN bound /\ PoolIsTrue
  BY DEF IInv, ServerOK
<1>4. CASE UNCHANGED <<pool, server>>  BY <1>3, <1>4 DEF ServerOK, PoolIsTrue, server
<1>5. CASE /\ bound' = Append(bound, turn[t].user) /\ live' = live \cup {Len(bound')}
           /\ pool' = [pool EXCEPT ![PoolKey(t)] = Len(bound')]
  <2>1. /\ bound' \in Seq(User) /\ Len(bound') = Len(bound) + 1 /\ Len(bound) \in Nat
        /\ Len(bound') \in DOMAIN bound' /\ bound'[Len(bound')] = turn[t].user
        /\ DOMAIN bound \subseteq DOMAIN bound' /\ \A i \in 1..Len(bound) : bound'[i] = bound[i]
    BY <1>2, <1>3, <1>5
  <2>2. live' \subseteq DOMAIN bound'  BY <1>3, <1>5, <2>1
  <2>3. pool' \in [Person \X User -> 0..Len(bound')]
    <3>1. pool \in [Person \X User -> 0..Len(bound')] /\ Len(bound') \in 0..Len(bound')  BY <1>3, <2>1
    <3> QED  BY <1>5, <3>1
  <2>4. ASSUME NEW k \in Person \X User, pool'[k] # 0 PROVE bound'[pool'[k]] = k[2]
    <3>1. CASE k = PoolKey(t)  BY <1>2, <1>3, <1>5, <2>1, <3>1
    <3>2. CASE k # PoolKey(t)
      <4>1. pool'[k] = pool[k]  BY <1>3, <1>5, <3>2
      <4>2. pool[k] \in 1..Len(bound)  BY <1>3, <2>1, <2>4, <4>1
      <4>3. bound[pool[k]] = k[2]  BY <1>3, <2>4, <4>1 DEF PoolIsTrue
      <4> QED  BY <2>1, <4>1, <4>2, <4>3
    <3> QED  BY <3>1, <3>2
  <2> QED  BY <2>1, <2>2, <2>3, <2>4 DEF ServerOK, PoolIsTrue
<1> QED  BY <1>4, <1>5 DEF Connect

LEMMA FewerServed ==
  ASSUME IInv, UNCHANGED bound, live' \subseteq live,
         pool' \in [Person \X User -> 0..Len(bound)], \A k \in Person \X User : pool'[k] \in {0, pool[k]}
  PROVE  ServerOK'
  BY DEF IInv, ServerOK, PoolIsTrue

LEMMA KeepKept == ASSUME IInv, NEW t \in Turn, Keep(t) PROVE KeptOK'
<1>1. turn[t].phase = "keep" /\ Key(t) \in Conversation  BY Keys DEF Keep
<1>2. turn[t].fresh \in Seq(Message) /\ Exchange(t, turn[t].fresh)
  BY <1>1, Facts DEF Sound, TurnState
<1>3. /\ transcript \in [Conversation -> Seq(Message)] /\ saved \in [Conversation -> Seq(Message)]
      /\ AllReplay
  BY DEF IInv, KeptOK
<1>4. transcript[Key(t)] \in Seq(Message) /\ Replays(transcript[Key(t)])  BY <1>1, <1>3 DEF AllReplay
<1>5. Longer(t) \in Seq(Message) /\ Replays(Longer(t))  BY <1>2, <1>4, AddedReplays, TrimmedReplays DEF Longer
<1>6. transcript' = [transcript EXCEPT ![Key(t)] = Longer(t)] /\ (saved' = transcript' \/ saved' = saved)
  BY DEF Keep
<1> HIDE DEF Longer
<1>7. transcript' \in [Conversation -> Seq(Message)]  BY <1>3, <1>5, <1>6
<1>8. \A k \in Conversation : Replays(transcript'[k])  BY <1>3, <1>5, <1>6 DEF AllReplay
<1> QED  BY <1>3, <1>6, <1>7, <1>8 DEF KeptOK, AllReplay

LEMMA QuitKept == ASSUME IInv, Quit PROVE KeptOK'
  BY DEF IInv, KeptOK, AllReplay, Quit

LEMMA StartChildCoded == ASSUME IInv, NEW t \in Turn, StartChild(t) PROVE CodedOK'
<1>1. /\ ids \in [Conversation -> 0..Len(claude)] /\ savedIds \in [Conversation -> 0..Len(claude)]
      /\ claude \in Seq(SUBSET Turn) /\ held \subseteq DOMAIN claude
  BY DEF IInv, CodedOK
<1>2. UNCHANGED <<ids, savedIds, held>> /\ (claude' = claude \/ claude' = Append(claude, {}))  BY DEF StartChild
<1>3. /\ claude' \in Seq(SUBSET Turn) /\ Len(claude) <= Len(claude') /\ DOMAIN claude \subseteq DOMAIN claude'
      /\ Len(claude) \in Nat /\ Len(claude') \in Nat
  BY <1>1, <1>2
<1>4. 0..Len(claude) \subseteq 0..Len(claude')  BY <1>3
<1>5. ids' \in [Conversation -> 0..Len(claude')] /\ savedIds' \in [Conversation -> 0..Len(claude')]
  BY <1>1, <1>2, <1>4
<1> QED  BY <1>1, <1>2, <1>3, <1>5 DEF CodedOK

LEMMA ChildEndsCoded == ASSUME IInv, NEW t \in Turn, ChildEnds(t) PROVE CodedOK'
<1>1. /\ ids \in [Conversation -> 0..Len(claude)] /\ savedIds \in [Conversation -> 0..Len(claude)]
      /\ claude \in Seq(SUBSET Turn) /\ held \subseteq DOMAIN claude
  BY DEF IInv, CodedOK
<1>2. UNCHANGED <<ids, savedIds>> /\ turn[t].phase = "child"  BY DEF ChildEnds
<1>3. \/ UNCHANGED <<claude, held>>
      \/ claude' = [claude EXCEPT ![turn[t].id] = @ \cup {t}] /\ held' = held \cup {turn[t].id}
  BY DEF ChildEnds
<1>4. /\ claude' \in Seq(SUBSET Turn) /\ Len(claude') = Len(claude) /\ DOMAIN claude' = DOMAIN claude
      /\ held' \subseteq DOMAIN claude
  <2>1. CASE UNCHANGED <<claude, held>>  BY <1>1, <2>1
  <2>2. CASE claude' = [claude EXCEPT ![turn[t].id] = @ \cup {t}] /\ held' = held \cup {turn[t].id}
    <3>1. /\ claude' \in Seq(SUBSET Turn) /\ Len(claude') = Len(claude) /\ DOMAIN claude' = DOMAIN claude
          /\ turn[t].id \in DOMAIN claude
      BY <1>2, <2>2, Heard
    <3> QED  BY <1>1, <2>2, <3>1
  <2> QED  BY <1>3, <2>1, <2>2
<1> QED  BY <1>1, <1>2, <1>4 DEF CodedOK

LEMMA CloseCoded == ASSUME IInv, NEW t \in Turn, Close(t) PROVE CodedOK'
<1>1. /\ ids \in [Conversation -> 0..Len(claude)] /\ savedIds \in [Conversation -> 0..Len(claude)]
      /\ claude \in Seq(SUBSET Turn) /\ held \subseteq DOMAIN claude
  BY DEF IInv, CodedOK
<1>2. turn[t].id \in 0..Len(claude) /\ 0 \in 0..Len(claude)
  <2>1. turn[t].id \in Nat /\ turn[t].id <= Len(claude) /\ Len(claude) \in Nat  BY Facts DEF Sound, TurnState
  <2> QED  BY <2>1
<1>3. UNCHANGED <<claude, held>>  BY DEF Close
<1>4. \/ UNCHANGED <<ids, savedIds>>
      \/ \E i \in {0, turn[t].id} : ids' = [ids EXCEPT ![Key(t)] = i] /\ savedIds' \in {ids', savedIds}
  BY DEF Close, PersistIds
<1>5. ids' \in [Conversation -> 0..Len(claude)] /\ savedIds' \in [Conversation -> 0..Len(claude)]
  BY <1>1, <1>2, <1>4
<1> QED  BY <1>1, <1>3, <1>5 DEF CodedOK

LEMMA QuitCoded == ASSUME IInv, Quit PROVE CodedOK'
  BY DEF IInv, CodedOK, Quit

LEMMA RestartCoded == ASSUME IInv, Restart PROVE CodedOK'
  BY DEF IInv, CodedOK, Restart

LEMMA SameCoded == ASSUME IInv, UNCHANGED <<ids, savedIds, claude, held>> PROVE CodedOK'
  BY DEF IInv, CodedOK

-----------------------------------------------------------------------------
\* A proxy is there for a turn that runs its child, or that never told it.
Proxied(r) == r.phase \in {"child", "hung", "closing"} \/ r.end = "unwritten"

LEMMA OneProxy ==
  ASSUME IInv, NEW t \in Turn, NEW r, To(t, r), proxy' \subseteq proxy \cup {t}, t \in proxy' => Proxied(r)
  PROVE  ProxyOK'
<1>1. turn'[t] = r /\ \A o \in Turn \ {t} : turn'[o] = turn[o]  BY Facts DEF To
<1>2. proxy \subseteq Turn /\ \A o \in proxy : Proxied(turn[o])  BY DEF IInv, ProxyOK, ProxyPerTurn, Proxied
<1>3. \A o \in proxy' : Proxied(turn'[o])
  <2>1. SUFFICES ASSUME NEW o \in proxy' PROVE Proxied(turn'[o])  OBVIOUS
  <2>2. CASE o = t  BY <1>1, <2>2
  <2>3. CASE o # t
    <3>1. o \in proxy /\ o \in Turn \ {t}  BY <1>2, <2>3
    <3> QED  BY <1>1, <1>2, <3>1
  <2> QED  BY <2>2, <2>3
<1> QED  BY <1>2, <1>3 DEF ProxyOK, ProxyPerTurn, Proxied

\* A turn that runs no child has no proxy.
LEMMA NoProxyYet ==
  ASSUME IInv, NEW t \in Turn, turn[t].phase \notin {"child", "hung", "closing", "done"}
  PROVE  t \notin proxy
  BY Facts DEF IInv, ProxyOK, ProxyPerTurn, Sound

LEMMA EarlyProxy ==
  ASSUME IInv, NEW t \in Turn, turn[t].phase \notin {"child", "hung", "closing", "done"}, UNCHANGED proxy,
         NEW r, To(t, r)
  PROVE  ProxyOK'
  BY NoProxyYet, OneProxy

LEMMA AsksProxy == ASSUME IInv, NEW t \in Turn, NEW p \in Person, NEW th \in Thread, Asks(t, p, th) PROVE ProxyOK'
  BY EarlyProxy DEF Asks, coded

LEMMA IdentifyProxy == ASSUME IInv, NEW t \in Turn, Identify(t) PROVE ProxyOK'
<1>1. turn[t].phase = "ask" /\ UNCHANGED proxy /\ \E r : To(t, r)  BY DEF Identify, coded
<1> QED  BY <1>1, EarlyProxy

LEMMA ApiProxy == ASSUME IInv, NEW t \in Turn, ApiStep(t) PROVE ProxyOK'
<1>1. turn[t].phase \in {"open", "connecting", "listing", "model", "keep"} /\ UNCHANGED proxy
  BY DEF ApiStep, Open, Connect, ListTools, Round, Keep, coded
<1>2. \E r : To(t, r)
  <2>1. CASE Open(t)  BY <2>1 DEF Open
  <2>2. CASE Connect(t)  BY <2>2 DEF Connect
  <2>3. CASE ListTools(t)  BY <2>3 DEF ListTools
  <2>4. CASE Round(t)  BY <2>4 DEF Round
  <2>5. CASE Keep(t)  BY <2>5 DEF Keep
  <2> QED  BY <2>1, <2>2, <2>3, <2>4, <2>5 DEF ApiStep
<1> QED  BY <1>1, <1>2, EarlyProxy

LEMMA ChildProxy == ASSUME IInv, NEW t \in Turn, ChildStep(t) PROVE ProxyOK'
<1>0. turn[t] \in TurnState  BY Facts
<1>1. CASE Resume(t)  BY <1>1, EarlyProxy DEF Resume, coded
<1>2. CASE StartChild(t)
  <2>1. turn[t].phase = "starting" /\ t \notin proxy  BY <1>2, NoProxyYet DEF StartChild
  <2>2. CASE UNCHANGED proxy /\ To(t, Over(t))  BY <2>1, <2>2, OneProxy
  <2>3. CASE proxy' = proxy \cup {t} /\ To(t, [Over(t) EXCEPT !.end = "unwritten"])
    <3>1. Over(t) \in TurnState  BY <1>0, OverIs
    <3>2. Proxied([Over(t) EXCEPT !.end = "unwritten"])
      <4> HIDE DEF Over
      <4> QED  BY <3>1 DEF Proxied, TurnState
    <3> QED  BY <2>3, <3>2, OneProxy
  <2>4. ASSUME NEW i, proxy' = proxy \cup {t}, To(t, [turn[t] EXCEPT !.phase = "child", !.id = i])
        PROVE  ProxyOK'
    <3>1. Proxied([turn[t] EXCEPT !.phase = "child", !.id = i])  BY <1>0 DEF Proxied, TurnState
    <3> QED  BY <2>4, <3>1, OneProxy
  <2>5. \/ UNCHANGED proxy /\ To(t, Over(t))
        \/ proxy' = proxy \cup {t} /\ To(t, [Over(t) EXCEPT !.end = "unwritten"])
        \/ \E i : proxy' = proxy \cup {t} /\ To(t, [turn[t] EXCEPT !.phase = "child", !.id = i])
    BY <1>2 DEF StartChild
  <2> QED  BY <2>2, <2>3, <2>4, <2>5
<1>3. CASE ChildEnds(t)
  <2>1. PICK e : To(t, [turn[t] EXCEPT !.phase = "closing", !.end = e])  BY <1>3 DEF ChildEnds, Ends
  <2>2. Proxied([turn[t] EXCEPT !.phase = "closing", !.end = e])  BY <1>0 DEF Proxied, TurnState
  <2> QED  BY <1>3, <2>1, <2>2, OneProxy DEF ChildEnds
<1>4. CASE ChildHangs(t)
  <2>1. Proxied([turn[t] EXCEPT !.phase = "hung"])  BY <1>0 DEF Proxied, TurnState
  <2> QED  BY <1>4, <2>1, OneProxy DEF ChildHangs, coded
<1>5. CASE Timeout(t)
  <2>1. Proxied(Killed(t))  BY <1>0 DEF Proxied, TurnState, Killed
  <2> QED  BY <1>5, <2>1, OneProxy DEF Timeout, coded
<1>6. CASE Close(t)
  <2>1. proxy' = proxy \ {t} /\ \E r : To(t, r)  BY <1>6 DEF Close, Closed
  <2> QED  BY <2>1, OneProxy
<1> QED  BY <1>1, <1>2, <1>3, <1>4, <1>5, <1>6 DEF ChildStep

LEMMA SameProxy == ASSUME IInv, UNCHANGED <<turn, proxy>> PROVE ProxyOK'
  BY DEF IInv, ProxyOK, ProxyPerTurn

-----------------------------------------------------------------------------
LEMMA MishapIsNat == ASSUME IInv, Mishap \/ UNCHANGED mishaps PROVE mishaps' \in Nat
  BY DEF IInv, PlainOK, Mishap

LEMMA SamePlain ==
  ASSUME IInv, UNCHANGED <<up, backend, login>>, catalogue' \in BOOLEAN, stale' \in BOOLEAN,
         Mishap \/ UNCHANGED mishaps
  PROVE  PlainOK'
  BY MishapIsNat DEF IInv, PlainOK

LEMMA TurnStepPlain == ASSUME IInv, NEW t \in Turn, TurnStep(t) PROVE PlainOK'
<1>0. catalogue \in BOOLEAN /\ stale \in BOOLEAN  BY DEF IInv, PlainOK
<1>1. UNCHANGED <<up, backend, login>>
  BY DEF TurnStep, ApiStep, ChildStep, Identify, Open, Connect, ListTools, Round, Keep, Resume, StartChild,
         ChildEnds, ChildHangs, Timeout, Close
<1>2. catalogue' \in BOOLEAN
  BY <1>0 DEF TurnStep, ApiStep, ChildStep, Identify, Open, Connect, ListTools, Round, Keep, Resume, StartChild,
         ChildEnds, ChildHangs, Timeout, Close, pooled
<1>3. stale' \in BOOLEAN
  <2>1. CASE ChildEnds(t)
    <3>1. PICK e : stale' = (e = "auth" \/ (stale /\ e # "ok"))  BY <2>1 DEF ChildEnds, Ends
    <3>2. (e = "auth" \/ (stale /\ e # "ok")) \in BOOLEAN  BY ZenonT(20)
    <3> QED  BY <3>1, <3>2
  <2>2. CASE Keep(t)  BY <1>0, <2>2 DEF Keep
  <2>3. CASE Identify(t) \/ Open(t) \/ Connect(t) \/ ListTools(t) \/ Round(t)
    BY <1>0, <2>3 DEF Identify, Open, Connect, ListTools, Round
  <2>4. CASE Resume(t) \/ StartChild(t) \/ ChildHangs(t) \/ Timeout(t) \/ Close(t)
    BY <1>0, <2>4 DEF Resume, StartChild, ChildHangs, Timeout, Close
  <2> QED  BY <2>1, <2>2, <2>3, <2>4 DEF TurnStep, ApiStep, ChildStep
<1>4. Mishap \/ UNCHANGED mishaps
  BY DEF TurnStep, ApiStep, ChildStep, Identify, Open, Connect, ListTools, Round, Keep, Resume, StartChild,
         ChildEnds, ChildHangs, Timeout, Close, PersistIds
<1> QED  BY <1>1, <1>2, <1>3, <1>4, SamePlain

LEMMA OthersPlain ==
  ASSUME IInv, Elsewhere \/ Quit \/ \E t \in Turn, p \in Person, th \in Thread : Asks(t, p, th)
  PROVE  PlainOK'
<1>0. /\ up \in BOOLEAN /\ catalogue \in BOOLEAN /\ stale \in BOOLEAN
      /\ backend \in Backend /\ login \in [Person -> User \cup {None}]
  BY DEF IInv, PlainOK
<1>1. CASE \E t \in Turn, p \in Person, th \in Thread : Asks(t, p, th)
  BY <1>0, <1>1, SamePlain DEF Asks, pooled
<1>2. CASE \E k \in Person \X User : Evict(k)  BY <1>0, <1>2, SamePlain DEF Evict
<1>3. CASE \E s \in live : SessionEnds(s)  BY <1>0, <1>3, SamePlain DEF SessionEnds
<1>4. CASE \E p \in Person, u \in User \cup {None} : Relink(p, u)
  <2>1. login' \in [Person -> User \cup {None}]  BY <1>0, <1>4 DEF Relink
  <2>2. UNCHANGED <<up, backend, catalogue, stale>> /\ Mishap  BY <1>4 DEF Relink, pooled
  <2> QED  BY <1>0, <2>1, <2>2, MishapIsNat DEF PlainOK
<1>5. CASE Probe  BY <1>0, <1>5, SamePlain DEF Probe, pooled
<1>6. CASE Restart
  <2>1. up' = TRUE /\ UNCHANGED <<backend, login, catalogue, stale, mishaps>>  BY <1>6 DEF Restart, pooled
  <2> QED  BY <1>0, <2>1, MishapIsNat DEF PlainOK
<1>7. CASE Quit
  <2>1. up' = FALSE /\ catalogue' = FALSE /\ stale' = FALSE /\ UNCHANGED <<backend, login>> /\ Mishap
    BY <1>7 DEF Quit
  <2> QED  BY <1>0, <2>1, MishapIsNat DEF PlainOK
<1> QED  BY <1>1, <1>2, <1>3, <1>4, <1>5, <1>6, <1>7 DEF Elsewhere

-----------------------------------------------------------------------------
(* The theorems. *)

LEMMA SameServer == ASSUME IInv, UNCHANGED <<pool, server>> PROVE ServerOK'
  BY DEF IInv, ServerOK, PoolIsTrue, server

LEMMA SameKept == ASSUME IInv, UNCHANGED kept PROVE KeptOK'
  BY DEF IInv, KeptOK, AllReplay, kept

LEMMA Start == Init => IInv
<1> SUFFICES ASSUME Init PROVE IInv
  OBVIOUS
<1>1. bound = <<>> /\ claude = <<>> /\ Len(<<>>) = 0 /\ <<>> \in Seq(User) /\ <<>> \in Seq(SUBSET Turn) /\ <<>> \in Seq(Message)
  BY DEF Init
<1>2. TurnsOK
  <2>1. \A t \in Turn : turn[t] = NoTurn  BY DEF Init
  <2>2. turn \in [Turn -> TurnState]  BY NoTurnIs DEF Init
  <2>3. ASSUME NEW t \in Turn PROVE Sound(t, NoTurn, bound, claude)
    <3>1. 0 <= Len(claude)  BY <1>1
    <3> QED  BY <3>1, NoTurnIs DEF Sound
  <2> QED  BY <2>1, <2>2, <2>3 DEF TurnsOK, TurnsSound
<1>3. ServerOK  BY <1>1 DEF Init, ServerOK, PoolIsTrue
<1>4. KeptOK
  <2>1. \A i \in 2..0 : FALSE  OBVIOUS
  <2>2. Replays(<<>>)  BY <1>1, <2>1 DEF Replays
  <2> QED  BY <1>1, <2>2 DEF Init, KeptOK, AllReplay
<1>5. CodedOK  BY <1>1 DEF Init, CodedOK
<1>6. ProxyOK  BY DEF Init, ProxyOK, ProxyPerTurn
<1>7. PlainOK
  <2>1. login \in [Person -> User \cup {None}]  BY DEF Init
  <2> QED  BY <2>1 DEF Init, PlainOK
<1> QED  BY <1>2, <1>3, <1>4, <1>5, <1>6, <1>7 DEF IInv

LEMMA Stays == IInv /\ [Next]_vars => IInv'
<1> SUFFICES ASSUME IInv, [Next]_vars PROVE IInv'
  OBVIOUS
<1>1. ASSUME NEW t \in Turn, TurnStep(t) PROVE IInv'
  <2>1. TurnsOK'
    BY <1>1, IdentifyTurns, OpenTurns, ConnectTurns, ListToolsTurns, RoundTurns, KeepTurns, ResumeTurns,
       StartChildTurns, ChildEndsTurns, ChildHangsTurns, TimeoutTurns, CloseTurns
    DEF TurnStep, ApiStep, ChildStep
  <2>2. ServerOK'
    <3>1. CASE Connect(t)  BY <3>1, ConnectServer
    <3>2. CASE ~ Connect(t)
      <4>1. UNCHANGED <<pool, server>>
        BY <1>1, <3>2 DEF TurnStep, ApiStep, ChildStep, Identify, Open, ListTools, Round, Keep, Resume,
          StartChild, ChildEnds, ChildHangs, Timeout, Close, pooled
      <4> QED  BY <4>1, SameServer
    <3> QED  BY <3>1, <3>2
  <2>3. KeptOK'
    <3>1. CASE Keep(t)  BY <3>1, KeepKept
    <3>2. CASE ~ Keep(t)
      <4>1. UNCHANGED kept
        BY <1>1, <3>2 DEF TurnStep, ApiStep, ChildStep, Identify, Open, Connect, ListTools, Round, Resume,
          StartChild, ChildEnds, ChildHangs, Timeout, Close
      <4> QED  BY <4>1, SameKept
    <3> QED  BY <3>1, <3>2
  <2>4. CodedOK'
    <3>1. CASE StartChild(t) \/ ChildEnds(t) \/ Close(t)  BY <3>1, StartChildCoded, ChildEndsCoded, CloseCoded
    <3>2. CASE ~ (StartChild(t) \/ ChildEnds(t) \/ Close(t))
      <4>1. UNCHANGED <<ids, savedIds, claude, held>>
        BY <1>1, <3>2 DEF TurnStep, ApiStep, ChildStep, Identify, Open, Connect, ListTools, Round, Keep, Resume,
          ChildHangs, Timeout, coded
      <4> QED  BY <4>1, SameCoded
    <3> QED  BY <3>1, <3>2
  <2>5. ProxyOK'  BY <1>1, IdentifyProxy, ApiProxy, ChildProxy DEF TurnStep
  <2>6. PlainOK'  BY <1>1, TurnStepPlain
  <2> QED  BY <2>1, <2>2, <2>3, <2>4, <2>5, <2>6 DEF IInv
<1>2. ASSUME NEW t \in Turn, NEW p \in Person, NEW th \in Thread, Asks(t, p, th) PROVE IInv'
  <2>1. UNCHANGED <<pool, server>> /\ UNCHANGED kept /\ UNCHANGED <<ids, savedIds, claude, held>>
    BY <1>2 DEF Asks, pooled, coded
  <2> QED  BY <1>2, <2>1, AsksTurns, AsksProxy, SameServer, SameKept, SameCoded, OthersPlain DEF IInv
<1>3. CASE Elsewhere
  <2>1. UNCHANGED <<turn, proxy>> /\ UNCHANGED kept
    BY <1>3 DEF Elsewhere, Evict, Relink, SessionEnds, Probe, Restart, coded
  <2>2. CodedOK'
    <3>1. CASE Restart  BY <3>1, RestartCoded
    <3>2. CASE ~ Restart
      <4>1. UNCHANGED <<ids, savedIds, claude, held>>
        BY <1>3, <3>2 DEF Elsewhere, Evict, Relink, SessionEnds, Probe, coded
      <4> QED  BY <4>1, SameCoded
    <3> QED  BY <3>1, <3>2
  <2>3. ServerOK'
    <3>1. pool \in [Person \X User -> 0..Len(bound)] /\ bound \in Seq(User)  BY DEF IInv, ServerOK
    <3>2. CASE \E k \in Person \X User : Evict(k)  BY <3>1, <3>2, FewerServed DEF Evict
    <3>3. CASE \E s \in live : SessionEnds(s)  BY <3>1, <3>3, FewerServed DEF SessionEnds
    <3>4. CASE Probe \/ Restart \/ \E p \in Person, u \in User \cup {None} : Relink(p, u)
      <4>1. UNCHANGED <<pool, server>>  BY <3>4 DEF Probe, Restart, Relink, pooled
      <4> QED  BY <4>1, SameServer
    <3> QED  BY <1>3, <3>2, <3>3, <3>4 DEF Elsewhere
  <2> QED  BY <1>3, <2>1, <2>2, <2>3, ElsewhereTurns, SameKept, SameProxy, OthersPlain DEF IInv
<1>4. CASE Quit
  <2>1. ServerOK'
    <3>1. /\ UNCHANGED bound /\ live' \in {live, live \ {pool[k] : k \in DOMAIN pool}}
          /\ pool' = [k \in DOMAIN pool |-> 0]
      BY <1>4 DEF Quit
    <3>2. pool \in [Person \X User -> 0..Len(bound)] /\ bound \in Seq(User)  BY DEF IInv, ServerOK
    <3>3. 0 \in 0..Len(bound) /\ DOMAIN pool = Person \X User  BY <3>2
    <3>4. pool' \in [Person \X User -> 0..Len(bound)] /\ \A k \in Person \X User : pool'[k] \in {0, pool[k]}
      BY <3>1, <3>3
    <3> QED  BY <3>1, <3>4, FewerServed
  <2>2. ProxyOK'  BY <1>4 DEF Quit, ProxyOK, ProxyPerTurn
  <2> QED  BY <1>4, <2>1, <2>2, QuitTurns, QuitKept, QuitCoded, OthersPlain DEF IInv
<1>5. CASE UNCHANGED vars
  <2>1. UNCHANGED <<pool, server>> /\ UNCHANGED kept /\ UNCHANGED <<ids, savedIds, claude, held>>
        /\ UNCHANGED <<turn, bound, claude>> /\ UNCHANGED <<turn, proxy>>
        /\ UNCHANGED <<up, backend, login, catalogue, stale, mishaps>>
    BY <1>5 DEF vars, pooled, server, coded
  <2>2. PlainOK'  BY <2>1 DEF IInv, PlainOK
  <2> QED  BY <2>1, <2>2, NoneMoves, SameServer, SameKept, SameCoded, SameProxy DEF IInv
<1> QED  BY <1>1, <1>2, <1>3, <1>4, <1>5 DEF Next, Elsewhere, AskInChat, AskAtTerminal

LEMMA Always == Spec => []IInv
  BY Start, Stays, PTL DEF Spec

\* Every variable has its type: in particular, a session that a turn resumes, or that a
\* conversation remembers, is one that Claude Code began.
THEOREM TypeCorrect == Spec => []TypeOK
  BY Always, IInvTypes, PTL

\* For any number of people, users and turns that share a pool, and however users change: the
\* session a turn's tools go through was begun for the user the turn was begun for.
THEOREM ActsForAsker == Spec => []CallsActForAsker
  BY Always, IInvTypes, PTL

\* However turns of a conversation overlap, however long their exchanges are and wherever the
\* transcript is cut: it begins with a question, and a tool's result follows the call of its turn.
THEOREM CanBeReplayed == Spec => []Replayable
  BY Always, IInvTypes, PTL

\* No proxy outlives its turn, but for the one whose child was never told of it.
THEOREM ProxiesEnd == Spec => []ProxyPerTurn
  BY Always, IInvTypes, PTL

\* A turn that ends adds its whole exchange to the conversation as that is by then, and only
\* messages from before it are dropped, and none when there is room.
THEOREM NothingIsLost == Spec => NoExchangeLost
<1>1. ASSUME IInv, [Next]_vars
      PROVE  [\A t \in Turn : turn[t].phase = "keep" /\ turn'[t].phase = "done" /\ up' =>
                LET old == transcript[Key(t)]  all == old \o turn[t].fresh
                IN \E d \in 0..Len(old) :
                     /\ transcript'[Key(t)] = SubSeq(all, d + 1, Len(all))
                     /\ Len(all) <= MaxTurns => d = 0]_vars
  <2>1. SUFFICES ASSUME NEW t \in Turn, turn[t].phase = "keep", turn'[t].phase = "done", up'
                 PROVE  \E d \in 0..Len(transcript[Key(t)]) :
                          LET all == transcript[Key(t)] \o turn[t].fresh
                          IN /\ transcript'[Key(t)] = SubSeq(all, d + 1, Len(all))
                             /\ Len(all) <= MaxTurns => d = 0
    OBVIOUS
  <2>2. Keep(t)
    <3>1. turn'[t] # turn[t]  BY <2>1
    <3>2. ASSUME NEW o \in Turn, NEW r, To(o, r) PROVE o = t
      <4>1. turn \in [Turn -> TurnState]  BY <1>1, Facts
      <4> QED  BY <3>1, <3>2, <4>1 DEF To
    <3>3. ASSUME NEW o \in Turn, TurnStep(o) PROVE o = t
      <4>1. \E r : To(o, r)
        <5>1. CASE Identify(o)  BY <5>1 DEF Identify
        <5>2. CASE Open(o)  BY <5>2 DEF Open
        <5>3. CASE Connect(o)  BY <5>3 DEF Connect
        <5>4. CASE ListTools(o)  BY <5>4 DEF ListTools
        <5>5. CASE Round(o)  BY <5>5 DEF Round
        <5>6. CASE Keep(o)  BY <5>6 DEF Keep
        <5>7. CASE Resume(o)  BY <5>7 DEF Resume
        <5>8. CASE StartChild(o)  BY <5>8 DEF StartChild
        <5>9. CASE ChildEnds(o)  BY <5>9 DEF ChildEnds, Ends
        <5>10. CASE ChildHangs(o) \/ Timeout(o)  BY <5>10 DEF ChildHangs, Timeout
        <5>11. CASE Close(o)  BY <5>11 DEF Close
        <5> QED
          BY <3>3, <5>1, <5>2, <5>3, <5>4, <5>5, <5>6, <5>7, <5>8, <5>9, <5>10, <5>11
          DEF TurnStep, ApiStep, ChildStep
      <4> QED  BY <3>2, <4>1
    <3>4. ASSUME NEW o \in Turn, NEW p \in Person, NEW th \in Thread, Asks(o, p, th) PROVE FALSE
      <4>1. o = t  BY <3>2, <3>4 DEF Asks
      <4> QED  BY <2>1, <3>4, <4>1 DEF Asks
    <3>5. ~ Elsewhere /\ ~ UNCHANGED vars
      BY <3>1 DEF Elsewhere, Evict, Relink, SessionEnds, Probe, Restart, vars
    <3>6. ~ Quit  BY <2>1 DEF Quit
    <3>7. TurnStep(t)
      BY <1>1, <3>3, <3>4, <3>5, <3>6 DEF Next, Elsewhere, AskInChat, AskAtTerminal
    <3> QED
      BY <2>1, <3>7 DEF TurnStep, ApiStep, ChildStep, Identify, Open, Connect, ListTools, Round, Resume,
        StartChild, ChildEnds, ChildHangs, Timeout, Close
  <2> DEFINE old == transcript[Key(t)]
             all == old \o turn[t].fresh
  <2>3. Key(t) \in Conversation  BY <1>1, <2>1, Keys
  <2>4. turn[t].fresh \in Seq(Message) /\ Exchange(t, turn[t].fresh)
    BY <1>1, <2>1, Facts DEF Sound, TurnState
  <2>5. transcript \in [Conversation -> Seq(Message)] /\ old \in Seq(Message) /\ Replays(old)
    BY <1>1, <2>3 DEF IInv, KeptOK, AllReplay
  <2>6. all \in Seq(Message) /\ \A i \in Beginnings(all) : i <= Len(old) + 1
    BY <2>4, <2>5, AddedReplays
  <2>7. transcript'[Key(t)] = Trimmed(all)  BY <2>2, <2>3, <2>5 DEF Keep, Longer
  <2> HIDE DEF all, old
  <2>8. PICK b \in Beginnings(all) : Trimmed(all) = SubSeq(all, b, Len(all)) /\ (Len(all) <= MaxTurns => b = 1)
    BY <2>6, TrimmedCuts
  <2>9. b - 1 \in 0..Len(old) /\ (b - 1) + 1 = b
    <3>1. b \in Nat /\ 1 <= b /\ b <= Len(old) + 1 /\ Len(old) \in Nat  BY <2>5, <2>6, <2>8 DEF Beginnings
    <3> QED  BY <3>1
  <2>10. Len(all) <= MaxTurns => b - 1 = 0  BY <2>8
  <2>11. \E d \in 0..Len(old) : transcript'[Key(t)] = SubSeq(all, d + 1, Len(all)) /\ (Len(all) <= MaxTurns => d = 0)
    <3>1. SUFFICES transcript'[Key(t)] = SubSeq(all, (b - 1) + 1, Len(all)) /\ (Len(all) <= MaxTurns => b - 1 = 0)
      BY <2>9
    <3> QED  BY <2>7, <2>8, <2>9, <2>10
  <2> QED  BY <2>11 DEF all, old
<1> QED  BY <1>1, Always, PTL DEF Spec, NoExchangeLost
=============================================================================
