------------------------- MODULE AccessBrokerProofs -------------------------
(***************************************************************************)
(* Theorems about the access broker: its variables keep their types, and   *)
(* it never records or announces a decision other than Teleport's.         *)
(***************************************************************************)
EXTENDS AccessDecisions, FiniteSetTheorems, TLAPS

\* Records stay records.
LEMMA RecordType ==
  ASSUME now \in Nat
  PROVE  /\ NoRecord \in Record
         /\ \A b \in BOOLEAN : Fresh(b) \in Record /\ [Fresh(b) EXCEPT !.notified = TRUE] \in Record
         /\ \A x \in Record, v \in Verdict, m \in Mode : Settle(x, v, m) \in Record
         /\ \A x \in Record : Pruned(x) \in Record
<1>1. NoRecord \in Record
  BY DEF NoRecord, Record
<1>2. ASSUME NEW b \in BOOLEAN
      PROVE  Fresh(b) \in Record /\ [Fresh(b) EXCEPT !.notified = TRUE] \in Record
  BY <1>2 DEF Fresh, NoRecord, Record
<1>3. ASSUME NEW x \in Record, NEW v \in Verdict, NEW m \in Mode
      PROVE  Settle(x, v, m) \in Record
  BY <1>3 DEF Settle, Record
<1>4. ASSUME NEW x \in Record
      PROVE  Pruned(x) \in Record
  <2>1. "expired" \in Verdict /\ "external" \in Mode
    BY DEF Verdict, Mode
  <2>2. Settle(x, "expired", "external") \in Record
    BY <1>3, <1>4, <2>1
  <2> QED
    BY <1>1, <1>4, <2>2 DEF Pruned
<1> QED
  BY <1>1, <1>2, <1>3, <1>4

LEMMA IdleType == Idle \in Job /\ NoCall \in Call
BY RecordType DEF Idle, Job, NoCall, Call, State, NoRecord, Record

\* One event more.
LEMMA RaiseType ==
  ASSUME raised \subseteq Announcement, IsFiniteSet(raised), outgoing \subseteq raised,
         NEW r \in Request, NEW x \in Record, Raise(r, x)
  PROVE  raised' \subseteq Announcement /\ IsFiniteSet(raised') /\ outgoing' \subseteq raised'
<1> DEFINE ev == [id |-> Cardinality(raised) + 1, req |-> r, res |-> x.res, mode |-> x.mode,
                  type |-> IF Resolved(x) THEN "resolved" ELSE "pending_review"]
<1>1. Cardinality(raised) \in Nat
  BY FS_CardinalityType
<1>2. ev \in Announcement
  BY <1>1 DEF Announcement, Record
<1>3. raised' = raised \cup {ev} /\ outgoing' = outgoing \cup {ev}
  BY DEF Raise
<1>4. IsFiniteSet(raised \cup {ev})
  BY FS_AddElement
<1> QED
  BY <1>2, <1>3, <1>4

\* A decision put to Teleport.
LEMMA ResolveType ==
  ASSUME TeleportTypeOK, NEW author \in User \cup {Bot}, NEW r \in Request,
         NEW s \in {"approved", "denied"}, NEW m \in Mode, Resolve(author, r, s, m)
  PROVE  TeleportTypeOK'
<1>1. votes' \in [Request -> SUBSET (User \cup {Bot})]
  <2>1. \/ UNCHANGED votes
        \/ votes' = [votes EXCEPT ![r] = votes[r] \cup {author}]
    BY DEF Resolve, Review, SetState
  <2> QED
    BY <2>1 DEF TeleportTypeOK
<1>2. \/ Enter(r, s, m)
      \/ Emit(r, "pending") /\ UNCHANGED <<now, state, how, born, connected>>
  BY DEF Resolve, Review, SetState
<1>3. stream' \in Seq(Event)
  <2>1. [req |-> r, st |-> s] \in Event /\ [req |-> r, st |-> "pending"] \in Event
    BY DEF Event, State
  <2>2. \/ stream' = stream
        \/ stream' = Append(stream, [req |-> r, st |-> s])
        \/ stream' = Append(stream, [req |-> r, st |-> "pending"])
    BY <1>2 DEF Enter, Emit
  <2>3. stream \in Seq(Event)
    BY DEF TeleportTypeOK
  <2> QED
    BY <2>1, <2>2, <2>3
<1>4. state' \in [Request -> State] /\ how' \in [Request -> Mode \cup {None}]
  BY <1>2 DEF Enter, TeleportTypeOK, State
<1>5. UNCHANGED <<now, born, connected>>
  BY <1>2 DEF Enter
<1> QED
  BY <1>1, <1>3, <1>4, <1>5 DEF TeleportTypeOK

LEMMA WorldType ==
  ASSUME TypeOK, World
  PROVE  TypeOK'
<1>0. BrokerTypeOK'
  BY DEF World, TypeOK, BrokerTypeOK, brokerVars, config, history
<1>1. CASE Tick
  BY <1>0, <1>1 DEF Tick, TypeOK, TeleportTypeOK
<1>2. ASSUME NEW r \in Request, Submit(r)
      PROVE  TeleportTypeOK'
  <2>0. [req |-> r, st |-> "pending"] \in Event
    BY DEF Event, State
  <2>1. stream' \in Seq(Event)
    BY <1>2, <2>0 DEF Submit, Emit, TypeOK, TeleportTypeOK
  <2> QED
    BY <1>2, <2>1 DEF Submit, TypeOK, TeleportTypeOK, State
<1>3. ASSUME NEW r \in Request, Lapse(r)
      PROVE  TeleportTypeOK'
  BY <1>3 DEF Lapse, TypeOK, TeleportTypeOK, State
<1>4. ASSUME NEW r \in Request, NEW s \in Elsewhere, DecideElsewhere(r, s)
      PROVE  TeleportTypeOK'
  <2>0. s \in State
    BY TeleportAssumption DEF TeleportAssumption, State
  <2>1. stream' \in Seq(Event)
    <3>1. [req |-> r, st |-> s] \in Event
      BY <2>0 DEF Event
    <3> QED
      BY <1>4, <3>1 DEF DecideElsewhere, Enter, Emit, TypeOK, TeleportTypeOK
  <2>2. state' \in [Request -> State] /\ how' \in [Request -> Mode \cup {None}]
    BY <1>4, <2>0 DEF DecideElsewhere, Enter, TypeOK, TeleportTypeOK, Mode
  <2> QED
    BY <1>4, <2>1, <2>2 DEF DecideElsewhere, Enter, TypeOK, TeleportTypeOK
<1> QED
  BY <1>0, <1>1, <1>2, <1>3, <1>4 DEF World, TypeOK

\* What an unsuccessful call changes.
LEMMA FailType ==
  ASSUME TeleportTypeOK, mishaps \in Nat, NEW author \in User \cup {Bot}, NEW r \in Request,
         NEW s \in {"approved", "denied"}, NEW m \in Mode, CallFails(author, r, s, m)
  PROVE  TeleportTypeOK' /\ mishaps' \in Nat
<1>1. mishaps' \in Nat
  BY DEF CallFails
<1>2. CASE UNCHANGED teleportVars
  BY <1>1, <1>2 DEF teleportVars, TeleportTypeOK
<1>3. CASE Resolve(author, r, s, m)
  BY <1>1, <1>3, ResolveType
<1> QED
  BY <1>2, <1>3 DEF CallFails

LEMMA WatcherType ==
  ASSUME TypeOK, Watcher
  PROVE  TypeOK'
<1> USE DEF TypeOK
<1>0. now \in Nat /\ TeleportTypeOK /\ BrokerTypeOK
  BY DEF TeleportTypeOK
<1>1. job \in Job /\ rec \in [Request -> Record] /\ Idle \in Job
  BY <1>0, IdleType DEF BrokerTypeOK, config, history
<1>2. [Idle EXCEPT !.phase = "list"] \in Job
  BY <1>0, RecordType DEF Idle, Job, State
<1>3. ASSUME NEW r \in Request, Pick(r)
      PROVE  job' \in Job
  <2>1. [Idle EXCEPT !.phase = "act", !.req = r] \in Job
    BY <1>0, RecordType DEF Idle, Job, State
  <2> QED
    BY <1>1, <1>3, <2>1 DEF Pick
<1>4. CASE Connect
  BY <1>0, <1>2, <1>4 DEF Connect, TeleportTypeOK, BrokerTypeOK, config, history
<1>5. CASE PollDue
  BY <1>0, <1>2, <1>5 DEF PollDue, TeleportTypeOK, BrokerTypeOK, config, history, teleportVars
<1>6. CASE List
  <2>1. todo' \subseteq Request /\ overlooked' \subseteq Request
    BY <1>0, <1>6 DEF List, BrokerTypeOK, config, history, Pending
  <2> QED
    BY <1>0, <1>1, <1>6, <2>1 DEF List, TeleportTypeOK, BrokerTypeOK, config, history, teleportVars
<1>15. CASE ListFails
  <2>1. overlooked' \subseteq Request /\ mishaps' \in Nat
    BY <1>0, <1>15 DEF ListFails, BrokerTypeOK, config, history, Pending
  <2> QED
    BY <1>0, <1>1, <1>15, <2>1 DEF ListFails, TeleportTypeOK, BrokerTypeOK, config, history, teleportVars
<1>7. CASE TakeEvent
  <2>1. stream' \in Seq(Event) /\ Head(stream) \in Event
    BY <1>0, <1>7 DEF TakeEvent, TeleportTypeOK
  <2>2. job' \in Job
    <3> DEFINE ev == Head(stream)
    <3>1. ev.req \in Request /\ ev.st \in State
      BY <2>1 DEF Event
    <3>2. CASE ev.st = "pending"
      BY <1>3, <1>7, <3>1, <3>2 DEF TakeEvent
    <3>3. CASE ev.st # "pending"
      <4>1. rec[ev.req] \in Record
        BY <1>1, <3>1
      <4>2. PickResolved(ev.req, ev.st)
        BY <1>7, <3>3 DEF TakeEvent
      <4>3. [phase |-> "external", req |-> ev.req, st |-> ev.st, copy |-> rec[ev.req]] \in Job
        BY <3>1, <4>1 DEF Job
      <4> QED
        BY <1>1, <4>2, <4>3 DEF PickResolved
    <3> QED
      BY <3>2, <3>3
  <2> QED
    BY <1>0, <1>7, <2>1, <2>2 DEF TakeEvent, TeleportTypeOK, BrokerTypeOK, config, history
<1>8. ASSUME NEW r \in Request, TakeListed(r)
      PROVE  TypeOK'
  <2>1. job' \in Job
    BY <1>3, <1>8 DEF TakeListed
  <2> QED
    BY <1>0, <1>8, <2>1 DEF TakeListed, TeleportTypeOK, BrokerTypeOK, config, history, teleportVars
<1>9. ASSUME NEW p \in {"act", "put", "external", "notify"}, job.phase = p
      PROVE  job.req \in Request /\ job.st \in State /\ job.copy \in Record
  BY <1>1, <1>9 DEF Job
<1>10. CASE AutoResolve
  <2>1. job.req \in Request
    BY <1>9, <1>10 DEF AutoResolve
  <2>2. Automatic(job.req) \in {"approved", "denied"}
    BY DEF Automatic
  <2>3. TeleportTypeOK'
    BY <1>0, <1>10, <2>1, <2>2, ResolveType DEF AutoResolve, Mode
  <2>4. job' \in Job
    BY <1>1, <1>10 DEF AutoResolve, Job
  <2> QED
    BY <1>0, <1>10, <2>3, <2>4 DEF AutoResolve, BrokerTypeOK, config, history
<1>11. CASE AutoFails
  <2>1. job.req \in Request
    BY <1>9, <1>11 DEF AutoFails
  <2>2. Automatic(job.req) \in {"approved", "denied"} /\ "auto" \in Mode
    BY DEF Automatic, Mode
  <2>3. CallFails(Bot, job.req, Automatic(job.req), "auto") /\ mishaps \in Nat
    BY <1>0, <1>11 DEF AutoFails, BrokerTypeOK
  <2>4. TeleportTypeOK' /\ mishaps' \in Nat
    BY <1>0, <2>1, <2>2, <2>3, FailType
  <2> QED
    BY <1>0, <1>1, <1>11, <2>4 DEF AutoFails, BrokerTypeOK, config, history
<1>17. ASSUME NEW x \in Record, NEW p \in {"act", "put", "external"}, job.phase = p, PutRecord(x)
      PROVE  TypeOK'
  <2>1. job.req \in Request
    BY <1>9, <1>17
  <2>2. rec' \in [Request -> Record]
    BY <1>1, <1>17, <2>1 DEF PutRecord
  <2>3. job' \in Job
    BY <1>1, <1>17, <2>1 DEF PutRecord, Job
  <2> QED
    BY <1>0, <1>17, <2>2, <2>3 DEF PutRecord, TeleportTypeOK, BrokerTypeOK, config, history, teleportVars
<1>12. CASE PutAuto
  <2>1. Automatic(job.req) \in Verdict /\ "auto" \in Mode
    BY DEF Automatic, Verdict, Mode
  <2>2. Settle(Fresh(TRUE), Automatic(job.req), "auto") \in Record
    BY <1>0, <2>1, RecordType
  <2> QED
    BY <1>12, <1>17, <2>2 DEF PutAuto
<1>13. CASE PutReview
  <2>1. [Fresh(TRUE) EXCEPT !.notified = TRUE] \in Record
    BY <1>0, RecordType
  <2> QED
    BY <1>13, <1>17, <2>1 DEF PutReview
<1>14. CASE PutExternal
  <2>1. Settle(job.copy, Seen(job.st), "external") \in Record
    <3>1. job.copy \in Record /\ Seen(job.st) \in Verdict /\ "external" \in Mode
      BY <1>9, <1>14 DEF PutExternal, Seen, Verdict, Mode
    <3> QED
      BY <1>0, <3>1, RecordType
  <2> QED
    BY <1>14, <1>17, <2>1 DEF PutExternal
<1>16. CASE Notify
  <2>1. job.req \in Request /\ job.copy \in Record /\ Raise(job.req, job.copy)
    BY <1>9, <1>16 DEF Notify
  <2>2. raised' \subseteq Announcement /\ IsFiniteSet(raised') /\ outgoing' \subseteq raised'
    BY <1>0, <2>1, RaiseType DEF BrokerTypeOK, config, history
  <2> QED
    BY <1>0, <1>1, <1>16, <2>2 DEF Notify, TeleportTypeOK, BrokerTypeOK, config, history, teleportVars
<1> QED
  BY <1>4, <1>5, <1>6, <1>7, <1>8, <1>10, <1>11, <1>12, <1>13, <1>14, <1>15, <1>16
     DEF Watcher

\* A call goes through its phases.
LEMMA CallType ==
  ASSUME NEW c \in Call, c.phase # "idle"
  PROVE  /\ c.phase \in {"authorized", "resolved", "put", "notify"}
         /\ c.req \in Request /\ c.res \in {"approved", "denied"}
         /\ c.mode \in Mode /\ c.copy \in Record
         /\ [c EXCEPT !.phase = "resolved"] \in Call
         /\ \A x \in Record, p \in {"put", "notify"} : [c EXCEPT !.phase = p, !.copy = x] \in Call
<1> DEFINE Busy == [phase : {"authorized", "resolved", "put", "notify"}, req : Request,
                    res : {"approved", "denied"}, mode : Mode, copy : Record]
<1>1. c # NoCall
  BY DEF NoCall
<1>2. c \in Busy
  BY <1>1 DEF Call
<1>3. [c EXCEPT !.phase = "resolved"] \in Busy
  BY <1>2
<1>4. \A x \in Record, p \in {"put", "notify"} : [c EXCEPT !.phase = p, !.copy = x] \in Busy
  BY <1>2
<1> QED
  BY <1>2, <1>3, <1>4 DEF Call

LEMMA PeopleType ==
  ASSUME TypeOK, People
  PROVE  TypeOK'
<1> USE DEF TypeOK
<1>0. now \in Nat /\ TeleportTypeOK /\ BrokerTypeOK
  BY DEF TeleportTypeOK
<1>1. human \in [User -> Call] /\ rec \in [Request -> Record] /\ NoCall \in Call
  BY <1>0, IdleType DEF BrokerTypeOK, config, history
<1>2. ASSUME NEW a \in User, human[a].phase # "idle"
      PROVE  /\ human[a].phase \in {"authorized", "resolved", "put", "notify"}
             /\ human[a].req \in Request /\ human[a].res \in {"approved", "denied"}
             /\ human[a].mode \in Mode /\ human[a].copy \in Record
  BY <1>1, <1>2, CallType
<1>3. ASSUME NEW a \in User, NEW c \in Call, human' = [human EXCEPT ![a] = c]
      PROVE  human' \in [User -> Call]
  BY <1>1, <1>3
<1>4. ASSUME NEW a \in User, NEW r \in Request, NEW res \in {"approved", "denied"},
             NEW m \in Caller, Decide(a, r, res, m)
      PROVE  TypeOK'
  <2> DEFINE c == [phase |-> "authorized", req |-> r, res |-> res, mode |-> m, copy |-> NoRecord]
  <2>1. m \in Mode
    BY BrokerAssumption DEF BrokerAssumption, Mode
  <2>2. c \in Call
    BY <1>0, <2>1, RecordType DEF Call
  <2>3. human' = [human EXCEPT ![a] = c]
    BY <1>4 DEF Decide
  <2>4. human' \in [User -> Call]
    BY <1>1, <2>2, <2>3
  <2> QED
    BY <1>0, <1>4, <2>4 DEF Decide, TeleportTypeOK, BrokerTypeOK, config, history, teleportVars
<1>5. ASSUME NEW a \in User, Apply(a)
      PROVE  TypeOK'
  <2>1. TeleportTypeOK'
    BY <1>0, <1>2, <1>5, ResolveType DEF Apply
  <2>2. [human[a] EXCEPT !.phase = "resolved"] \in Call
    BY <1>1, <1>5, CallType DEF Apply
  <2>3. human' \in [User -> Call]
    BY <1>1, <1>5, <2>2 DEF Apply
  <2> QED
    BY <1>0, <1>5, <2>1, <2>3 DEF Apply, BrokerTypeOK, config, history
<1>6. ASSUME NEW a \in User, ApplyFails(a)
      PROVE  TypeOK'
  <2> DEFINE c == human[a]
  <2>1. CallFails(a, c.req, c.res, c.mode) /\ c.phase # "idle" /\ mishaps \in Nat
    BY <1>0, <1>6 DEF ApplyFails, BrokerTypeOK
  <2>2. c.req \in Request /\ c.res \in {"approved", "denied"} /\ c.mode \in Mode
    BY <1>2, <2>1
  <2>3. TeleportTypeOK' /\ mishaps' \in Nat
    BY <1>0, <2>1, <2>2, FailType
  <2>4. human' \in [User -> Call]
    BY <1>1, <1>6 DEF ApplyFails
  <2> QED
    BY <1>0, <1>6, <2>3, <2>4 DEF ApplyFails, BrokerTypeOK, config, history
<1>7. ASSUME NEW a \in User, GetRecord(a)
      PROVE  TypeOK'
  <2> DEFINE x == IF rec[human[a].req].known THEN rec[human[a].req] ELSE Fresh(FALSE)
             c == [human[a] EXCEPT !.phase = "put", !.copy = x]
  <2>1. x \in Record
    BY <1>0, <1>1, <1>2, <1>7, RecordType DEF GetRecord
  <2>2. c \in Call
    <3> HIDE DEF x
    <3> QED
      BY <1>1, <1>7, <2>1, CallType DEF GetRecord
  <2>3. human' = [human EXCEPT ![a] = c]
    BY <1>1, <1>7 DEF GetRecord
  <2>4. human' \in [User -> Call]
    BY <1>1, <2>2, <2>3
  <2> QED
    BY <1>0, <1>7, <2>4 DEF GetRecord, TeleportTypeOK, BrokerTypeOK, config, history, teleportVars
<1>8. ASSUME NEW a \in User, PutDecision(a)
      PROVE  TypeOK'
  <2> DEFINE c == human[a]  x == Settle(c.copy, c.res, c.mode)
             d == [c EXCEPT !.phase = "notify", !.copy = x]
  <2>1. c \in Call /\ c.phase # "idle" /\ c.req \in Request /\ c.res \in Verdict
        /\ c.mode \in Mode /\ c.copy \in Record
    BY <1>1, <1>2, <1>8 DEF PutDecision, Verdict
  <2>2. x \in Record
    BY <1>0, <2>1, RecordType
  <2>3. /\ rec' = [rec EXCEPT ![c.req] = x]
        /\ human' = [human EXCEPT ![a].phase = "notify", ![a].copy = x]
        /\ UNCHANGED <<teleportVars, config, up, job, todo, raised, outgoing, history, mishaps>>
    BY <1>8 DEF PutDecision
  <2> HIDE DEF x
  <2>4. d \in Call
    BY <2>1, <2>2, CallType
  <2>5. human' = [human EXCEPT ![a] = d]
    BY <1>1, <2>3
  <2> HIDE DEF c, d
  <2>6. rec' \in [Request -> Record] /\ human' \in [User -> Call]
    BY <1>1, <2>1, <2>2, <2>3, <2>4, <2>5
  <2> QED
    BY <1>0, <2>3, <2>6 DEF TeleportTypeOK, BrokerTypeOK, config, history, teleportVars
<1>9. ASSUME NEW a \in User, NotifyDecision(a)
      PROVE  TypeOK'
  <2>1. human[a].req \in Request /\ human[a].copy \in Record /\ Raise(human[a].req, human[a].copy)
    BY <1>2, <1>9 DEF NotifyDecision
  <2>2. raised' \subseteq Announcement /\ IsFiniteSet(raised') /\ outgoing' \subseteq raised'
    BY <1>0, <2>1, RaiseType DEF BrokerTypeOK, config, history
  <2>3. human' \in [User -> Call]
    BY <1>1, <1>9 DEF NotifyDecision
  <2> QED
    BY <1>0, <1>9, <2>2, <2>3 DEF NotifyDecision, TeleportTypeOK, BrokerTypeOK, config, history, teleportVars
<1> QED
  BY <1>4, <1>5, <1>6, <1>7, <1>8, <1>9 DEF People, Finish

LEMMA RestType ==
  ASSUME TypeOK, Housekeeping \/ Start \/ Failures
  PROVE  TypeOK'
<1> USE DEF TypeOK
<1>0. now \in Nat /\ TeleportTypeOK /\ BrokerTypeOK
  BY DEF TeleportTypeOK
<1>1. CASE Prune
  <2>1. rec' \in [Request -> Record]
    BY <1>0, <1>1, RecordType DEF Prune, BrokerTypeOK, config, history
  <2> QED
    BY <1>0, <1>1, <2>1 DEF Prune, TeleportTypeOK, BrokerTypeOK, config, history, teleportVars
<1>2. ASSUME NEW ev \in outgoing, SendEnds(ev)
      PROVE  TypeOK'
  <2>1. outgoing' \subseteq outgoing /\ unheard' \subseteq Request /\ mishaps' \in Nat
    BY <1>0, <1>2 DEF SendEnds, Delivered, SendFails, history, BrokerTypeOK, Announcement
  <2> QED
    BY <1>0, <1>2, <2>1
       DEF SendEnds, Delivered, SendFails, TeleportTypeOK, BrokerTypeOK, config, history, teleportVars
<1>3. CASE Start
  BY <1>0, <1>3 DEF Start, TeleportTypeOK, BrokerTypeOK, config, history, teleportVars
<1>4. <<>> \in Seq(Event)
  OBVIOUS
<1>5. CASE Disconnect
  <2>1. stream' \in Seq(Event)
    BY <1>4, <1>5 DEF Disconnect
  <2>2. mishaps' \in Nat
    BY <1>0, <1>5 DEF Disconnect, BrokerTypeOK, config, history
  <2>3. TeleportTypeOK'
    BY <1>0, <1>5, <2>1 DEF Disconnect, TeleportTypeOK
  <2> QED
    BY <1>0, <1>5, <2>2, <2>3 DEF Disconnect, BrokerTypeOK, config, history
<1>6. CASE Crash
  <2>1. rec' \in [Request -> Record]
    BY <1>0, <1>6, RecordType DEF Crash, BrokerTypeOK, config, history
  <2>2. job' \in Job /\ human' \in [User -> Call]
    BY <1>6, IdleType DEF Crash
  <2>3. stream' \in Seq(Event)
    BY <1>4, <1>6 DEF Crash
  <2>4. TeleportTypeOK'
    BY <1>0, <1>6, <2>3 DEF Crash, TeleportTypeOK
  <2>5. raised' \subseteq Announcement /\ IsFiniteSet(raised') /\ outgoing' \subseteq raised'
    BY <1>0, <1>6 DEF Crash, BrokerTypeOK, config, history
  <2>6. up' \in BOOLEAN /\ todo' \subseteq Request /\ approvals' \in Approvals /\ source' \in Sources
    BY <1>0, <1>6 DEF Crash, BrokerTypeOK, config, history
  <2>7. mishaps' \in Nat /\ overlooked' \subseteq Request
    BY <1>0, <1>6 DEF Crash, BrokerTypeOK, config, history
  <2>8. unheard' \subseteq Request
    <3>1. \A ev \in outgoing : ev.req \in Request
      BY <1>0 DEF BrokerTypeOK, Announcement
    <3>2. job.phase = "notify" => job.req \in Request
      BY <1>0 DEF BrokerTypeOK, Job
    <3>3. \A a \in User : human[a].phase = "notify" => human[a].req \in Request
      BY <1>0, CallType DEF BrokerTypeOK
    <3>4. Untold \subseteq Request
      BY <3>1, <3>2, <3>3 DEF Untold
    <3> QED
      BY <1>0, <1>6, <3>4 DEF Crash, BrokerTypeOK
  <2> QED
    BY <2>1, <2>2, <2>4, <2>5, <2>6, <2>7, <2>8 DEF BrokerTypeOK, config, history
<1> QED
  BY <1>1, <1>2, <1>3, <1>5, <1>6 DEF Housekeeping, Failures

\* Every variable of the broker and of Teleport keeps its type.
THEOREM TypeCorrect == Spec => []TypeOK
<1>1. Init => TypeOK
  <2> SUFFICES ASSUME Init PROVE TypeOK
    OBVIOUS
  <2>1. TeleportTypeOK
    <3>1. stream \in Seq(Event)
      BY DEF Init, TeleportInit
    <3> QED
      BY <3>1 DEF Init, TeleportInit, TeleportTypeOK, State
  <2>2. now \in Nat
    BY <2>1 DEF TeleportTypeOK
  <2>3. IsFiniteSet(raised)
    BY FS_EmptySet DEF Init, BrokerInit
  <2> QED
    BY <2>1, <2>2, <2>3, RecordType, IdleType DEF Init, BrokerInit, BrokerTypeOK, TypeOK
<1>2. TypeOK /\ [Next]_vars => TypeOK'
  <2> SUFFICES ASSUME TypeOK, [Next]_vars PROVE TypeOK'
    OBVIOUS
  <2>1. CASE UNCHANGED vars
    BY <2>1 DEF vars, teleportVars, brokerVars, config, history, TypeOK, TeleportTypeOK, BrokerTypeOK
  <2> QED
    BY <2>1, WorldType, WatcherType, PeopleType, RestType DEF Next
<1> QED
  BY <1>1, <1>2, PTL DEF Spec

-----------------------------------------------------------------------------
(* Decisions are recorded and announced as Teleport made them, where one   *)
(* decision is enough and nobody promotes requests.                        *)

\* States are set, or one review is enough.
OneDecides == "review" \in Approvals => Threshold = 1

VotesFinite == \A r \in Request : IsFiniteSet(votes[r])

\* A decision put to Teleport adds a review at most.
LEMMA VoteAdded ==
  ASSUME TypeOK, VotesFinite, NEW author, NEW r \in Request, NEW s, NEW m,
         Resolve(author, r, s, m) \/ CallFails(author, r, s, m)
  PROVE  VotesFinite'
<1>1. UNCHANGED votes \/ votes' = [votes EXCEPT ![r] = votes[r] \cup {author}]
  BY DEF CallFails, Resolve, Review, SetState, teleportVars
<1>2. IsFiniteSet(votes[r] \cup {author})
  BY FS_AddElement DEF VotesFinite
<1> QED  BY <1>1, <1>2 DEF VotesFinite, TypeOK, TeleportTypeOK

\* Reviews come one by one.
LEMMA VotesStayFinite == ASSUME TypeOK, VotesFinite, [Next]_vars PROVE VotesFinite'
<1>1. CASE UNCHANGED votes
  BY <1>1 DEF VotesFinite
<1>2. CASE AutoResolve \/ AutoFails
  <2>1. job.req \in Request
    BY <1>2 DEF AutoResolve, AutoFails, TypeOK, BrokerTypeOK, Job
  <2> QED  BY <1>2, <2>1, VoteAdded DEF AutoResolve, AutoFails
<1>3. ASSUME NEW a \in User, Apply(a) \/ ApplyFails(a) PROVE VotesFinite'
  <2>1. human[a].req \in Request
    BY <1>3, CallType DEF Apply, ApplyFails, TypeOK, BrokerTypeOK
  <2> QED  BY <1>3, <2>1, VoteAdded DEF Apply, ApplyFails
<1>4. CASE World \/ Housekeeping \/ Start \/ Failures \/ UNCHANGED vars
  <2>1. UNCHANGED votes
    BY <1>4 DEF World, Tick, Submit, Lapse, DecideElsewhere, Housekeeping, Prune, SendEnds, Delivered, SendFails, Start,
                Failures, Disconnect, Crash, teleportVars, vars
  <2> QED  BY <1>1, <2>1
<1>5. CASE Watcher
  <2>1. UNCHANGED votes \/ AutoResolve \/ AutoFails
    BY <1>5 DEF Watcher, Connect, PollDue, List, ListFails, TakeEvent, TakeListed, PutAuto, PutReview,
                PutExternal, PutRecord, Notify, teleportVars
  <2> QED  BY <1>1, <1>2, <2>1
<1>6. CASE People
  <2>1. UNCHANGED votes \/ \E a \in User : Apply(a) \/ ApplyFails(a)
    BY <1>6 DEF People, Finish, GetRecord, PutDecision, NotifyDecision, Decide, teleportVars
  <2> QED  BY <1>1, <1>3, <2>1
<1> QED  BY <1>4, <1>5, <1>6 DEF Next

LEMMA VotesAlways == Spec => [](TypeOK /\ VotesFinite)
<1>1. Init => VotesFinite
  BY FS_EmptySet DEF Init, TeleportInit, VotesFinite
<1>2. TypeOK /\ VotesFinite /\ [Next]_vars => VotesFinite'
  BY VotesStayFinite
<1> QED  BY <1>1, <1>2, TypeCorrect, PTL DEF Spec

\* What was decided stays decided.
Stands == \A r \in Request : state[r] \in {"approved", "denied"} => state'[r] = state[r]

\* A step that leaves Teleport's requests alone.
LEMMA StandsStill ==
  ASSUME UNCHANGED state
  PROVE  Stands
BY DEF Stands

\* One event more, a true one, or none.
LEMMA EventsGrow ==
  ASSUME stream \in Seq(Event), Stands, EventsAreTrue,
         NEW r \in Request, NEW s, s = "pending" \/ (s \in {"approved", "denied"} /\ state'[r] = s),
         Emit(r, s)
  PROVE  EventsAreTrue'
<1> DEFINE e == [req |-> r, st |-> s]
<1>1. \A i \in 1..Len(stream) :
        stream[i].st = "pending" \/
        (stream[i].st \in {"approved", "denied"} /\ state'[stream[i].req] = stream[i].st)
  <2> TAKE i \in 1..Len(stream)
  <2>1. stream[i] \in Event
    OBVIOUS
  <2>2. stream[i].req \in Request
    BY <2>1 DEF Event
  <2> QED
    BY <2>2 DEF EventsAreTrue, Stands
<1>2. CASE stream' = stream
  BY <1>1, <1>2 DEF EventsAreTrue
<1>3. CASE stream' = Append(stream, e)
  <2> HIDE DEF e
  <2>1. /\ Len(stream') = Len(stream) + 1 /\ Len(stream) \in Nat
        /\ \A i \in 1..Len(stream) : stream'[i] = stream[i]
        /\ stream'[Len(stream) + 1] = e
    BY <1>3
  <2>2. e.req = r /\ e.st = s
    BY DEF e
  <2> QED
    BY <1>1, <2>1, <2>2 DEF EventsAreTrue
<1> QED
  BY <1>2, <1>3 DEF Emit

\* One event fewer, or none left.
LEMMA EventsShrink ==
  ASSUME stream \in Seq(Event), EventsAreTrue, UNCHANGED state,
         stream' = <<>> \/ (stream # <<>> /\ stream' = Tail(stream))
  PROVE  EventsAreTrue'
<1>1. CASE stream' = <<>>
  BY <1>1 DEF EventsAreTrue
<1>2. CASE stream # <<>> /\ stream' = Tail(stream)
  <2>1. Len(stream') = Len(stream) - 1 /\ Len(stream) \in Nat
    BY <1>2
  <2>2. \A i \in 1..Len(stream') : stream'[i] = stream[i + 1]
    BY <1>2
  <2> QED
    BY <2>1, <2>2 DEF EventsAreTrue
<1> QED
  BY <1>1, <1>2

\* A decision put to Teleport: that is it.
LEMMA ResolveTruth ==
  ASSUME OneDecides, TypeOK, VotesFinite, EventsAreTrue,
         NEW author, NEW r \in Request, NEW s \in {"approved", "denied"}, NEW m,
         Resolve(author, r, s, m)
  PROVE  Stands /\ state'[r] = s /\ EventsAreTrue'
<1>0. approvals = "review" => Cardinality(votes[r]) + 1 >= Threshold
  <2>1. Cardinality(votes[r]) \in Nat
    BY FS_CardinalityType DEF VotesFinite
  <2>2. approvals = "review" => Threshold = 1
    BY DEF OneDecides, TypeOK, BrokerTypeOK
  <2> QED  BY <2>1, <2>2
<1>1. state[r] = "pending" /\ Enter(r, s, m)
  BY <1>0 DEF Resolve, Accepted, TakesState, TakesReview, SetState, Review
<1>2. state' = [state EXCEPT ![r] = s] /\ state \in [Request -> State]
  BY <1>1 DEF Enter, TypeOK, TeleportTypeOK
<1>3. Stands /\ state'[r] = s
  BY <1>1, <1>2 DEF Stands
<1>4. stream \in Seq(Event) /\ Emit(r, s)
  BY <1>1 DEF TypeOK, TeleportTypeOK, Enter
<1> QED
  BY <1>3, <1>4, EventsGrow

\* A call that fails, with or without effect.
LEMMA FailTruth ==
  ASSUME OneDecides, TypeOK, VotesFinite, EventsAreTrue,
         NEW author, NEW r \in Request, NEW s \in {"approved", "denied"}, NEW m,
         CallFails(author, r, s, m)
  PROVE  Stands /\ EventsAreTrue'
<1>1. CASE UNCHANGED teleportVars
  BY <1>1, StandsStill DEF teleportVars, EventsAreTrue
<1>2. CASE Resolve(author, r, s, m)
  BY <1>2, ResolveTruth
<1> QED
  BY <1>1, <1>2 DEF CallFails

\* What Teleport, time and people elsewhere do.
LEMMA WorldTruth ==
  ASSUME "promoted" \notin Elsewhere, TypeOK, EventsAreTrue, World
  PROVE  Stands /\ EventsAreTrue'
<1>0. state \in [Request -> State] /\ stream \in Seq(Event)
  BY DEF TypeOK, TeleportTypeOK
<1>1. CASE Tick
  BY <1>1, StandsStill DEF Tick, EventsAreTrue
<1>2. ASSUME NEW r \in Request, Submit(r)
      PROVE  Stands /\ EventsAreTrue'
  <2>1. Stands /\ Emit(r, "pending")
    BY <1>0, <1>2 DEF Submit, Stands
  <2> QED
    BY <1>0, <2>1, EventsGrow
<1>3. ASSUME NEW r \in Request, Lapse(r)
      PROVE  Stands /\ EventsAreTrue'
  <2>1. Stands /\ UNCHANGED stream
    BY <1>0, <1>3 DEF Lapse, Stands
  <2>2. \A i \in 1..Len(stream) : stream[i].req \in Request
    <3> TAKE i \in 1..Len(stream)
    <3>1. stream[i] \in Event
      BY <1>0
    <3> QED
      BY <3>1 DEF Event
  <2> QED
    BY <2>1, <2>2 DEF Stands, EventsAreTrue
<1>4. ASSUME NEW r \in Request, NEW s \in Elsewhere, DecideElsewhere(r, s)
      PROVE  Stands /\ EventsAreTrue'
  <2>1. s \in {"approved", "denied"}
    BY TeleportAssumption DEF TeleportAssumption
  <2>2. state[r] = "pending" /\ state' = [state EXCEPT ![r] = s] /\ Emit(r, s)
    BY <1>4 DEF DecideElsewhere, Enter
  <2>3. Stands /\ state'[r] = s
    BY <1>0, <2>2 DEF Stands
  <2> QED
    BY <1>0, <2>1, <2>2, <2>3, EventsGrow
<1> QED
  BY <1>1, <1>2, <1>3, <1>4 DEF World

\* What nobody touches stays true.
LEMMA Carried ==
  ASSUME TypeOK, TruthInv, Stands
  PROVE  /\ UNCHANGED <<rec, raised>> => DecisionsAreTrue'
         /\ UNCHANGED job => JobIsTrue'
         /\ UNCHANGED human => CallsAreTrue'
<1>1. ASSUME UNCHANGED <<rec, raised>>
      PROVE  DecisionsAreTrue'
  <2>1. \A ev \in raised : ev.req \in Request
    BY DEF TypeOK, BrokerTypeOK, Announcement
  <2> QED
    BY <1>1, <2>1 DEF TruthInv, DecisionsAreTrue, Stands
<1>2. ASSUME UNCHANGED job
      PROVE  JobIsTrue'
  <2>1. job.phase \in {"put", "external", "notify"} => job.req \in Request
    BY DEF TypeOK, BrokerTypeOK, Job
  <2>2. Automatic(job.req) \in {"approved", "denied"} /\ Automatic(job'.req) = Automatic(job.req)
    BY <1>2 DEF Automatic
  <2> QED
    BY <1>2, <2>1, <2>2 DEF TruthInv, JobIsTrue, Stands
<1>3. ASSUME UNCHANGED human
      PROVE  CallsAreTrue'
  <2> SUFFICES ASSUME NEW a \in User, human[a].phase \in {"resolved", "put", "notify"}
               PROVE  /\ state'[human[a].req] = human[a].res
                      /\ human[a].phase = "notify" => human[a].copy.res = human[a].res
    BY <1>3 DEF CallsAreTrue
  <2>1. human[a] \in Call
    BY DEF TypeOK, BrokerTypeOK
  <2>2. human[a].req \in Request /\ human[a].res \in {"approved", "denied"}
    BY <2>1, CallType
  <2>3. /\ state[human[a].req] = human[a].res
        /\ human[a].phase = "notify" => human[a].copy.res = human[a].res
    BY DEF TruthInv, CallsAreTrue
  <2> QED
    BY <2>2, <2>3 DEF Stands
<1> QED
  BY <1>1, <1>2, <1>3

\* A true decision is put into the records.
LEMMA PutTruth ==
  ASSUME TypeOK, TruthInv, UNCHANGED <<state, raised>>,
         NEW r \in Request, NEW x \in Record, NEW res \in {"approved", "denied"}, NEW m,
         state[r] = res, rec' = [rec EXCEPT ![r] = Settle(x, res, m)]
  PROVE  DecisionsAreTrue'
<1>1. Settle(x, res, m).res = res
  BY DEF Settle, Record
<1>2. rec \in [Request -> Record]
  BY DEF TypeOK, BrokerTypeOK
<1>3. \A q \in Request : rec'[q].res = rec[q].res \/ (q = r /\ rec'[q].res = res)
  BY <1>1, <1>2
<1>4. \A q \in Request : rec'[q].res \in {"approved", "denied"} => state'[q] = rec'[q].res
  BY <1>3 DEF TruthInv, DecisionsAreTrue
<1> QED
  BY <1>4 DEF TruthInv, DecisionsAreTrue

\* A record is announced: it names a true decision, or none.
LEMMA RaiseTruth ==
  ASSUME TypeOK, TruthInv, UNCHANGED <<state, rec>>, NEW r \in Request, NEW x, Raise(r, x),
         Resolved(x) => x.res \in {"approved", "denied"} /\ state[r] = x.res
  PROVE  DecisionsAreTrue'
<1>1. ASSUME NEW ev \in raised', ev.type = "resolved"
      PROVE  ev.res \in {"approved", "denied"} /\ state'[ev.req] = ev.res
  <2>1. CASE ev \in raised
    BY <1>1, <2>1 DEF TruthInv, DecisionsAreTrue
  <2>2. CASE ev \notin raised
    <3>1. ev = [id |-> Cardinality(raised) + 1, req |-> r, res |-> x.res, mode |-> x.mode,
                type |-> IF Resolved(x) THEN "resolved" ELSE "pending_review"]
      BY <2>2 DEF Raise
    <3>2. ev.req = r /\ ev.res = x.res /\ Resolved(x)
      BY <1>1, <3>1
    <3> QED
      BY <3>2
  <2> QED
    BY <2>1, <2>2
<1> QED
  BY <1>1 DEF TruthInv, DecisionsAreTrue

\* Records that are dropped, called expired, or opened say nothing of a decision.
LEMMA OpenTruth ==
  ASSUME TypeOK, TruthInv, UNCHANGED <<state, raised>>,
         \A r \in Request : rec'[r].res \in {"approved", "denied"} => rec'[r].res = rec[r].res
  PROVE  DecisionsAreTrue'
BY DEF TruthInv, DecisionsAreTrue

LEMMA IdleTruth == ASSUME job' = Idle \/ job'.phase \in {"list", "act"} PROVE JobIsTrue'
BY DEF Idle, JobIsTrue

LEMMA WatcherTruth ==
  ASSUME OneDecides, TypeOK, VotesFinite, TruthInv, Watcher
  PROVE  TruthInv'
<1> USE DEF TruthInv
<1>0. stream \in Seq(Event) /\ rec \in [Request -> Record] /\ job \in Job
  BY DEF TypeOK, TeleportTypeOK, BrokerTypeOK
<1>1. UNCHANGED <<state, stream>> => EventsAreTrue'
  BY DEF EventsAreTrue
<1>2. ASSUME NEW r, Pick(r) PROVE JobIsTrue'
  BY <1>2, IdleTruth DEF Pick, Idle
<1>3. CASE Connect
  BY <1>1, <1>3, StandsStill, Carried, IdleTruth DEF Connect, Idle
<1>4. CASE PollDue
  BY <1>1, <1>4, StandsStill, Carried, IdleTruth DEF PollDue, Idle, teleportVars
<1>5. CASE List \/ ListFails
  BY <1>1, <1>5, StandsStill, Carried, IdleTruth DEF List, ListFails, teleportVars
<1>6. CASE TakeEvent
  <2>1. EventsAreTrue'
    BY <1>0, <1>6, EventsShrink DEF TakeEvent
  <2>2. DecisionsAreTrue' /\ CallsAreTrue'
    BY <1>6, StandsStill, Carried DEF TakeEvent
  <2>3. JobIsTrue'
    <3> DEFINE ev == Head(stream)
    <3>1. CASE ev.st = "pending"
      BY <1>2, <1>6, <3>1 DEF TakeEvent
    <3>2. CASE ev.st # "pending"
      <4>1. PickResolved(ev.req, ev.st) /\ stream # <<>> /\ UNCHANGED state
        BY <1>6, <3>2 DEF TakeEvent
      <4>2. Len(stream) >= 1 /\ ev = stream[1]
        BY <1>0, <4>1
      <4>3. ev.st \in {"approved", "denied"} /\ state[ev.req] = ev.st
        BY <1>0, <3>2, <4>2 DEF EventsAreTrue
      <4>4. \/ job' = Idle
            \/ job' = [phase |-> "external", req |-> ev.req, st |-> ev.st, copy |-> rec[ev.req]]
        BY <4>1 DEF PickResolved
      <4> QED
        BY <4>1, <4>3, <4>4, IdleTruth DEF JobIsTrue
    <3> QED
      BY <3>1, <3>2
  <2> QED
    BY <2>1, <2>2, <2>3
<1>7. ASSUME NEW r \in Request, TakeListed(r)
      PROVE  TruthInv'
  BY <1>1, <1>2, <1>7, StandsStill, Carried DEF TakeListed, teleportVars
<1>8. job.phase \in {"act", "put", "external", "notify"} => job.req \in Request /\ job.copy \in Record
  BY <1>0 DEF Job
<1>9. Automatic(job.req) \in {"approved", "denied"}
  BY DEF Automatic
<1>10. CASE AutoResolve
  <2>1. job.req \in Request
    BY <1>8, <1>10 DEF AutoResolve
  <2>2. Stands /\ state'[job.req] = Automatic(job.req) /\ EventsAreTrue'
    BY <1>9, <1>10, <2>1, ResolveTruth DEF AutoResolve
  <2>3. job' = [job EXCEPT !.phase = "put"]
    BY <1>10 DEF AutoResolve
  <2>4. job'.phase = "put" /\ job'.req = job.req
    BY <1>0, <2>3 DEF Job
  <2>5. JobIsTrue'
    BY <2>2, <2>4 DEF JobIsTrue, Automatic
  <2> QED
    BY <1>10, <2>2, <2>5, Carried DEF AutoResolve
<1>11. CASE AutoFails
  <2>1. job.req \in Request /\ CallFails(Bot, job.req, Automatic(job.req), "auto")
    BY <1>8, <1>11 DEF AutoFails
  <2>2. Stands /\ EventsAreTrue'
    BY <1>9, <2>1, FailTruth
  <2> QED
    BY <1>11, <2>2, Carried, IdleTruth DEF AutoFails
<1>15. ASSUME NEW x, PutRecord(x)
       PROVE  /\ EventsAreTrue' /\ CallsAreTrue' /\ UNCHANGED <<state, raised>>
              /\ rec' = [rec EXCEPT ![job.req] = x]
              /\ job'.phase = "notify" /\ job'.req = job.req /\ job'.copy = x
  <2>1. /\ UNCHANGED <<state, stream, raised, human>> /\ rec' = [rec EXCEPT ![job.req] = x]
        /\ job' = [job EXCEPT !.phase = "notify", !.copy = x]
    BY <1>15 DEF PutRecord, teleportVars
  <2>2. job'.phase = "notify" /\ job'.req = job.req /\ job'.copy = x
    BY <1>0, <2>1 DEF Job
  <2> QED
    BY <1>1, <2>1, <2>2, StandsStill, Carried
<1>16. ASSUME NEW x \in Record, NEW res \in {"approved", "denied"}, NEW m,
              job.req \in Request, state[job.req] = res, PutRecord(Settle(x, res, m))
       PROVE  TruthInv'
  <2> DEFINE y == Settle(x, res, m)
  <2>1. y.res = res
    BY DEF Settle, Record
  <2>2. PutRecord(y)
    BY <1>16
  <2>3. DecisionsAreTrue'
    <3> HIDE DEF TruthInv
    <3> QED
      BY <1>15, <1>16, PutTruth
  <2> HIDE DEF y
  <2>4. JobIsTrue'
    BY <1>15, <1>16, <2>1, <2>2 DEF JobIsTrue
  <2> QED
    BY <1>15, <2>2, <2>3, <2>4
<1>12. CASE PutAuto
  <2>1. job.req \in Request /\ Fresh(TRUE) \in Record
    BY <1>8, <1>12, RecordType DEF PutAuto, TypeOK, TeleportTypeOK
  <2>2. state[job.req] = Automatic(job.req)
    BY <1>12 DEF PutAuto, JobIsTrue
  <2>3. PutRecord(Settle(Fresh(TRUE), Automatic(job.req), "auto"))
    BY <1>12 DEF PutAuto
  <2> QED
    BY <1>9, <1>16, <2>1, <2>2, <2>3
<1>13. CASE PutReview
  <2> DEFINE new == [Fresh(TRUE) EXCEPT !.notified = TRUE]
  <2>1. job.req \in Request /\ PutRecord(new)
    BY <1>8, <1>13 DEF PutReview
  <2>2. new.res = None
    BY DEF Fresh, NoRecord
  <2> HIDE DEF new
  <2>3. \A q \in Request : rec'[q].res \in {"approved", "denied"} => rec'[q].res = rec[q].res
    BY <1>0, <1>15, <2>1, <2>2, BrokerAssumption DEF BrokerAssumption
  <2>4. DecisionsAreTrue'
    <3> HIDE DEF TruthInv
    <3> QED
      BY <1>15, <2>1, <2>3, OpenTruth
  <2>5. JobIsTrue'
    BY <1>15, <2>1, <2>2 DEF JobIsTrue, Resolved
  <2> QED
    BY <1>15, <2>1, <2>4, <2>5
<1>14. CASE PutExternal
  <2>1. /\ job.req \in Request /\ job.copy \in Record
        /\ job.st \in {"approved", "denied"} /\ state[job.req] = job.st
    BY <1>8, <1>14 DEF PutExternal, JobIsTrue
  <2>2. PutRecord(Settle(job.copy, job.st, "external"))
    BY <1>14, <2>1 DEF PutExternal, Seen
  <2> QED
    BY <1>16, <2>1, <2>2
<1>17. CASE Notify
  <2>1. /\ job.phase = "notify" /\ Raise(job.req, job.copy) /\ UNCHANGED <<state, rec>>
        /\ job.req \in Request
    BY <1>0, <1>17 DEF Notify, teleportVars, Job
  <2>2. Resolved(job.copy) => job.copy.res \in {"approved", "denied"} /\ state[job.req] = job.copy.res
    BY <2>1 DEF JobIsTrue
  <2>3. DecisionsAreTrue'
    <3> HIDE DEF TruthInv
    <3> QED
      BY <2>1, <2>2, RaiseTruth
  <2> QED
    BY <1>1, <1>17, <2>3, StandsStill, Carried, IdleTruth DEF Notify, teleportVars
<1> QED
  BY <1>3, <1>4, <1>5, <1>6, <1>7, <1>10, <1>11, <1>12, <1>13, <1>14, <1>17 DEF Watcher

LEMMA PeopleTruth ==
  ASSUME OneDecides, TypeOK, VotesFinite, TruthInv, People
  PROVE  TruthInv'
<1> USE DEF TruthInv
<1>0. human \in [User -> Call] /\ rec \in [Request -> Record]
  BY DEF TypeOK, BrokerTypeOK
<1>1. UNCHANGED <<state, stream>> => EventsAreTrue'
  BY DEF EventsAreTrue
<1>2. ASSUME NEW a \in User, UNCHANGED state, NEW c, human' = [human EXCEPT ![a] = c],
             \/ c.phase \in {"idle", "authorized"}
             \/ state[c.req] = c.res /\ (c.phase = "notify" => c.copy.res = c.res)
      PROVE  CallsAreTrue'
  BY <1>0, <1>2 DEF CallsAreTrue
<1>3. ASSUME NEW a \in User, NEW r \in Request, NEW res \in {"approved", "denied"},
             NEW m \in Caller, Decide(a, r, res, m)
      PROVE  TruthInv'
  <2>1. CallsAreTrue'
    BY <1>2, <1>3 DEF Decide, teleportVars
  <2> QED
    BY <1>1, <1>3, <2>1, StandsStill, Carried DEF Decide, teleportVars
<1>4. ASSUME NEW a \in User, Apply(a)
      PROVE  TruthInv'
  <2> DEFINE c == human[a]
  <2>1. c \in Call /\ c.phase = "authorized"
    BY <1>0, <1>4 DEF Apply
  <2>2. c.req \in Request /\ c.res \in {"approved", "denied"}
    BY <2>1, CallType
  <2>3. Stands /\ state'[c.req] = c.res /\ EventsAreTrue'
    BY <1>4, <2>2, ResolveTruth DEF Apply
  <2>4. /\ \A b \in User :
             /\ human'[b].req = human[b].req /\ human'[b].res = human[b].res
             /\ b # a => human'[b] = human[b]
        /\ human'[a].phase = "resolved"
    BY <1>0, <1>4, <2>1 DEF Apply, Call, NoCall
  <2>5. ASSUME NEW b \in User, human'[b].phase \in {"resolved", "put", "notify"}
        PROVE  /\ state'[human'[b].req] = human'[b].res
               /\ human'[b].phase = "notify" => human'[b].copy.res = human'[b].res
    <3>1. CASE b = a
      BY <2>3, <2>4, <3>1
    <3>2. CASE b # a
      <4>1. human[b].phase \in {"resolved", "put", "notify"} /\ human[b] \in Call
        BY <1>0, <2>4, <2>5, <3>2
      <4>2. human[b].req \in Request /\ human[b].res \in {"approved", "denied"}
        BY <4>1, CallType
      <4> QED
        BY <2>3, <2>4, <4>1, <4>2 DEF Stands, CallsAreTrue
    <3> QED
      BY <3>1, <3>2
  <2> QED
    BY <1>4, <2>3, <2>5, Carried DEF Apply, CallsAreTrue
<1>5. ASSUME NEW a \in User, ApplyFails(a)
      PROVE  TruthInv'
  <2> DEFINE c == human[a]
  <2>1. c \in Call /\ c.phase = "authorized" /\ CallFails(a, c.req, c.res, c.mode)
    BY <1>0, <1>5 DEF ApplyFails
  <2>2. c.req \in Request /\ c.res \in {"approved", "denied"}
    BY <2>1, CallType
  <2>3. Stands /\ EventsAreTrue'
    BY <2>1, <2>2, FailTruth
  <2>4. human' = [human EXCEPT ![a] = NoCall]
    BY <1>5 DEF ApplyFails
  <2>5. ASSUME NEW b \in User, human'[b].phase \in {"resolved", "put", "notify"}
        PROVE  /\ state'[human'[b].req] = human'[b].res
               /\ human'[b].phase = "notify" => human'[b].copy.res = human'[b].res
    <3>1. b # a /\ human'[b] = human[b] /\ human[b] \in Call
      BY <1>0, <2>4, <2>5 DEF NoCall
    <3>2. human[b].req \in Request /\ human[b].res \in {"approved", "denied"}
      BY <2>5, <3>1, CallType
    <3> QED
      BY <2>3, <2>5, <3>1, <3>2 DEF Stands, CallsAreTrue
  <2> QED
    BY <1>5, <2>3, <2>5, Carried DEF ApplyFails, CallsAreTrue
<1>6. ASSUME NEW a \in User, GetRecord(a)
      PROVE  TruthInv'
  <2> DEFINE x == IF rec[human[a].req].known THEN rec[human[a].req] ELSE Fresh(FALSE)
             d == [human[a] EXCEPT !.phase = "put", !.copy = x]
  <2>1. human[a] \in Call /\ human[a].phase = "resolved" /\ state[human[a].req] = human[a].res
    BY <1>0, <1>6 DEF GetRecord, CallsAreTrue
  <2>2. human' = [human EXCEPT ![a] = d]
    BY <1>0, <1>6 DEF GetRecord
  <2> HIDE DEF x
  <2>3. d.phase = "put" /\ d.req = human[a].req /\ d.res = human[a].res
    BY <2>1 DEF Call, NoCall
  <2>4. UNCHANGED <<state, stream, raised, rec, job>>
    BY <1>6 DEF GetRecord, teleportVars
  <2> HIDE DEF d
  <2>5. CallsAreTrue'
    BY <1>2, <2>1, <2>2, <2>3, <2>4
  <2> QED
    BY <1>1, <2>4, <2>5, StandsStill, Carried
<1>7. ASSUME NEW a \in User, PutDecision(a)
      PROVE  TruthInv'
  <2> DEFINE c == human[a]  x == Settle(c.copy, c.res, c.mode)
             d == [c EXCEPT !.phase = "notify", !.copy = x]
  <2>1. c \in Call /\ c.phase = "put"
    BY <1>0, <1>7 DEF PutDecision
  <2>2. c.req \in Request /\ c.res \in {"approved", "denied"} /\ c.copy \in Record
    BY <2>1, CallType
  <2>3. state[c.req] = c.res
    BY <2>1 DEF CallsAreTrue
  <2>4. /\ UNCHANGED <<state, stream, raised, job>> /\ rec' = [rec EXCEPT ![c.req] = x]
        /\ human' = [human EXCEPT ![a] = d]
    BY <1>0, <1>7 DEF PutDecision, teleportVars
  <2>5. DecisionsAreTrue'
    <3> HIDE DEF TruthInv
    <3> QED
      BY <2>2, <2>3, <2>4, PutTruth
  <2>6. x.res = c.res
    BY <2>2 DEF Settle, Record
  <2> HIDE DEF x
  <2>7. d.phase = "notify" /\ d.req = c.req /\ d.res = c.res /\ d.copy = x
    BY <2>1 DEF Call, NoCall
  <2> HIDE DEF c, d
  <2>8. CallsAreTrue'
    BY <1>2, <2>3, <2>4, <2>6, <2>7
  <2> QED
    BY <1>1, <2>4, <2>5, <2>8, StandsStill, Carried
<1>8. ASSUME NEW a \in User, NotifyDecision(a)
      PROVE  TruthInv'
  <2> DEFINE c == human[a]
  <2>1. c \in Call /\ c.phase = "notify"
    BY <1>0, <1>8 DEF NotifyDecision
  <2>2. c.req \in Request /\ c.res \in {"approved", "denied"}
    BY <2>1, CallType
  <2>3. state[c.req] = c.res /\ c.copy.res = c.res
    BY <2>1 DEF CallsAreTrue
  <2>4. /\ UNCHANGED <<state, stream, rec, job>> /\ Raise(c.req, c.copy)
        /\ human' = [human EXCEPT ![a] = NoCall]
    BY <1>8 DEF NotifyDecision, teleportVars
  <2>5. DecisionsAreTrue'
    <3> HIDE DEF TruthInv
    <3> QED
      BY <2>2, <2>3, <2>4, RaiseTruth
  <2>6. CallsAreTrue'
    BY <1>2, <2>4 DEF NoCall
  <2> QED
    BY <1>1, <2>4, <2>5, <2>6, StandsStill, Carried
<1> QED
  BY <1>3, <1>4, <1>5, <1>6, <1>7, <1>8 DEF People, Finish

LEMMA RestTruth ==
  ASSUME TypeOK, TruthInv, Housekeeping \/ Start \/ Failures
  PROVE  TruthInv'
<1> USE DEF TruthInv
<1>0. rec \in [Request -> Record] /\ stream \in Seq(Event)
  BY DEF TypeOK, TeleportTypeOK, BrokerTypeOK
<1>1. UNCHANGED <<state, stream>> => EventsAreTrue'
  BY DEF EventsAreTrue
<1>2. NoRecord.res \notin {"approved", "denied"}
  BY BrokerAssumption DEF BrokerAssumption, NoRecord
<1>3. CASE Prune
  <2>1. \A x \in Record : Pruned(x).res \in {"approved", "denied"} => Pruned(x).res = x.res
    BY <1>2 DEF Pruned, Settle, Record
  <2>2. rec' = [r \in Request |-> Pruned(rec[r])] /\ UNCHANGED <<state, raised>>
    BY <1>3 DEF Prune, teleportVars
  <2>3. DecisionsAreTrue'
    BY <1>0, <2>1, <2>2, OpenTruth
  <2> QED
    BY <1>1, <1>3, <2>3, StandsStill, Carried DEF Prune, teleportVars
<1>4. ASSUME NEW ev \in outgoing, SendEnds(ev)
      PROVE  TruthInv'
  BY <1>1, <1>4, StandsStill, Carried DEF SendEnds, Delivered, SendFails, teleportVars
<1>5. CASE Start
  BY <1>1, <1>5, StandsStill, Carried DEF Start, teleportVars
<1>6. CASE Disconnect
  <2>1. EventsAreTrue'
    BY <1>0, <1>6, EventsShrink DEF Disconnect
  <2> QED
    BY <1>6, <2>1, StandsStill, Carried DEF Disconnect
<1>7. CASE Crash
  <2>1. EventsAreTrue'
    BY <1>0, <1>7, EventsShrink DEF Crash
  <2>2. \A r \in Request : rec'[r].res \in {"approved", "denied"} => rec'[r].res = rec[r].res
    BY <1>0, <1>2, <1>7 DEF Crash
  <2>3. DecisionsAreTrue'
    BY <1>7, <2>2, OpenTruth DEF Crash
  <2>4. JobIsTrue' /\ CallsAreTrue'
    BY <1>7, IdleTruth DEF Crash, CallsAreTrue, NoCall
  <2> QED
    BY <2>1, <2>3, <2>4
<1> QED
  BY <1>3, <1>4, <1>5, <1>6, <1>7 DEF Housekeeping, Failures

LEMMA StepTruth ==
  ASSUME OneDecides, "promoted" \notin Elsewhere, TypeOK, VotesFinite, TruthInv, [Next]_vars
  PROVE  TruthInv'
<1>1. CASE UNCHANGED vars
  <2>1. EventsAreTrue'
    BY <1>1 DEF TruthInv, EventsAreTrue, vars, teleportVars
  <2> QED
    BY <1>1, <2>1, StandsStill, Carried DEF vars, teleportVars, brokerVars, TruthInv
<1>2. CASE World
  <2>1. UNCHANGED brokerVars
    BY <1>2 DEF World
  <2> QED
    BY <1>2, <2>1, WorldTruth, Carried DEF brokerVars, TruthInv
<1> QED
  BY <1>1, <1>2, WatcherTruth, PeopleTruth, RestTruth DEF Next

LEMMA TruthAlways ==
  ASSUME OneDecides, "promoted" \notin Elsewhere
  PROVE  Spec => [](TypeOK /\ VotesFinite /\ TruthInv)
<1>1. Init => TruthInv
  BY BrokerAssumption
     DEF BrokerAssumption, Init, TeleportInit, BrokerInit, NoRecord, Idle, NoCall,
         TruthInv, DecisionsAreTrue, JobIsTrue, CallsAreTrue, EventsAreTrue
<1>2. TypeOK /\ VotesFinite /\ TruthInv /\ [Next]_vars => TruthInv'
  BY StepTruth
<1> QED
  BY <1>1, <1>2, VotesAlways, PTL DEF Spec

\* Where one decision is enough, and nobody promotes requests, the broker never records or
\* announces a decision Teleport did not make: TruthInv is inductive.
THEOREM DecisionsTrue ==
  ASSUME OneDecides, "promoted" \notin Elsewhere
  PROVE  Spec => []DecisionsAreTrue
<1>1. TruthInv => DecisionsAreTrue
  BY DEF TruthInv
<1> QED
  BY <1>1, TruthAlways, PTL

-----------------------------------------------------------------------------
(* The broker implements AccessPromise. *)

\* What the promise's variables stand for, besides RulingOf.
AskedOf == {r \in Request : Asks(r) # {}}
ToldOf == [r \in Request |-> {ev.res : ev \in {x \in raised : x.type = "resolved" /\ x.req = r}}]

\* How a request changes at Teleport.
Moves(q, s) ==
  /\ state' = [state EXCEPT ![q] = s]
  /\ \/ state[q] = "none" /\ s = "pending"
     \/ state[q] = "pending" /\ s \in {"approved", "denied", "gone"}

LEMMA ResolveMoves ==
  ASSUME NEW author, NEW r \in Request, NEW s \in {"approved", "denied"}, NEW m,
         Resolve(author, r, s, m) \/ CallFails(author, r, s, m)
  PROVE  UNCHANGED state \/ Moves(r, s)
BY DEF CallFails, Resolve, Accepted, TakesState, TakesReview, Review, SetState, Enter, Moves, teleportVars

LEMMA StepMoves ==
  ASSUME "promoted" \notin Elsewhere, TypeOK, [Next]_vars
  PROVE  UNCHANGED state \/ \E r \in Request, s \in State : Moves(r, s)
<1>1. CASE World
  <2>1. CASE Tick
    BY <2>1 DEF Tick
  <2>2. ASSUME NEW r \in Request, Submit(r) \/ Lapse(r) \/ \E s \in Elsewhere : DecideElsewhere(r, s)
        PROVE  \E s \in State : Moves(r, s)
    <3>1. \A s \in Elsewhere : s \in {"approved", "denied"}
      BY TeleportAssumption
    <3> QED  BY <2>2, <3>1 DEF Submit, Lapse, DecideElsewhere, Enter, Moves, State
  <2> QED  BY <1>1, <2>1, <2>2 DEF World
<1>2. CASE AutoResolve \/ AutoFails
  <2>1. job.req \in Request
    BY <1>2 DEF AutoResolve, AutoFails, TypeOK, BrokerTypeOK, Job
  <2>2. Automatic(job.req) \in {"approved", "denied"} /\ Automatic(job.req) \in State
    BY DEF Automatic, State
  <2>3. UNCHANGED state \/ Moves(job.req, Automatic(job.req))
    BY <1>2, <2>1, <2>2, ResolveMoves DEF AutoResolve, AutoFails
  <2> QED  BY <2>1, <2>2, <2>3
<1>3. ASSUME NEW a \in User, Apply(a) \/ ApplyFails(a)
      PROVE  UNCHANGED state \/ \E r \in Request, s \in State : Moves(r, s)
  <2>1. human[a].req \in Request /\ human[a].res \in {"approved", "denied"} /\ human[a].res \in State
    BY <1>3, CallType DEF Apply, ApplyFails, TypeOK, BrokerTypeOK, State
  <2>2. UNCHANGED state \/ Moves(human[a].req, human[a].res)
    BY <1>3, <2>1, ResolveMoves DEF Apply, ApplyFails
  <2> QED  BY <2>1, <2>2
<1>4. CASE Housekeeping \/ Start \/ Failures \/ UNCHANGED vars
  BY <1>4 DEF Housekeeping, Prune, SendEnds, Delivered, SendFails, Start, Failures, Disconnect, Crash, teleportVars, vars
<1>5. CASE Watcher
  <2>1. UNCHANGED state \/ AutoResolve \/ AutoFails
    BY <1>5 DEF Watcher, Connect, PollDue, List, ListFails, TakeEvent, TakeListed, PutAuto, PutReview,
                PutExternal, PutRecord, Notify, teleportVars
  <2> QED  BY <1>2, <2>1
<1>6. CASE People
  <2>1. UNCHANGED state \/ \E a \in User : Apply(a) \/ ApplyFails(a)
    BY <1>6 DEF People, Finish, GetRecord, PutDecision, NotifyDecision, Decide, teleportVars
  <2> QED  BY <1>3, <2>1
<1> QED  BY <1>1, <1>4, <1>5, <1>6 DEF Next

\* Announcements are made by notify, which leaves Teleport's requests alone.
LEMMA StepRaises ==
  ASSUME TypeOK, [Next]_vars
  PROVE  UNCHANGED raised \/ (UNCHANGED state /\ \E r \in Request : \E x : Raise(r, x))
<1>1. CASE World \/ Housekeeping \/ Start \/ Failures \/ UNCHANGED vars
  BY <1>1 DEF World, Housekeeping, Prune, SendEnds, Delivered, SendFails, Start, Failures, Disconnect, Crash,
              brokerVars, vars
<1>2. CASE Watcher
  <2>1. UNCHANGED raised \/ Notify
    BY <1>2 DEF Watcher, Connect, PollDue, List, ListFails, TakeEvent, TakeListed, AutoResolve, AutoFails,
                PutAuto, PutReview, PutExternal, PutRecord, brokerVars
  <2>2. ASSUME Notify
        PROVE  UNCHANGED state /\ job.req \in Request /\ Raise(job.req, job.copy)
    BY <2>2 DEF Notify, teleportVars, TypeOK, BrokerTypeOK, Job
  <2> QED  BY <2>1, <2>2
<1>3. CASE People
  <2>1. UNCHANGED raised \/ \E a \in User : NotifyDecision(a)
    BY <1>3 DEF People, Finish, Apply, ApplyFails, GetRecord, PutDecision, Decide
  <2>2. ASSUME NEW a \in User, NotifyDecision(a)
        PROVE  UNCHANGED state /\ human[a].req \in Request /\ Raise(human[a].req, human[a].copy)
    BY <2>2, CallType DEF NotifyDecision, teleportVars, TypeOK, BrokerTypeOK
  <2> QED  BY <2>1, <2>2
<1> QED  BY <1>1, <1>2, <1>3 DEF Next

LEMMA PromiseParts ==
  /\ Promise!PromiseInit <=>
       RulingOf = [r \in Request |-> "open"] /\ AskedOf = {} /\ ToldOf = [r \in Request |-> {}]
  /\ UNCHANGED <<RulingOf, AskedOf, ToldOf>> => UNCHANGED Promise!promiseVars
  /\ \A r \in Request :
       /\ \A v \in {"approved", "denied", "lapsed"} :
            RulingOf[r] = "open" /\ RulingOf' = [RulingOf EXCEPT ![r] = v] /\ UNCHANGED <<AskedOf, ToldOf>>
              => Promise!PromiseNext
       /\ r \notin AskedOf /\ AskedOf' = AskedOf \cup {r} /\ UNCHANGED <<RulingOf, ToldOf>>
              => Promise!PromiseNext
       /\ RulingOf[r] \in {"approved", "denied"} /\ ToldOf' = [ToldOf EXCEPT ![r] = {RulingOf[r]}]
            /\ UNCHANGED <<RulingOf, AskedOf>>
              => Promise!PromiseNext
BY DEF Promise!PromiseInit, Promise!promiseVars, Promise!PromiseNext, Promise!Rule, Promise!Ask, Promise!Tell,
       Promise!Ruling, AskedOf, ToldOf

LEMMA StepKept ==
  ASSUME "promoted" \notin Elsewhere, TypeOK, DecisionsAreTrue', [Next]_vars
  PROVE  [Promise!PromiseNext]_(Promise!promiseVars)
<1>0. state \in [Request -> State]
  BY DEF TypeOK, TeleportTypeOK
<1>1. CASE UNCHANGED raised
  <2>1. UNCHANGED <<AskedOf, ToldOf>>
    BY <1>1 DEF AskedOf, ToldOf, Asks
  <2>2. CASE UNCHANGED state
    <3>1. UNCHANGED RulingOf
      BY <2>2 DEF RulingOf
    <3> QED  BY <2>1, <3>1, PromiseParts
  <2>3. ASSUME NEW r \in Request, NEW s \in State, Moves(r, s)
        PROVE  [Promise!PromiseNext]_(Promise!promiseVars)
    <3>1. CASE s = "pending"
      <4>1. UNCHANGED RulingOf
        BY <1>0, <2>3, <3>1 DEF Moves, RulingOf
      <4> QED  BY <2>1, <4>1, PromiseParts
    <3>2. CASE s # "pending"
      <4> DEFINE v == IF s = "gone" THEN "lapsed" ELSE s
      <4>1. v \in {"approved", "denied", "lapsed"} /\ RulingOf[r] = "open"
        BY <2>3, <3>2 DEF Moves, RulingOf
      <4>2. RulingOf' = [RulingOf EXCEPT ![r] = v]
        BY <1>0, <2>3, <3>2 DEF Moves, RulingOf
      <4> HIDE DEF v
      <4> QED  BY <2>1, <4>1, <4>2, PromiseParts
    <3> QED  BY <3>1, <3>2
  <2> QED  BY <2>2, <2>3, StepMoves
<1>2. ASSUME UNCHANGED state,
             NEW r \in Request, NEW y, Raise(r, y)
      PROVE  [Promise!PromiseNext]_(Promise!promiseVars)
  <2> DEFINE type == IF Resolved(y) THEN "resolved" ELSE "pending_review"
             ev == [id |-> Cardinality(raised) + 1, req |-> r, res |-> y.res, mode |-> y.mode, type |-> type]
             res == y.res
  <2>0. type \in {"pending_review", "resolved"}
    OBVIOUS
  <2>1. raised' = raised \cup {ev} /\ ev.type = type /\ ev.req = r /\ ev.res = res
    BY <1>2 DEF Raise
  <2>2. UNCHANGED RulingOf
    BY <1>2 DEF RulingOf
  <2> HIDE DEF ev, type, res
  <2>3. CASE type = "pending_review"
    <3>1. UNCHANGED ToldOf
      BY <2>1, <2>3 DEF ToldOf
    <3>2. AskedOf' = AskedOf \cup {r}
      BY <2>1, <2>3 DEF AskedOf, Asks
    <3>3. CASE r \in AskedOf
      <4>1. UNCHANGED AskedOf
        BY <3>2, <3>3
      <4> QED  BY <2>2, <3>1, <4>1, PromiseParts
    <3> QED  BY <2>2, <3>1, <3>2, <3>3, PromiseParts
  <2>4. CASE type = "resolved"
    <3>1. UNCHANGED AskedOf
      BY <2>1, <2>4 DEF AskedOf, Asks
    <3>2. /\ state[r] \in {"approved", "denied"} /\ res = state[r]
          /\ \A x \in raised : x.type = "resolved" /\ x.req = r => x.res = state[r]
      BY <1>2, <2>1, <2>4 DEF DecisionsAreTrue
    <3>3. RulingOf[r] = state[r]
      BY <3>2 DEF RulingOf
    <3>4. ToldOf' = [ToldOf EXCEPT ![r] = {state[r]}]
      <4>1. \A q \in Request \ {r} : ToldOf'[q] = ToldOf[q]
        BY <2>1 DEF ToldOf
      <4>2. ToldOf'[r] = {state[r]}
        BY <2>1, <2>4, <3>2 DEF ToldOf
      <4> QED  BY <4>1, <4>2 DEF ToldOf
    <3> QED  BY <2>2, <3>1, <3>2, <3>3, <3>4, PromiseParts
  <2> QED  BY <2>0, <2>3, <2>4
<1> QED  BY <1>1, <1>2, StepRaises

\* Where one decision is enough and nobody promotes, the broker keeps its promise: what it
\* announces are Teleport's rulings, and every other step is a ruling, a first question, or nothing.
THEOREM KeepsPromise ==
  ASSUME OneDecides, "promoted" \notin Elsewhere
  PROVE  Spec => PromiseKept
<1>1. Init => Promise!PromiseInit
  <2> SUFFICES ASSUME Init PROVE Promise!PromiseInit
    OBVIOUS
  <2>1. state = [r \in Request |-> "none"] /\ raised = {}
    BY DEF Init, TeleportInit, BrokerInit
  <2>2. RulingOf = [r \in Request |-> "open"] /\ AskedOf = {} /\ ToldOf = [r \in Request |-> {}]
    BY <2>1 DEF RulingOf, AskedOf, ToldOf, Asks
  <2> QED  BY <2>2, PromiseParts
<1>2. TypeOK /\ TruthInv' /\ [Next]_vars => [Promise!PromiseNext]_(Promise!promiseVars)
  BY StepKept DEF TruthInv
<1> QED  BY <1>1, <1>2, TruthAlways, PTL DEF Spec, PromiseKept, Promise!PromiseSpec

-----------------------------------------------------------------------------
(* Approvers are asked once, whatever Teleport takes for a decision: what  *)
(* the broker was told of a request does not go before the request does.  *)

\* The watcher may yet take the request for a pending one.
Hot(r) == r \in todo \/ \E i \in DOMAIN stream : stream[i] = [req |-> r, st |-> "pending"]

\* The watcher has put it down that approvers are asked, and is about to ask them.
Asking(r) == job.phase = "notify" /\ job.req = r /\ ~Resolved(job.copy)

Asked(r) == Asks(r) # {} \/ Asking(r)

\* A request that approvers were asked about, or are about to be, and that may be picked up again, has a record that
\* says so: that record is dropped ResolvedAfter a resolution at the earliest, which is not made
\* before the request is, and Teleport has let go of the request by then.
AskedOK ==
  \A r \in Request :
    /\ Asked(r) /\ (Hot(r) \/ state[r] = "pending") => Handled(rec[r])
    /\ Cardinality(Asks(r)) <= 1
    /\ Hot(r) \/ Asked(r) \/ rec[r].known => state[r] # "none"
    /\ born[r] <= now
    /\ Hot(r) \/ state[r] = "pending" => now <= born[r] + Lifetime
    /\ rec[r].known /\ Resolved(rec[r]) => born[r] <= rec[r].resolvedAt

AskJobOK ==
  /\ job.phase = "act" => ~Asked(job.req)
  /\ job.phase = "notify" /\ ~Resolved(job.copy) => Asks(job.req) = {}
  /\ job.phase \in {"act", "put", "external", "notify"} => state[job.req] # "none"
  /\ job.phase = "external" => job.copy.known

AskCallsOK ==
  \A a \in User :
    /\ human[a].phase # "idle" => state[human[a].req] # "none"
    /\ human[a].phase = "put" => human[a].copy.known
    /\ human[a].phase = "notify" => Resolved(human[a].copy)

AskInv == AskedOK /\ AskJobOK /\ AskCallsOK

\* A record that says the request was handled, if it speaks of now.
Speaks(x) == x.known /\ (x.notified \/ Resolved(x)) /\ (Resolved(x) => x.resolvedAt = now)

\* A request once made is not unmade.
Remains == \A r \in Request : state[r] # "none" => state'[r] # "none"

\* No request is asked about, or put down as asked about, for the first time.
AsksNothing == \A r \in Request : Asks(r)' = Asks(r) /\ (Asked(r)' => Asked(r))

\* No question is added by the announcement of a decision.
LEMMA AnnounceAsks ==
  ASSUME NEW q \in Request, NEW x, Resolved(x), Raise(q, x), UNCHANGED job \/ job'.phase # "notify"
  PROVE  AsksNothing
<1> DEFINE ev == [id |-> Cardinality(raised) + 1, req |-> q, res |-> x.res, mode |-> x.mode,
                  type |-> IF Resolved(x) THEN "resolved" ELSE "pending_review"]
<1>1. raised' = raised \cup {ev} /\ ev.type # "pending_review"
  BY DEF Raise
<1> HIDE DEF ev
<1>2. \A r \in Request : Asks(r)' = Asks(r)
  BY <1>1 DEF Asks
<1> QED  BY <1>2 DEF AsksNothing, Asked, Asking, Resolved

LEMMA SameAsks ==
  ASSUME UNCHANGED raised,
         UNCHANGED job \/ job'.phase # "notify" \/ (job'.phase = "notify" /\ Resolved(job'.copy))
  PROVE  AsksNothing
<1>1. \A r \in Request : Asks(r)' = Asks(r)
  BY DEF Asks
<1> QED  BY <1>1 DEF AsksNothing, Asked, Asking, Resolved

\* A step that asks nothing, makes no request, and leaves records that speak of now, or what
\* Prune leaves.
LEMMA AskedKeeps ==
  ASSUME Lifetime <= ResolvedAfter, TypeOK, AskedOK,
         UNCHANGED <<now, born>>, Remains, AsksNothing,
         \A r \in Request : state'[r] = "pending" => state[r] = "pending",
         \A r \in Request : Hot(r)' => Hot(r) \/ state[r] = "pending",
         \A r \in Request : \/ rec'[r] = rec[r]
                            \/ state[r] # "none" /\ Speaks(rec'[r])
                            \/ rec'[r] = Pruned(rec[r])
  PROVE  AskedOK'
<1> SUFFICES ASSUME NEW r \in Request
             PROVE  /\ Asked(r)' /\ (Hot(r)' \/ state'[r] = "pending") => Handled(rec[r])'
                    /\ Cardinality(Asks(r)') <= 1
                    /\ Hot(r)' \/ Asked(r)' \/ rec'[r].known => state'[r] # "none"
                    /\ born'[r] <= now'
                    /\ Hot(r)' \/ state'[r] = "pending" => now' <= born'[r] + Lifetime
                    /\ rec'[r].known /\ Resolved(rec'[r]) => born'[r] <= rec'[r].resolvedAt
  BY DEF AskedOK
<1>1. /\ now \in Nat /\ born[r] \in Nat /\ rec[r] \in Record /\ rec[r].resolvedAt \in Nat
      /\ Lifetime \in Nat /\ ResolvedAfter \in Nat
  BY TeleportAssumption, BrokerAssumption DEF TypeOK, TeleportTypeOK, BrokerTypeOK, Record
<1>2. /\ Asked(r) /\ (Hot(r) \/ state[r] = "pending") => Handled(rec[r])
      /\ Cardinality(Asks(r)) <= 1
      /\ Hot(r) \/ Asked(r) \/ rec[r].known => state[r] # "none"
      /\ born[r] <= now
      /\ Hot(r) \/ state[r] = "pending" => now <= born[r] + Lifetime
      /\ rec[r].known /\ Resolved(rec[r]) => born[r] <= rec[r].resolvedAt
  BY DEF AskedOK
<1>3. (Asked(r)' => Asked(r)) /\ Cardinality(Asks(r)') <= 1
  BY <1>2 DEF AsksNothing
<1>4. Hot(r)' \/ state'[r] = "pending" => Hot(r) \/ state[r] = "pending"
  OBVIOUS
<1>5. /\ Asked(r)' /\ (Hot(r)' \/ state'[r] = "pending") => Handled(rec'[r])
      /\ rec'[r].known => state[r] # "none"
      /\ rec'[r].known /\ Resolved(rec'[r]) => born[r] <= rec'[r].resolvedAt
  <2>1. CASE rec'[r] = rec[r]
    BY <1>2, <1>3, <1>4, <2>1
  <2>2. CASE state[r] # "none" /\ Speaks(rec'[r])
    BY <1>2, <2>2 DEF Speaks, Handled
  <2>3. CASE rec'[r] = Pruned(rec[r])
    <3>1. CASE rec[r].known /\ Resolved(rec[r]) /\ now - rec[r].resolvedAt > ResolvedAfter
      <4>1. rec'[r] = NoRecord
        BY <2>3, <3>1 DEF Pruned
      <4>2. ~(Hot(r) \/ state[r] = "pending")
        BY <1>1, <1>2, <3>1
      <4> QED  BY <1>4, <4>1, <4>2 DEF NoRecord
    <3>2. CASE rec'[r] = Settle(rec[r], "expired", "external") /\ rec[r].known
      <4>1. rec'[r].known /\ rec'[r].res = "expired" /\ rec'[r].resolvedAt = now
        BY <1>1, <3>2 DEF Settle, Record
      <4> QED  BY <1>2, <3>2, <4>1, BrokerAssumption DEF Handled, Resolved
    <3>3. CASE rec'[r] = rec[r]
      BY <2>1, <3>3
    <3> QED  BY <2>3, <3>1, <3>2, <3>3 DEF Pruned
  <2> QED  BY <2>1, <2>2, <2>3
<1> QED  BY <1>2, <1>3, <1>4, <1>5 DEF Remains

LEMMA AskJobStays ==
  ASSUME TypeOK, AskJobOK, UNCHANGED job, Remains, AsksNothing
  PROVE  AskJobOK'
<1>1. job.phase \in {"act", "put", "external", "notify"} => job.req \in Request
  BY DEF TypeOK, BrokerTypeOK, Job
<1> QED  BY <1>1 DEF AskJobOK, AsksNothing, Remains, Resolved

LEMMA AskJobIdle == ASSUME job' = Idle \/ job'.phase = "list" PROVE AskJobOK'
BY DEF Idle, AskJobOK

LEMMA AskCallsStay == ASSUME TypeOK, AskCallsOK, UNCHANGED human, Remains PROVE AskCallsOK'
<1>1. \A a \in User : human[a].phase # "idle" => human[a].req \in Request
  BY CallType DEF TypeOK, BrokerTypeOK
<1> QED  BY <1>1 DEF AskCallsOK, Remains

\* An event on its way does not disturb the others.
LEMMA EmitHot ==
  ASSUME TypeOK, UNCHANGED todo, NEW q \in Request, NEW st \in State, Emit(q, st), NEW r \in Request, Hot(r)'
  PROVE  Hot(r) \/ (r = q /\ st = "pending")
<1>1. stream \in Seq(Event)
  BY DEF TypeOK, TeleportTypeOK
<1>2. CASE r \in todo'
  BY <1>2 DEF Hot
<1>3. CASE \E i \in DOMAIN stream' : stream'[i] = [req |-> r, st |-> "pending"]
  <2>1. PICK i \in DOMAIN stream' : stream'[i] = [req |-> r, st |-> "pending"]
    BY <1>3
  <2>2. CASE stream' = stream
    BY <2>1, <2>2 DEF Hot
  <2>3. CASE stream' = Append(stream, [req |-> q, st |-> st])
    <3>1. (i \in DOMAIN stream /\ stream'[i] = stream[i]) \/ stream'[i] = [req |-> q, st |-> st]
      BY <1>1, <2>1, <2>3
    <3> QED  BY <2>1, <3>1 DEF Hot
  <2> QED  BY <2>2, <2>3 DEF Emit
<1> QED  BY <1>2, <1>3 DEF Hot

LEMMA ResolveAsks ==
  ASSUME TypeOK, UNCHANGED todo, NEW author, NEW q \in Request, NEW s \in {"approved", "denied"}, NEW m,
         Resolve(author, q, s, m)
  PROVE  /\ Remains /\ UNCHANGED <<now, born>>
         /\ \A r \in Request : state'[r] = "pending" => state[r] = "pending"
         /\ \A r \in Request : Hot(r)' => Hot(r) \/ state[r] = "pending"
<1>1. state \in [Request -> State] /\ s \in State /\ "pending" \in State
  BY DEF TypeOK, TeleportTypeOK, State
<1>2. state[q] = "pending"
  BY DEF Resolve, Accepted, TakesReview, TakesState
<1>3. \/ state' = [state EXCEPT ![q] = s] /\ Emit(q, s) /\ UNCHANGED <<now, born>>
      \/ Emit(q, "pending") /\ UNCHANGED <<now, born, state>>
  BY DEF Resolve, Review, SetState, Enter
<1>4. \A r \in Request : Hot(r)' => Hot(r) \/ r = q
  BY <1>1, <1>3, EmitHot
<1> QED  BY <1>1, <1>2, <1>3, <1>4 DEF Remains

LEMMA SameHot == ASSUME UNCHANGED <<todo, stream>> PROVE \A r \in Request : Hot(r)' = Hot(r)
  BY DEF Hot

LEMMA FewerHot ==
  ASSUME TypeOK, todo' \subseteq todo, stream' = <<>> \/ (stream # <<>> /\ stream' = Tail(stream)) \/ UNCHANGED stream
  PROVE  \A r \in Request : Hot(r)' => Hot(r)
<1> SUFFICES ASSUME NEW r \in Request, NEW i \in DOMAIN stream', stream'[i] = [req |-> r, st |-> "pending"]
             PROVE  \E j \in DOMAIN stream : stream[j] = [req |-> r, st |-> "pending"]
  BY DEF Hot
<1>1. stream \in Seq(Event)
  BY DEF TypeOK, TeleportTypeOK
<1>2. CASE stream' = <<>>
  BY <1>2
<1>3. CASE stream # <<>> /\ stream' = Tail(stream)
  <2>1. i + 1 \in DOMAIN stream /\ stream[i + 1] = stream'[i]
    BY <1>1, <1>3
  <2> QED  BY <2>1
<1>4. CASE UNCHANGED stream
  BY <1>4
<1> QED  BY <1>2, <1>3, <1>4

\* Time passes only when nothing is on its way, and Teleport lets go in time.
LEMMA TickAsks == ASSUME AskedOK, TypeOK, Tick, Quiet, UNCHANGED brokerVars PROVE AskedOK'
<1>1. /\ now' = now + 1 /\ UNCHANGED <<state, born, rec, raised, job, todo, stream>>
      /\ todo = {} /\ stream = <<>>
  BY DEF Tick, Quiet, brokerVars
<1>2. \A r \in Request : Hot(r)' = Hot(r) /\ ~Hot(r) /\ Asks(r)' = Asks(r) /\ (Asked(r)' => Asked(r))
  BY <1>1, SameAsks DEF Hot, AsksNothing
<1> SUFFICES ASSUME NEW r \in Request
             PROVE  /\ Asked(r)' /\ (Hot(r)' \/ state'[r] = "pending") => Handled(rec[r])'
                    /\ Cardinality(Asks(r)') <= 1
                    /\ Hot(r)' \/ Asked(r)' \/ rec'[r].known => state'[r] # "none"
                    /\ born'[r] <= now'
                    /\ Hot(r)' \/ state'[r] = "pending" => now' <= born'[r] + Lifetime
                    /\ rec'[r].known /\ Resolved(rec'[r]) => born'[r] <= rec'[r].resolvedAt
  BY DEF AskedOK
<1>3. /\ now \in Nat /\ born[r] \in Nat /\ Lifetime \in Nat
      /\ state[r] = "pending" => now < born[r] + Lifetime
  BY TeleportAssumption DEF TypeOK, TeleportTypeOK, Tick, Pending
<1> QED  BY <1>1, <1>2, <1>3 DEF AskedOK, Handled, Resolved

LEMMA SubmitAsks ==
  ASSUME AskedOK, TypeOK, NEW q \in Request, Submit(q), UNCHANGED brokerVars
  PROVE  AskedOK' /\ Remains
<1>1. /\ state[q] = "none" /\ state' = [state EXCEPT ![q] = "pending"] /\ born' = [born EXCEPT ![q] = now]
      /\ Emit(q, "pending") /\ UNCHANGED <<now, rec, raised, job, todo>>
  BY DEF Submit, brokerVars
<1>2. \A r \in Request : Asks(r)' = Asks(r) /\ (Asked(r)' => Asked(r)) /\ (Hot(r)' => Hot(r) \/ r = q)
  <2>1. "pending" \in State
    BY DEF State
  <2>2. \A r \in Request : Hot(r)' => Hot(r) \/ r = q
    BY <1>1, <2>1, EmitHot
  <2> QED  BY <1>1, <2>2, SameAsks DEF AsksNothing
<1>3. state \in [Request -> State] /\ born \in [Request -> Nat] /\ now \in Nat /\ Lifetime \in Nat
  BY TeleportAssumption DEF TypeOK, TeleportTypeOK
<1>4. Remains
  BY <1>1, <1>3 DEF Remains
<1>5. ASSUME NEW r \in Request
      PROVE  /\ Asked(r)' /\ (Hot(r)' \/ state'[r] = "pending") => Handled(rec[r])'
             /\ Cardinality(Asks(r)') <= 1
             /\ Hot(r)' \/ Asked(r)' \/ rec'[r].known => state'[r] # "none"
             /\ born'[r] <= now'
             /\ Hot(r)' \/ state'[r] = "pending" => now' <= born'[r] + Lifetime
             /\ rec'[r].known /\ Resolved(rec'[r]) => born'[r] <= rec'[r].resolvedAt
  <2>1. CASE r = q
    <3>1. ~Asked(q) /\ ~rec[q].known
      BY <1>1 DEF AskedOK
    <3>2. state'[q] = "pending" /\ born'[q] = now
      BY <1>1, <1>3
    <3> QED  BY <1>1, <1>2, <1>3, <2>1, <3>1, <3>2 DEF AskedOK
  <2>2. CASE r # q
    <3>1. state'[r] = state[r] /\ born'[r] = born[r]
      BY <1>1, <1>3, <2>2
    <3> QED  BY <1>1, <1>2, <2>2, <3>1 DEF AskedOK, Handled, Resolved
  <2> QED  BY <2>1, <2>2
<1> QED  BY <1>4, <1>5 DEF AskedOK

LEMMA WorldAsks ==
  ASSUME Lifetime <= ResolvedAfter, TypeOK, AskInv, World PROVE AskInv'
<1> USE DEF AskInv
<1>1. UNCHANGED brokerVars /\ UNCHANGED <<rec, raised, todo, job, human>>
  BY DEF World, brokerVars
<1>2. AsksNothing
  BY <1>1, SameAsks
<1>3. AskedOK' /\ Remains
  <2>1. CASE Tick /\ Quiet
    BY <1>1, <2>1, TickAsks DEF Tick, Remains
  <2>2. ASSUME NEW r \in Request, Submit(r) PROVE AskedOK' /\ Remains
    BY <1>1, <2>2, SubmitAsks
  <2>3. ASSUME NEW q \in Request, Lapse(q) PROVE AskedOK' /\ Remains
    <3>1. /\ state[q] = "pending" /\ state' = [state EXCEPT ![q] = "gone"]
          /\ UNCHANGED <<now, born, stream, todo>>
      BY <1>1, <2>3 DEF Lapse
    <3>2. Remains /\ \A r \in Request : state'[r] = "pending" => state[r] = "pending"
      BY <3>1 DEF Remains, TypeOK, TeleportTypeOK
    <3> QED  BY <1>1, <1>2, <3>1, <3>2, SameHot, AskedKeeps
  <2>4. ASSUME NEW q \in Request, NEW s \in Elsewhere, DecideElsewhere(q, s) PROVE AskedOK' /\ Remains
    <3>1. /\ state[q] = "pending" /\ state' = [state EXCEPT ![q] = s] /\ Emit(q, s)
          /\ UNCHANGED <<now, born, todo>>
      BY <1>1, <2>4 DEF DecideElsewhere, Enter
    <3>2. s \in State /\ s # "none" /\ s # "pending"
      BY TeleportAssumption DEF State
    <3>3. Remains /\ \A r \in Request : state'[r] = "pending" => state[r] = "pending"
      BY <3>1, <3>2 DEF Remains, TypeOK, TeleportTypeOK
    <3>4. \A r \in Request : Hot(r)' => Hot(r)
      BY <3>1, <3>2, EmitHot
    <3> QED  BY <1>1, <1>2, <3>1, <3>3, <3>4, AskedKeeps
  <2> QED  BY <2>1, <2>2, <2>3, <2>4 DEF World
<1> QED  BY <1>1, <1>2, <1>3, AskJobStays, AskCallsStay

\* A step of the broker's own, which leaves Teleport's requests and asks nothing.
LEMMA InsideAsks ==
  ASSUME Lifetime <= ResolvedAfter, TypeOK, AskedOK, UNCHANGED <<now, born, state>>,
         AsksNothing, \A r \in Request : Hot(r)' => Hot(r) \/ state[r] = "pending",
         \A r \in Request : \/ rec'[r] = rec[r]
                            \/ state[r] # "none" /\ Speaks(rec'[r])
                            \/ rec'[r] = Pruned(rec[r])
  PROVE  AskedOK' /\ Remains
<1>1. Remains
  BY DEF Remains
<1> QED  BY <1>1, AskedKeeps

\* What is put of a decision speaks of now.
LEMMA PutAsks ==
  ASSUME Lifetime <= ResolvedAfter, TypeOK, AskedOK, UNCHANGED <<teleportVars, todo>>, AsksNothing,
         NEW q \in Request, state[q] # "none", NEW x \in Record, x.known,
         NEW res \in {"approved", "denied"}, NEW m,
         rec' = [rec EXCEPT ![q] = Settle(x, res, m)]
  PROVE  AskedOK' /\ Remains
<1>1. UNCHANGED <<now, born, state, stream>>
  BY DEF teleportVars
<1>2. Speaks(Settle(x, res, m))
  BY BrokerAssumption DEF Speaks, Settle, Resolved, Record
<1>3. \A r \in Request : rec'[r] = rec[r] \/ (state[r] # "none" /\ Speaks(rec'[r]))
  BY <1>2 DEF TypeOK, BrokerTypeOK
<1> QED  BY <1>1, <1>3, SameHot, InsideAsks

LEMMA PickAsks ==
  ASSUME TypeOK, AskedOK, NEW q \in Request, Hot(q), Pick(q), UNCHANGED <<state, raised>>
  PROVE  AskJobOK'
<1>1. CASE Handled(rec[q]) \/ Policy[q] = "ignore"
  BY <1>1, AskJobIdle DEF Pick
<1>2. CASE ~Handled(rec[q])
  <2>1. ~Asked(q) /\ state[q] # "none"
    BY <1>2 DEF AskedOK
  <2>2. job' = Idle \/ job' = [Idle EXCEPT !.phase = "act", !.req = q]
    BY DEF Pick
  <2>4. CASE job' = [Idle EXCEPT !.phase = "act", !.req = q]
    <3>1. job'.phase = "act" /\ job'.req = q
      BY <2>4 DEF Idle
    <3>2. ~Asked(q)'
      BY <2>1, <3>1, SameAsks DEF AsksNothing
    <3> QED  BY <2>1, <3>1, <3>2 DEF AskJobOK
  <2> QED  BY <2>2, <2>4, AskJobIdle
<1> QED  BY <1>1, <1>2

LEMMA WatcherAsks ==
  ASSUME Lifetime <= ResolvedAfter, TypeOK, AskInv, Watcher PROVE AskInv'
<1> USE DEF AskInv
<1>0. /\ stream \in Seq(Event) /\ rec \in [Request -> Record] /\ job \in Job /\ now \in Nat
      /\ Idle.phase = "idle"
  BY DEF TypeOK, TeleportTypeOK, BrokerTypeOK, Idle
<1>1. CASE Connect \/ PollDue \/ List \/ ListFails
  <2>1. UNCHANGED <<now, born, state, stream, rec, raised, human>>
    BY <1>1 DEF Connect, PollDue, List, ListFails, teleportVars
  <2>2. todo' = todo \/ todo' = Pending
    BY <1>1 DEF Connect, PollDue, List, ListFails
  <2>3. \A r \in Request : Hot(r)' => Hot(r) \/ state[r] = "pending"
    BY <2>1, <2>2 DEF Hot, Pending
  <2>4. (job' = Idle \/ job'.phase = "list") /\ job'.phase # "notify"
    BY <1>1 DEF Connect, PollDue, List, ListFails, Idle
  <2> QED  BY <2>1, <2>3, <2>4, SameAsks, InsideAsks, AskJobIdle, AskCallsStay
<1>2. CASE TakeEvent
  <2> DEFINE ev == Head(stream)
  <2>1. /\ stream # <<>> /\ stream' = Tail(stream) /\ UNCHANGED <<now, born, state, rec, raised, human, todo>>
        /\ IF ev.st = "pending" THEN Pick(ev.req) ELSE PickResolved(ev.req, ev.st)
    BY <1>2 DEF TakeEvent
  <2>2. AskedOK' /\ Remains
    <3>1. job'.phase # "notify"
      <4>1. CASE Pick(ev.req)
        BY <4>1 DEF Pick, Idle
      <4>2. CASE PickResolved(ev.req, ev.st)
        BY <4>2 DEF PickResolved, Idle
      <4> QED  BY <2>1, <4>1, <4>2
    <3> QED  BY <2>1, <3>1, FewerHot, SameAsks, InsideAsks
  <2>3. ev = stream[1] /\ 1 \in DOMAIN stream /\ ev \in Event
    BY <1>0, <2>1
  <2>4. ev.req \in Request
    BY <2>3 DEF Event
  <2>5. AskJobOK'
    <3>1. CASE ev.st = "pending"
      <4>1. ev = [req |-> ev.req, st |-> "pending"]
        BY <2>3, <3>1 DEF Event
      <4>2. Hot(ev.req)
        BY <2>3, <4>1 DEF Hot
      <4> QED  BY <2>1, <2>4, <3>1, <4>2, PickAsks
    <3>2. CASE ev.st # "pending"
      <4>1. CASE job' = Idle
        BY <4>1, AskJobIdle
      <4>2. CASE /\ job' = [phase |-> "external", req |-> ev.req, st |-> ev.st, copy |-> rec[ev.req]]
                 /\ rec[ev.req].known
        <5>1. state[ev.req] # "none"
          BY <2>4, <4>2 DEF AskedOK
        <5>2. job'.phase = "external" /\ job'.req = ev.req /\ job'.copy.known
          BY <4>2
        <5> QED  BY <2>1, <5>1, <5>2 DEF AskJobOK
      <4> QED  BY <2>1, <3>2, <4>1, <4>2 DEF PickResolved
    <3> QED  BY <3>1, <3>2
  <2> QED  BY <2>1, <2>2, <2>5, AskCallsStay
<1>3. ASSUME NEW q \in Request, TakeListed(q) PROVE AskInv'
  <2>1. /\ q \in todo /\ todo' = todo \ {q} /\ Pick(q)
        /\ UNCHANGED <<now, born, state, stream, rec, raised, human>>
    BY <1>3 DEF TakeListed, teleportVars
  <2>2. AskedOK' /\ Remains
    <3>1. job'.phase # "notify"
      BY <2>1 DEF Pick, Idle
    <3> QED  BY <2>1, <3>1, FewerHot, SameAsks, InsideAsks
  <2>3. AskJobOK'
    BY <2>1, PickAsks DEF Hot
  <2> QED  BY <2>1, <2>2, <2>3, AskCallsStay
<1>4. job.phase \in {"act", "put", "external", "notify"} =>
        job.req \in Request /\ state[job.req] # "none" /\ job.copy \in Record
  BY <1>0 DEF Job, AskJobOK
<1>5. Automatic(job.req) \in {"approved", "denied"}
  BY DEF Automatic
<1>6. CASE AutoResolve
  <2>1. /\ job.phase = "act" /\ Resolve(Bot, job.req, Automatic(job.req), "auto")
        /\ job' = [job EXCEPT !.phase = "put"] /\ UNCHANGED <<rec, todo, human, raised>>
    BY <1>6 DEF AutoResolve
  <2>2. /\ Remains /\ UNCHANGED <<now, born>>
        /\ \A r \in Request : state'[r] = "pending" => state[r] = "pending"
        /\ \A r \in Request : Hot(r)' => Hot(r) \/ state[r] = "pending"
    BY <1>4, <1>5, <2>1, ResolveAsks
  <2>4. job'.phase = "put" /\ job'.req = job.req
    BY <1>0, <2>1 DEF Job
  <2>3. AskedOK'
    BY <2>1, <2>2, <2>4, SameAsks, AskedKeeps
  <2>5. AskJobOK'
    BY <1>4, <2>1, <2>2, <2>4 DEF AskJobOK, Remains
  <2> QED  BY <2>1, <2>2, <2>3, <2>5, AskCallsStay
<1>7. CASE AutoFails
  <2>1. /\ job.phase = "act" /\ job' = Idle /\ UNCHANGED <<rec, todo, human, raised>>
        /\ UNCHANGED teleportVars \/ Resolve(Bot, job.req, Automatic(job.req), "auto")
    BY <1>7 DEF AutoFails, CallFails
  <2>2. /\ Remains /\ UNCHANGED <<now, born>>
        /\ \A r \in Request : state'[r] = "pending" => state[r] = "pending"
        /\ \A r \in Request : Hot(r)' => Hot(r) \/ state[r] = "pending"
    <3>1. CASE UNCHANGED teleportVars
      BY <2>1, <3>1, SameHot DEF teleportVars, Remains
    <3>2. CASE Resolve(Bot, job.req, Automatic(job.req), "auto")
      BY <1>4, <1>5, <2>1, <3>2, ResolveAsks
    <3> QED  BY <2>1, <3>1, <3>2
  <2>3. AsksNothing
    BY <1>0, <2>1, SameAsks
  <2>4. AskedOK'
    BY <2>1, <2>2, <2>3, AskedKeeps
  <2> QED  BY <2>1, <2>2, <2>4, AskJobIdle, AskCallsStay
<1>11. ASSUME NEW x \in Record, x.known, NEW res \in {"approved", "denied"}, NEW m,
              job.phase \in {"put", "external"}, PutRecord(Settle(x, res, m))
       PROVE  AskInv'
  <2> DEFINE y == Settle(x, res, m)
  <2>1. /\ job' = [job EXCEPT !.phase = "notify", !.copy = y] /\ rec' = [rec EXCEPT ![job.req] = y]
        /\ UNCHANGED <<teleportVars, state, todo, human, raised>>
    BY <1>11 DEF PutRecord, teleportVars
  <2>2. Resolved(y)
    BY BrokerAssumption DEF Settle, Resolved, Record
  <2>3. rec' = [rec EXCEPT ![job.req] = Settle(x, res, m)]
    BY <2>1
  <2> HIDE DEF y
  <2>4. job'.phase = "notify" /\ job'.req = job.req /\ job'.copy = y
    BY <1>0, <2>1 DEF Job
  <2>5. AsksNothing
    BY <2>1, <2>2, <2>4, SameAsks
  <2>8. PICK q \in Request : q = job.req /\ state[q] # "none"
    BY <1>4, <1>11
  <2>9. rec' = [rec EXCEPT ![q] = Settle(x, res, m)] /\ UNCHANGED <<teleportVars, todo>>
    BY <2>1, <2>3, <2>8
  <2>6. AskedOK' /\ Remains
    BY <1>11, <2>5, <2>8, <2>9, PutAsks
  <2>7. AskJobOK'
    BY <1>4, <1>11, <2>1, <2>2, <2>4 DEF AskJobOK, Resolved
  <2> QED  BY <2>1, <2>6, <2>7, AskCallsStay
<1>8. CASE PutAuto
  <2>1. Fresh(TRUE) \in Record /\ Fresh(TRUE).known
    BY <1>0, RecordType DEF Fresh, NoRecord
  <2>2. job.phase \in {"put", "external"} /\ PutRecord(Settle(Fresh(TRUE), Automatic(job.req), "auto"))
    BY <1>8 DEF PutAuto
  <2> DEFINE f == Fresh(TRUE)  res == Automatic(job.req)
  <2>3. f \in Record /\ f.known /\ res \in {"approved", "denied"} /\ PutRecord(Settle(f, res, "auto"))
    BY <1>5, <2>1, <2>2
  <2> HIDE DEF f, res
  <2> QED  BY <1>11, <2>2, <2>3
<1>9. CASE PutExternal
  <2>1. job.copy \in Record /\ job.copy.known /\ Seen(job.st) \in {"approved", "denied"}
    BY <1>4, <1>9 DEF PutExternal, AskJobOK, Seen
  <2> QED  BY <1>9, <1>11, <2>1 DEF PutExternal
<1>10. CASE PutReview
  <2>0. PICK q \in Request : q = job.req
    BY <1>4, <1>10 DEF PutReview
  <2> DEFINE new == [Fresh(TRUE) EXCEPT !.notified = TRUE]
  <2>1. /\ job.phase = "act" /\ job' = [job EXCEPT !.phase = "notify", !.copy = new]
        /\ UNCHANGED <<now, born, state, stream, todo, human, raised>> /\ rec' = [rec EXCEPT ![q] = new]
    BY <1>10, <2>0 DEF PutReview, PutRecord, teleportVars
  <2>2. q \in Request /\ state[q] # "none" /\ Asks(q) = {}
    BY <1>4, <2>0, <2>1 DEF AskJobOK, Asked
  <2>3. new.known /\ new.notified /\ new.res = None /\ Handled(new)
    BY DEF Fresh, NoRecord, Handled
  <2> HIDE DEF new
  <2>4. job'.phase = "notify" /\ job'.req = q /\ job'.copy = new
    BY <1>0, <2>0, <2>1 DEF Job
  <2>5. \A r \in Request : Asks(r)' = Asks(r) /\ Hot(r)' = Hot(r)
    BY <2>1, SameHot DEF Asks
  <2>6. \A r \in Request \ {q} : ~Asking(r)'
    BY <2>4 DEF Asking
  <2>7. rec'[q] = new /\ \A r \in Request \ {q} : rec'[r] = rec[r]
    BY <1>0, <2>1, <2>2
  <2>8. ASSUME NEW r \in Request
        PROVE  /\ Asked(r)' /\ (Hot(r)' \/ state'[r] = "pending") => Handled(rec'[r])
               /\ Cardinality(Asks(r)') <= 1
               /\ Hot(r)' \/ Asked(r)' \/ rec'[r].known => state'[r] # "none"
               /\ born'[r] <= now'
               /\ Hot(r)' \/ state'[r] = "pending" => now' <= born'[r] + Lifetime
               /\ rec'[r].known /\ Resolved(rec'[r]) => born'[r] <= rec'[r].resolvedAt
    <3>1. CASE r = q
      <4>1. Handled(rec'[q]) /\ ~Resolved(rec'[q])
        BY <2>3, <2>7 DEF Resolved
      <4> QED  BY <2>1, <2>2, <2>5, <3>1, <4>1 DEF AskedOK
    <3>2. CASE r # q
      BY <2>1, <2>5, <2>6, <2>7, <3>2 DEF AskedOK, Asked
    <3> QED  BY <3>1, <3>2
  <2>9. AskedOK' /\ Remains
    BY <2>1, <2>8 DEF AskedOK, Remains, Handled
  <2>10. AskJobOK'
    BY <2>1, <2>2, <2>4, <2>5 DEF AskJobOK
  <2> QED  BY <2>1, <2>9, <2>10, AskCallsStay
<1>12. CASE Notify
  <2>0. PICK q \in Request : q = job.req
    BY <1>4, <1>12 DEF Notify
  <2>1. /\ job.phase = "notify" /\ job' = Idle /\ Raise(q, job.copy)
        /\ UNCHANGED <<now, born, state, stream, rec, todo, human>>
    BY <1>12, <2>0 DEF Notify, teleportVars
  <2>2. CASE Resolved(job.copy)
    <3>1. AsksNothing
      BY <1>0, <2>1, <2>2, AnnounceAsks
    <3> QED  BY <2>1, <3>1, SameHot, InsideAsks, AskJobIdle, AskCallsStay
  <2>3. CASE ~Resolved(job.copy)
    <3> DEFINE ev == [id |-> Cardinality(raised) + 1, req |-> q, res |-> job.copy.res,
                      mode |-> job.copy.mode,
                      type |-> IF Resolved(job.copy) THEN "resolved" ELSE "pending_review"]
    <3>1. raised' = raised \cup {ev} /\ ev.type = "pending_review" /\ ev.req = q
      BY <2>1, <2>3 DEF Raise
    <3> HIDE DEF ev
    <3>2. Asks(q) = {} /\ Asking(q)
      BY <2>0, <2>1, <2>3 DEF AskJobOK, Asking
    <3>3. Asks(q)' = {ev} /\ \A r \in Request \ {q} : Asks(r)' = Asks(r)
      BY <3>1, <3>2 DEF Asks
    <3>4. Cardinality({ev}) = 1
      BY FS_Singleton
    <3>5. \A r \in Request : Hot(r)' = Hot(r) /\ ~Asking(r)'
      BY <1>0, <2>1, SameHot DEF Asking
    <3>6. \A r \in Request : (Asked(r)' => Asked(r)) /\ (Cardinality(Asks(r)) <= 1 => Cardinality(Asks(r)') <= 1)
      BY <3>2, <3>3, <3>4, <3>5 DEF Asked
    <3>7. AskedOK' /\ Remains
      BY <2>1, <3>5, <3>6 DEF AskedOK, Remains, Handled, Resolved
    <3> QED  BY <2>1, <3>7, AskJobIdle, AskCallsStay
  <2> QED  BY <2>2, <2>3
<1> QED
  BY <1>1, <1>2, <1>3, <1>6, <1>7, <1>8, <1>9, <1>10, <1>12 DEF Watcher

LEMMA PeopleAsks ==
  ASSUME Lifetime <= ResolvedAfter, TypeOK, AskInv, People PROVE AskInv'
<1> USE DEF AskInv
<1>0. human \in [User -> Call] /\ rec \in [Request -> Record] /\ now \in Nat /\ NoCall.phase = "idle"
  BY DEF TypeOK, TeleportTypeOK, BrokerTypeOK, NoCall
<1>1. ASSUME NEW a \in User, NEW c, human' = [human EXCEPT ![a] = c], Remains,
             c.phase # "idle" => state'[c.req] # "none", c.phase = "put" => c.copy.known,
             c.phase = "notify" => Resolved(c.copy)
      PROVE  AskCallsOK'
  <2>1. human'[a] = c /\ \A b \in User \ {a} : human'[b] = human[b]
    BY <1>0, <1>1
  <2>2. \A b \in User : human[b].phase # "idle" => human[b].req \in Request
    BY <1>0, CallType
  <2> QED  BY <1>1, <2>1, <2>2 DEF AskCallsOK, Remains, Resolved
<1>2. UNCHANGED <<teleportVars, rec, todo, raised, job>> => AskedOK' /\ Remains
  BY SameAsks, SameHot, InsideAsks DEF teleportVars
<1>3. ASSUME NEW a \in User, NEW q \in Request, NEW res \in {"approved", "denied"},
             NEW m \in Caller, Decide(a, q, res, m)
      PROVE  AskInv'
  <2>1. /\ state[q] = "pending" /\ UNCHANGED <<teleportVars, rec, todo, raised, job, state>>
        /\ human' = [human EXCEPT ![a] =
             [phase |-> "authorized", req |-> q, res |-> res, mode |-> m, copy |-> NoRecord]]
    BY <1>3 DEF Decide, teleportVars
  <2>2. AskCallsOK'
    BY <1>1, <1>2, <2>1
  <2> QED  BY <1>2, <2>1, <2>2, SameAsks, AskJobStays
<1>4. ASSUME NEW a \in User, human[a].phase # "idle"
      PROVE  /\ human[a] \in Call /\ human[a].req \in Request /\ human[a].res \in {"approved", "denied"}
             /\ human[a].copy \in Record /\ state[human[a].req] # "none"
  BY <1>0, <1>4, CallType DEF AskCallsOK
<1>5. ASSUME NEW a \in User, Apply(a) \/ ApplyFails(a) PROVE AskInv'
  <2> DEFINE c == human[a]
  <2>1. /\ c.phase = "authorized" /\ UNCHANGED <<rec, todo, raised, job>>
        /\ UNCHANGED teleportVars \/ Resolve(a, c.req, c.res, c.mode)
        /\ human' = [human EXCEPT ![a] = NoCall] \/ human' = [human EXCEPT ![a].phase = "resolved"]
    BY <1>5 DEF Apply, ApplyFails, CallFails
  <2>2. /\ Remains /\ UNCHANGED <<now, born>>
        /\ \A r \in Request : state'[r] = "pending" => state[r] = "pending"
        /\ \A r \in Request : Hot(r)' => Hot(r) \/ state[r] = "pending"
    <3>1. CASE UNCHANGED teleportVars
      BY <2>1, <3>1, SameHot DEF teleportVars, Remains
    <3>2. CASE Resolve(a, c.req, c.res, c.mode)
      BY <1>4, <2>1, <3>2, ResolveAsks
    <3> QED  BY <2>1, <3>1, <3>2
  <2>3. AskedOK'
    BY <2>1, <2>2, SameAsks, AskedKeeps
  <2>4. AskCallsOK'
    <3>1. CASE human' = [human EXCEPT ![a] = NoCall]
      BY <1>0, <1>1, <2>2, <3>1
    <3>2. CASE human' = [human EXCEPT ![a].phase = "resolved"]
      <4> DEFINE d == [c EXCEPT !.phase = "resolved"]
      <4>1. human' = [human EXCEPT ![a] = d] /\ d.phase = "resolved" /\ d.req = c.req
        <5>1. human' = [human EXCEPT ![a] = d]
          BY <1>0, <3>2
        <5>2. c \in Call /\ c # NoCall
          BY <1>4, <2>1 DEF NoCall
        <5> QED  BY <5>1, <5>2 DEF Call
      <4>2. state'[c.req] # "none"
        BY <1>4, <2>1, <2>2 DEF Remains
      <4> HIDE DEF d
      <4> QED  BY <1>1, <2>2, <4>1, <4>2
    <3> QED  BY <2>1, <3>1, <3>2
  <2> QED  BY <2>1, <2>2, <2>3, <2>4, SameAsks, AskJobStays
<1>6. ASSUME NEW a \in User, GetRecord(a) PROVE AskInv'
  <2> DEFINE c == human[a]  x == IF rec[c.req].known THEN rec[c.req] ELSE Fresh(FALSE)
  <2>1. /\ c.phase = "resolved" /\ UNCHANGED <<teleportVars, rec, todo, raised, job, state>>
        /\ human' = [human EXCEPT ![a].phase = "put", ![a].copy = x]
    BY <1>6 DEF GetRecord, teleportVars
  <2>2. x.known
    BY DEF Fresh, NoRecord
  <2> DEFINE d == [c EXCEPT !.phase = "put", !.copy = x]
  <2> HIDE DEF x
  <2>3. human' = [human EXCEPT ![a] = d]
    BY <1>0, <2>1
  <2>4. d.phase = "put" /\ d.req = c.req /\ d.copy = x
    BY <1>4, <2>1 DEF Call, NoCall
  <2> HIDE DEF d
  <2>5. Remains /\ state'[d.req] # "none"
    BY <1>2, <1>4, <2>1, <2>4
  <2>6. AskCallsOK'
    BY <1>1, <2>2, <2>3, <2>4, <2>5
  <2> QED  BY <1>2, <2>1, <2>6, SameAsks, AskJobStays
<1>7. ASSUME NEW a \in User, PutDecision(a) PROVE AskInv'
  <2> DEFINE c == human[a]  x == Settle(c.copy, c.res, c.mode)
             d == [c EXCEPT !.phase = "notify", !.copy = x]
  <2>1. /\ c.phase = "put" /\ UNCHANGED <<teleportVars, todo, job, raised>>
        /\ rec' = [rec EXCEPT ![c.req] = x] /\ human' = [human EXCEPT ![a] = d]
    BY <1>0, <1>7 DEF PutDecision
  <2>2. c.copy.known
    BY <2>1 DEF AskCallsOK
  <2>3. AskedOK' /\ Remains
    BY <1>4, <2>1, <2>2, SameAsks, PutAsks
  <2>4. Resolved(x)
    BY <1>4, <2>1, BrokerAssumption DEF Settle, Record, Resolved
  <2> HIDE DEF x
  <2>5. d.phase = "notify" /\ d.req = c.req /\ d.copy = x
    BY <1>4, <2>1 DEF Call, NoCall
  <2>6. state'[c.req] # "none"
    BY <1>4, <2>1, <2>3 DEF Remains
  <2> HIDE DEF d
  <2>7. AskCallsOK'
    BY <1>1, <2>1, <2>3, <2>4, <2>5, <2>6
  <2> QED  BY <2>1, <2>3, <2>7, SameAsks, AskJobStays
<1>8. ASSUME NEW a \in User, NotifyDecision(a) PROVE AskInv'
  <2> DEFINE c == human[a]
  <2>1. /\ c.phase = "notify" /\ UNCHANGED <<teleportVars, now, born, state, stream, rec, todo, job>>
        /\ Raise(c.req, c.copy) /\ human' = [human EXCEPT ![a] = NoCall]
    BY <1>8 DEF NotifyDecision, teleportVars
  <2>2. Resolved(c.copy)
    BY <2>1 DEF AskCallsOK
  <2>3. AsksNothing
    BY <1>4, <2>1, <2>2, AnnounceAsks
  <2>4. AskedOK' /\ Remains
    BY <2>1, <2>3, SameHot, InsideAsks
  <2>5. AskCallsOK'
    BY <1>0, <1>1, <2>1, <2>4
  <2> QED  BY <2>1, <2>3, <2>4, <2>5, AskJobStays
<1> QED  BY <1>3, <1>5, <1>6, <1>7, <1>8 DEF People, Finish

\* With a state file, a crash takes no record.
LEMMA RestAsks ==
  ASSUME StateFile, Lifetime <= ResolvedAfter, TypeOK, AskInv, Housekeeping \/ Start \/ Failures
  PROVE  AskInv'
<1> USE DEF AskInv
<1>1. /\ UNCHANGED <<now, state, born, raised>> /\ todo' \subseteq todo
      /\ stream' = <<>> \/ UNCHANGED stream
  BY DEF Housekeeping, Prune, SendEnds, Delivered, SendFails, Start, Failures, Disconnect, Crash, teleportVars
<1>2. UNCHANGED rec \/ rec' = [r \in Request |-> Pruned(rec[r])]
  BY DEF Housekeeping, Prune, SendEnds, Delivered, SendFails, Start, Failures, Disconnect, Crash
<1>3. UNCHANGED <<job, human>> \/ (job' = Idle /\ human' = [a \in User |-> NoCall])
  BY DEF Housekeeping, Prune, SendEnds, Delivered, SendFails, Start, Failures, Disconnect, Crash
<1>4. AskedOK' /\ Remains
  <2>1. \A r \in Request : Hot(r)' => Hot(r)
    BY <1>1, FewerHot
  <2>2. \A r \in Request : rec'[r] = rec[r] \/ rec'[r] = Pruned(rec[r])
    BY <1>2
  <2>3. UNCHANGED job \/ job'.phase # "notify"
    BY <1>3 DEF Idle
  <2> QED  BY <1>1, <2>1, <2>2, <2>3, SameAsks, InsideAsks
<1>5. CASE UNCHANGED <<job, human>>
  BY <1>1, <1>4, <1>5, SameAsks, AskJobStays, AskCallsStay
<1>6. CASE job' = Idle /\ human' = [a \in User |-> NoCall]
  BY <1>4, <1>6, AskJobIdle DEF AskCallsOK, NoCall
<1> QED  BY <1>3, <1>5, <1>6

\* Approvers are asked about a request once: through lost connections, restarts, Prune, two
\* reviews, and decisions that race with the watcher; for as long as the records survive, and
\* Teleport keeps a request no longer than the broker keeps the record of its resolution.
THEOREM AskedOnce ==
  ASSUME StateFile, Lifetime <= ResolvedAfter
  PROVE  Spec => []ReviewAskedOnce
<1>1. Init => AskInv
  <2> SUFFICES ASSUME Init PROVE AskInv
    OBVIOUS
  <2>1. /\ raised = {} /\ todo = {} /\ stream = <<>> /\ rec = [r \in Request |-> NoRecord]
        /\ job = Idle /\ human = [a \in User |-> NoCall] /\ now = 0 /\ born = [r \in Request |-> 0]
        /\ state = [r \in Request |-> "none"]
    BY DEF Init, TeleportInit, BrokerInit
  <2>2. \A r \in Request : Asks(r) = {} /\ ~Hot(r)
    BY <2>1 DEF Asks, Hot
  <2>3. Cardinality({}) = 0
    BY FS_EmptySet
  <2>4. AskedOK
    <3> SUFFICES ASSUME NEW r \in Request
                 PROVE  /\ ~Asked(r) /\ ~Hot(r) /\ Cardinality(Asks(r)) <= 1 /\ ~rec[r].known
                        /\ born[r] <= now /\ state[r] = "none"
      BY <2>1 DEF AskedOK
    <3>1. Asks(r) = {} /\ ~Hot(r) /\ ~Asked(r)
      BY <2>1, <2>2 DEF Asked, Asking, Idle
    <3>2. Cardinality(Asks(r)) = 0
      BY <2>3, <3>1
    <3>3. rec[r] = NoRecord /\ born[r] = 0 /\ state[r] = "none" /\ now = 0
      BY <2>1
    <3>4. ~rec[r].known
      BY <3>3 DEF NoRecord
    <3> QED  BY <3>1, <3>2, <3>3, <3>4
  <2> QED  BY <2>1, <2>4 DEF AskInv, AskJobOK, AskCallsOK, Idle, NoCall
<1>2. TypeOK /\ AskInv /\ [Next]_vars => AskInv'
  <2> SUFFICES ASSUME TypeOK, AskInv, [Next]_vars PROVE AskInv'
    OBVIOUS
  <2>1. CASE UNCHANGED vars
    <3>1. UNCHANGED <<now, born, state, stream, rec, todo, raised, job, human>>
      BY <2>1 DEF vars, teleportVars, brokerVars
    <3>2. AskedOK' /\ Remains
      BY <3>1, SameAsks, SameHot, InsideAsks DEF AskInv
    <3> QED  BY <3>1, <3>2, SameAsks, AskJobStays, AskCallsStay DEF AskInv
  <2> QED  BY <2>1, WorldAsks, WatcherAsks, PeopleAsks, RestAsks DEF Next
<1>3. AskInv => ReviewAskedOnce
  BY DEF AskInv, AskedOK, ReviewAskedOnce
<1> QED  BY <1>1, <1>2, <1>3, TypeCorrect, PTL DEF Spec
=============================================================================
