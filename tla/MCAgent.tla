------------------------------- MODULE MCAgent -------------------------------
EXTENDS RequestCards, TLC
CONSTANTS r1, r2, ch, ann, ben, k1

VARIABLE scene

ChannelPlatform == [c \in Channel |-> "slack"]
TheAdapters == <<"slack", "teams", "gchat">>
TheChannels == <<ch>>
Approvers == <<ann>>
MayRule == [r \in Request |-> {ann, ben}]
Asks == [r \in Request |-> ben]
From == [r \in Request |-> IF r = r1 THEN "teams" ELSE "gchat"]

Scenes == {"events", "clicks", "teams", "own"}

\* A scene is about one request.  Clicks are looked at without a second resolved event and
\* without its retries, in Slack and Google Chat, or in Teams; the requester's own click
\* without accidents.
InScene ==
  /\ asked \cup {r \in Request : ruling[r] # "open"} \subseteq
       IF scene \in {"events", "teams"} THEN {r1} ELSE {r2}
  /\ IF scene = "events"
     THEN /\ \A k \in Click : click[k] = NotPressed
          /\ members = Person /\ cached = {}
     ELSE /\ scene # "teams" => known = {}
          /\ \A e \in Event : e.kind = "resolved" => mail[e].tries = 0
          /\ \A k \in Click : click[k].by \in {None, IF scene = "own" THEN ben ELSE ann}
          /\ scene = "own" => mishaps = 0 /\ members = Person
          /\ scene = "teams" => \A k \in Click :
               click[k].card # None => PlatformOf(click[k].card.place) = "teams"
          /\ scene \in {"clicks", "teams"} =>
               /\ \A k \in Click : click[k].button \in {None, "approved"}
               /\ \A r \in Request : ruling[r] # "lapsed"
  /\ ben \in members /\ ben \notin cached

SceneInit == Init /\ scene \in Scenes
SceneNext == Next /\ UNCHANGED scene /\ InScene'
SceneSpec == SceneInit /\ [][SceneNext]_<<vars, scene>> /\ Fairness
=============================================================================
