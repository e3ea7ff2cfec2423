------------------------------- MODULE MCPortal -------------------------------
EXTENDS Portal, TLC
CONSTANTS p1, p2, a1, a2, m1, m2, w1, w2, ann, ben, bedrock, vertex, dev
CONSTANT Scenes   \* the scenes that a run looks at

VARIABLE scene

PagesOf ==
  [create |-> {"new", "environment"}, manage |-> {"environment"}, delete |-> {"environment"},
   queue |-> {"approvals", "detail"}, form |-> {"request", "requests"},
   talk |-> {"overview", "assistant"}, ship |-> {"releases", "tools"}, tour |-> Pages]

WellSetUp == [platform |-> TRUE, access |-> TRUE, teleport |-> TRUE, approver |-> TRUE]

EnvScenes == {"create", "manage", "delete"}
AccessScenes == {"queue", "form"}
WorkScenes == {"talk", "ship"}

\* A scene is one part of the portal, on a back end that is set up; the tour is of all
\* pages, on any back end, and nothing is pressed.
InScene ==
  /\ page \in PagesOf[scene] \cup {"sign-in"}
  /\ scene # "tour" => setup = WellSetUp
  /\ scene # "talk" => who = ann
  /\ scene # "queue" => \A r \in AccessRequest : seen[r] = "none" /\ real[r] \in {"none", "pending"}
  /\ scene \notin EnvScenes => env = [gen |-> 0, status |-> "none"]
  /\ scene \notin AccessScenes => (\A r \in Theirs : real[r] = "none") /\ ~hidden /\ losses = 0
  /\ scene = "create" => ~dialog.open /\ job["action"] = Idle /\ ~viewError
                        /\ Cardinality(fetches) <= 1
  /\ scene = "manage" => ~dialog.open /\ env.gen \in 1 .. 2
  /\ scene = "delete" => env.gen > 0 /\ job["action"] = Idle /\ job["retry"] = Idle /\ faults = 0
  /\ scene = "queue" => /\ \A m \in Mine : real[m] = "none"
                         /\ Cardinality({r \in Theirs : real[r] # "none"}) <= 1
                         /\ Cardinality(me.asks) <= 1
  /\ scene = "form" => /\ (\A r \in Theirs : real[r] = "none") /\ ~hidden
                        /\ Cardinality(me.asks) <= (IF me.data = None THEN 1 ELSE 0)
                        /\ Cardinality(shown.asks) <= (IF shown.data = None THEN 1 ELSE 0)
  /\ scene = "tour" => /\ job = [c \in Caller |-> Idle] /\ Cardinality(fetches) <= 1 /\ faults = 0
                        /\ draft = None /\ want = None /\ call = NoCall /\ chats <= 1
                        /\ Cardinality(me.asks) <= 1 /\ Cardinality(shown.asks) <= 1

SceneInit == Init /\ scene \in Scenes /\ InScene

SceneNext ==
  /\ UNCHANGED scene
  /\ \/ scene \in EnvScenes \cup {"tour"} /\ EnvStep
     \/ scene \in AccessScenes \cup {"tour"} /\ AccessStep
     \/ scene \in WorkScenes /\ (WorkStep \/ LeavesTab \/ \E w \in Person : EntersTab(w))
     \/ \E p \in PagesOf[scene] : Visit(p)
  /\ InScene'

SceneSpec == SceneInit /\ [][SceneNext]_<<vars, scene>>

\* What must happen is looked at where an environment is managed.
FairScenes == SceneSpec /\ Fairness
=============================================================================
