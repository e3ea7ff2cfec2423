------------------------------- MODULE MCTurns -------------------------------
EXTENDS AgentTurns, TLC
CONSTANTS ann, ben, u1, u2, t1, t2, t3, ch, tty

VARIABLE scene

Scenes == {"chat", "terminal", "long"}

\* In a channel ann and ben ask once each, or ann twice; at the terminal ann asks twice, and more
\* goes wrong; a long conversation is three questions of one person, with nothing going wrong.
InScene ==
  /\ \A t \in Turn : turn[t].phase # "none" =>
       /\ turn[t].thread = IF scene = "terminal" THEN tty ELSE ch
       /\ scene # "chat" => turn[t].who = ann
       /\ scene # "long" => t # t3
  /\ mishaps <= CASE scene = "chat" -> 1 [] scene = "terminal" -> 2 [] scene = "long" -> 0
  /\ scene = "long" => backend = "api-key" /\ login = [p \in Person |-> u1]

SceneInit == Init /\ scene \in Scenes /\ InScene
SceneNext == Next /\ UNCHANGED scene /\ InScene'
SceneSpec == SceneInit /\ [][SceneNext]_<<vars, scene>> /\ Fairness
=============================================================================
