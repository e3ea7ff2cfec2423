------------------------------- MODULE MCChat -------------------------------
(***************************************************************************)
(* An instance of Chat for TLC.  Questions and notices share nothing but   *)
(* the links and the process, so they are looked at one after the other:   *)
(* in one scene an account is linked, asks, and the portal asks beside it; *)
(* in another two accounts are linked and their owners have notices.  In   *)
(* the last a code is sent twice by one account and once by another.       *)
(***************************************************************************)
EXTENDS Chat, TLC

CONSTANTS q1, q2, q3, q4, q5, l1, l2, l3, l4, n1, n2, ann, ben, pa, pb, c1, c2, here, there,
          t1, t2, bedrock, vertex

VARIABLE scene

Chats(by, place, private, code) ==
  [route |-> "chat", by |-> by, place |-> place, talk |-> t1, private |-> private,
   code |-> code, provider |-> bedrock]

Asks(talk, provider) ==
  [route |-> "portal", by |-> ann, talk |-> talk, code |-> None, provider |-> provider]

\* Two links; the first one's code again, by its sender and by somebody else; two
\* questions in one conversation and one that is not private; two questions from the
\* portal, for different providers, in one conversation.
Mails ==
  [m \in Message |->
     CASE m = l1 -> Chats(pa, here, TRUE, c1)
       [] m = l2 -> Chats(pb, there, TRUE, c2)
       [] m = l3 -> Chats(pa, here, TRUE, c1)
       [] m = l4 -> Chats(pb, there, TRUE, c1)
       [] m \in {q1, q2} -> Chats(pa, here, TRUE, None)
       [] m = q3 -> Asks(t2, vertex)
       [] m = q4 -> Asks(t2, bedrock)
       [] m = q5 -> Chats(pa, here, FALSE, None)]

Codes == [c \in Code |-> IF c = c1 THEN ann ELSE ben]
Owners == [n \in Notice |-> IF n = n1 THEN ann ELSE ben]

Cast == [chat |-> {l1, q1, q2}, portal |-> {l1, q1, q3, q4}, notices |-> {l1, l2, q5},
         codes |-> {l1, l3, l4}]

\* Who may appear in a scene.
InScene ==
  /\ \A m \in Message : task[m].phase # "none" => m \in Cast[scene]
  /\ scene # "notices" => open = {} /\ codes[c2] = "new"

SceneVars == <<vars, scene>>

SceneInit == Init /\ scene \in DOMAIN Cast
SceneNext == Next /\ UNCHANGED scene /\ InScene'
SceneSpec == SceneInit /\ [][SceneNext]_SceneVars /\ Fairness
=============================================================================
