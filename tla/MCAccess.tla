------------------------------ MODULE MCAccess ------------------------------
(* Instances of AccessDecisions for TLC. *)
EXTENDS AccessDecisions, TLC

CONSTANTS r1, r2, ann, ben, bot

AskAll  == [r \in Request |-> "require_approval"]
AutoOne == [r \in Request |-> IF r = r1 THEN "auto_approve" ELSE "require_approval"]
Everybody == [r \in Request |-> User]
Nobody    == [r \in Request |-> None]
=============================================================================
