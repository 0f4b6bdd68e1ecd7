--------------------------- MODULE MCAgentGrants ---------------------------
(* Instances of AgentGrants for TLC. *)
EXTENDS AgentGrants, TLC

CONSTANTS c1, c2

\* Every tool and the sweeper beside a resource read or a relinquishment.
Tools == [c \in Calls |-> IF c = c1 THEN {"read", "relinquish", "sweep", "list"}
                          ELSE {"resource", "relinquish"}]
\* One reader beside the auto_relinquish sweeper.
ReaderAndSweeper == [c \in Calls |-> IF c = c1 THEN {"read"} ELSE {"sweep"}]
=============================================================================
