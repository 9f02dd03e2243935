---------------------------- MODULE MCAgentLoop ----------------------------
(* A query that needs no approval, one whose program the session is denied, *)
(* an export that needs approval and reaches outside, a workspace write, and *)
(* what the model may get wrong.                                           *)
EXTENDS AgentLoop
CONSTANTS read, banned, export, write, junk, anon, d1, d2

Reading == [approval |-> FALSE, external |-> FALSE, writes |-> "none"]
Querying == [Reading EXCEPT !.approval = TRUE]
Exporting == [Querying EXCEPT !.external = TRUE]
Writing == [Reading EXCEPT !.writes = "workspace"]
MCEffect == [c \in Call |-> CASE c = banned -> Querying [] c = export -> Exporting
                            [] c = write -> Writing [] OTHER -> Reading]
Asking == [mode |-> "ask", plan |-> FALSE, frozen |-> FALSE, grants |-> {}]
Planning == [Asking EXCEPT !.mode = "bypass", !.plan = TRUE]
Headless == [Asking EXCEPT !.frozen = TRUE, !.grants = {export}]
ReadOnly == [Asking EXCEPT !.mode = "read-only"]
Never == [Asking EXCEPT !.mode = "never"]
MCPosture == {Asking, Planning, Headless, ReadOnly, Never}
=============================================================================
