---------------------------- MODULE MCTuiSession ----------------------------
(* Two sessions: one with two turns on record, one with one. *)
EXTENDS TuiSession
CONSTANTS s1, s2

Line(do) == [do |-> do, id |-> None]
To(s) == [do |-> "resume", id |-> s]
Old(s, n) == [in |-> s, n |-> n, derived |-> n = -1]
MCSaved == [s \in {s1, s2} |-> IF s = s1 THEN <<Old(s1, -1), Old(s1, -2)>> ELSE <<Old(s2, -2)>>]
MCLines == {Line(do) : do \in {"ask", "sql", "compact", "run", "sessions", "share", "clear", "quit"}}
             \cup {To(s2)}
RunLines == {Line(do) : do \in {"run", "quit"}}
=============================================================================
