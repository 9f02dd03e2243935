----------------------------- MODULE RunPromise -----------------------------
(***************************************************************************)
(* What a run promises to whoever reads its journal, whatever crashes,     *)
(* refusals and retries happened on the way: it moves forward through its  *)
(* phases, finishes the plan's steps one after the other, each once, is    *)
(* completed only with every step finished, and never leaves an end.  The  *)
(* one way back is Lose, and it is counted: a run that is neither          *)
(* completed nor cancelled at work may be set back to where it once stood. *)
(***************************************************************************)
EXTENDS Integers

CONSTANT N   \* the number of steps in the plan
Steps == 0 .. N - 1

VARIABLES
  phase,   \* where the record says the run stands
  done,    \* the steps the record shows finished
  losses   \* how often the record was set back
vars == <<phase, done, losses>>

Init == phase = "none" /\ done = {} /\ losses = 0

Start == phase = "none" /\ phase' = "planned" /\ UNCHANGED <<done, losses>>
Approve == phase = "planned" /\ phase' = "active" /\ UNCHANGED <<done, losses>>
Finish(s) ==
  /\ phase = "active" /\ s \notin done /\ 0 .. s - 1 \subseteq done
  /\ done' = done \cup {s} /\ UNCHANGED <<phase, losses>>
Complete ==
  phase = "active" /\ done = Steps /\ phase' = "completed" /\ UNCHANGED <<done, losses>>
Cancel ==
  /\ phase \in {"planned", "active"}
  /\ phase' = "cancelled" /\ UNCHANGED <<done, losses>>

SetBack ==
  [none |-> {"none"}, planned |-> {"none", "planned"},
   active |-> {"none", "planned", "active"}, cancelled |-> {"none", "planned"},
   completed |-> {}]
Lose ==
  /\ losses' = losses + 1 /\ phase' \in SetBack[phase]
  /\ phase = "cancelled" => done = {}
  /\ done' \subseteq done /\ (phase' # "active" => done' = {})
  /\ \A s \in done' : 0 .. s - 1 \subseteq done'

Next == Start \/ Approve \/ (\E s \in Steps : Finish(s)) \/ Complete \/ Cancel \/ Lose
Spec == Init /\ [][Next]_vars
=============================================================================
