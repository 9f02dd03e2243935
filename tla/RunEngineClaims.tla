-------------------------- MODULE RunEngineClaims --------------------------
(***************************************************************************)
(* Statements the repository makes about a run, in comments, that the      *)
(* engine of module RunEngine does not keep; the trace TLC prints is the   *)
(* sequence of steps that breaks each.                                     *)
(***************************************************************************)
EXTENDS RunEngine

\* sink.rs: "the store is the mirror a resume reconciles".  A resume would
\* never hand the store a status its table refuses.
ResumeReconciles ==
  At("mirror") /\ inv = "resume" => StatusAllows(status, Target(op))

\* engine_resume.rs: "the store stands at or behind the journal, never ahead
\* of it".  While the journal reads, a run the store calls approved or further
\* would be one the journal shows approved.
StoreNeverAhead ==
  health = "sound" /\ status \in {"approved", "executing", "paused"} => Approved
=============================================================================
