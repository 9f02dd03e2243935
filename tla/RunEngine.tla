----------------------------- MODULE RunEngine -----------------------------
(***************************************************************************)
(* One run of `saya run`, from its claim to its terminal event, across any *)
(* number of invocations: the fresh start (headless or from the TUI        *)
(* panel), `saya run resume` and `saya run cancel`.                        *)
(*                                                                         *)
(* Two durable records are kept in step: the journal (events.ndjson), which *)
(* is the authority, and the store (SQLite), which mirrors it.  Every      *)
(* append and every store write is a step of its own, so a crash, a        *)
(* refused write or a dropped future can fall between any two of them.     *)
(* One process at a time works on a run; how that is arranged is the       *)
(* subject of module RunLock.                                              *)
(***************************************************************************)
EXTENDS Integers

CONSTANTS
  N,            \* the number of steps in the bound plan
  MaxAttempts,  \* MAX_EPISODE_ATTEMPTS: episodes one step gets
  MaxFaults     \* bound on crashes, interrupts, refused or half-done writes

ASSUME StepsAssumption == N \in Nat \ {0}
ASSUME AttemptsAssumption == MaxAttempts \in Nat \ {0}
ASSUME FaultsAssumption == MaxFaults \in Nat

Steps == 0 .. N - 1

VARIABLES
  stage,     \* replay()'s started and plan_approved: "none", "started", "approved"
  steps, last,  \* what else replay() makes of the whole lines
  tail,      \* "torn": the file ends in a line without its newline
  health,    \* "corrupt": a whole line does not parse
  cuts,      \* repairs cut off so far that lost whole lines of the journal
  files,     \* what the run directory holds: "none", "spec" or "plan" (both)
  status,    \* the run's row in the store, or "absent"
  rows,      \* the step rows in the store, or "absent"
  inv,       \* the invocation at work; "stop" is a panel stop being recorded
  pc,        \* where it stands
  state,     \* the sink's machine state; "none" while there is no sink
  op,        \* the TransitionEvent handed to EngineEventSink::record
  step, attempt,  \* run_step's argument and its attempt counter
  exit,      \* the exit code of the last invocation that returned
  faults     \* faults so far

replayed == <<stage, steps, last>>
journal == <<stage, steps, last, tail, health, cuts>>
store == <<status, rows>>
sink == <<state, op>>
driver == <<step, attempt>>
Started == stage # "none"
Approved == stage = "approved"
vars == <<journal, files, store, inv, pc, sink, driver, exit, faults>>

(***************************************************************************)
(* The two state machines and what each transition writes.                 *)
(***************************************************************************)

\* Wall clock, token ceiling and download wallet pause alike: one reason
\* stands for BudgetExhausted and WallClockExceeded.
PauseReasons ==
  {"ProcessDeath", "BudgetExhausted", "StepFailedAfterRetry", "StoreUnavailable"}
TerminalEvents == {"Completed", "Cancelled"}
Ops == {"Approve", "Begin", "Resume", "Complete", "Cancel",
        "ProcessDeath", "BudgetExhausted", "StepFailedAfterRetry"}
RunStates ==
  {"planned", "approved", "executing", "paused", "completed", "failed", "cancelled"}

\* TransitionEvent -> RunTransition: a pause carries its reason.
Machine(o) == IF o \in PauseReasons THEN "Pause" ELSE o

Transitions ==
  { <<"planned", "Approve", "approved">>,    <<"planned", "Cancel", "cancelled">>,
    <<"approved", "Begin", "executing">>,    <<"approved", "Cancel", "cancelled">>,
    <<"executing", "Pause", "paused">>,      <<"executing", "Complete", "completed">>,
    <<"executing", "Fail", "failed">>,       <<"executing", "Cancel", "cancelled">>,
    <<"paused", "Resume", "executing">>,     <<"paused", "Cancel", "cancelled">> }

\* Where an event leads: every transition has one target, whatever its source.
Target(o) ==
  CASE o = "Approve" -> "approved"
    [] o \in {"Begin", "Resume"} -> "executing"
    [] o = "Complete" -> "completed"
    [] o = "Cancel" -> "cancelled"
    [] OTHER -> "paused"

Legal(s, o) == <<s, Machine(o), Target(o)>> \in Transitions

\* The journal event of a transition; Begin and Resume have none.
EventOf(o) ==
  CASE o = "Approve" -> "PlanApproved"
    [] o = "Complete" -> "Completed"
    [] o = "Cancel" -> "Cancelled"
    [] OTHER -> o
IsJournaled(o) == o \notin {"Begin", "Resume"}

\* Mutant: a store that takes a re-recorded status for a conflict.
StatusAllowsStrict(from, to) == \E t \in Transitions : t[1] = from /\ t[3] = to

\* RunStatus::can_transition: the machine's pairs, and re-recording a status.
StatusAllows(from, to) ==
  from = to \/ \E t \in Transitions : t[1] = from /\ t[3] = to

\* RunStepStatus: a first sighting is never finished; failed may run again.
RowAllows(from, to) ==
  \/ from = to
  \/ <<from, to>> \in { <<"absent", "running">>, <<"running", "done">>,
                        <<"running", "failed">>, <<"failed", "running">> }

(***************************************************************************)
(* Journal appends and store writes, with everything a fault can make of   *)
(* them.  A fault draws on the MaxFaults budget.                           *)
(***************************************************************************)

Fault == faults < MaxFaults /\ faults' = faults + 1
NoFault == UNCHANGED faults

StepEvents ==
  [StepStarted |-> "started", StepCompleted |-> "completed", StepFailed |-> "failed"]

\* replay() of one more whole line: usage and download levels are no lifecycle.
Replay(e) ==
  /\ stage' = CASE e = "RunStarted" -> "started"
                [] e = "PlanApproved" -> "approved"
                [] OTHER -> stage
  /\ steps' = IF e \in DOMAIN StepEvents
              THEN [steps EXCEPT ![step] = StepEvents[e]] ELSE steps
  /\ last' = IF e = "Usage" THEN last ELSE e

\* A line written whole.  After a torn tail it concatenates onto it: a line
\* that does not parse, and read() fails closed from then on.
Lands(e) ==
  /\ tail' = "whole"
  /\ \/ health = "sound" /\ tail = "whole" /\ Replay(e) /\ UNCHANGED <<health, cuts>>
     \/ /\ health # "sound" \/ tail = "torn"
        /\ health' = "corrupt" /\ UNCHANGED <<replayed, cuts>>

Tears == tail' = "torn" /\ UNCHANGED <<replayed, health, cuts>>

AppendOk(e) == Lands(e) /\ NoFault
\* Nothing written, half a line written, or the line written and fsync refused.
AppendErr(e) == Fault /\ (UNCHANGED journal \/ Tears \/ Lands(e))
Append(e, ok, err) ==
  \/ AppendOk(e) /\ pc' = ok
  \/ AppendErr(e) /\ pc' = err

StatusLands(to) == StatusAllows(status, to) /\ status' = to /\ UNCHANGED rows
RowLands(to) ==
  RowAllows(rows[step], to) /\ rows' = [rows EXCEPT ![step] = to] /\ UNCHANGED status

\* Conflict, an unavailable store, or a refusal after the row was written
\* (secure_files runs last).
Refused(allows, lands) ==
  \/ lands /\ Fault
  \/ UNCHANGED store /\ IF allows THEN Fault ELSE NoFault
StatusRefused(to) == Refused(StatusAllows(status, to), StatusLands(to))
RowRefused(to) == Refused(RowAllows(rows[step], to), RowLands(to))

At(label) == pc = label
End(code) == exit' = code /\ pc' = "idle"

(***************************************************************************)
(* The fresh start: claim.rs, then drive.rs up to the approval.            *)
(***************************************************************************)

\* create_run: the row exists, as planned, before the journal says anything.
Claim ==
  /\ At("claim")
  /\ \/ status' = "planned" /\ pc' = "started" /\ NoFault
     \/ status' \in {status, "planned"} /\ pc' = "settle" /\ Fault
  /\ UNCHANGED <<journal, files, rows, inv, sink, driver, exit>>

JournalStarted ==
  /\ At("started") /\ Append("RunStarted", "spec", "settle")
  /\ UNCHANGED <<files, store, inv, sink, driver, exit>>

PersistSpec ==
  /\ At("spec")
  /\ \/ files' = "spec" /\ pc' = "propose" /\ NoFault
     \/ UNCHANGED files /\ pc' = "settle" /\ Fault
  /\ UNCHANGED <<journal, store, inv, sink, driver, exit>>

\* PlanDriver::propose, then persist_plan; 2 is a plan beyond --allow, 5 a
\* plan that never bound.
Propose ==
  /\ At("propose")
  /\ \/ files' = "plan" /\ pc' = "approval" /\ NoFault /\ UNCHANGED exit
     \/ UNCHANGED <<files, exit>> /\ pc' = "settle" /\ Fault
     \/ UNCHANGED files /\ NoFault /\ \E code \in {"2", "5"} : End(code)
  /\ UNCHANGED <<journal, store, inv, sink, driver>>

\* A "no" is exit 2, an approval view that cannot be built exit 3.
Decide ==
  /\ At("approval")
  /\ \/ /\ state' = "planned" /\ op' = "Approve" /\ pc' = "journal"
        /\ step' = 0 /\ attempt' = 0 /\ UNCHANGED exit
     \/ (\E code \in {"2", "3"} : End(code)) /\ UNCHANGED <<sink, driver>>
  /\ UNCHANGED <<journal, files, store, inv, faults>>

(***************************************************************************)
(* EngineEventSink::record: the machine, the journal, the store mirror.    *)
(***************************************************************************)

\* Mutant: what was refused is tried again.
AbandonedNever == IF op = "BudgetExhausted" THEN "episode" ELSE "journal"

\* Where a refusal leaves the caller: tick holds it, the others return it.
Abandoned == IF op = "BudgetExhausted" THEN "episode" ELSE "settle"

\* Mutant: the mirror is written although the journal refused.
RecordAppendUnchecked ==
  /\ At("journal") /\ Legal(state, op) /\ IsJournaled(op)
  /\ Append(EventOf(op), "mirror", "mirror")
  /\ UNCHANGED <<files, store, inv, sink, driver, exit>>

RecordAppend ==
  /\ At("journal") /\ Legal(state, op) /\ IsJournaled(op)
  /\ Append(EventOf(op), "mirror", Abandoned)
  /\ UNCHANGED <<files, store, inv, sink, driver, exit>>

RecordUnjournaled ==
  /\ At("journal") /\ Legal(state, op) /\ ~IsJournaled(op)
  /\ pc' = "mirror"
  /\ UNCHANGED <<journal, files, store, inv, sink, driver, exit, faults>>

RecordIllegal ==
  /\ At("journal") /\ ~Legal(state, op)
  /\ pc' = Abandoned
  /\ UNCHANGED <<journal, files, store, inv, sink, driver, exit, faults>>

\* What each caller of record does next.
Continuation(o) ==
  CASE o = "Approve" -> "step"
    [] o = "Begin" -> "start"
    [] o = "ProcessDeath" -> "journal"
    [] o = "Resume" -> "seek"
    [] o = "BudgetExhausted" -> "episode"
    [] o = "StepFailedAfterRetry" -> "settle"
    [] OTHER -> "idle"

RecordMirror ==
  /\ At("mirror") /\ StatusLands(Target(op)) /\ NoFault
  /\ state' = Target(op)
  /\ pc' = Continuation(op)
  /\ op' = IF op = "ProcessDeath" THEN "Resume" ELSE op
  /\ exit' = IF op \notin {"Complete", "Cancel"} THEN exit
             ELSE IF op = "Complete" \/ inv = "cancel" THEN "0" ELSE "130"
  /\ UNCHANGED <<journal, files, inv, driver>>

\* A run the store refuses to see executing is paused instead.
RecordMirrorRefused ==
  /\ At("mirror") /\ StatusRefused(Target(op))
  /\ IF Target(op) = "executing"
     THEN pc' = "hold" /\ UNCHANGED state
     ELSE pc' = Abandoned /\ state' = Target(op)
  /\ UNCHANGED <<journal, files, inv, op, driver, exit>>

RecordHold ==
  /\ At("hold") /\ pc' = "settle"
  /\ \/ AppendOk("StoreUnavailable") /\ state' = "paused"
     \/ AppendErr("StoreUnavailable") /\ UNCHANGED state
  /\ UNCHANGED <<files, store, inv, op, driver, exit>>

(***************************************************************************)
(* EpisodeDriver::run_step and its attempts.                               *)
(***************************************************************************)

\* Mutant: any state past the approval runs its next step.
RunStepWhilePaused ==
  /\ At("step") /\ attempt' = 0
  /\ \/ state = "approved" /\ step = 0 /\ op' = "Begin" /\ pc' = "journal"
     \/ state \in {"executing", "paused"} /\ pc' = "start" /\ UNCHANGED op
  /\ UNCHANGED <<journal, files, store, inv, state, step, exit, faults>>

RunStep ==
  /\ At("step") /\ attempt' = 0
  /\ \/ state = "approved" /\ step = 0 /\ op' = "Begin" /\ pc' = "journal"
     \/ state = "executing" /\ pc' = "start" /\ UNCHANGED op
     \/ /\ ~(state = "approved" /\ step = 0) /\ state # "executing"
        /\ pc' = "settle" /\ UNCHANGED op
  /\ UNCHANGED <<journal, files, store, inv, state, step, exit, faults>>

\* Mutant: the episode starts although its start was not journaled.
MarkStartedUnchecked ==
  /\ At("start") /\ attempt' = attempt + 1
  /\ Append("StepStarted", "running", "running")
  /\ UNCHANGED <<files, store, inv, sink, step, exit>>

MarkStarted ==
  /\ At("start") /\ attempt' = attempt + 1
  /\ Append("StepStarted", "running", "settle")
  /\ UNCHANGED <<files, store, inv, sink, step, exit>>

MirrorStarted ==
  /\ At("running")
  /\ \/ RowLands("running") /\ NoFault /\ pc' = "episode"
     \/ RowRefused("running") /\ pc' = "settle"
  /\ UNCHANGED <<journal, files, inv, sink, driver, exit>>

\* Usage and download levels: an append whose failure is only held.
EmitUsage ==
  /\ At("episode")
  /\ AppendOk("Usage") \/ AppendErr("Usage")
  /\ UNCHANGED <<files, store, inv, pc, sink, driver, exit>>

\* tick(): a ceiling reached while executing pauses the run; the episode
\* itself goes on.
Tick ==
  /\ At("episode") /\ state = "executing"
  /\ op' = "BudgetExhausted" /\ pc' = "journal"
  /\ UNCHANGED <<journal, files, store, inv, state, driver, exit, faults>>

\* The loop returned an output and the deliverables resolved; none declared
\* means none recorded.
EpisodeOk ==
  /\ At("episode") /\ pc' \in {"deliver", "complete"}
  /\ UNCHANGED <<journal, files, store, inv, sink, driver, exit, faults>>

EpisodeFails ==
  /\ At("episode") /\ pc' = "fail"
  /\ UNCHANGED <<journal, files, store, inv, sink, driver, exit, faults>>

\* A brief, toolset or deliverables refusal: returned at once, never retried.
EpisodeGated ==
  /\ At("episode") /\ pc' = "settle"
  /\ UNCHANGED <<journal, files, store, inv, sink, driver, exit, faults>>

\* Only the panel's token can be cancelled while the work is still polled.
EpisodeCancelled ==
  /\ At("episode") /\ inv = "panel"
  /\ op' = "Cancel" /\ pc' = "journal"
  /\ UNCHANGED <<journal, files, store, inv, state, driver, exit, faults>>

RecordDeliverables ==
  /\ At("deliver") /\ Append("Deliverables", "complete", "settle")
  /\ UNCHANGED <<files, store, inv, sink, driver, exit>>

MarkCompleted ==
  /\ At("complete") /\ Append("StepCompleted", "done", "settle")
  /\ UNCHANGED <<files, store, inv, sink, driver, exit>>

\* Mutant: the plan's length taken one too short.
LastStepEarly == step + 2 >= N
LastStep == step + 1 = N

MirrorCompleted ==
  /\ At("done")
  /\ \/ /\ RowLands("done") /\ NoFault
        /\ \/ LastStep /\ op' = "Complete" /\ pc' = "journal" /\ UNCHANGED step
           \/ ~LastStep /\ step' = step + 1 /\ pc' = "step" /\ UNCHANGED op
     \/ RowRefused("done") /\ pc' = "settle" /\ UNCHANGED <<op, step>>
  /\ UNCHANGED <<journal, files, inv, state, attempt, exit>>

MarkFailed ==
  /\ At("fail") /\ Append("StepFailed", "failed", "settle")
  /\ UNCHANGED <<files, store, inv, sink, driver, exit>>

\* Mutant: one attempt too many.
AttemptsSpentLate == attempt > MaxAttempts
AttemptsSpent == attempt >= MaxAttempts

MirrorFailed ==
  /\ At("failed")
  /\ \/ /\ RowLands("failed") /\ NoFault
        /\ \/ ~AttemptsSpent /\ pc' = "start" /\ UNCHANGED op
           \/ AttemptsSpent /\ op' = "StepFailedAfterRetry" /\ pc' = "journal"
     \/ RowRefused("failed") /\ pc' = "settle" /\ UNCHANGED op
  /\ UNCHANGED <<journal, files, inv, state, driver, exit>>

(***************************************************************************)
(* The return to the caller: the exit code each entry point settles on.    *)
(***************************************************************************)

PositionExit(s) ==
  CASE s = "completed" -> "0" [] s = "cancelled" -> "130" [] s = "paused" -> "6"
    [] OTHER -> "5"

\* Mutant: a tail on a completed step taken for a completed run.
TailStateLoose ==
  CASE last \in {"Completed", "StepCompleted"} -> "completed"
    [] last = "Cancelled" -> "cancelled"
    [] last \in PauseReasons -> "paused"
    [] OTHER -> "executing"

\* journal_tail: where the durable record says the run ended.
TailState ==
  IF health # "sound" THEN "executing"
  ELSE CASE last = "Completed" -> "completed"
         [] last = "Cancelled" -> "cancelled"
         [] last \in PauseReasons -> "paused"
         [] OTHER -> "executing"

Settle ==
  /\ At("settle")
  /\ End(CASE inv = "stop" -> "130"
           [] inv = "cancel" -> "3"
           [] inv = "resume" -> IF TailState = "executing" THEN "3" ELSE PositionExit(TailState)
           [] OTHER -> IF state = "none" \/ op = "Approve" THEN "3" ELSE PositionExit(state))
  /\ UNCHANGED <<journal, files, store, inv, sink, driver, faults>>

(***************************************************************************)
(* `saya run resume`.                                                      *)
(***************************************************************************)

\* Mutant: the cancellation arm is missing.
PositionUncancelled ==
  IF ~Approved THEN "planned"
  ELSE CASE last = "Completed" -> "completed"
         [] last \in PauseReasons -> "paused"
         [] OTHER -> IF \E s \in Steps : steps[s] # "none"
                     THEN "executing" ELSE "approved"

\* position() and journal_position(), one table for both.
Position ==
  IF ~Approved THEN "planned"
  ELSE CASE last = "Completed" -> "completed"
         [] last = "Cancelled" -> "cancelled"
         [] last \in PauseReasons -> "paused"
         [] OTHER -> IF \E s \in Steps : steps[s] # "none"
                     THEN "executing" ELSE "approved"

CanResume == status # "absent" /\ files = "plan" /\ health = "sound"

Resume ==
  /\ At("idle") /\ CanResume
  /\ inv' = "resume" /\ pc' = "repair" /\ state' = "none" /\ exit' = "none"
  /\ UNCHANGED <<journal, files, store, op, driver, faults>>

\* No row, no persisted spec or plan, or a journal that does not read; else
\* a workspace or provider that cannot be assembled.
ResumeRefused ==
  /\ At("idle") /\ inv' = "resume"
  /\ \/ ~CanResume /\ End("2")
     \/ CanResume /\ End("3")
  /\ UNCHANGED <<journal, files, store, sink, driver, faults>>

Repair ==
  /\ At("repair") /\ tail' = "whole" /\ pc' = "position"
  /\ UNCHANGED <<replayed, health, cuts, files, store, inv, sink, driver, exit, faults>>

\* The last lifecycle line of a prefix that shows the steps as `shown`.
Untouched == [s \in Steps |-> "none"]
LastLine(shown, line) ==
  IF shown = Untouched THEN line \in {"PlanApproved", "StoreUnavailable"}
  ELSE \/ line \in PauseReasons \cup {"Deliverables"}
       \/ line \in DOMAIN StepEvents /\ \E s \in Steps : shown[s] = StepEvents[line]

\* The journal's whole lines are not kept, so neither are its prefixes: what a
\* prefix replays to is whatever some journal with this replay went through.
\* Nothing; RunStarted; the approval and the steps finished or begun by then.
Prefixes ==
  {[stage |-> "none", steps |-> Untouched, last |-> "none"]}
    \cup {p \in {[stage |-> "started", steps |-> Untouched, last |-> "RunStarted"]} : Started}
    \cup {p \in [stage : {"approved"},
                  steps : [Steps -> {"none", "started", "completed", "failed"}],
                  last : PauseReasons \cup {"PlanApproved", "Deliverables"} \cup DOMAIN StepEvents] :
            /\ Approved /\ LastLine(p.steps, p.last)
            /\ \A s \in Steps :
                 /\ p.steps[s] # "none" =>
                      steps[s] # "none" /\ \A t \in 0 .. s - 1 : p.steps[t] = "completed"
                 /\ p.steps[s] = "completed" => steps[s] = "completed"}

\* truncate_torn_tail empties the file and then writes its whole lines back:
\* a crash or a refused write in between leaves a prefix of them, whole or
\* torn, that reads; a refused fsync may leave them all.
RepairCutOff ==
  /\ At("repair") /\ tail = "torn" /\ Fault
  /\ pc' \in {"idle", "settle"} /\ tail' \in {"whole", "torn"}
  /\ \/ UNCHANGED <<replayed, cuts>>
     \/ \E p \in Prefixes :
          /\ stage' = p.stage /\ steps' = p.steps /\ last' = p.last
          /\ cuts' = cuts + 1
  /\ UNCHANGED <<health, files, store, inv, sink, driver, exit>>

ResumePosition ==
  /\ At("position")
  /\ \/ /\ Position = "planned"  \* no run, or one never approved
        /\ End("2") /\ UNCHANGED sink
     \/ /\ Position \in {"completed", "cancelled"}
        /\ End(PositionExit(Position)) /\ UNCHANGED sink
     \/ /\ Position = "approved"
        /\ state' = "approved" /\ pc' = "seek" /\ UNCHANGED <<op, exit>>
     \/ /\ Position = "paused"
        /\ state' = "paused" /\ op' = "Resume" /\ pc' = "journal" /\ UNCHANGED exit
     \/ /\ Position = "executing"
        /\ state' = "executing" /\ op' = "ProcessDeath" /\ pc' = "journal" /\ UNCHANGED exit
  /\ UNCHANGED <<journal, files, store, inv, driver, faults>>

\* Mutant: a step in flight is passed over.
FirstUntouched(s) ==
  steps[s] = "none" /\ \A t \in Steps : t < s => steps[t] # "none"

FirstIncomplete(s) ==
  steps[s] # "completed" /\ \A t \in Steps : t < s => steps[t] = "completed"
AllCompleted == \A s \in Steps : steps[s] = "completed"

\* The first step the journal does not show completed; none left means only
\* the completion itself went unrecorded.
SeekStep ==
  /\ At("seek") /\ attempt' = 0
  /\ \/ \E s \in Steps :
          FirstIncomplete(s) /\ step' = s /\ pc' = "step" /\ UNCHANGED op
     \/ /\ AllCompleted
        /\ op' = "Complete" /\ pc' = "journal" /\ UNCHANGED step
  /\ UNCHANGED <<journal, files, store, inv, state, exit, faults>>

(***************************************************************************)
(* Stopping a run: `saya run cancel`, the panel's stop, Ctrl-C, a crash.   *)
(***************************************************************************)

Cancel ==
  /\ At("idle") /\ status # "absent"
  /\ inv' = "cancel" /\ pc' = "stop" /\ state' = "none" /\ exit' = "none"
  /\ UNCHANGED <<journal, files, store, op, driver, faults>>

CancelUnknown ==
  /\ At("idle") /\ status = "absent"
  /\ inv' = "cancel" /\ End("2")
  /\ UNCHANGED <<journal, files, store, sink, driver, faults>>

\* record_cancelled on a journal that does not read, holds no run, or is
\* already terminal; the panel's stop answers 130 whatever it finds.
StopNothing ==
  /\ At("stop")
  /\ \/ health = "corrupt" /\ End(IF inv = "stop" THEN "130" ELSE "3")
     \/ /\ health = "sound" /\ ~Started
        /\ End(IF inv = "stop" THEN "130" ELSE "2")
     \/ /\ health = "sound" /\ Started /\ Position \in {"completed", "cancelled"}
        /\ End(IF inv = "stop" THEN "130" ELSE "0")
  /\ UNCHANGED <<journal, files, store, inv, sink, driver, faults>>

StopRecord ==
  /\ At("stop") /\ health = "sound" /\ Started
  /\ Position \notin {"completed", "cancelled"}
  /\ state' = Position /\ op' = "Cancel" /\ pc' = "journal"
  /\ UNCHANGED <<journal, files, store, inv, driver, exit, faults>>

\* Where the work is suspended when a select! arm drops it; a store write in
\* flight may still be carried out.
StoreAwaits == {"mirror", "running", "done", "failed"}
Awaits == StoreAwaits \cup {"propose", "approval", "episode"}
Dropped ==
  /\ pc \in Awaits
  /\ \/ UNCHANGED store
     \/ At("mirror") /\ StatusLands(Target(op))
     \/ pc \in StoreAwaits \ {"mirror"} /\ RowLands(pc)

\* start_for_panel: the token wins the race and the stop is recorded here.
PanelStop ==
  /\ inv = "panel" /\ Dropped
  /\ inv' = "stop" /\ pc' = "stop"
  /\ UNCHANGED <<journal, files, sink, driver, exit, faults>>

\* Ctrl-C on `saya run` and `saya run resume`: the work is dropped and
\* nothing is recorded.
Interrupt ==
  /\ inv \in {"run", "resume"} /\ Dropped /\ Fault
  /\ End("130")
  /\ UNCHANGED <<journal, files, inv, sink, driver>>

Appends == {"started", "hold", "start", "episode", "deliver", "complete", "fail"}
Appending == pc \in Appends \/ (At("journal") /\ Legal(state, op) /\ IsJournaled(op))

Crash ==
  /\ pc # "idle" /\ Fault
  /\ UNCHANGED journal \/ (Appending /\ Tears)
  /\ pc' = "idle" /\ exit' = "none"
  /\ UNCHANGED <<files, store, inv, sink, driver>>

(***************************************************************************)
(* The specification.                                                      *)
(***************************************************************************)

Init ==
  /\ stage = "none"
  /\ steps = [s \in Steps |-> "none"] /\ last = "none"
  /\ tail = "whole" /\ health = "sound" /\ cuts = 0
  /\ files = "none"
  /\ status = "absent" /\ rows = [s \in Steps |-> "absent"]
  /\ inv \in {"run", "panel"} /\ pc = "claim"
  /\ state = "none" /\ op = "none"
  /\ step = 0 /\ attempt = 0
  /\ exit = "none" /\ faults = 0

RecordSteps ==
  \/ RecordAppend \/ RecordUnjournaled \/ RecordIllegal
  \/ RecordMirror \/ RecordMirrorRefused \/ RecordHold
DriverSteps ==
  \/ RunStep \/ MarkStarted \/ MirrorStarted
  \/ RecordDeliverables \/ MarkCompleted \/ MirrorCompleted
  \/ MarkFailed \/ MirrorFailed
ResumeSteps == Repair \/ RepairCutOff \/ ResumePosition \/ SeekStep
StopSteps == StopNothing \/ StopRecord

\* What the process does by itself: local computation and local writes.
Work ==
  \/ Claim \/ JournalStarted \/ PersistSpec
  \/ RecordSteps \/ DriverSteps \/ ResumeSteps \/ StopSteps \/ Settle

\* What it waits for: the model, in the plan's proposal and in an episode,
\* and the user's word on the plan.
EpisodeEnds == EpisodeOk \/ EpisodeFails \/ EpisodeGated \/ EpisodeCancelled
Answers == Propose \/ Decide \/ EmitUsage \/ Tick \/ EpisodeEnds

Invoke == Resume \/ ResumeRefused \/ Cancel \/ CancelUnknown

Next == Work \/ Answers \/ Invoke \/ PanelStop \/ Interrupt \/ Crash

Spec == Init /\ [][Next]_vars

(***************************************************************************)
(* Fairness.  A running process keeps taking its own next step: between    *)
(* two waits it only computes and writes local files.  Nothing obliges the *)
(* user to answer, the model to end an episode (an episode has no default  *)
(* ceiling) or anybody to resume; a property that needs Perseverance says  *)
(* so.                                                                     *)
(***************************************************************************)

FairSpec == Spec /\ WF_vars(Work)

\* A user who keeps resuming, and a model that is not hopeless: an episode
\* tried forever succeeds in the end.
Perseverance == WF_vars(Resume) /\ SF_vars(EpisodeOk)

-----------------------------------------------------------------------------

Labels ==
  {"claim", "started", "spec", "propose", "approval", "journal", "mirror", "hold",
   "step", "start", "running", "episode", "deliver", "complete", "done", "fail",
   "failed", "repair", "position", "seek", "stop", "settle", "idle"}
Lifecycle ==
  {"RunStarted", "PlanApproved", "StepStarted", "StepCompleted", "StepFailed",
   "Deliverables"} \cup PauseReasons \cup TerminalEvents

\* Every variable ranges over the values the code can give it.
TypeOK ==
  /\ stage \in {"none", "started", "approved"} /\ tail \in {"whole", "torn"}
  /\ steps \in [Steps -> {"none", "started", "completed", "failed"}]
  /\ last \in Lifecycle \cup {"none"}
  /\ health \in {"sound", "corrupt"}
  /\ files \in {"none", "spec", "plan"}
  /\ status \in RunStates \cup {"absent"}
  /\ rows \in [Steps -> {"absent", "running", "done", "failed"}]
  /\ inv \in {"run", "panel", "resume", "cancel", "stop"} /\ pc \in Labels
  /\ state \in RunStates \cup {"none"} /\ op \in Ops \cup {"none"}
  /\ step \in Steps /\ attempt \in 0 .. MaxAttempts
  /\ exit \in {"none", "0", "2", "3", "5", "6", "130"}
  /\ faults \in 0 .. MaxFaults /\ cuts \in 0 .. faults

\* The journal shows a step touched only when every earlier step is shown
\* completed, whatever sequence of invocations wrote it: the first-incomplete
\* seek of resume() restarts exactly where the record stops.
StepsInOrder ==
  \A s \in Steps : steps[s] # "none" => \A t \in 0 .. s - 1 : steps[t] = "completed"

\* No unrecorded work: while an episode runs, its approval and its StepStarted
\* are in a journal that reads, and the store shows the row running --
\* unless an append went astray on a torn line and the journal is corrupt.
WorkIsRecorded ==
  At("episode") /\ health # "corrupt" =>
    /\ Approved
    /\ steps[step] = "started" /\ rows[step] = "running"

\* Neither record calls the run completed before it shows every step
\* completed, repairs cut off included.
CompletedIsEarned ==
  /\ last = "Completed" => AllCompleted
  /\ status = "completed" /\ health # "corrupt" => last = "Completed"

\* The journal leads, the mirror follows: as long as the journal reads, no
\* store row claims what the journal does not show, however writes failed --
\* of a completed run never, of the others until a repair that is cut off
\* takes lines from the journal and leaves the mirror ahead.
MirrorNeverAhead ==
  health # "corrupt" =>
    /\ status = "completed" => Approved
    /\ cuts = 0 =>
         /\ status = "cancelled" => last = "Cancelled"
         /\ status \in {"approved", "executing", "paused"} => Approved
         /\ \A s \in Steps :
              /\ rows[s] # "absent" => steps[s] # "none"
              /\ rows[s] = "done" => steps[s] = "completed"

\* A run whose approval reached the store never has a later mirror write
\* refused by the status or the step table, across every failed write before
\* it: the store stays a mirror a resume can continue, unless a repair that
\* was cut off left it ahead.
MirrorsNeverConflict ==
  cuts = 0 =>
    /\ At("mirror") /\ status # "planned" => StatusAllows(status, Target(op))
    /\ pc \in StoreAwaits \ {"mirror"} => RowAllows(rows[step], pc)

\* A pause a ceiling recorded stops the run at the step boundary: a paused
\* sink starts no further step, it can only spend the retries of the current.
StopsAtBoundary == At("start") /\ state # "executing" => attempt > 0 /\ state = "paused"

\* Exit codes tell the truth: 0 from `saya run` or `saya run resume` means the
\* journal ends in Completed, 6 means it stands where a resume can pick it up,
\* unless the journal no longer reads.
ExitTellsTruth ==
  At("idle") /\ inv \in {"run", "resume"} /\ health = "sound" =>
    /\ exit = "0" => last = "Completed"
    /\ exit = "6" => Approved /\ CanResume /\ Position \in {"paused", "executing"}

\* What the journal recorded stays: nothing changes the replayed state of a
\* completed run, whatever is cut off; and no step but a repair that loses
\* lines withdraws a cancellation or an approval or restarts a completed step.
RecordIsFinal ==
  [][ /\ last = "Completed" => UNCHANGED replayed
      /\ UNCHANGED cuts =>
           /\ last = "Cancelled" => UNCHANGED replayed
           /\ \A s \in Steps : steps[s] = "completed" => steps'[s] = "completed"
           /\ Approved => Approved' ]_vars

\* The run as its journal tells it.
Phase ==
  CASE last = "Completed" -> "completed"
    [] last = "Cancelled" -> "cancelled"
    [] OTHER -> [none |-> "none", started |-> "planned", approved |-> "active"][stage]
Done == {s \in Steps : steps[s] = "completed"}
Promise == INSTANCE RunPromise WITH phase <- Phase, done <- Done, losses <- cuts

\* The detailed engine, with all its faults, keeps the abstract promise: every
\* step of it moves the replayed journal by one step of RunPromise or not at
\* all, and only a repair that is cut off moves it back.
KeepsPromise == Promise!Spec

\* Every invocation returns or waits: left alone it never runs round in
\* circles, it is back at the prompt again and again or stays for ever where
\* the user owes an answer or the model an end.
InvocationEnds ==
  []<>At("idle") \/ <>[](pc \in {"propose", "approval", "episode"})

\* A run whose approval both records hold can always be brought to an end by
\* resuming it, once faults stop: it completes or is cancelled, unless its
\* journal was corrupted or lost lines on the way.
RunCanFinish ==
  Perseverance =>
    (Approved /\ status # "planned" ~>
       last \in TerminalEvents \/ health = "corrupt" \/ cuts > 0)
=============================================================================
