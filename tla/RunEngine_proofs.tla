-------------------------- MODULE RunEngine_proofs --------------------------
(***************************************************************************)
(* Theorems about module RunEngine, for every plan length, attempt bound   *)
(* and fault bound.  IInv is the inductive invariant: beside the           *)
(* properties themselves it says, label by label, what the journal must    *)
(* already show for the next append or mirror write to be justified.       *)
(***************************************************************************)
EXTENDS RunEngine, TLAPS

\* An append can only be lost track of by landing on a torn line.
Reads == health # "corrupt"

Recording == pc \in {"journal", "mirror"}

\* The invocation has not got past the approval.
Fresh ==
  \/ pc \in {"claim", "started", "spec", "propose", "approval"}
  \/ Recording /\ op = "Approve"

\* The invocation holds an approved, unfinished run.
Driving ==
  \/ pc \in {"hold", "seek", "step", "start", "running", "episode", "deliver",
             "complete", "done", "fail", "failed"}
  \/ Recording /\ op \in {"Begin", "Resume"} \cup PauseReasons
  \/ pc = "journal" /\ op = "Complete"
  \/ pc = "mirror" /\ op = "Approve"

\* ... and is inside the attempt loop of the step it drives.
InStep ==
  \/ pc \in {"step", "start", "running", "episode", "deliver", "complete", "fail", "failed"}
  \/ Recording /\ op \in {"Begin", "BudgetExhausted"}

InEpisode ==
  \/ pc \in {"episode", "deliver", "complete", "fail"}
  \/ Recording /\ op = "BudgetExhausted"

\* The replayed journal by itself.
JournalInv ==
  /\ StepsInOrder
  /\ last = "Completed" => AllCompleted /\ Approved
  /\ ~Approved => \A s \in Steps : steps[s] = "none"

\* What the journal shows before each kind of append.
ReadyInv ==
  /\ Recording => op # "none"
  /\ Reads /\ tail = "torn" => last # "Completed" /\ (last = "Cancelled" => ~Approved)
  /\ pc \in {"repair", "position"} => health = "sound"
  /\ pc \in {"claim", "started"} =>
       ~Started /\ last = "none" /\ health = "sound"
  /\ Reads /\ (pc \in {"spec", "propose", "approval"} \/ (pc = "journal" /\ op = "Approve")) =>
       stage = "started" /\ last = "RunStarted"
  /\ Reads /\ Driving => Approved /\ last \notin TerminalEvents
  /\ Reads /\ pc = "journal" /\ op = "Cancel" =>
       Started /\ last # "Completed" /\ (last = "Cancelled" => ~Approved)
  /\ Reads /\ pc = "journal" /\ op = "Complete" => AllCompleted

\* Where the step being driven stands in the journal.
StepInv ==
  /\ Reads /\ Fresh => \A t \in Steps : steps[t] = "none"
  /\ Recording /\ op = "Approve" => step = 0
  /\ Reads /\ (InStep \/ pc = "done") =>
       \A t \in Steps : /\ t < step => steps[t] = "completed"
                        /\ t > step => steps[t] = "none"
  /\ Reads /\ InStep => steps[step] # "completed"
  /\ Reads /\ (InEpisode \/ pc = "running") => steps[step] = "started"
  /\ Reads /\ pc = "failed" => steps[step] = "failed"
  /\ Reads /\ pc = "done" => steps[step] = "completed"

\* Where the mirror may go next.
MirrorInv ==
  /\ MirrorNeverAhead
  /\ Reads /\ status = "completed" => last = "Completed"
  /\ Reads /\ pc = "mirror" /\ op = "Complete" => last = "Completed"
  /\ Reads /\ pc = "mirror" /\ op = "Cancel" => last = "Cancelled"
  /\ Reads /\ InEpisode => rows[step] = "running"

IInv == TypeOK /\ JournalInv /\ ReadyInv /\ StepInv /\ MirrorInv

-----------------------------------------------------------------------------

\* The initial states are well typed.
LEMMA InitType == Init => TypeOK
BY StepsAssumption, AttemptsAssumption, FaultsAssumption
DEF Init, TypeOK, Steps, RunStates, Lifecycle, Labels, Ops

JournalType ==
  /\ stage \in {"none", "started", "approved"} /\ tail \in {"whole", "torn"}
  /\ steps \in [Steps -> {"none", "started", "completed", "failed"}]
  /\ last \in Lifecycle \cup {"none"}
  /\ health \in {"sound", "corrupt"} /\ cuts \in 0 .. faults

\* A line that lands, whole or torn, leaves the journal well typed.
LEMMA AppendType ==
  ASSUME TypeOK, NEW e \in Lifecycle \cup {"Usage"}, AppendOk(e) \/ AppendErr(e)
  PROVE  JournalType' /\ faults' \in 0 .. MaxFaults
BY FaultsAssumption
DEF TypeOK, AppendOk, AppendErr, Lands, Tears, Replay, StepEvents, Fault, NoFault,
    journal, replayed, Lifecycle, PauseReasons, TerminalEvents, JournalType

\* What an append leaves of a readable journal: the record as it was, the
\* record replayed with the event, or a corrupt file.
Lost == health' = "corrupt" /\ UNCHANGED <<stage, steps, last, cuts>>
Kept == UNCHANGED <<stage, steps, last, health, cuts>>
Grown(e) ==
  /\ Replay(e) /\ tail = "whole" /\ UNCHANGED tail
  /\ health = "sound" /\ UNCHANGED <<health, cuts>>

\* A journal append of an event keeps the record, grows it by that event, or
\* leaves a file that no longer reads: no append rewrites what is there.
LEMMA AppendEffect ==
  ASSUME NEW e
  PROVE  /\ AppendOk(e) => Grown(e) \/ Lost
         /\ AppendErr(e) => Kept \/ Grown(e) \/ Lost
BY DEF AppendOk, AppendErr, Lands, Tears, journal, replayed, Kept, Lost, Grown

RecordKept == UNCHANGED <<stage, steps, last>>

\* What a repair that is cut off leaves when it loses lines: the record as it
\* stood at an earlier line.
CutBack ==
  /\ cuts' = cuts + 1
  /\ stage' \in {"none", "started", "approved"}
  /\ (Started' => Started) /\ (Approved' => Approved)
  /\ steps' \in [Steps -> {"none", "started", "completed", "failed"}]
  /\ ~Approved' => \A s \in Steps : steps'[s] = "none"
  /\ \A s \in Steps :
       /\ steps'[s] # "none" => steps[s] # "none" /\ \A t \in 0 .. s - 1 : steps'[t] = "completed"
       /\ steps'[s] = "completed" => steps[s] = "completed"
  /\ last' \in (Lifecycle \cup {"none"}) \ TerminalEvents
  /\ last' \in PauseReasons => Approved'

\* A repair that is cut off leaves the record as it was, or as it once was.
LEMMA CutOffEffect ==
  ASSUME RepairCutOff
  PROVE  (RecordKept /\ UNCHANGED cuts) \/ CutBack
<1>1. CASE UNCHANGED <<replayed, cuts>>
  BY <1>1 DEF RecordKept, replayed
<1>2. ASSUME NEW p \in Prefixes, stage' = p.stage, steps' = p.steps, last' = p.last,
             cuts' = cuts + 1
      PROVE  CutBack
  <2>1. CASE p = [stage |-> "none", steps |-> Untouched, last |-> "none"]
    BY <1>2, <2>1, StepsAssumption
    DEF CutBack, Started, Approved, Untouched, Lifecycle, PauseReasons, TerminalEvents
  <2>2. CASE p = [stage |-> "started", steps |-> Untouched, last |-> "RunStarted"] /\ Started
    BY <1>2, <2>2, StepsAssumption
    DEF CutBack, Started, Approved, Untouched, Lifecycle, PauseReasons, TerminalEvents
  <2>3. CASE /\ p \in [stage : {"approved"},
                        steps : [Steps -> {"none", "started", "completed", "failed"}],
                        last : PauseReasons \cup {"PlanApproved", "Deliverables"}
                                 \cup DOMAIN StepEvents]
             /\ Approved
             /\ \A s \in Steps :
                  /\ p.steps[s] # "none" =>
                       steps[s] # "none" /\ \A t \in 0 .. s - 1 : p.steps[t] = "completed"
                  /\ p.steps[s] = "completed" => steps[s] = "completed"
    <3>1. DOMAIN StepEvents = {"StepStarted", "StepCompleted", "StepFailed"}
      BY DEF StepEvents
    <3>2. /\ p.stage = "approved"
          /\ p.steps \in [Steps -> {"none", "started", "completed", "failed"}]
          /\ p.last \in PauseReasons \cup {"PlanApproved", "Deliverables"} \cup DOMAIN StepEvents
      BY <2>3
    <3>3. p.last \in (Lifecycle \cup {"none"}) \ TerminalEvents
      BY <3>1, <3>2 DEF Lifecycle, PauseReasons, TerminalEvents
    <3>4. QED
      BY <1>2, <2>3, <3>2, <3>3 DEF CutBack, Started, Approved
  <2>4. QED
    BY <1>2, <2>1, <2>2, <2>3 DEF Prefixes
<1>3. QED
  BY <1>1, <1>2 DEF RepairCutOff

\* The attempt bound as an invariant: an attempt is begun only below it.
AttemptInv == pc = "start" \/ (Recording /\ op = "Begin") => attempt < MaxAttempts
TypeInv == TypeOK /\ AttemptInv

\* Every step of every invocation keeps the types, and begins an attempt only
\* below the bound.
LEMMA TypeStep == TypeInv /\ [Next]_vars => TypeInv'
<1> SUFFICES ASSUME TypeInv, [Next]_vars PROVE TypeInv'
  OBVIOUS
<1> USE StepsAssumption, AttemptsAssumption, FaultsAssumption
<1>1. CASE Claim
  BY <1>1 DEF Claim, TypeInv, TypeOK, AttemptInv, Recording, At, sink, driver,
      store, Fault, NoFault, Labels, RunStates, journal
<1>2. CASE JournalStarted
  <2>1. "RunStarted" \in Lifecycle \cup {"Usage"}
    BY DEF Lifecycle, PauseReasons
  <2>2. AppendOk("RunStarted") \/ AppendErr("RunStarted")
    BY <1>2 DEF JournalStarted, Append
  <2>3. JournalType' /\ faults' \in 0 .. MaxFaults
    BY <2>1, <2>2, AppendType DEF TypeInv
  <2>4. QED BY <1>2, <2>3 DEF JournalStarted, TypeInv, TypeOK, AttemptInv,
      Recording, At, sink, driver, store, Append, Labels, Lifecycle,
      JournalType
<1>3. CASE PersistSpec
  BY <1>3 DEF PersistSpec, TypeInv, TypeOK, AttemptInv, Recording, At, sink,
      driver, store, Fault, NoFault, Labels, journal
<1>4. CASE Propose
  BY <1>4 DEF Propose, TypeInv, TypeOK, AttemptInv, Recording, At, sink,
      driver, store, Fault, NoFault, End, Labels, journal
<1>5. CASE Decide
  BY <1>5 DEF Decide, TypeInv, TypeOK, AttemptInv, Recording, At, sink,
      driver, store, End, Labels, Ops, RunStates, Steps, journal
<1>6. CASE RecordAppend
  <2>1. EventOf(op) \in Lifecycle \cup {"Usage"}
    BY <1>6 DEF RecordAppend, EventOf, Legal, Machine, Target, IsJournaled,
        Transitions, Lifecycle, TerminalEvents, PauseReasons, TypeInv, TypeOK,
        Ops
  <2>2. AppendOk(EventOf(op)) \/ AppendErr(EventOf(op))
    BY <1>6 DEF RecordAppend, Append
  <2>3. JournalType' /\ faults' \in 0 .. MaxFaults
    BY <2>1, <2>2, AppendType DEF TypeInv
  <2>4. QED BY <1>6, <2>3 DEF RecordAppend, TypeInv, TypeOK, AttemptInv,
      Recording, At, sink, driver, store, Append, Abandoned, EventOf, Legal,
      Machine, Target, IsJournaled, Transitions, Labels, Lifecycle,
      TerminalEvents, PauseReasons, JournalType
<1>7. CASE RecordUnjournaled
  BY <1>7 DEF RecordUnjournaled, TypeInv, TypeOK, AttemptInv, Recording, At,
      sink, driver, store, IsJournaled, Labels, journal
<1>8. CASE RecordIllegal
  BY <1>8 DEF RecordIllegal, TypeInv, TypeOK, AttemptInv, Recording, At, sink,
      driver, store, Abandoned, Labels, journal
<1>9. CASE RecordMirror
  BY <1>9 DEF RecordMirror, TypeInv, TypeOK, AttemptInv, Recording, At, sink,
      driver, store, StatusLands, NoFault, Target, Continuation, Labels, Ops,
      RunStates, journal
<1>10. CASE RecordMirrorRefused
  BY <1>10 DEF RecordMirrorRefused, TypeInv, TypeOK, AttemptInv, Recording,
      At, sink, driver, store, StatusRefused, Refused, StatusLands, Fault,
      NoFault, Target, Abandoned, Labels, RunStates, journal
<1>11. CASE RecordHold
  <2>1. "StoreUnavailable" \in Lifecycle \cup {"Usage"}
    BY DEF Lifecycle, PauseReasons
  <2>2. AppendOk("StoreUnavailable") \/ AppendErr("StoreUnavailable")
    BY <1>11 DEF RecordHold, Append
  <2>3. JournalType' /\ faults' \in 0 .. MaxFaults
    BY <2>1, <2>2, AppendType DEF TypeInv
  <2>4. QED BY <1>11, <2>3 DEF RecordHold, TypeInv, TypeOK, AttemptInv,
      Recording, At, sink, driver, store, Labels, RunStates, Lifecycle,
      PauseReasons, JournalType
<1>12. CASE RunStep
  BY <1>12 DEF RunStep, TypeInv, TypeOK, AttemptInv, Recording, At, sink,
      driver, store, Labels, Ops, journal
<1>13. CASE MarkStarted
  <2>1. "StepStarted" \in Lifecycle \cup {"Usage"}
    BY DEF Lifecycle, PauseReasons
  <2>2. AppendOk("StepStarted") \/ AppendErr("StepStarted")
    BY <1>13 DEF MarkStarted, Append
  <2>3. JournalType' /\ faults' \in 0 .. MaxFaults
    BY <2>1, <2>2, AppendType DEF TypeInv
  <2>4. QED BY <1>13, <2>3 DEF MarkStarted, TypeInv, TypeOK, AttemptInv,
      Recording, At, sink, driver, store, Append, Labels, Lifecycle,
      JournalType
<1>14. CASE MirrorStarted
  BY <1>14 DEF MirrorStarted, TypeInv, TypeOK, AttemptInv, Recording, At,
      sink, driver, store, RowLands, RowRefused, Refused, Fault, NoFault,
      Labels, journal
<1>15. CASE EmitUsage
  <2>1. "Usage" \in Lifecycle \cup {"Usage"}
    BY DEF Lifecycle, PauseReasons
  <2>2. AppendOk("Usage") \/ AppendErr("Usage")
    BY <1>15 DEF EmitUsage, Append
  <2>3. JournalType' /\ faults' \in 0 .. MaxFaults
    BY <2>1, <2>2, AppendType DEF TypeInv
  <2>4. QED BY <1>15, <2>3 DEF EmitUsage, TypeInv, TypeOK, AttemptInv,
      Recording, At, sink, driver, store, JournalType
<1>16. CASE Tick
  BY <1>16 DEF Tick, TypeInv, TypeOK, AttemptInv, Recording, At, sink, driver,
      store, Labels, Ops, journal
<1>17. CASE EpisodeOk
  BY <1>17 DEF EpisodeOk, TypeInv, TypeOK, AttemptInv, Recording, At, sink,
      driver, store, Labels, journal
<1>18. CASE EpisodeFails
  BY <1>18 DEF EpisodeFails, TypeInv, TypeOK, AttemptInv, Recording, At, sink,
      driver, store, Labels, journal
<1>19. CASE EpisodeGated
  BY <1>19 DEF EpisodeGated, TypeInv, TypeOK, AttemptInv, Recording, At, sink,
      driver, store, Labels, journal
<1>20. CASE EpisodeCancelled
  BY <1>20 DEF EpisodeCancelled, TypeInv, TypeOK, AttemptInv, Recording, At,
      sink, driver, store, Labels, Ops, journal
<1>21. CASE RecordDeliverables
  <2>1. "Deliverables" \in Lifecycle \cup {"Usage"}
    BY DEF Lifecycle, PauseReasons
  <2>2. AppendOk("Deliverables") \/ AppendErr("Deliverables")
    BY <1>21 DEF RecordDeliverables, Append
  <2>3. JournalType' /\ faults' \in 0 .. MaxFaults
    BY <2>1, <2>2, AppendType DEF TypeInv
  <2>4. QED BY <1>21, <2>3 DEF RecordDeliverables, TypeInv, TypeOK,
      AttemptInv, Recording, At, sink, driver, store, Append, Labels,
      Lifecycle, JournalType
<1>22. CASE MarkCompleted
  <2>1. "StepCompleted" \in Lifecycle \cup {"Usage"}
    BY DEF Lifecycle, PauseReasons
  <2>2. AppendOk("StepCompleted") \/ AppendErr("StepCompleted")
    BY <1>22 DEF MarkCompleted, Append
  <2>3. JournalType' /\ faults' \in 0 .. MaxFaults
    BY <2>1, <2>2, AppendType DEF TypeInv
  <2>4. QED BY <1>22, <2>3 DEF MarkCompleted, TypeInv, TypeOK, AttemptInv,
      Recording, At, sink, driver, store, Append, Labels, Lifecycle,
      JournalType
<1>23. CASE MirrorCompleted
  BY <1>23 DEF MirrorCompleted, TypeInv, TypeOK, AttemptInv, Recording, At,
      sink, driver, store, LastStep, RowLands, RowRefused, Refused, Fault,
      NoFault, Labels, Ops, Steps, journal
<1>24. CASE MarkFailed
  <2>1. "StepFailed" \in Lifecycle \cup {"Usage"}
    BY DEF Lifecycle, PauseReasons
  <2>2. AppendOk("StepFailed") \/ AppendErr("StepFailed")
    BY <1>24 DEF MarkFailed, Append
  <2>3. JournalType' /\ faults' \in 0 .. MaxFaults
    BY <2>1, <2>2, AppendType DEF TypeInv
  <2>4. QED BY <1>24, <2>3 DEF MarkFailed, TypeInv, TypeOK, AttemptInv,
      Recording, At, sink, driver, store, Append, Labels, Lifecycle,
      JournalType
<1>25. CASE MirrorFailed
  BY <1>25 DEF MirrorFailed, TypeInv, TypeOK, AttemptInv, Recording, At, sink,
      driver, store, AttemptsSpent, RowLands, RowRefused, Refused, Fault,
      NoFault, Labels, Ops, journal
<1>26. CASE Settle
  BY <1>26 DEF Settle, TypeInv, TypeOK, AttemptInv, Recording, At, sink,
      driver, store, End, TailState, PositionExit, Labels, journal
<1>27. CASE Resume
  BY <1>27 DEF Resume, TypeInv, TypeOK, AttemptInv, Recording, At, sink,
      driver, store, CanResume, Labels, journal
<1>28. CASE ResumeRefused
  BY <1>28 DEF ResumeRefused, TypeInv, TypeOK, AttemptInv, Recording, At,
      sink, driver, store, End, Labels, journal
<1>29. CASE Repair
  BY <1>29 DEF Repair, TypeInv, TypeOK, AttemptInv, Recording, At, sink,
      driver, store, Labels, replayed
<1>30. CASE RepairCutOff
  <2>1. CASE RecordKept /\ UNCHANGED cuts
    BY <1>30, <2>1 DEF RepairCutOff, RecordKept, TypeInv, TypeOK, AttemptInv,
        Recording, At, sink, driver, store, Fault, Labels
  <2>2. CASE CutBack
    BY <1>30, <2>2 DEF RepairCutOff, CutBack, TypeInv, TypeOK, AttemptInv,
        Recording, At, sink, driver, store, Fault, Labels
  <2>3. QED
    BY <1>30, <2>1, <2>2, CutOffEffect
<1>31. CASE ResumePosition
  BY <1>31 DEF ResumePosition, TypeInv, TypeOK, AttemptInv, Recording, At,
      sink, driver, store, End, PositionExit, Position, Labels, Ops,
      RunStates, journal
<1>32. CASE SeekStep
  BY <1>32 DEF SeekStep, TypeInv, TypeOK, AttemptInv, Recording, At, sink,
      driver, store, FirstIncomplete, Labels, Ops, Steps, journal
<1>33. CASE Cancel
  BY <1>33 DEF Cancel, TypeInv, TypeOK, AttemptInv, Recording, At, sink,
      driver, store, Labels, journal
<1>34. CASE CancelUnknown
  BY <1>34 DEF CancelUnknown, TypeInv, TypeOK, AttemptInv, Recording, At,
      sink, driver, store, End, Labels, journal
<1>35. CASE StopNothing
  BY <1>35 DEF StopNothing, TypeInv, TypeOK, AttemptInv, Recording, At, sink,
      driver, store, End, Labels, journal
<1>36. CASE StopRecord
  BY <1>36 DEF StopRecord, TypeInv, TypeOK, AttemptInv, Recording, At, sink,
      driver, store, Position, Labels, Ops, RunStates, journal
<1>37. CASE PanelStop
  BY <1>37 DEF PanelStop, TypeInv, TypeOK, AttemptInv, Recording, At, sink,
      driver, store, Dropped, Awaits, StoreAwaits, StatusLands, RowLands,
      Target, Labels, RunStates, journal
<1>38. CASE Interrupt
  BY <1>38 DEF Interrupt, TypeInv, TypeOK, AttemptInv, Recording, At, sink,
      driver, store, Dropped, Awaits, StoreAwaits, StatusLands, RowLands,
      Target, Fault, End, Labels, RunStates, journal
<1>39. CASE Crash
  BY <1>39 DEF Crash, TypeInv, TypeOK, AttemptInv, Recording, At, sink,
      driver, store, Fault, Tears, Appending, Labels, journal, replayed
<1>40. CASE UNCHANGED vars
  BY <1>40 DEF vars, TypeInv, TypeOK, AttemptInv, Recording, At, sink, driver,
      store, journal
<1>41. QED
  BY <1>1, <1>2, <1>3, <1>4, <1>5, <1>6, <1>7, <1>8, <1>9, <1>10, <1>11,
      <1>12, <1>13, <1>14, <1>15, <1>16, <1>17, <1>18, <1>19, <1>20, <1>21,
      <1>22, <1>23, <1>24, <1>25, <1>26, <1>27, <1>28, <1>29, <1>30, <1>31,
      <1>32, <1>33, <1>34, <1>35, <1>36, <1>37, <1>38, <1>39, <1>40 DEF Next,
      Work, Answers, RecordSteps, DriverSteps, EpisodeEnds, ResumeSteps,
      StopSteps, Invoke

\* The inductive invariant holds of a run directory nothing has happened in.
LEMMA InitIInv == Init => IInv
<1> SUFFICES ASSUME Init PROVE IInv
  OBVIOUS
<1>1. TypeOK
  BY InitType
<1>2. JournalInv
  BY DEF Init, JournalInv, StepsInOrder, AllCompleted
<1>3. ReadyInv /\ StepInv /\ MirrorInv
  BY DEF Init, ReadyInv, StepInv, MirrorInv, MirrorNeverAhead, Fresh, Driving,
         InStep, InEpisode, Recording, Reads, Started, Approved, TerminalEvents
<1>4. QED
  BY <1>1, <1>2, <1>3 DEF IInv

\* A mirror write that lands keeps the store behind the journal.
MirrorBehind == MirrorNeverAhead /\ (Reads /\ status = "completed" => last = "Completed")

\* A status write that lands after its append keeps the store behind the
\* journal, whichever transition it mirrors.
LEMMA StatusBehind ==
  ASSUME IInv, At("mirror"), StatusLands(Target(op)), UNCHANGED journal
  PROVE  MirrorBehind'
<1>1. CASE op = "Approve"
  BY <1>1 DEF IInv, MirrorInv, MirrorBehind, MirrorNeverAhead, ReadyInv, Driving, Recording,
         Reads, Approved, At, StatusLands, Target, journal
<1>2. CASE op \in {"Begin", "Resume"}
  BY <1>2 DEF IInv, MirrorInv, MirrorBehind, MirrorNeverAhead, ReadyInv, Driving, Recording,
         Reads, Approved, At, StatusLands, Target, journal
<1>3. CASE op \in {"Complete", "Cancel"}
  BY <1>3 DEF IInv, MirrorInv, MirrorBehind, MirrorNeverAhead, Reads, Approved, At,
         JournalInv, StatusLands, Target, journal
<1>4. CASE op \in PauseReasons
  BY <1>4 DEF IInv, MirrorInv, MirrorBehind, MirrorNeverAhead, ReadyInv, Driving, Recording,
         Reads, Approved, At, StatusLands, Target, PauseReasons, journal
<1>5. CASE op = "none"
  BY <1>5 DEF IInv, ReadyInv, Recording, At
<1>6. QED
  BY <1>1, <1>2, <1>3, <1>4, <1>5 DEF IInv, TypeOK, Ops, PauseReasons

\* A step-row write that lands after its append keeps the rows behind the
\* journal's steps.
LEMMA RowBehind ==
  ASSUME IInv, NEW r \in {"running", "done", "failed"}, At(r), RowLands(r), UNCHANGED journal
  PROVE  MirrorBehind'
BY DEF IInv, TypeOK, MirrorInv, MirrorBehind, MirrorNeverAhead, StepInv, InStep, Recording,
       Reads, Approved, At, RowLands, journal

\* Where the journal puts an approved run is terminal exactly when its last
\* event is: a resume or a cancel never continues a finished run.
LEMMA PositionFacts ==
  /\ Position # "planned" => Approved
  /\ Approved /\ Position \notin {"completed", "cancelled"} => last \notin TerminalEvents
<1>1. ~Approved => Position = "planned"
  BY DEF Position, PauseReasons
<1>2. Approved /\ last = "Completed" => Position = "completed"
  BY DEF Position, PauseReasons
<1>3. Approved /\ last = "Cancelled" => Position = "cancelled"
  BY DEF Position, PauseReasons
<1>4. QED
  BY <1>1, <1>2, <1>3 DEF TerminalEvents

\* Every step of the engine, its user and its environment keeps the inductive
\* invariant: one case per action, one sub-step per part it can disturb.
LEMMA StepIInv == IInv /\ TypeOK' /\ [Next]_vars => IInv'
<1> SUFFICES ASSUME IInv, TypeOK', [Next]_vars PROVE IInv'
  OBVIOUS
<1> USE StepsAssumption
<1>1. CASE Claim
  BY <1>1 DEF Claim, IInv, JournalInv, ReadyInv, StepInv, MirrorInv,
      StepsInOrder, AllCompleted, MirrorNeverAhead, Fresh, Driving, InStep,
      InEpisode, Recording, Reads, Started, Approved, TerminalEvents,
      PauseReasons, TypeOK, At, sink, driver, store, Fault, NoFault, journal
<1>2. CASE JournalStarted
  <2>1. /\ AppendOk("RunStarted") => Grown("RunStarted") \/ Lost
        /\ AppendErr("RunStarted") => Kept \/ Grown("RunStarted") \/ Lost
    BY AppendEffect
  <2>2. JournalInv'
    BY <1>2, <2>1 DEF JournalStarted, IInv, JournalInv, ReadyInv, StepInv,
        MirrorInv, StepsInOrder, AllCompleted, MirrorNeverAhead, Fresh,
        Driving, InStep, InEpisode, Recording, Reads, Started, Approved,
        TerminalEvents, PauseReasons, TypeOK, At, sink, driver, store, Append,
        Kept, Lost, Grown, Replay, StepEvents, Steps
  <2>3. ReadyInv'
    BY <1>2, <2>1 DEF JournalStarted, IInv, JournalInv, ReadyInv, StepInv,
        MirrorInv, StepsInOrder, AllCompleted, MirrorNeverAhead, Fresh,
        Driving, InStep, InEpisode, Recording, Reads, Started, Approved,
        TerminalEvents, PauseReasons, TypeOK, At, sink, driver, store, Append,
        Kept, Lost, Grown, Replay, StepEvents, Steps
  <2>4. StepInv'
    BY <1>2, <2>1 DEF JournalStarted, IInv, JournalInv, ReadyInv, StepInv,
        MirrorInv, StepsInOrder, AllCompleted, MirrorNeverAhead, Fresh,
        Driving, InStep, InEpisode, Recording, Reads, Started, Approved,
        TerminalEvents, PauseReasons, TypeOK, At, sink, driver, store, Append,
        Kept, Lost, Grown, Replay, StepEvents, Steps
  <2>5. MirrorInv'
    BY <1>2, <2>1 DEF JournalStarted, IInv, JournalInv, ReadyInv, StepInv,
        MirrorInv, StepsInOrder, AllCompleted, MirrorNeverAhead, Fresh,
        Driving, InStep, InEpisode, Recording, Reads, Started, Approved,
        TerminalEvents, PauseReasons, TypeOK, At, sink, driver, store, Append,
        Kept, Lost, Grown, Replay, StepEvents, Steps
  <2>6. QED
    BY <2>2, <2>3, <2>4, <2>5 DEF IInv
<1>3. CASE PersistSpec
  BY <1>3 DEF PersistSpec, IInv, JournalInv, ReadyInv, StepInv, MirrorInv,
      StepsInOrder, AllCompleted, MirrorNeverAhead, Fresh, Driving, InStep,
      InEpisode, Recording, Reads, Started, Approved, TerminalEvents,
      PauseReasons, TypeOK, At, sink, driver, store, Fault, NoFault, journal
<1>4. CASE Propose
  BY <1>4 DEF Propose, IInv, JournalInv, ReadyInv, StepInv, MirrorInv,
      StepsInOrder, AllCompleted, MirrorNeverAhead, Fresh, Driving, InStep,
      InEpisode, Recording, Reads, Started, Approved, TerminalEvents,
      PauseReasons, TypeOK, At, sink, driver, store, Fault, NoFault, End,
      journal
<1>5. CASE Decide
  BY <1>5 DEF Decide, IInv, JournalInv, ReadyInv, StepInv, MirrorInv,
      StepsInOrder, AllCompleted, MirrorNeverAhead, Fresh, Driving, InStep,
      InEpisode, Recording, Reads, Started, Approved, TerminalEvents,
      PauseReasons, TypeOK, At, sink, driver, store, End, Ops, Steps, journal
<1>6. CASE RecordAppend
  <2>1. /\ AppendOk(EventOf(op)) => Grown(EventOf(op)) \/ Lost
        /\ AppendErr(EventOf(op)) => Kept \/ Grown(EventOf(op)) \/ Lost
    BY AppendEffect
  <2>2. JournalInv'
    BY SMTT(60), <1>6, <2>1 DEF RecordAppend, IInv, JournalInv, ReadyInv, StepInv,
        MirrorInv, StepsInOrder, AllCompleted, MirrorNeverAhead, Fresh,
        Driving, InStep, InEpisode, Recording, Reads, Started, Approved,
        TerminalEvents, PauseReasons, TypeOK, At, sink, driver, store, Append,
        Abandoned, EventOf, Legal, Machine, Target, IsJournaled, Transitions,
        Kept, Lost, Grown, Replay, StepEvents, Steps
  <2>3. ReadyInv'
    <3>1. CASE op = "Approve"
      BY <1>6, <2>1, <3>1 DEF RecordAppend, IInv, JournalInv, ReadyInv, StepInv,
          MirrorInv, StepsInOrder, AllCompleted, MirrorNeverAhead, Fresh,
          Driving, InStep, InEpisode, Recording, Reads, Started, Approved,
          TerminalEvents, PauseReasons, TypeOK, At, sink, driver, store, Append,
          Abandoned, EventOf, Legal, Machine, Target, IsJournaled, Transitions,
          Kept, Lost, Grown, Replay, StepEvents, Steps
    <3>2. CASE op = "Complete"
      BY <1>6, <2>1, <3>2 DEF RecordAppend, IInv, JournalInv, ReadyInv, StepInv,
          MirrorInv, StepsInOrder, AllCompleted, MirrorNeverAhead, Fresh,
          Driving, InStep, InEpisode, Recording, Reads, Started, Approved,
          TerminalEvents, PauseReasons, TypeOK, At, sink, driver, store, Append,
          Abandoned, EventOf, Legal, Machine, Target, IsJournaled, Transitions,
          Kept, Lost, Grown, Replay, StepEvents, Steps
    <3>3. CASE op = "Cancel"
      BY <1>6, <2>1, <3>3 DEF RecordAppend, IInv, JournalInv, ReadyInv, StepInv,
          MirrorInv, StepsInOrder, AllCompleted, MirrorNeverAhead, Fresh,
          Driving, InStep, InEpisode, Recording, Reads, Started, Approved,
          TerminalEvents, PauseReasons, TypeOK, At, sink, driver, store, Append,
          Abandoned, EventOf, Legal, Machine, Target, IsJournaled, Transitions,
          Kept, Lost, Grown, Replay, StepEvents, Steps
    <3>4. CASE op \in PauseReasons
      BY <1>6, <2>1, <3>4 DEF RecordAppend, IInv, JournalInv, ReadyInv, StepInv,
          MirrorInv, StepsInOrder, AllCompleted, MirrorNeverAhead, Fresh,
          Driving, InStep, InEpisode, Recording, Reads, Started, Approved,
          TerminalEvents, PauseReasons, TypeOK, At, sink, driver, store, Append,
          Abandoned, EventOf, Legal, Machine, Target, IsJournaled, Transitions,
          Kept, Lost, Grown, Replay, StepEvents, Steps
    <3>5. CASE op \in {"none", "Begin", "Resume"}
      BY <1>6, <2>1, <3>5 DEF RecordAppend, IInv, JournalInv, ReadyInv, StepInv,
          MirrorInv, StepsInOrder, AllCompleted, MirrorNeverAhead, Fresh,
          Driving, InStep, InEpisode, Recording, Reads, Started, Approved,
          TerminalEvents, PauseReasons, TypeOK, At, sink, driver, store, Append,
          Abandoned, EventOf, Legal, Machine, Target, IsJournaled, Transitions,
          Kept, Lost, Grown, Replay, StepEvents, Steps
    <3>6. QED
      BY <3>1, <3>2, <3>3, <3>4, <3>5 DEF IInv, TypeOK, Ops, PauseReasons
  <2>4. StepInv'
    BY SMTT(60), <1>6, <2>1 DEF RecordAppend, IInv, JournalInv, ReadyInv, StepInv,
        MirrorInv, StepsInOrder, AllCompleted, MirrorNeverAhead, Fresh,
        Driving, InStep, InEpisode, Recording, Reads, Started, Approved,
        TerminalEvents, PauseReasons, TypeOK, At, sink, driver, store, Append,
        Abandoned, EventOf, Legal, Machine, Target, IsJournaled, Transitions,
        Kept, Lost, Grown, Replay, StepEvents, Steps
  <2>5. MirrorInv'
    <3>1. CASE op = "Approve"
      BY <1>6, <2>1, <3>1 DEF RecordAppend, IInv, JournalInv, ReadyInv,
          StepInv, MirrorInv, StepsInOrder, AllCompleted, MirrorNeverAhead,
          Fresh, Driving, InStep, InEpisode, Recording, Reads, Started,
          Approved, TerminalEvents, PauseReasons, TypeOK, At, sink, driver,
          store, Append, Abandoned, EventOf, Legal, Machine, Target,
          IsJournaled, Transitions, Kept, Lost, Grown, Replay, StepEvents,
          Steps
    <3>2. CASE op = "Complete"
      BY <1>6, <2>1, <3>2 DEF RecordAppend, IInv, JournalInv, ReadyInv,
          StepInv, MirrorInv, StepsInOrder, AllCompleted, MirrorNeverAhead,
          Fresh, Driving, InStep, InEpisode, Recording, Reads, Started,
          Approved, TerminalEvents, PauseReasons, TypeOK, At, sink, driver,
          store, Append, Abandoned, EventOf, Legal, Machine, Target,
          IsJournaled, Transitions, Kept, Lost, Grown, Replay, StepEvents,
          Steps
    <3>3. CASE op = "Cancel"
      BY <1>6, <2>1, <3>3 DEF RecordAppend, IInv, JournalInv, ReadyInv,
          StepInv, MirrorInv, StepsInOrder, AllCompleted, MirrorNeverAhead,
          Fresh, Driving, InStep, InEpisode, Recording, Reads, Started,
          Approved, TerminalEvents, PauseReasons, TypeOK, At, sink, driver,
          store, Append, Abandoned, EventOf, Legal, Machine, Target,
          IsJournaled, Transitions, Kept, Lost, Grown, Replay, StepEvents,
          Steps
    <3>4. CASE op = "BudgetExhausted"
      BY <1>6, <2>1, <3>4 DEF RecordAppend, IInv, JournalInv, ReadyInv,
          StepInv, MirrorInv, StepsInOrder, AllCompleted, MirrorNeverAhead,
          Fresh, Driving, InStep, InEpisode, Recording, Reads, Started,
          Approved, TerminalEvents, PauseReasons, TypeOK, At, sink, driver,
          store, Append, Abandoned, EventOf, Legal, Machine, Target,
          IsJournaled, Transitions, Kept, Lost, Grown, Replay, StepEvents,
          Steps
    <3>5. CASE op \in {"ProcessDeath", "StepFailedAfterRetry", "StoreUnavailable"}
      BY <1>6, <2>1, <3>5 DEF RecordAppend, IInv, JournalInv, ReadyInv,
          StepInv, MirrorInv, StepsInOrder, AllCompleted, MirrorNeverAhead,
          Fresh, Driving, InStep, InEpisode, Recording, Reads, Started,
          Approved, TerminalEvents, PauseReasons, TypeOK, At, sink, driver,
          store, Append, Abandoned, EventOf, Legal, Machine, Target,
          IsJournaled, Transitions, Kept, Lost, Grown, Replay, StepEvents,
          Steps
    <3>6. QED
      BY <1>6, <3>1, <3>2, <3>3, <3>4, <3>5 DEF RecordAppend, IInv, TypeOK,
          ReadyInv, Recording, At, IsJournaled, Ops
  <2>6. QED
    BY <2>2, <2>3, <2>4, <2>5 DEF IInv
<1>7. CASE RecordUnjournaled
  BY <1>7 DEF RecordUnjournaled, IInv, JournalInv, ReadyInv, StepInv,
      MirrorInv, StepsInOrder, AllCompleted, MirrorNeverAhead, Fresh, Driving,
      InStep, InEpisode, Recording, Reads, Started, Approved, TerminalEvents,
      PauseReasons, TypeOK, At, sink, driver, store, IsJournaled, journal
<1>8. CASE RecordIllegal
  BY <1>8 DEF RecordIllegal, IInv, JournalInv, ReadyInv, StepInv, MirrorInv,
      StepsInOrder, AllCompleted, MirrorNeverAhead, Fresh, Driving, InStep,
      InEpisode, Recording, Reads, Started, Approved, TerminalEvents,
      PauseReasons, TypeOK, At, sink, driver, store, Abandoned, journal
<1>9. CASE RecordMirror
  <2>1. MirrorBehind'
    BY <1>9, StatusBehind DEF RecordMirror
  <2>2. CASE op = "Approve"
    BY <1>9, <2>1, <2>2 DEF RecordMirror, IInv, JournalInv, ReadyInv, StepInv,
        MirrorInv, StepsInOrder, AllCompleted, MirrorNeverAhead, Fresh,
        Driving, InStep, InEpisode, Recording, Reads, Started, Approved,
        TerminalEvents, PauseReasons, TypeOK, At, sink, driver, store,
        StatusLands, NoFault, Target, Continuation, Ops, journal,
        MirrorBehind, Ops, Steps
  <2>3. CASE op = "Begin"
    BY <1>9, <2>1, <2>3 DEF RecordMirror, IInv, JournalInv, ReadyInv, StepInv,
        MirrorInv, StepsInOrder, AllCompleted, MirrorNeverAhead, Fresh,
        Driving, InStep, InEpisode, Recording, Reads, Started, Approved,
        TerminalEvents, PauseReasons, TypeOK, At, sink, driver, store,
        StatusLands, NoFault, Target, Continuation, Ops, journal,
        MirrorBehind, Ops, Steps
  <2>4. CASE op = "ProcessDeath"
    BY <1>9, <2>1, <2>4 DEF RecordMirror, IInv, JournalInv, ReadyInv, StepInv,
        MirrorInv, StepsInOrder, AllCompleted, MirrorNeverAhead, Fresh,
        Driving, InStep, InEpisode, Recording, Reads, Started, Approved,
        TerminalEvents, PauseReasons, TypeOK, At, sink, driver, store,
        StatusLands, NoFault, Target, Continuation, Ops, journal,
        MirrorBehind, Ops, Steps
  <2>5. CASE op = "Resume"
    BY <1>9, <2>1, <2>5 DEF RecordMirror, IInv, JournalInv, ReadyInv, StepInv,
        MirrorInv, StepsInOrder, AllCompleted, MirrorNeverAhead, Fresh,
        Driving, InStep, InEpisode, Recording, Reads, Started, Approved,
        TerminalEvents, PauseReasons, TypeOK, At, sink, driver, store,
        StatusLands, NoFault, Target, Continuation, Ops, journal,
        MirrorBehind, Ops, Steps
  <2>6. CASE op = "BudgetExhausted"
    BY <1>9, <2>1, <2>6 DEF RecordMirror, IInv, JournalInv, ReadyInv, StepInv,
        MirrorInv, StepsInOrder, AllCompleted, MirrorNeverAhead, Fresh,
        Driving, InStep, InEpisode, Recording, Reads, Started, Approved,
        TerminalEvents, PauseReasons, TypeOK, At, sink, driver, store,
        StatusLands, NoFault, Target, Continuation, Ops, journal,
        MirrorBehind, Ops, Steps
  <2>7. CASE op = "StepFailedAfterRetry"
    BY <1>9, <2>1, <2>7 DEF RecordMirror, IInv, JournalInv, ReadyInv, StepInv,
        MirrorInv, StepsInOrder, AllCompleted, MirrorNeverAhead, Fresh,
        Driving, InStep, InEpisode, Recording, Reads, Started, Approved,
        TerminalEvents, PauseReasons, TypeOK, At, sink, driver, store,
        StatusLands, NoFault, Target, Continuation, Ops, journal,
        MirrorBehind, Ops, Steps
  <2>8. CASE op \in {"Complete", "Cancel"}
    BY <1>9, <2>1, <2>8 DEF RecordMirror, IInv, JournalInv, ReadyInv, StepInv,
        MirrorInv, StepsInOrder, AllCompleted, MirrorNeverAhead, Fresh,
        Driving, InStep, InEpisode, Recording, Reads, Started, Approved,
        TerminalEvents, PauseReasons, TypeOK, At, sink, driver, store,
        StatusLands, NoFault, Target, Continuation, Ops, journal,
        MirrorBehind, Ops, Steps
  <2>9. QED
    BY <1>9, <2>2, <2>3, <2>4, <2>5, <2>6, <2>7, <2>8 DEF RecordMirror, IInv,
        TypeOK, ReadyInv, Recording, At, Ops, StatusLands, NoFault, Target,
        Continuation, Ops, journal, RunStates
<1>10. CASE RecordMirrorRefused
  <2>1. MirrorBehind'
    BY <1>10, StatusBehind DEF RecordMirrorRefused, StatusRefused, Refused,
        MirrorBehind, IInv, MirrorInv, MirrorNeverAhead, Reads, Approved,
        journal, store
  <2>2. CASE op \in {"Begin", "Resume"}
    BY <1>10, <2>1, <2>2 DEF RecordMirrorRefused, IInv, JournalInv, ReadyInv,
        StepInv, MirrorInv, StepsInOrder, AllCompleted, MirrorNeverAhead,
        Fresh, Driving, InStep, InEpisode, Recording, Reads, Started,
        Approved, TerminalEvents, PauseReasons, TypeOK, At, sink, driver,
        store, StatusRefused, Refused, StatusLands, Fault, NoFault, Target,
        Abandoned, journal, MirrorBehind, Ops, Steps
  <2>3. CASE op = "BudgetExhausted"
    BY <1>10, <2>1, <2>3 DEF RecordMirrorRefused, IInv, JournalInv, ReadyInv,
        StepInv, MirrorInv, StepsInOrder, AllCompleted, MirrorNeverAhead,
        Fresh, Driving, InStep, InEpisode, Recording, Reads, Started,
        Approved, TerminalEvents, PauseReasons, TypeOK, At, sink, driver,
        store, StatusRefused, Refused, StatusLands, Fault, NoFault, Target,
        Abandoned, journal, MirrorBehind, Ops, Steps
  <2>4. CASE op \in Ops \ {"Begin", "Resume", "BudgetExhausted"}
    BY <1>10, <2>1, <2>4 DEF RecordMirrorRefused, IInv, JournalInv, ReadyInv,
        StepInv, MirrorInv, StepsInOrder, AllCompleted, MirrorNeverAhead,
        Fresh, Driving, InStep, InEpisode, Recording, Reads, Started,
        Approved, TerminalEvents, PauseReasons, TypeOK, At, sink, driver,
        store, StatusRefused, Refused, StatusLands, Fault, NoFault, Target,
        Abandoned, journal, MirrorBehind, Ops, Steps
  <2>5. QED
    BY <1>10, <2>2, <2>3, <2>4 DEF RecordMirrorRefused, IInv, TypeOK,
        ReadyInv, Recording, At, Ops, StatusRefused, Refused, StatusLands,
        Fault, NoFault, Target, Abandoned, journal, RunStates
<1>11. CASE RecordHold
  <2>1. /\ AppendOk("StoreUnavailable") => Grown("StoreUnavailable") \/ Lost
        /\ AppendErr("StoreUnavailable") => Kept \/ Grown("StoreUnavailable") \/ Lost
    BY AppendEffect
  <2>2. JournalInv'
    BY <1>11, <2>1 DEF RecordHold, IInv, JournalInv, ReadyInv, StepInv,
        MirrorInv, StepsInOrder, AllCompleted, MirrorNeverAhead, Fresh,
        Driving, InStep, InEpisode, Recording, Reads, Started, Approved,
        TerminalEvents, PauseReasons, TypeOK, At, sink, driver, store, Kept,
        Lost, Grown, Replay, StepEvents, Steps
  <2>3. ReadyInv'
    BY <1>11, <2>1 DEF RecordHold, IInv, JournalInv, ReadyInv, StepInv,
        MirrorInv, StepsInOrder, AllCompleted, MirrorNeverAhead, Fresh,
        Driving, InStep, InEpisode, Recording, Reads, Started, Approved,
        TerminalEvents, PauseReasons, TypeOK, At, sink, driver, store, Kept,
        Lost, Grown, Replay, StepEvents, Steps
  <2>4. StepInv'
    BY <1>11, <2>1 DEF RecordHold, IInv, JournalInv, ReadyInv, StepInv,
        MirrorInv, StepsInOrder, AllCompleted, MirrorNeverAhead, Fresh,
        Driving, InStep, InEpisode, Recording, Reads, Started, Approved,
        TerminalEvents, PauseReasons, TypeOK, At, sink, driver, store, Kept,
        Lost, Grown, Replay, StepEvents, Steps
  <2>5. MirrorInv'
    BY <1>11, <2>1 DEF RecordHold, IInv, JournalInv, ReadyInv, StepInv,
        MirrorInv, StepsInOrder, AllCompleted, MirrorNeverAhead, Fresh,
        Driving, InStep, InEpisode, Recording, Reads, Started, Approved,
        TerminalEvents, PauseReasons, TypeOK, At, sink, driver, store, Kept,
        Lost, Grown, Replay, StepEvents, Steps
  <2>6. QED
    BY <2>2, <2>3, <2>4, <2>5 DEF IInv
<1>12. CASE RunStep
  BY <1>12 DEF RunStep, IInv, JournalInv, ReadyInv, StepInv, MirrorInv,
      StepsInOrder, AllCompleted, MirrorNeverAhead, Fresh, Driving, InStep,
      InEpisode, Recording, Reads, Started, Approved, TerminalEvents,
      PauseReasons, TypeOK, At, sink, driver, store, Ops, journal
<1>13. CASE MarkStarted
  <2>1. /\ AppendOk("StepStarted") => Grown("StepStarted") \/ Lost
        /\ AppendErr("StepStarted") => Kept \/ Grown("StepStarted") \/ Lost
    BY AppendEffect
  <2>2. JournalInv'
    BY <1>13, <2>1, SMTT(30) DEF MarkStarted, IInv, JournalInv, ReadyInv, StepInv,
        MirrorInv, StepsInOrder, AllCompleted, MirrorNeverAhead, Fresh,
        Driving, InStep, InEpisode, Recording, Reads, Started, Approved,
        TerminalEvents, PauseReasons, TypeOK, At, sink, driver, store, Append,
        Kept, Lost, Grown, Replay, StepEvents, Steps
  <2>3. ReadyInv'
    BY <1>13, <2>1 DEF MarkStarted, IInv, JournalInv, ReadyInv, StepInv,
        MirrorInv, StepsInOrder, AllCompleted, MirrorNeverAhead, Fresh,
        Driving, InStep, InEpisode, Recording, Reads, Started, Approved,
        TerminalEvents, PauseReasons, TypeOK, At, sink, driver, store, Append,
        Kept, Lost, Grown, Replay, StepEvents, Steps
  <2>4. StepInv'
    BY <1>13, <2>1 DEF MarkStarted, IInv, JournalInv, ReadyInv, StepInv,
        MirrorInv, StepsInOrder, AllCompleted, MirrorNeverAhead, Fresh,
        Driving, InStep, InEpisode, Recording, Reads, Started, Approved,
        TerminalEvents, PauseReasons, TypeOK, At, sink, driver, store, Append,
        Kept, Lost, Grown, Replay, StepEvents, Steps
  <2>5. MirrorInv'
    BY <1>13, <2>1 DEF MarkStarted, IInv, JournalInv, ReadyInv, StepInv,
        MirrorInv, StepsInOrder, AllCompleted, MirrorNeverAhead, Fresh,
        Driving, InStep, InEpisode, Recording, Reads, Started, Approved,
        TerminalEvents, PauseReasons, TypeOK, At, sink, driver, store, Append,
        Kept, Lost, Grown, Replay, StepEvents, Steps
  <2>6. QED
    BY <2>2, <2>3, <2>4, <2>5 DEF IInv
<1>14. CASE MirrorStarted
  BY <1>14 DEF MirrorStarted, IInv, JournalInv, ReadyInv, StepInv, MirrorInv,
      StepsInOrder, AllCompleted, MirrorNeverAhead, Fresh, Driving, InStep,
      InEpisode, Recording, Reads, Started, Approved, TerminalEvents,
      PauseReasons, TypeOK, At, sink, driver, store, RowLands, RowRefused,
      Refused, Fault, NoFault, journal
<1>15. CASE EmitUsage
  <2>1. /\ AppendOk("Usage") => Grown("Usage") \/ Lost
        /\ AppendErr("Usage") => Kept \/ Grown("Usage") \/ Lost
    BY AppendEffect
  <2>2. JournalInv'
    BY <1>15, <2>1 DEF EmitUsage, IInv, JournalInv, ReadyInv, StepInv,
        MirrorInv, StepsInOrder, AllCompleted, MirrorNeverAhead, Fresh,
        Driving, InStep, InEpisode, Recording, Reads, Started, Approved,
        TerminalEvents, PauseReasons, TypeOK, At, sink, driver, store, Kept,
        Lost, Grown, Replay, StepEvents, Steps
  <2>3. ReadyInv'
    BY <1>15, <2>1 DEF EmitUsage, IInv, JournalInv, ReadyInv, StepInv,
        MirrorInv, StepsInOrder, AllCompleted, MirrorNeverAhead, Fresh,
        Driving, InStep, InEpisode, Recording, Reads, Started, Approved,
        TerminalEvents, PauseReasons, TypeOK, At, sink, driver, store, Kept,
        Lost, Grown, Replay, StepEvents, Steps
  <2>4. StepInv'
    BY <1>15, <2>1 DEF EmitUsage, IInv, JournalInv, ReadyInv, StepInv,
        MirrorInv, StepsInOrder, AllCompleted, MirrorNeverAhead, Fresh,
        Driving, InStep, InEpisode, Recording, Reads, Started, Approved,
        TerminalEvents, PauseReasons, TypeOK, At, sink, driver, store, Kept,
        Lost, Grown, Replay, StepEvents, Steps
  <2>5. MirrorInv'
    BY <1>15, <2>1 DEF EmitUsage, IInv, JournalInv, ReadyInv, StepInv,
        MirrorInv, StepsInOrder, AllCompleted, MirrorNeverAhead, Fresh,
        Driving, InStep, InEpisode, Recording, Reads, Started, Approved,
        TerminalEvents, PauseReasons, TypeOK, At, sink, driver, store, Kept,
        Lost, Grown, Replay, StepEvents, Steps
  <2>6. QED
    BY <2>2, <2>3, <2>4, <2>5 DEF IInv
<1>16. CASE Tick
  BY <1>16 DEF Tick, IInv, JournalInv, ReadyInv, StepInv, MirrorInv,
      StepsInOrder, AllCompleted, MirrorNeverAhead, Fresh, Driving, InStep,
      InEpisode, Recording, Reads, Started, Approved, TerminalEvents,
      PauseReasons, TypeOK, At, sink, driver, store, Ops, journal
<1>17. CASE EpisodeOk
  BY <1>17 DEF EpisodeOk, IInv, JournalInv, ReadyInv, StepInv, MirrorInv,
      StepsInOrder, AllCompleted, MirrorNeverAhead, Fresh, Driving, InStep,
      InEpisode, Recording, Reads, Started, Approved, TerminalEvents,
      PauseReasons, TypeOK, At, sink, driver, store, journal
<1>18. CASE EpisodeFails
  BY <1>18 DEF EpisodeFails, IInv, JournalInv, ReadyInv, StepInv, MirrorInv,
      StepsInOrder, AllCompleted, MirrorNeverAhead, Fresh, Driving, InStep,
      InEpisode, Recording, Reads, Started, Approved, TerminalEvents,
      PauseReasons, TypeOK, At, sink, driver, store, journal
<1>19. CASE EpisodeGated
  BY <1>19 DEF EpisodeGated, IInv, JournalInv, ReadyInv, StepInv, MirrorInv,
      StepsInOrder, AllCompleted, MirrorNeverAhead, Fresh, Driving, InStep,
      InEpisode, Recording, Reads, Started, Approved, TerminalEvents,
      PauseReasons, TypeOK, At, sink, driver, store, journal
<1>20. CASE EpisodeCancelled
  BY <1>20 DEF EpisodeCancelled, IInv, JournalInv, ReadyInv, StepInv,
      MirrorInv, StepsInOrder, AllCompleted, MirrorNeverAhead, Fresh, Driving,
      InStep, InEpisode, Recording, Reads, Started, Approved, TerminalEvents,
      PauseReasons, TypeOK, At, sink, driver, store, Ops, journal
<1>21. CASE RecordDeliverables
  <2>1. /\ AppendOk("Deliverables") => Grown("Deliverables") \/ Lost
        /\ AppendErr("Deliverables") => Kept \/ Grown("Deliverables") \/ Lost
    BY AppendEffect
  <2>2. JournalInv'
    BY <1>21, <2>1 DEF RecordDeliverables, IInv, JournalInv, ReadyInv,
        StepInv, MirrorInv, StepsInOrder, AllCompleted, MirrorNeverAhead,
        Fresh, Driving, InStep, InEpisode, Recording, Reads, Started,
        Approved, TerminalEvents, PauseReasons, TypeOK, At, sink, driver,
        store, Append, Kept, Lost, Grown, Replay, StepEvents, Steps
  <2>3. ReadyInv'
    BY <1>21, <2>1 DEF RecordDeliverables, IInv, JournalInv, ReadyInv,
        StepInv, MirrorInv, StepsInOrder, AllCompleted, MirrorNeverAhead,
        Fresh, Driving, InStep, InEpisode, Recording, Reads, Started,
        Approved, TerminalEvents, PauseReasons, TypeOK, At, sink, driver,
        store, Append, Kept, Lost, Grown, Replay, StepEvents, Steps
  <2>4. StepInv'
    BY <1>21, <2>1 DEF RecordDeliverables, IInv, JournalInv, ReadyInv,
        StepInv, MirrorInv, StepsInOrder, AllCompleted, MirrorNeverAhead,
        Fresh, Driving, InStep, InEpisode, Recording, Reads, Started,
        Approved, TerminalEvents, PauseReasons, TypeOK, At, sink, driver,
        store, Append, Kept, Lost, Grown, Replay, StepEvents, Steps
  <2>5. MirrorInv'
    BY <1>21, <2>1 DEF RecordDeliverables, IInv, JournalInv, ReadyInv,
        StepInv, MirrorInv, StepsInOrder, AllCompleted, MirrorNeverAhead,
        Fresh, Driving, InStep, InEpisode, Recording, Reads, Started,
        Approved, TerminalEvents, PauseReasons, TypeOK, At, sink, driver,
        store, Append, Kept, Lost, Grown, Replay, StepEvents, Steps
  <2>6. QED
    BY <2>2, <2>3, <2>4, <2>5 DEF IInv
<1>22. CASE MarkCompleted
  <2>1. /\ AppendOk("StepCompleted") => Grown("StepCompleted") \/ Lost
        /\ AppendErr("StepCompleted") => Kept \/ Grown("StepCompleted") \/ Lost
    BY AppendEffect
  <2>2. JournalInv'
    BY <1>22, <2>1, SMTT(30) DEF MarkCompleted, IInv, JournalInv, ReadyInv, StepInv,
        MirrorInv, StepsInOrder, AllCompleted, MirrorNeverAhead, Fresh,
        Driving, InStep, InEpisode, Recording, Reads, Started, Approved,
        TerminalEvents, PauseReasons, TypeOK, At, sink, driver, store, Append,
        Kept, Lost, Grown, Replay, StepEvents, Steps
  <2>3. ReadyInv'
    BY <1>22, <2>1 DEF MarkCompleted, IInv, JournalInv, ReadyInv, StepInv,
        MirrorInv, StepsInOrder, AllCompleted, MirrorNeverAhead, Fresh,
        Driving, InStep, InEpisode, Recording, Reads, Started, Approved,
        TerminalEvents, PauseReasons, TypeOK, At, sink, driver, store, Append,
        Kept, Lost, Grown, Replay, StepEvents, Steps
  <2>4. StepInv'
    BY <1>22, <2>1 DEF MarkCompleted, IInv, JournalInv, ReadyInv, StepInv,
        MirrorInv, StepsInOrder, AllCompleted, MirrorNeverAhead, Fresh,
        Driving, InStep, InEpisode, Recording, Reads, Started, Approved,
        TerminalEvents, PauseReasons, TypeOK, At, sink, driver, store, Append,
        Kept, Lost, Grown, Replay, StepEvents, Steps
  <2>5. MirrorInv'
    BY <1>22, <2>1 DEF MarkCompleted, IInv, JournalInv, ReadyInv, StepInv,
        MirrorInv, StepsInOrder, AllCompleted, MirrorNeverAhead, Fresh,
        Driving, InStep, InEpisode, Recording, Reads, Started, Approved,
        TerminalEvents, PauseReasons, TypeOK, At, sink, driver, store, Append,
        Kept, Lost, Grown, Replay, StepEvents, Steps
  <2>6. QED
    BY <2>2, <2>3, <2>4, <2>5 DEF IInv
<1>23. CASE MirrorCompleted
  BY <1>23 DEF MirrorCompleted, IInv, JournalInv, ReadyInv, StepInv,
      MirrorInv, StepsInOrder, AllCompleted, MirrorNeverAhead, Fresh, Driving,
      InStep, InEpisode, Recording, Reads, Started, Approved, TerminalEvents,
      PauseReasons, TypeOK, At, sink, driver, store, LastStep, RowLands,
      RowRefused, Refused, Fault, NoFault, Ops, Steps, journal
<1>24. CASE MarkFailed
  <2>1. /\ AppendOk("StepFailed") => Grown("StepFailed") \/ Lost
        /\ AppendErr("StepFailed") => Kept \/ Grown("StepFailed") \/ Lost
    BY AppendEffect
  <2>2. JournalInv'
    <3>1. CASE Kept \/ Lost
      BY <1>24, <3>1 DEF MarkFailed, IInv, JournalInv, ReadyInv, StepInv,
          MirrorInv, StepsInOrder, AllCompleted, MirrorNeverAhead, Fresh,
          Driving, InStep, InEpisode, Recording, Reads, Started, Approved,
          TerminalEvents, PauseReasons, TypeOK, At, sink, driver, store,
          Append, Kept, Lost, Grown, Replay, StepEvents, Steps
    <3>2. CASE Grown("StepFailed")
      BY <1>24, <3>2 DEF MarkFailed, IInv, JournalInv, ReadyInv, StepInv,
          MirrorInv, StepsInOrder, AllCompleted, MirrorNeverAhead, Fresh,
          Driving, InStep, InEpisode, Recording, Reads, Started, Approved,
          TerminalEvents, PauseReasons, TypeOK, At, sink, driver, store,
          Append, Kept, Lost, Grown, Replay, StepEvents, Steps
    <3>3. QED
      BY <1>24, <2>1, <3>1, <3>2 DEF MarkFailed, Append
  <2>3. ReadyInv'
    BY <1>24, <2>1 DEF MarkFailed, IInv, JournalInv, ReadyInv, StepInv,
        MirrorInv, StepsInOrder, AllCompleted, MirrorNeverAhead, Fresh,
        Driving, InStep, InEpisode, Recording, Reads, Started, Approved,
        TerminalEvents, PauseReasons, TypeOK, At, sink, driver, store, Append,
        Kept, Lost, Grown, Replay, StepEvents, Steps
  <2>4. StepInv'
    BY <1>24, <2>1 DEF MarkFailed, IInv, JournalInv, ReadyInv, StepInv,
        MirrorInv, StepsInOrder, AllCompleted, MirrorNeverAhead, Fresh,
        Driving, InStep, InEpisode, Recording, Reads, Started, Approved,
        TerminalEvents, PauseReasons, TypeOK, At, sink, driver, store, Append,
        Kept, Lost, Grown, Replay, StepEvents, Steps
  <2>5. MirrorInv'
    BY <1>24, <2>1 DEF MarkFailed, IInv, JournalInv, ReadyInv, StepInv,
        MirrorInv, StepsInOrder, AllCompleted, MirrorNeverAhead, Fresh,
        Driving, InStep, InEpisode, Recording, Reads, Started, Approved,
        TerminalEvents, PauseReasons, TypeOK, At, sink, driver, store, Append,
        Kept, Lost, Grown, Replay, StepEvents, Steps
  <2>6. QED
    BY <2>2, <2>3, <2>4, <2>5 DEF IInv
<1>25. CASE MirrorFailed
  BY <1>25 DEF MirrorFailed, IInv, JournalInv, ReadyInv, StepInv, MirrorInv,
      StepsInOrder, AllCompleted, MirrorNeverAhead, Fresh, Driving, InStep,
      InEpisode, Recording, Reads, Started, Approved, TerminalEvents,
      PauseReasons, TypeOK, At, sink, driver, store, AttemptsSpent, RowLands,
      RowRefused, Refused, Fault, NoFault, Ops, journal
<1>26. CASE Settle
  BY <1>26 DEF Settle, IInv, JournalInv, ReadyInv, StepInv, MirrorInv,
      StepsInOrder, AllCompleted, MirrorNeverAhead, Fresh, Driving, InStep,
      InEpisode, Recording, Reads, Started, Approved, TerminalEvents,
      PauseReasons, TypeOK, At, sink, driver, store, End, TailState,
      PositionExit, journal
<1>27. CASE Resume
  BY <1>27 DEF Resume, IInv, JournalInv, ReadyInv, StepInv, MirrorInv,
      StepsInOrder, AllCompleted, MirrorNeverAhead, Fresh, Driving, InStep,
      InEpisode, Recording, Reads, Started, Approved, TerminalEvents,
      PauseReasons, TypeOK, At, sink, driver, store, CanResume, journal
<1>28. CASE ResumeRefused
  BY <1>28 DEF ResumeRefused, IInv, JournalInv, ReadyInv, StepInv, MirrorInv,
      StepsInOrder, AllCompleted, MirrorNeverAhead, Fresh, Driving, InStep,
      InEpisode, Recording, Reads, Started, Approved, TerminalEvents,
      PauseReasons, TypeOK, At, sink, driver, store, End, journal
<1>29. CASE Repair
  <2>1. JournalInv'
    BY <1>29 DEF Repair, IInv, JournalInv, ReadyInv, StepInv, MirrorInv,
        StepsInOrder, AllCompleted, MirrorNeverAhead, Fresh, Driving, InStep,
        InEpisode, Recording, Reads, Started, Approved, TerminalEvents,
        PauseReasons, TypeOK, At, sink, driver, store, replayed
  <2>2. ReadyInv'
    BY <1>29 DEF Repair, IInv, JournalInv, ReadyInv, StepInv, MirrorInv,
        StepsInOrder, AllCompleted, MirrorNeverAhead, Fresh, Driving, InStep,
        InEpisode, Recording, Reads, Started, Approved, TerminalEvents,
        PauseReasons, TypeOK, At, sink, driver, store, replayed
  <2>3. StepInv'
    BY <1>29 DEF Repair, IInv, JournalInv, ReadyInv, StepInv, MirrorInv,
        StepsInOrder, AllCompleted, MirrorNeverAhead, Fresh, Driving, InStep,
        InEpisode, Recording, Reads, Started, Approved, TerminalEvents,
        PauseReasons, TypeOK, At, sink, driver, store, replayed
  <2>4. MirrorInv'
    BY <1>29 DEF Repair, IInv, JournalInv, ReadyInv, StepInv, MirrorInv,
        StepsInOrder, AllCompleted, MirrorNeverAhead, Fresh, Driving, InStep,
        InEpisode, Recording, Reads, Started, Approved, TerminalEvents,
        PauseReasons, TypeOK, At, sink, driver, store, replayed
  <2>5. QED
    BY <2>1, <2>2, <2>3, <2>4 DEF IInv
<1>30. CASE RepairCutOff
  <2>1. /\ pc \in {"repair"} /\ pc' \in {"idle", "settle"} /\ tail = "torn" /\ health = "sound"
        /\ UNCHANGED <<health, files, status, rows, inv, state, op, step, attempt, exit>>
    BY <1>30 DEF RepairCutOff, At, IInv, ReadyInv, store, sink, driver
  <2>2. CASE RecordKept /\ UNCHANGED cuts
    <3>1. JournalInv'
      BY <2>2 DEF RecordKept, IInv, JournalInv, StepsInOrder, AllCompleted, Approved
    <3>2. ReadyInv'
      BY <2>1, <2>2 DEF RecordKept, IInv, ReadyInv, Recording, Reads, Driving, Approved
    <3>3. StepInv'
      BY <2>1, <2>2 DEF RecordKept, StepInv, Fresh, Recording, InStep, InEpisode
    <3>4. MirrorInv'
      BY <2>1, <2>2 DEF RecordKept, IInv, MirrorInv, MirrorNeverAhead, Reads, Approved,
         InEpisode, Recording
    <3>5. QED
      BY <3>1, <3>2, <3>3, <3>4 DEF IInv
  <2>3. CASE CutBack
    <3>1. JournalInv'
      BY <2>3 DEF CutBack, JournalInv, StepsInOrder, AllCompleted, TerminalEvents, Approved
    <3>2. ReadyInv'
      BY <2>1, <2>3 DEF CutBack, ReadyInv, Recording, Reads, Driving, Approved, TerminalEvents
    <3>3. StepInv'
      BY <2>1 DEF StepInv, Fresh, Recording, InStep, InEpisode
    <3>4. status # "completed" /\ cuts' # 0
      BY <2>1, <2>3 DEF CutBack, IInv, TypeOK, MirrorInv, ReadyInv, Reads
    <3>5. MirrorInv'
      BY <2>1, <3>4 DEF MirrorInv, MirrorNeverAhead, Reads, InEpisode, Recording
    <3>6. QED
      BY <3>1, <3>2, <3>3, <3>5 DEF IInv
  <2>4. QED
    BY <1>30, <2>2, <2>3, CutOffEffect
<1>31. CASE ResumePosition
  <2>1. /\ Position # "planned" => Approved
        /\ Approved /\ Position \notin {"completed", "cancelled"} => last \notin TerminalEvents
    BY PositionFacts
  <2>2. CASE Position = "planned"
    BY <1>31, <2>1, <2>2 DEF ResumePosition, IInv, JournalInv, ReadyInv,
        StepInv, MirrorInv, StepsInOrder, AllCompleted, MirrorNeverAhead,
        Fresh, Driving, InStep, InEpisode, Recording, Reads, Started,
        Approved, TerminalEvents, PauseReasons, TypeOK, At, sink, driver,
        store, End, PositionExit, Ops, journal, MirrorBehind, Ops, Steps
  <2>3. CASE Position \in {"completed", "cancelled"}
    BY <1>31, <2>1, <2>3 DEF ResumePosition, IInv, JournalInv, ReadyInv,
        StepInv, MirrorInv, StepsInOrder, AllCompleted, MirrorNeverAhead,
        Fresh, Driving, InStep, InEpisode, Recording, Reads, Started,
        Approved, TerminalEvents, PauseReasons, TypeOK, At, sink, driver,
        store, End, PositionExit, Ops, journal, MirrorBehind, Ops, Steps
  <2>4. CASE Position = "approved"
    BY <1>31, <2>1, <2>4 DEF ResumePosition, IInv, JournalInv, ReadyInv,
        StepInv, MirrorInv, StepsInOrder, AllCompleted, MirrorNeverAhead,
        Fresh, Driving, InStep, InEpisode, Recording, Reads, Started,
        Approved, TerminalEvents, PauseReasons, TypeOK, At, sink, driver,
        store, End, PositionExit, Ops, journal, MirrorBehind, Ops, Steps
  <2>5. CASE Position = "paused"
    BY <1>31, <2>1, <2>5 DEF ResumePosition, IInv, JournalInv, ReadyInv,
        StepInv, MirrorInv, StepsInOrder, AllCompleted, MirrorNeverAhead,
        Fresh, Driving, InStep, InEpisode, Recording, Reads, Started,
        Approved, TerminalEvents, PauseReasons, TypeOK, At, sink, driver,
        store, End, PositionExit, Ops, journal, MirrorBehind, Ops, Steps
  <2>6. CASE Position = "executing"
    BY <1>31, <2>1, <2>6 DEF ResumePosition, IInv, JournalInv, ReadyInv,
        StepInv, MirrorInv, StepsInOrder, AllCompleted, MirrorNeverAhead,
        Fresh, Driving, InStep, InEpisode, Recording, Reads, Started,
        Approved, TerminalEvents, PauseReasons, TypeOK, At, sink, driver,
        store, End, PositionExit, Ops, journal, MirrorBehind, Ops, Steps
  <2>7. QED
    BY <1>31, <2>2, <2>3, <2>4, <2>5, <2>6 DEF ResumePosition, IInv, TypeOK,
        ReadyInv, Recording, At, Ops, End, PositionExit, Ops, journal,
        RunStates
<1>32. CASE SeekStep
  BY <1>32 DEF SeekStep, IInv, JournalInv, ReadyInv, StepInv, MirrorInv,
      StepsInOrder, AllCompleted, MirrorNeverAhead, Fresh, Driving, InStep,
      InEpisode, Recording, Reads, Started, Approved, TerminalEvents,
      PauseReasons, TypeOK, At, sink, driver, store, FirstIncomplete, Ops,
      Steps, journal
<1>33. CASE Cancel
  BY <1>33 DEF Cancel, IInv, JournalInv, ReadyInv, StepInv, MirrorInv,
      StepsInOrder, AllCompleted, MirrorNeverAhead, Fresh, Driving, InStep,
      InEpisode, Recording, Reads, Started, Approved, TerminalEvents,
      PauseReasons, TypeOK, At, sink, driver, store, journal
<1>34. CASE CancelUnknown
  BY <1>34 DEF CancelUnknown, IInv, JournalInv, ReadyInv, StepInv, MirrorInv,
      StepsInOrder, AllCompleted, MirrorNeverAhead, Fresh, Driving, InStep,
      InEpisode, Recording, Reads, Started, Approved, TerminalEvents,
      PauseReasons, TypeOK, At, sink, driver, store, End, journal
<1>35. CASE StopNothing
  BY <1>35 DEF StopNothing, IInv, JournalInv, ReadyInv, StepInv, MirrorInv,
      StepsInOrder, AllCompleted, MirrorNeverAhead, Fresh, Driving, InStep,
      InEpisode, Recording, Reads, Started, Approved, TerminalEvents,
      PauseReasons, TypeOK, At, sink, driver, store, End, journal
<1>36. CASE StopRecord
  <2>1. Approved /\ Position \notin {"completed", "cancelled"} => last \notin TerminalEvents
    BY PositionFacts
  <2>2. CASE ~Approved
    BY <1>36, <2>1, <2>2 DEF StopRecord, IInv, JournalInv, ReadyInv, StepInv,
        MirrorInv, StepsInOrder, AllCompleted, MirrorNeverAhead, Fresh,
        Driving, InStep, InEpisode, Recording, Reads, Started, Approved,
        TerminalEvents, PauseReasons, TypeOK, At, sink, driver, store, Ops,
        journal, MirrorBehind, Ops, Steps
  <2>3. CASE Approved
    BY <1>36, <2>1, <2>3 DEF StopRecord, IInv, JournalInv, ReadyInv, StepInv,
        MirrorInv, StepsInOrder, AllCompleted, MirrorNeverAhead, Fresh,
        Driving, InStep, InEpisode, Recording, Reads, Started, Approved,
        TerminalEvents, PauseReasons, TypeOK, At, sink, driver, store, Ops,
        journal, MirrorBehind, Ops, Steps
  <2>4. QED
    BY <1>36, <2>2, <2>3 DEF StopRecord, IInv, TypeOK, ReadyInv, Recording,
        At, Ops, Ops, journal, RunStates
<1>37. CASE PanelStop
  <2>1. MirrorBehind'
    BY <1>37, StatusBehind, RowBehind DEF PanelStop, Dropped, StoreAwaits,
        MirrorBehind, IInv, MirrorInv, MirrorNeverAhead, Reads, Approved, At,
        journal, store
  <2>2. IInv'
    BY <1>37, <2>1 DEF PanelStop, IInv, JournalInv, ReadyInv, StepInv,
        MirrorInv, StepsInOrder, AllCompleted, MirrorNeverAhead, Fresh,
        Driving, InStep, InEpisode, Recording, Reads, Started, Approved,
        TerminalEvents, PauseReasons, TypeOK, At, sink, driver, store,
        MirrorBehind, Dropped, Awaits, StoreAwaits, journal
  <2>3. QED
    BY <1>37, <2>2 DEF PanelStop, IInv, TypeOK, ReadyInv, Recording, At, Ops,
        Dropped, Awaits, StoreAwaits, StatusLands, RowLands, Target, journal,
        RunStates
<1>38. CASE Interrupt
  <2>1. MirrorBehind'
    BY <1>38, StatusBehind, RowBehind DEF Interrupt, Dropped, StoreAwaits,
        MirrorBehind, IInv, MirrorInv, MirrorNeverAhead, Reads, Approved, At,
        journal, store
  <2>2. IInv'
    BY <1>38, <2>1 DEF Interrupt, IInv, JournalInv, ReadyInv, StepInv,
        MirrorInv, StepsInOrder, AllCompleted, MirrorNeverAhead, Fresh,
        Driving, InStep, InEpisode, Recording, Reads, Started, Approved,
        TerminalEvents, PauseReasons, TypeOK, At, sink, driver, store,
        MirrorBehind, Dropped, Awaits, StoreAwaits, End, journal
  <2>3. QED
    BY <1>38, <2>2 DEF Interrupt, IInv, TypeOK, ReadyInv, Recording, At, Ops,
        Dropped, Awaits, StoreAwaits, StatusLands, RowLands, Target, Fault,
        End, journal, RunStates
<1>39. CASE Crash
  <2>1. /\ pc' = "idle" /\ RecordKept /\ UNCHANGED <<health, cuts, status, rows, op, step>>
        /\ tail' = tail \/ Appending
    BY <1>39 DEF Crash, Tears, journal, replayed, RecordKept, store, sink, driver
  <2>2. JournalInv'
    BY <2>1 DEF RecordKept, IInv, JournalInv, StepsInOrder, AllCompleted, Approved
  <2>3. Reads /\ Appending => last # "Completed" /\ (last = "Cancelled" => ~Approved)
    BY DEF Appending, Appends, IInv, TypeOK, Ops, PauseReasons, ReadyInv, Driving, Recording, At,
           IsJournaled, TerminalEvents, Approved
  <2>4. ReadyInv'
    BY <2>1, <2>3 DEF RecordKept, IInv, ReadyInv, Recording, Reads, Driving, Approved
  <2>5. StepInv'
    BY <2>1 DEF StepInv, Fresh, Recording, InStep, InEpisode
  <2>6. MirrorInv'
    BY <2>1 DEF RecordKept, IInv, MirrorInv, MirrorNeverAhead, Reads, Approved, InEpisode, Recording
  <2>7. QED
    BY <2>2, <2>4, <2>5, <2>6 DEF IInv
<1>40. CASE UNCHANGED vars
  BY <1>40 DEF vars, IInv, JournalInv, ReadyInv, StepInv, MirrorInv,
      StepsInOrder, AllCompleted, MirrorNeverAhead, Fresh, Driving, InStep,
      InEpisode, Recording, Reads, Started, Approved, TerminalEvents,
      PauseReasons, TypeOK, At, sink, driver, store, journal
<1>41. QED
  BY <1>1, <1>2, <1>3, <1>4, <1>5, <1>6, <1>7, <1>8, <1>9, <1>10, <1>11,
      <1>12, <1>13, <1>14, <1>15, <1>16, <1>17, <1>18, <1>19, <1>20, <1>21,
      <1>22, <1>23, <1>24, <1>25, <1>26, <1>27, <1>28, <1>29, <1>30, <1>31,
      <1>32, <1>33, <1>34, <1>35, <1>36, <1>37, <1>38, <1>39, <1>40 DEF Next,
      Work, Answers, RecordSteps, DriverSteps, EpisodeEnds, ResumeSteps,
      StopSteps, Invoke

-----------------------------------------------------------------------------

\* The inductive invariant holds in every reachable state.
LEMMA Invariance == Spec => [](IInv /\ TypeInv)
<1>1. Init => IInv /\ TypeInv
  BY InitIInv, InitType DEF TypeInv, AttemptInv, Init, Recording
<1>2. IInv /\ TypeInv /\ [Next]_vars => (IInv /\ TypeInv)'
  BY TypeStep, StepIInv DEF TypeInv
<1>3. QED
  BY <1>1, <1>2, PTL DEF Spec

\* Every variable keeps its type; in particular no step is given more than
\* MaxAttempts episodes by one invocation.
THEOREM TypeCorrect == Spec => []TypeOK
BY Invariance, PTL DEF TypeInv

\* A step is touched only after every earlier step completed, in the journal
\* of every run, whatever its invocations met.
THEOREM Ordered == Spec => []StepsInOrder
<1>1. IInv => StepsInOrder
  BY DEF IInv, JournalInv
<1>2. QED
  BY <1>1, Invariance, PTL

\* Neither record says completed before every step is.
THEOREM Earned == Spec => []CompletedIsEarned
<1>1. IInv => CompletedIsEarned
  BY DEF IInv, JournalInv, MirrorInv, CompletedIsEarned, Reads
<1>2. QED
  BY <1>1, Invariance, PTL

\* The store never claims what a journal that reads does not show, as long as
\* no repair of it was cut off; of a completed run it never does.
THEOREM Mirrored == Spec => []MirrorNeverAhead
<1>1. IInv => MirrorNeverAhead
  BY DEF IInv, MirrorInv
<1>2. QED
  BY <1>1, Invariance, PTL

\* An episode runs only under a recorded approval and a recorded start.
THEOREM Recorded == Spec => []WorkIsRecorded
<1>1. IInv => WorkIsRecorded
  BY DEF IInv, TypeOK, ReadyInv, StepInv, MirrorInv, WorkIsRecorded, Driving, InEpisode,
         Reads, At
<1>2. QED
  BY <1>1, Invariance, PTL

-----------------------------------------------------------------------------

\* Which event each label of the engine appends.
Writes(e) ==
  \/ At("started") /\ e = "RunStarted"
  \/ At("journal") /\ IsJournaled(op) /\ Legal(state, op) /\ e = EventOf(op)
  \/ At("hold") /\ e = "StoreUnavailable"
  \/ At("start") /\ e = "StepStarted"
  \/ At("episode") /\ e = "Usage"
  \/ At("deliver") /\ e = "Deliverables"
  \/ At("complete") /\ e = "StepCompleted"
  \/ At("fail") /\ e = "StepFailed"

\* Only an append to a journal that reads moves the record, or a repair that is
\* cut off; each append comes from the one place in the engine that writes that event.
LEMMA JournalSteps ==
  ASSUME [Next]_vars
  PROVE  \/ RecordKept /\ UNCHANGED cuts
         \/ \E e : Writes(e) /\ Grown(e) /\ Reads
         \/ RepairCutOff
<1>1. \A e : (AppendOk(e) \/ AppendErr(e)) /\ Writes(e) =>
             (RecordKept /\ UNCHANGED cuts) \/ (Writes(e) /\ Grown(e) /\ Reads)
  BY AppendEffect DEF Kept, Lost, Grown, RecordKept, Reads
<1>2. CASE JournalStarted \/ RecordAppend \/ RecordHold \/ MarkStarted \/ EmitUsage
           \/ RecordDeliverables \/ MarkCompleted \/ MarkFailed
  <2>1. \E e : (AppendOk(e) \/ AppendErr(e)) /\ Writes(e)
    BY <1>2 DEF JournalStarted, RecordAppend, RecordHold, MarkStarted, EmitUsage,
                RecordDeliverables, MarkCompleted, MarkFailed, Append, Writes
  <2>2. QED
    BY <1>1, <2>1
<1>3. CASE ~(JournalStarted \/ RecordAppend \/ RecordHold \/ MarkStarted \/ EmitUsage
             \/ RecordDeliverables \/ MarkCompleted \/ MarkFailed \/ RepairCutOff)
  BY <1>3 DEF RecordKept, replayed, vars, journal, Next, Work, Answers, RecordSteps, DriverSteps,
       EpisodeEnds, ResumeSteps, StopSteps, Invoke, Claim, PersistSpec, Propose, Decide,
       RecordUnjournaled, RecordIllegal, RecordMirror, RecordMirrorRefused, RunStep,
       MirrorStarted, Tick, EpisodeOk, EpisodeFails, EpisodeGated, EpisodeCancelled,
       MirrorCompleted, MirrorFailed, Repair, ResumePosition, SeekStep,
       StopNothing, StopRecord, Settle, Resume, ResumeRefused, Cancel, CancelUnknown,
       PanelStop, Interrupt, Crash, Tears
<1>4. QED
  BY <1>2, <1>3

\* What each of these events does to a record that satisfies the invariant:
\* the moves of RunPromise, and nothing else.
Move ==
  /\ UNCHANGED cuts
  /\ \/ UNCHANGED <<Phase, Done>>
     \/ Phase = "none" /\ Phase' = "planned" /\ UNCHANGED Done
     \/ Phase = "planned" /\ Phase' = "active" /\ UNCHANGED Done
     \/ /\ Phase = "active" /\ UNCHANGED Phase
        /\ step \notin Done /\ 0 .. step - 1 \subseteq Done /\ Done' = Done \cup {step}
     \/ Phase = "active" /\ Done = Steps /\ Phase' = "completed" /\ UNCHANGED Done
     \/ Phase \in {"planned", "active"} /\ Phase' = "cancelled" /\ UNCHANGED Done

\* How the phase reads off the record.
PhaseIs ==
  stage \in {"none", "started", "approved"} =>
    /\ Phase = "completed" <=> last = "Completed"
    /\ Phase = "cancelled" <=> last = "Cancelled"
    /\ last \notin TerminalEvents =>
         /\ Phase = "none" <=> stage = "none"
         /\ Phase = "planned" <=> stage = "started"
         /\ Phase = "active" <=> stage = "approved"

\* The phase of the promise, read off the last event and the stage.
LEMMA PhaseFacts == PhaseIs
<1>1. CASE last = "Completed"
  BY <1>1 DEF PhaseIs, Phase, TerminalEvents
<1>2. CASE last = "Cancelled"
  BY <1>2 DEF PhaseIs, Phase, TerminalEvents
<1>3. CASE last \notin TerminalEvents
  BY <1>3 DEF PhaseIs, Phase, TerminalEvents
<1>4. QED
  BY <1>1, <1>2, <1>3 DEF TerminalEvents

\* The event an append adds moves the mapped record by a step of RunPromise, or
\* leaves it where it is.
LEMMA EventMoves ==
  ASSUME IInv, TypeOK', Reads, NEW e, Writes(e), Grown(e)
  PROVE  Move
<1>1. PhaseIs /\ PhaseIs'
  BY PhaseFacts, PTL
<1>2. /\ stage \in {"none", "started", "approved"}
      /\ stage' \in {"none", "started", "approved"}
  BY DEF IInv, TypeOK
<1> USE <1>1, <1>2 DEF PhaseIs, Grown, Replay, StepEvents, TerminalEvents, IInv, ReadyInv, Reads,
                       At, Move, Started, Approved
<1>3. CASE At("started") /\ e = "RunStarted"
  BY <1>3 DEF Done
<1>4. CASE At("journal") /\ IsJournaled(op) /\ Legal(state, op) /\ e = EventOf(op)
  <2>1. CASE op = "Approve"
    BY <1>4, <2>1 DEF EventOf, Done
  <2>2. CASE op = "Complete"
    <3>1. last \notin TerminalEvents /\ Approved /\ AllCompleted
      BY <1>4, <2>2 DEF Driving
    <3>2. last' = "Completed" /\ Done' = Done /\ Done = Steps
      BY <1>4, <2>2, <3>1 DEF EventOf, AllCompleted, Done
    <3>3. QED
      BY <3>1, <3>2
  <2>3. CASE op = "Cancel"
    BY <1>4, <2>3 DEF EventOf, Done
  <2>4. CASE op \in PauseReasons
    BY <1>4, <2>4 DEF EventOf, Done, Driving, Recording, PauseReasons
  <2>5. QED
    BY <1>4, <2>1, <2>2, <2>3, <2>4 DEF IsJournaled, TypeOK, Ops, PauseReasons, Recording
<1>5. CASE e \in {"StoreUnavailable", "StepStarted", "Usage", "Deliverables", "StepFailed"}
           /\ ~At("journal") /\ ~At("started") /\ ~At("complete")
  <2>1. last \notin TerminalEvents /\ last' \notin TerminalEvents /\ stage' = stage
    BY <1>5 DEF Writes, Driving
  <2>2. Done' = Done
    BY <1>5 DEF Writes, Done, StepInv, InStep, TypeOK
  <2>3. Phase' = Phase
    BY <2>1, <1>2
  <2>4. QED
    BY <2>2, <2>3
<1>6. CASE At("complete") /\ e = "StepCompleted"
  <2>1. last \notin TerminalEvents /\ last' \notin TerminalEvents /\ stage' = stage /\ Approved
    BY <1>6 DEF Driving
  <2>2. /\ step \notin Done /\ Done' = Done \cup {step}
        /\ 0 .. step - 1 \subseteq Done
    BY <1>6, StepsAssumption DEF Done, StepInv, InStep, TypeOK, Steps
  <2>3. QED
    BY <2>1, <2>2
<1>7. QED
  BY <1>3, <1>4, <1>5, <1>6 DEF Writes

\* A repair that loses lines sets the mapped record back to where it stood.
LEMMA CutMoves ==
  ASSUME IInv, TypeOK', RepairCutOff, CutBack
  PROVE  Promise!Lose
<1>1. PhaseIs /\ PhaseIs'
  BY PhaseFacts, PTL
<1>2. /\ stage \in {"none", "started", "approved"}
      /\ stage' \in {"none", "started", "approved"}
      /\ last' \notin TerminalEvents /\ last # "Completed" /\ (last = "Cancelled" => ~Approved)
      /\ (Started' => Started) /\ (Approved' => Approved) /\ cuts' = cuts + 1
  BY DEF IInv, TypeOK, CutBack, RepairCutOff, At, ReadyInv, Reads
<1>3. Phase' \in Promise!SetBack[Phase] /\ (Phase' # "active" => ~Approved')
  BY <1>1, <1>2 DEF PhaseIs, Promise!SetBack, Started, Approved, TerminalEvents
<1>4. /\ Phase = "cancelled" => Done = {}
      /\ Phase' # "active" => Done' = {}
  BY <1>1, <1>2, <1>3 DEF PhaseIs, IInv, JournalInv, CutBack, Done
<1>5. Done' \subseteq Done /\ \A s \in Done' : 0 .. s - 1 \subseteq Done'
  BY StepsAssumption DEF CutBack, Done, Steps
<1>6. QED
  BY <1>2, <1>3, <1>4, <1>5 DEF Promise!Lose

\* What RecordIsFinal says of one step.
Final ==
  /\ last = "Completed" => UNCHANGED replayed
  /\ UNCHANGED cuts =>
       /\ last = "Cancelled" => UNCHANGED replayed
       /\ \A s \in Steps : steps[s] = "completed" => steps'[s] = "completed"
       /\ Approved => Approved'

\* The event an append adds undoes no terminal event, completed step or approval.
LEMMA EventFinal ==
  ASSUME IInv, Reads, NEW e, Writes(e), Grown(e)
  PROVE  Final
<1> USE DEF Final, replayed, Grown, Replay, StepEvents, TerminalEvents, IInv, ReadyInv, Reads, At,
            Started, Approved
<1>1. CASE At("started") /\ e = "RunStarted"
  BY <1>1
<1>2. CASE At("journal") /\ IsJournaled(op) /\ Legal(state, op) /\ e = EventOf(op)
  <2>1. CASE op = "Cancel"
    BY <1>2, <2>1 DEF EventOf, TypeOK
  <2>2. CASE op = "Approve"
    BY <1>2, <2>2 DEF EventOf
  <2>3. CASE op \in PauseReasons \cup {"Complete"}
    <3>1. last \notin TerminalEvents /\ Approved
      BY <1>2, <2>3 DEF Driving, Recording
    <3>2. steps' = steps /\ stage' = stage
      BY <1>2, <2>3 DEF EventOf, PauseReasons
    <3>3. QED
      BY <3>1, <3>2
  <2>4. QED
    BY <1>2, <2>1, <2>2, <2>3 DEF IsJournaled, TypeOK, Ops, PauseReasons, Recording
<1>3. CASE /\ e \in {"StoreUnavailable", "StepStarted", "Usage", "Deliverables",
                     "StepCompleted", "StepFailed"}
           /\ ~At("journal") /\ ~At("started")
  <2>1. last \notin TerminalEvents /\ stage' = stage
    BY <1>3 DEF Writes, Driving
  <2>2. \A s \in Steps : steps[s] = "completed" => steps'[s] = "completed"
    BY <1>3 DEF Writes, StepInv, InStep, TypeOK
  <2>3. QED
    BY <2>1, <2>2
<1>4. QED
  BY <1>1, <1>2, <1>3 DEF Writes

\* A completion is never undone.  Cancellations, completed steps and approvals
\* are undone by nothing but a repair that is cut off and loses their lines.
THEOREM Finality == Spec => RecordIsFinal
<1>1. IInv /\ [Next]_vars => Final
  <2> SUFFICES ASSUME IInv, [Next]_vars PROVE Final
    OBVIOUS
  <2>1. CASE RecordKept /\ UNCHANGED cuts
    BY <2>1 DEF RecordKept, Final, Approved, replayed
  <2>2. CASE \E e : Writes(e) /\ Grown(e) /\ Reads
    BY <2>2, EventFinal
  <2>3. CASE RepairCutOff /\ CutBack
    <3>1. last # "Completed"
      BY <2>3 DEF RepairCutOff, At, IInv, ReadyInv, Reads
    <3>2. cuts' # cuts
      BY <2>3 DEF CutBack, IInv, TypeOK
    <3>3. QED
      BY <3>1, <3>2 DEF Final
  <2>4. QED
    BY <2>1, <2>2, <2>3, JournalSteps, CutOffEffect
<1>2. QED
  BY <1>1, Invariance, PTL DEF Spec, RecordIsFinal, Final

\* The engine implements RunPromise: under the mapping of Phase, Done and cuts
\* its every step is a step of the promise or leaves the record as it was, and
\* a repair that is cut off is the promise's counted step back.
THEOREM Refinement == Spec => KeepsPromise
<1>1. Init => Promise!Init
  BY DEF Init, Promise!Init, Phase, Done
<1>2. IInv /\ TypeOK' /\ [Next]_vars => [Promise!Next]_(Promise!vars)
  <2> SUFFICES ASSUME IInv, TypeOK', [Next]_vars PROVE [Promise!Next]_(Promise!vars)
    OBVIOUS
  <2>1. CASE RecordKept /\ UNCHANGED cuts
    BY <2>1 DEF RecordKept, Promise!vars, Phase, Done
  <2>2. CASE \E e : Writes(e) /\ Grown(e) /\ Reads
    <3>1. Move
      BY <2>2, EventMoves
    <3>2. step \in Steps
      BY DEF IInv, TypeOK
    <3>3. QED
      BY <3>1, <3>2
      DEF Move, Promise!Next, Promise!vars, Promise!Start, Promise!Approve, Promise!Finish,
          Promise!Complete, Promise!Cancel, Promise!Steps, Steps
  <2>3. CASE RepairCutOff /\ CutBack
    <3>1. Promise!Lose
      BY <2>3, CutMoves
    <3>2. QED
      BY <3>1 DEF Promise!Next
  <2>4. QED
    BY <2>1, <2>2, <2>3, JournalSteps, CutOffEffect
<1>3. QED
  BY <1>1, <1>2, Invariance, PTL DEF Spec, KeepsPromise, Promise!Spec, TypeInv

-----------------------------------------------------------------------------
(* The store never refuses the write that follows, a ceiling stops the run *)
(* at its step boundary, and exit codes tell what the journal shows.  Each *)
(* rests on an invariant that relates the sink's machine, the store and    *)
(* the journal at every label; IInv is what they all presuppose.           *)
(* What the engine's sink and the store agree on while a step is driven.    *)

\* The journal shows some step begun.
Touched == \E s \in Steps : steps[s] # "none"

\* The driver is inside an attempt, or its last mirror write.
InAttempt ==
  \/ pc \in {"running", "episode", "deliver", "complete", "done", "fail", "failed"}
  \/ Recording /\ op = "BudgetExhausted"

\* Where the sink's machine stands at each label.
SinkInv ==
  /\ InAttempt => attempt > 0 /\ state \in {"executing", "paused"}
  /\ pc = "start" => state = "executing" \/ (attempt > 0 /\ state = "paused")
  /\ pc = "mirror" => Legal(state, op)
  /\ Recording /\ op = "Begin" => state = "approved"
  /\ pc = "repair" => state = "none" /\ exit = "none"

\* The driver, or a record it handed to its sink.
Drives ==
  \/ InAttempt \/ pc \in {"seek", "step", "start"}
  \/ Recording /\ op \in {"Begin", "StepFailedAfterRetry", "Complete"}

\* The store's row is where the sink is, or one mirror write behind it.
Follows ==
  /\ state = "executing" => status = "executing"
  /\ state = "paused" => status \in {"executing", "paused"}
  /\ state = "approved" => status \in {"planned", "approved", "executing"}

\* Resuming goes over a journal that was repaired and reads.
Resuming == pc = "seek" \/ (Recording /\ op \in {"Resume", "ProcessDeath"})

StatusInv ==
  /\ status # "failed"
  /\ pc \notin {"claim", "idle", "settle"} => status # "absent"
  /\ Fresh /\ pc # "claim" => status = "planned"
  /\ pc = "position" \/ Resuming => health = "sound" /\ tail = "whole"
  /\ Reads /\ Recording /\ op \in PauseReasons => Touched
  /\ cuts = 0 =>
       /\ Drives => Follows
       /\ Recording /\ op = "Cancel" => status # "completed"
       /\ Reads /\ Touched => status \in {"executing", "paused", "completed", "cancelled"}
       /\ Reads /\ status = "paused" => Touched

\* The rows of the step being driven and of those after it.
RowInv ==
  /\ Fresh => \A t \in Steps : rows[t] = "absent"
  /\ cuts = 0 /\ InStep => \A t \in Steps : t >= step => rows[t] # "done"
  /\ cuts = 0 /\ pc = "done" => \A t \in Steps : t > step => rows[t] # "done"
  /\ InEpisode \/ pc \in {"done", "failed"} => rows[step] = "running"

\* What a settled exit code rests on.
ExitInv ==
  /\ Reads /\ state = "completed" => last = "Completed"
  /\ Reads /\ last \in PauseReasons => Approved
  /\ Reads /\ state = "paused" =>
       Approved /\ (Touched \/ last \in PauseReasons \cup TerminalEvents)
  /\ Reads /\ state = "paused" /\ inv = "run" => last \notin TerminalEvents
  /\ Recording /\ op = "Cancel" => inv # "run"
  /\ pc = "stop" => inv \in {"cancel", "stop"}
  /\ Approved => files = "plan" /\ status # "absent"
  /\ pc = "approval" \/ (Recording /\ op = "Approve") => files = "plan"
  /\ pc \in {"claim", "started", "spec", "propose", "approval"} => ~Approved
  /\ ExitTellsTruth

-----------------------------------------------------------------------------

\* A step once shown begun stays so unless a repair is cut off, and only the
\* three appends about a step show one begun; only a repair counts a cut.
LEMMA TouchedStep ==
  ASSUME TypeOK, [Next]_vars
  PROVE  /\ pc # "repair" => (Touched => Touched') /\ cuts' = cuts
         /\ Touched' => Touched \/ pc \in {"start", "complete", "fail"}
         /\ Touched' /\ ~Touched => steps' # steps
<1>1. RecordKept => Touched' = Touched
  BY DEF RecordKept, Touched
<1>2. ASSUME NEW e, Writes(e), Grown(e) PROVE (Touched => Touched') /\ cuts' = cuts
  BY <1>2 DEF Grown, Replay, StepEvents, Touched, TypeOK
<1>3. ASSUME NEW e, Writes(e), Grown(e), steps' # steps PROVE pc \in {"start", "complete", "fail"}
  BY <1>3 DEF Grown, Replay, StepEvents, Writes, At, EventOf, TypeOK, Ops, IsJournaled, Legal,
              Machine, Target, Transitions, PauseReasons
<1>4. steps' = steps => Touched' = Touched
  BY DEF Touched
<1>5. CASE RepairCutOff
  <2>1. pc = "repair"
    BY <1>5 DEF RepairCutOff, At
  <2>2. CutBack => (Touched' => Touched)
    BY DEF CutBack, Touched
  <2> QED BY <2>1, <2>2, <1>1, <1>4, <1>5, CutOffEffect
<1> QED BY <1>1, <1>2, <1>3, <1>4, <1>5, JournalSteps

\* An append to a sound journal that ends in a whole line leaves both so.
LEMMA AppendSound ==
  ASSUME NEW e, AppendOk(e), health = "sound", tail = "whole"
  PROVE  health' = "sound" /\ tail' = "whole"
BY DEF AppendOk, Lands


\* The four invariants hold of a run directory nothing has happened in.
LEMMA InitOutcome == Init => SinkInv /\ StatusInv /\ RowInv /\ ExitInv
<1> SUFFICES ASSUME Init PROVE SinkInv /\ StatusInv /\ RowInv /\ ExitInv
  OBVIOUS
<1> USE DEF Init, Recording
<1>1. SinkInv
  BY DEF SinkInv, InAttempt
<1>2. StatusInv
  BY DEF StatusInv, Fresh, Drives, InAttempt, Resuming, Touched, Reads
<1>3. RowInv
  BY DEF RowInv, Fresh, InStep, InEpisode
<1>4. ExitInv
  BY DEF ExitInv, ExitTellsTruth, Reads, Approved, PauseReasons, At
<1> QED BY <1>1, <1>2, <1>3, <1>4

\* Every step keeps the sink's machine where its label says it is.
LEMMA SinkStep == TypeOK /\ SinkInv /\ [Next]_vars => SinkInv'
<1> SUFFICES ASSUME TypeOK, SinkInv, [Next]_vars PROVE SinkInv'
  OBVIOUS
<1> USE AttemptsAssumption DEF TypeOK, SinkInv, InAttempt, Recording, At, sink, driver
<1>1. CASE Claim
  BY <1>1 DEF Claim
<1>2. CASE JournalStarted
  BY <1>2 DEF JournalStarted, Append
<1>3. CASE PersistSpec
  BY <1>3 DEF PersistSpec
<1>4. CASE Propose
  BY <1>4 DEF Propose, End
<1>5. CASE Decide
  BY <1>5 DEF Decide, End, Ops
<1>6. CASE RecordAppend
  BY <1>6 DEF RecordAppend, Append, Abandoned, EventOf, Legal, Machine, Target, IsJournaled,
       Transitions, PauseReasons
<1>7. CASE RecordUnjournaled
  BY <1>7 DEF RecordUnjournaled, IsJournaled, Legal, Machine, Target, Transitions,
       PauseReasons
<1>8. CASE RecordIllegal
  BY <1>8 DEF RecordIllegal, Abandoned, Legal, Machine, Target, Transitions, PauseReasons,
       IsJournaled
<1>9. CASE RecordMirror
  BY <1>9 DEF RecordMirror, StatusLands, Target, Continuation, Ops, Legal, Machine,
       PauseReasons, Transitions
<1>10. CASE RecordMirrorRefused
  BY <1>10 DEF RecordMirrorRefused, StatusRefused, Refused, StatusLands, Target, Abandoned,
       Legal, Machine, PauseReasons, Transitions
<1>11. CASE RecordHold
  BY <1>11 DEF RecordHold, Append
<1>12. CASE RunStep
  BY <1>12 DEF RunStep, Ops
<1>13. CASE MarkStarted
  BY <1>13 DEF MarkStarted, Append
<1>14. CASE MirrorStarted
  BY <1>14 DEF MirrorStarted, RowLands, RowRefused, Refused
<1>15. CASE EmitUsage
  BY <1>15 DEF EmitUsage
<1>16. CASE Tick
  BY <1>16 DEF Tick, Ops
<1>17. CASE EpisodeOk
  BY <1>17 DEF EpisodeOk
<1>18. CASE EpisodeFails
  BY <1>18 DEF EpisodeFails
<1>19. CASE EpisodeGated
  BY <1>19 DEF EpisodeGated
<1>20. CASE EpisodeCancelled
  BY <1>20 DEF EpisodeCancelled, Ops
<1>21. CASE RecordDeliverables
  BY <1>21 DEF RecordDeliverables, Append
<1>22. CASE MarkCompleted
  BY <1>22 DEF MarkCompleted, Append
<1>23. CASE MirrorCompleted
  BY <1>23 DEF MirrorCompleted, LastStep, RowLands, RowRefused, Refused, Ops
<1>24. CASE MarkFailed
  BY <1>24 DEF MarkFailed, Append
<1>25. CASE MirrorFailed
  BY <1>25 DEF MirrorFailed, AttemptsSpent, RowLands, RowRefused, Refused, Ops
<1>26. CASE Settle
  BY <1>26 DEF Settle, End, TailState, PositionExit
<1>27. CASE Resume
  BY <1>27 DEF Resume, CanResume
<1>28. CASE ResumeRefused
  BY <1>28 DEF ResumeRefused, End
<1>29. CASE Repair
  BY <1>29 DEF Repair
<1>30. CASE RepairCutOff
  BY <1>30 DEF RepairCutOff
<1>31. CASE ResumePosition
  BY <1>31 DEF ResumePosition, End, PositionExit, Position, Ops
<1>32. CASE SeekStep
  BY <1>32 DEF SeekStep, Ops
<1>33. CASE Cancel
  BY <1>33 DEF Cancel
<1>34. CASE CancelUnknown
  BY <1>34 DEF CancelUnknown, End
<1>35. CASE StopNothing
  BY <1>35 DEF StopNothing, End
<1>36. CASE StopRecord
  BY <1>36 DEF StopRecord, Position, Ops
<1>37. CASE PanelStop
  BY <1>37 DEF PanelStop, Dropped, Awaits, StoreAwaits, StatusLands, RowLands, Target
<1>38. CASE Interrupt
  BY <1>38 DEF Interrupt, Dropped, Awaits, StoreAwaits, StatusLands, RowLands, Target, End
<1>39. CASE Crash
  BY <1>39 DEF Crash, Tears, Appending
<1>40. CASE UNCHANGED vars
  BY <1>40 DEF vars, journal
<1> QED
  BY <1>1, <1>2, <1>3, <1>4, <1>5, <1>6, <1>7, <1>8, <1>9, <1>10, <1>11, <1>12, <1>13,
       <1>14, <1>15, <1>16, <1>17, <1>18, <1>19, <1>20, <1>21, <1>22, <1>23, <1>24, <1>25,
       <1>26, <1>27, <1>28, <1>29, <1>30, <1>31, <1>32, <1>33, <1>34, <1>35, <1>36, <1>37,
       <1>38, <1>39, <1>40 DEF Next, Work, Answers, RecordSteps, DriverSteps,
       EpisodeEnds, ResumeSteps, StopSteps, Invoke

\* Every step keeps the store's row where the sink is or one write behind it:
\* what a refused write left behind, the next accepted one may follow.
LEMMA StatusStep == IInv /\ SinkInv /\ StatusInv /\ [Next]_vars => StatusInv'
<1> SUFFICES ASSUME IInv, SinkInv, StatusInv, [Next]_vars PROVE StatusInv'
  OBVIOUS
<1> USE StepsAssumption DEF IInv, TypeOK, SinkInv, StatusInv, InAttempt, Drives, Follows,
      Resuming, InEpisode, Fresh, Recording, Reads, At, sink, driver, store
<1>0. /\ pc # "repair" => (Touched => Touched') /\ cuts' = cuts
      /\ Touched' => Touched \/ pc \in {"start", "complete", "fail"}
      /\ Touched' /\ ~Touched => steps' # steps
  BY TouchedStep
<1>c. steps' = steps => (Touched' <=> Touched)
  BY DEF Touched
<1>a. Reads /\ Fresh => ~Touched
  BY DEF StepInv, Touched
<1>b. Reads /\ (InEpisode \/ pc \in {"running", "failed", "done"}) => Touched
  BY DEF StepInv, Touched
<1>1. CASE Claim
  BY <1>1, <1>0, <1>a DEF Claim, journal
<1>2. CASE JournalStarted
  <2>1. /\ AppendOk("RunStarted") => Grown("RunStarted") \/ Lost
        /\ AppendErr("RunStarted") => Kept \/ Grown("RunStarted") \/ Lost
    BY AppendEffect
  <2> QED BY <1>2, <2>1, <1>0 DEF JournalStarted, Append, Kept, Lost, Grown
<1>3. CASE PersistSpec
  BY <1>3, <1>0 DEF PersistSpec, journal
<1>4. CASE Propose
  BY <1>4, <1>0 DEF Propose, End, journal
<1>5. CASE Decide
  BY <1>5, <1>0 DEF Decide, End, Ops, journal, PauseReasons
<1>6. CASE RecordAppend
  <2>1. /\ AppendOk(EventOf(op)) => Grown(EventOf(op)) \/ Lost
        /\ AppendErr(EventOf(op)) => Kept \/ Grown(EventOf(op)) \/ Lost
    BY AppendEffect
  <2>2. AppendOk(EventOf(op)) /\ health = "sound" /\ tail = "whole"
          => health' = "sound" /\ tail' = "whole"
    BY AppendSound
  <2>3. (Touched' <=> Touched) /\ cuts' = cuts
    BY <1>0, <1>6 DEF RecordAppend
  <2>4. Reads' => Reads
    BY <1>6, <2>1 DEF RecordAppend, Append, Kept, Lost, Grown
  <2>5. \/ pc' = "mirror" /\ AppendOk(EventOf(op))
        \/ pc' \in {"episode", "settle"} /\ (pc' = "episode" => op = "BudgetExhausted")
    BY <1>6 DEF RecordAppend, Append, Abandoned
  <2>6. pc = "journal" /\ UNCHANGED <<store, sink, driver, files, inv>>
    BY <1>6 DEF RecordAppend
  <2> QED BY <2>2, <2>3, <2>4, <2>5, <2>6
<1>7. CASE RecordUnjournaled
  BY <1>7, <1>0 DEF RecordUnjournaled, IsJournaled, journal, Legal, Machine, Target, Transitions,
       PauseReasons
<1>8. CASE RecordIllegal
  BY <1>8, <1>0 DEF RecordIllegal, Abandoned, journal, Legal, Machine, Target, Transitions,
       PauseReasons
<1>9. CASE RecordMirror
  BY <1>9, <1>0 DEF RecordMirror, StatusLands, Target, Continuation, Ops, journal, Legal,
       Machine, Transitions, PauseReasons, StatusAllows
<1>10. CASE RecordMirrorRefused
  <2>1. CASE op = "Approve"
    BY <1>10, <2>1, <1>0 DEF RecordMirrorRefused, StatusRefused, Refused, StatusLands,
         Target, Abandoned, journal
  <2>2. pc = "mirror" /\ op # "none" /\ UNCHANGED <<journal, files, inv, op, driver>>
    BY <1>10 DEF RecordMirrorRefused, ReadyInv
  <2>3. status' \in {status, Target(op)} /\ (Touched' <=> Touched) /\ UNCHANGED <<health, tail, cuts>>
    BY <1>10, <2>2, <1>0 DEF RecordMirrorRefused, StatusRefused, Refused, StatusLands, journal
  <2>4. CASE op \in {"Begin", "Resume"}
    BY <1>10, <2>2, <2>3, <2>4 DEF RecordMirrorRefused, Target, PauseReasons
  <2>5. CASE op \in PauseReasons
    BY <1>10, <2>2, <2>3, <2>5 DEF RecordMirrorRefused, Target, PauseReasons, Abandoned, Legal,
          Machine, Transitions
  <2>6. CASE op \in {"Complete", "Cancel"}
    BY <1>10, <2>2, <2>3, <2>6 DEF RecordMirrorRefused, Target, PauseReasons, Abandoned
  <2> QED BY <2>1, <2>2, <2>4, <2>5, <2>6 DEF Ops, PauseReasons
<1>11. CASE RecordHold
  <2>1. /\ AppendOk("StoreUnavailable") => Grown("StoreUnavailable") \/ Lost
        /\ AppendErr("StoreUnavailable") => Kept \/ Grown("StoreUnavailable") \/ Lost
    BY AppendEffect
  <2> QED BY <1>11, <2>1, <1>0 DEF RecordHold, PauseReasons, Append, Kept, Lost, Grown
<1>12. CASE RunStep
  BY <1>12, <1>0 DEF RunStep, Ops, journal, PauseReasons
<1>13. CASE MarkStarted
  <2>1. /\ AppendOk("StepStarted") => Grown("StepStarted") \/ Lost
        /\ AppendErr("StepStarted") => Kept \/ Grown("StepStarted") \/ Lost
    BY AppendEffect
  <2> QED BY <1>13, <2>1, <1>0 DEF MarkStarted, Append, Kept, Lost, Grown
<1>14. CASE MirrorStarted
  BY <1>14, <1>0 DEF MirrorStarted, RowLands, RowRefused, Refused, journal
<1>15. CASE EmitUsage
  <2>1. /\ AppendOk("Usage") => Grown("Usage") \/ Lost
        /\ AppendErr("Usage") => Kept \/ Grown("Usage") \/ Lost
    BY AppendEffect
  <2> QED BY <1>15, <2>1, <1>0 DEF EmitUsage, Append, Kept, Lost, Grown
<1>16. CASE Tick
  BY <1>16, <1>0, <1>b DEF Tick, Ops, journal, PauseReasons
<1>17. CASE EpisodeOk
  BY <1>17, <1>0 DEF EpisodeOk, journal
<1>18. CASE EpisodeFails
  BY <1>18, <1>0 DEF EpisodeFails, journal
<1>19. CASE EpisodeGated
  BY <1>19, <1>0 DEF EpisodeGated, journal
<1>20. CASE EpisodeCancelled
  BY <1>20, <1>0 DEF EpisodeCancelled, Ops, journal, PauseReasons
<1>21. CASE RecordDeliverables
  <2>1. /\ AppendOk("Deliverables") => Grown("Deliverables") \/ Lost
        /\ AppendErr("Deliverables") => Kept \/ Grown("Deliverables") \/ Lost
    BY AppendEffect
  <2> QED BY <1>21, <2>1, <1>0 DEF RecordDeliverables, Append, Kept, Lost, Grown
<1>22. CASE MarkCompleted
  <2>1. /\ AppendOk("StepCompleted") => Grown("StepCompleted") \/ Lost
        /\ AppendErr("StepCompleted") => Kept \/ Grown("StepCompleted") \/ Lost
    BY AppendEffect
  <2> QED BY <1>22, <2>1, <1>0 DEF MarkCompleted, Append, Kept, Lost, Grown
<1>23. CASE MirrorCompleted
  BY <1>23, <1>0 DEF MirrorCompleted, LastStep, RowLands, RowRefused, Refused, Ops, journal,
       PauseReasons
<1>24. CASE MarkFailed
  <2>1. /\ AppendOk("StepFailed") => Grown("StepFailed") \/ Lost
        /\ AppendErr("StepFailed") => Kept \/ Grown("StepFailed") \/ Lost
    BY AppendEffect
  <2> QED BY <1>24, <2>1, <1>0 DEF MarkFailed, Append, Kept, Lost, Grown
<1>25. CASE MirrorFailed
  BY <1>25, <1>0, <1>b DEF MirrorFailed, AttemptsSpent, RowLands, RowRefused, Refused, Ops, journal,
       PauseReasons
<1>26. CASE Settle
  BY <1>26, <1>0 DEF Settle, End, TailState, PositionExit, journal
<1>27. CASE Resume
  BY <1>27, <1>0 DEF Resume, CanResume, journal
<1>28. CASE ResumeRefused
  BY <1>28, <1>0 DEF ResumeRefused, End, journal
<1>29. CASE Repair
  BY <1>29 DEF Repair, ReadyInv, replayed, Touched
<1>30. CASE RepairCutOff
  <2>1. /\ pc = "repair" /\ pc' \in {"idle", "settle"}
        /\ UNCHANGED <<health, files, status, rows, inv, state, op, step, attempt, exit>>
    BY <1>30 DEF RepairCutOff
  <2>2. ((Touched' <=> Touched) /\ cuts' = cuts) \/ cuts' # 0
    BY CutOffEffect, <1>30 DEF RecordKept, CutBack, Touched
  <2> QED BY <2>1, <2>2, <1>0
<1>31. CASE ResumePosition
  <2>1. health = "sound" /\ tail = "whole" /\ UNCHANGED <<journal, files, store, inv, driver>> /\ pc = "position"
    BY <1>31 DEF ResumePosition, ReadyInv
  <2>2. (Touched' <=> Touched) /\ UNCHANGED <<health, tail, cuts>>
    BY <2>1, <1>c DEF journal
  <2>3. CASE Position \in {"planned", "completed", "cancelled"}
    BY <1>31, <2>1, <2>2, <2>3 DEF ResumePosition, End
  <2>4. CASE Position = "approved"
    <3>1. ~Touched /\ last # "Completed" /\ last # "Cancelled"
      BY <2>4 DEF Position, Touched
    <3>2. cuts = 0 => status \in {"planned", "approved", "executing"}
      BY <2>1, <3>1 DEF MirrorInv, MirrorNeverAhead, RunStates
    <3> QED BY <1>31, <2>1, <2>2, <2>4, <3>2 DEF ResumePosition
  <2>5. CASE Position = "paused"
    BY <1>31, <2>1, <2>2, <2>5 DEF ResumePosition, PauseReasons
  <2>6. CASE Position = "executing"
    <3>1. Touched
      BY <2>6 DEF Position, Touched
    <3> QED BY <1>31, <2>1, <2>2, <2>6, <3>1 DEF ResumePosition, PauseReasons
  <2> QED BY <2>3, <2>4, <2>5, <2>6 DEF Position
<1>32. CASE SeekStep
  BY <1>32, <1>0 DEF SeekStep, FirstIncomplete, Ops, journal, PauseReasons
<1>33. CASE Cancel
  BY <1>33, <1>0 DEF Cancel, journal
<1>34. CASE CancelUnknown
  BY <1>34, <1>0 DEF CancelUnknown, End, journal
<1>35. CASE StopNothing
  BY <1>35, <1>0 DEF StopNothing, End, journal
<1>36. CASE StopRecord
  BY <1>36, <1>0 DEF StopRecord, Position, Ops, journal, ReadyInv, MirrorInv, MirrorNeverAhead,
       JournalInv, PauseReasons
<1>37. CASE PanelStop
  <2>1. /\ UNCHANGED <<journal, sink, files>> /\ pc' \in {"stop", "idle"}
        /\ pc' = "stop" => pc # "claim" /\ pc # "idle" /\ pc # "settle"
    BY <1>37 DEF PanelStop, Dropped, Awaits, StoreAwaits, End
  <2>2. UNCHANGED status \/ (pc = "mirror" /\ status' = Target(op))
    BY <1>37 DEF PanelStop, Dropped, StatusLands, RowLands
  <2>3. (Touched' <=> Touched) /\ UNCHANGED <<health, tail, cuts>>
    BY <2>1, <1>c DEF journal
  <2>4. CASE UNCHANGED status
    BY <2>1, <2>3, <2>4
  <2>5. CASE pc = "mirror" /\ status' = Target(op)
    BY <2>1, <2>3, <2>5 DEF Target, PauseReasons, ReadyInv, Ops
  <2> QED BY <2>2, <2>4, <2>5
<1>38. CASE Interrupt
  <2>1. /\ UNCHANGED <<journal, sink, files>> /\ pc' \in {"stop", "idle"}
        /\ pc' = "stop" => pc # "claim" /\ pc # "idle" /\ pc # "settle"
    BY <1>38 DEF Interrupt, Dropped, Awaits, StoreAwaits, End
  <2>2. UNCHANGED status \/ (pc = "mirror" /\ status' = Target(op))
    BY <1>38 DEF Interrupt, Dropped, StatusLands, RowLands
  <2>3. (Touched' <=> Touched) /\ UNCHANGED <<health, tail, cuts>>
    BY <2>1, <1>c DEF journal
  <2>4. CASE UNCHANGED status
    BY <2>1, <2>3, <2>4
  <2>5. CASE pc = "mirror" /\ status' = Target(op)
    BY <2>1, <2>3, <2>5 DEF Target, PauseReasons, ReadyInv, Ops
  <2> QED BY <2>2, <2>4, <2>5
<1>39. CASE Crash
  BY <1>39, <1>c DEF Crash, Tears, Appending, journal, replayed
<1>40. CASE UNCHANGED vars
  BY <1>40, <1>c DEF vars, journal
<1> QED
  BY <1>1, <1>2, <1>3, <1>4, <1>5, <1>6, <1>7, <1>8, <1>9, <1>10, <1>11, <1>12, <1>13,
       <1>14, <1>15, <1>16, <1>17, <1>18, <1>19, <1>20, <1>21, <1>22, <1>23, <1>24, <1>25,
       <1>26, <1>27, <1>28, <1>29, <1>30, <1>31, <1>32, <1>33, <1>34, <1>35, <1>36, <1>37,
       <1>38, <1>39, <1>40 DEF Next, Work, Answers, RecordSteps, DriverSteps,
       EpisodeEnds, ResumeSteps, StopSteps, Invoke

\* Every step keeps the rows from the driven step on short of done, so that no
\* step row is ever asked to go back.
LEMMA RowStep == IInv /\ StatusInv /\ RowInv /\ [Next]_vars => RowInv'
<1> SUFFICES ASSUME IInv, StatusInv, RowInv, [Next]_vars PROVE RowInv'
  OBVIOUS
<1>0. pc # "repair" => cuts' = cuts
  BY TouchedStep DEF IInv
<1> USE <1>0
<1> USE StepsAssumption DEF IInv, TypeOK, RowInv, InEpisode, InStep, Fresh, Recording, At, sink,
      driver, store, Steps
<1>1. CASE Claim
  BY <1>1 DEF Claim, journal
<1>2. CASE JournalStarted
  BY <1>2 DEF JournalStarted, Append
<1>3. CASE PersistSpec
  BY <1>3 DEF PersistSpec, journal
<1>4. CASE Propose
  BY <1>4 DEF Propose, End, journal
<1>5. CASE Decide
  BY <1>5 DEF Decide, End, Ops, journal
<1>6. CASE RecordAppend
  BY <1>6 DEF RecordAppend, Append, Abandoned, EventOf, Legal, Machine, Target, IsJournaled,
       Transitions
<1>7. CASE RecordUnjournaled
  BY <1>7 DEF RecordUnjournaled, IsJournaled, journal
<1>8. CASE RecordIllegal
  BY <1>8 DEF RecordIllegal, Abandoned, journal
<1>9. CASE RecordMirror
  BY <1>9 DEF RecordMirror, StatusLands, Target, Continuation, Ops, journal, PauseReasons
<1>10. CASE RecordMirrorRefused
  BY <1>10 DEF RecordMirrorRefused, StatusRefused, Refused, StatusLands, Target, Abandoned,
       journal
<1>11. CASE RecordHold
  BY <1>11 DEF RecordHold, Append
<1>12. CASE RunStep
  BY <1>12 DEF RunStep, Ops, journal
<1>13. CASE MarkStarted
  BY <1>13 DEF MarkStarted, Append
<1>14. CASE MirrorStarted
  BY <1>14 DEF MirrorStarted, RowLands, RowRefused, Refused, journal
<1>15. CASE EmitUsage
  BY <1>15 DEF EmitUsage
<1>16. CASE Tick
  BY <1>16 DEF Tick, Ops, journal
<1>17. CASE EpisodeOk
  BY <1>17 DEF EpisodeOk, journal
<1>18. CASE EpisodeFails
  BY <1>18 DEF EpisodeFails, journal
<1>19. CASE EpisodeGated
  BY <1>19 DEF EpisodeGated, journal
<1>20. CASE EpisodeCancelled
  BY <1>20 DEF EpisodeCancelled, Ops, journal
<1>21. CASE RecordDeliverables
  BY <1>21 DEF RecordDeliverables, Append
<1>22. CASE MarkCompleted
  BY <1>22 DEF MarkCompleted, Append
<1>23. CASE MirrorCompleted
  BY <1>23 DEF MirrorCompleted, LastStep, RowLands, RowRefused, Refused, Ops, journal
<1>24. CASE MarkFailed
  BY <1>24 DEF MarkFailed, Append
<1>25. CASE MirrorFailed
  BY <1>25 DEF MirrorFailed, AttemptsSpent, RowLands, RowRefused, Refused, Ops, journal
<1>26. CASE Settle
  BY <1>26 DEF Settle, End, TailState, PositionExit, journal
<1>27. CASE Resume
  BY <1>27 DEF Resume, CanResume, journal
<1>28. CASE ResumeRefused
  BY <1>28 DEF ResumeRefused, End, journal
<1>29. CASE Repair
  BY <1>29 DEF Repair
<1>30. CASE RepairCutOff
  BY <1>30 DEF RepairCutOff
<1>31. CASE ResumePosition
  BY <1>31 DEF ResumePosition, End, PositionExit, Position, Ops, journal
<1>32. CASE SeekStep
  <2>1. CASE op' = "Complete" /\ pc' = "journal"
    BY <1>32, <2>1 DEF SeekStep
  <2>2. ASSUME NEW s \in Steps, FirstIncomplete(s), step' = s, pc' = "step"
        PROVE  RowInv'
    <3>1. Reads
      BY <1>32 DEF SeekStep, StatusInv, Resuming, Reads
    <3>2. \A t \in Steps : t >= s => steps[t] # "completed"
      BY <2>2 DEF FirstIncomplete, JournalInv, StepsInOrder
    <3>3. cuts = 0 => \A t \in Steps : t >= s => rows[t] # "done"
      BY <3>1, <3>2 DEF MirrorInv, MirrorNeverAhead, Reads
    <3> QED BY <1>32, <2>2, <3>3 DEF SeekStep, store
  <2> QED BY <1>32, <2>1, <2>2 DEF SeekStep
<1>33. CASE Cancel
  BY <1>33 DEF Cancel, journal
<1>34. CASE CancelUnknown
  BY <1>34 DEF CancelUnknown, End, journal
<1>35. CASE StopNothing
  BY <1>35 DEF StopNothing, End, journal
<1>36. CASE StopRecord
  BY <1>36 DEF StopRecord, Position, Ops, journal
<1>37. CASE PanelStop
  BY <1>37 DEF PanelStop, Dropped, Awaits, StoreAwaits, StatusLands, RowLands, Target,
       journal
<1>38. CASE Interrupt
  BY <1>38 DEF Interrupt, Dropped, Awaits, StoreAwaits, StatusLands, RowLands, Target, End,
       journal
<1>39. CASE Crash
  BY <1>39 DEF Crash, Tears, Appending, journal
<1>40. CASE UNCHANGED vars
  BY <1>40 DEF vars, journal
<1> QED
  BY <1>1, <1>2, <1>3, <1>4, <1>5, <1>6, <1>7, <1>8, <1>9, <1>10, <1>11, <1>12, <1>13,
       <1>14, <1>15, <1>16, <1>17, <1>18, <1>19, <1>20, <1>21, <1>22, <1>23, <1>24, <1>25,
       <1>26, <1>27, <1>28, <1>29, <1>30, <1>31, <1>32, <1>33, <1>34, <1>35, <1>36, <1>37,
       <1>38, <1>39, <1>40 DEF Next, Work, Answers, RecordSteps, DriverSteps,
       EpisodeEnds, ResumeSteps, StopSteps, Invoke

\* Every step keeps the journal able to answer for the exit code it leads to.
LEMMA ExitStep == IInv /\ SinkInv /\ StatusInv /\ ExitInv /\ [Next]_vars => ExitInv'
<1> SUFFICES ASSUME IInv, SinkInv, StatusInv, ExitInv, [Next]_vars PROVE ExitInv'
  OBVIOUS
<1> USE StepsAssumption DEF IInv, TypeOK, ExitInv, ExitTellsTruth, Recording, Reads, At, sink,
      driver, store, Approved, PauseReasons, TerminalEvents
<1>0. /\ pc # "repair" => (Touched => Touched') /\ cuts' = cuts
      /\ Touched' => Touched \/ pc \in {"start", "complete", "fail"}
      /\ Touched' /\ ~Touched => steps' # steps
  BY TouchedStep
<1>a. Reads /\ (pc \in {"failed", "done"} \/ InEpisode \/ (pc = "journal" /\ op = "Complete")) => Touched
  BY DEF StepInv, ReadyInv, Touched, AllCompleted, Steps, InEpisode
<1>b. Touched /\ Approved /\ last \notin TerminalEvents => Position \in {"paused", "executing"}
  BY DEF Position, Touched
<1>c. steps' = steps => (Touched' <=> Touched)
  BY DEF Touched
<1>1. CASE Claim
  BY <1>1 DEF Claim, journal
<1>2. CASE JournalStarted
  <2>1. /\ AppendOk("RunStarted") => Grown("RunStarted") \/ Lost
        /\ AppendErr("RunStarted") => Kept \/ Grown("RunStarted") \/ Lost
    BY AppendEffect
  <2> QED BY <1>2, <2>1 DEF JournalStarted, Append, Kept, Lost, Grown, Replay, StepEvents,
       ReadyInv, Driving
<1>3. CASE PersistSpec
  BY <1>3 DEF PersistSpec, journal
<1>4. CASE Propose
  BY <1>4 DEF Propose, End, journal
<1>5. CASE Decide
  BY <1>5 DEF Decide, End, Ops, journal
<1>6. CASE RecordAppend
  <2>1. /\ AppendOk(EventOf(op)) => Grown(EventOf(op)) \/ Lost
        /\ AppendErr(EventOf(op)) => Kept \/ Grown(EventOf(op)) \/ Lost
    BY AppendEffect
  <2>2. /\ pc = "journal" /\ Legal(state, op) /\ IsJournaled(op)
        /\ UNCHANGED <<files, store, inv, sink, driver, exit>>
    BY <1>6 DEF RecordAppend
  <2>3. pc' = "mirror" \/ pc' \in {"episode", "settle"}
    BY <1>6 DEF RecordAppend, Append, Abandoned
  <2>4. Kept \/ Lost \/ Grown(EventOf(op))
    BY <2>1, <1>6 DEF RecordAppend, Append
  <2>5. CASE Kept \/ Lost
    BY <2>2, <2>3, <2>5, <1>0 DEF Kept, Lost
  <2>6. CASE Grown(EventOf(op)) /\ op = "Approve"
    <3>1. stage' = "approved" /\ last' = "PlanApproved" /\ state = "planned" /\ UNCHANGED health
      BY <2>2, <2>6 DEF Grown, Replay, EventOf, Legal, Machine, Target, Transitions
    <3>2. status # "absent"
      BY <2>2 DEF StatusInv
    <3> QED BY <2>2, <2>3, <2>6, <3>1, <3>2
  <2>7. CASE Grown(EventOf(op)) /\ op = "Complete"
    <3>1. stage' = stage /\ last' = "Completed" /\ state = "executing" /\ UNCHANGED health
      BY <2>2, <2>7 DEF Grown, Replay, EventOf, Legal, Machine, Target, Transitions
    <3> QED BY <2>2, <2>3, <2>7, <3>1
  <2>8. CASE Grown(EventOf(op)) /\ op = "Cancel"
    <3>1. stage' = stage /\ last' = "Cancelled" /\ UNCHANGED health
      BY <2>2, <2>8 DEF Grown, Replay, EventOf
    <3>2. state # "completed"
      BY <2>2, <2>8 DEF Legal, Machine, Target, Transitions
    <3> QED BY <2>2, <2>3, <2>8, <3>1, <3>2
  <2>9. CASE Grown(EventOf(op)) /\ op \in PauseReasons
    <3>1. stage' = stage /\ last' = op /\ state = "executing" /\ UNCHANGED health
      BY <2>2, <2>9 DEF Grown, Replay, EventOf, Legal, Machine, Target, Transitions
    <3>2. Reads => Approved
      BY <2>2, <2>9 DEF ReadyInv, Driving
    <3> QED BY <2>2, <2>3, <2>9, <3>1, <3>2
  <2> QED BY <2>2, <2>4, <2>5, <2>6, <2>7, <2>8, <2>9 DEF ReadyInv, Ops, IsJournaled
<1>7. CASE RecordUnjournaled
  BY <1>7, <1>0 DEF RecordUnjournaled, IsJournaled, journal, Legal, Machine, Target,
       Transitions
<1>8. CASE RecordIllegal
  BY <1>8, <1>0 DEF RecordIllegal, Abandoned, journal, Legal, Machine, Target, Transitions
<1>9. CASE RecordMirror
  <2>1. /\ pc = "mirror" /\ Legal(state, op) /\ op \in Ops
        /\ UNCHANGED <<journal, files, inv, driver>> /\ (Touched' <=> Touched)
    BY <1>9, <1>0 DEF RecordMirror, SinkInv, ReadyInv, journal
  <2>2. status' # "absent"
    BY <1>9, <2>1 DEF RecordMirror, StatusInv, StatusLands, Target
  <2>3. CASE op = "Complete"
    BY <1>9, <2>1, <2>2, <2>3 DEF RecordMirror, Target, MirrorInv, journal, Continuation, Abandoned
  <2>4. CASE op = "Cancel"
    BY <1>9, <2>1, <2>2, <2>4 DEF RecordMirror, Target, journal, Continuation, Abandoned
  <2>5. CASE op \in PauseReasons
    <3>1. Reads => Approved /\ Touched /\ last \notin TerminalEvents
      BY <2>1, <2>5 DEF ReadyInv, Driving, StatusInv
    <3>2. pc' \in {"journal", "settle", "episode"} /\ op' \in {op, "Resume"} /\ state' = "paused"
      BY <1>9, <2>1, <2>5 DEF RecordMirror, Ops, Target, Continuation, Abandoned
    <3> QED BY <2>1, <2>2, <2>5, <3>1, <3>2 DEF journal
  <2>6. CASE op \in {"Approve", "Begin", "Resume"}
    BY <1>9, <2>1, <2>2, <2>6 DEF RecordMirror, Target, journal, Continuation, Abandoned, Legal,
          Machine, Transitions
  <2> QED BY <2>1, <2>3, <2>4, <2>5, <2>6 DEF Ops
<1>10. CASE RecordMirrorRefused
  <2>1. /\ pc = "mirror" /\ Legal(state, op) /\ op \in Ops
        /\ UNCHANGED <<journal, files, inv, driver>> /\ (Touched' <=> Touched)
    BY <1>10, <1>0 DEF RecordMirrorRefused, SinkInv, ReadyInv, journal
  <2>2. status' # "absent"
    BY <1>10, <2>1 DEF RecordMirrorRefused, StatusInv, StatusRefused, Refused, StatusLands, Target
  <2>3. CASE op = "Complete"
    BY <1>10, <2>1, <2>2, <2>3 DEF RecordMirrorRefused, Target, MirrorInv, journal, Continuation,
          Abandoned
  <2>4. CASE op = "Cancel"
    BY <1>10, <2>1, <2>2, <2>4 DEF RecordMirrorRefused, Target, journal, Continuation, Abandoned
  <2>5. CASE op \in PauseReasons
    <3>1. Reads => Approved /\ Touched /\ last \notin TerminalEvents
      BY <2>1, <2>5 DEF ReadyInv, Driving, StatusInv
    <3>2. pc' \in {"journal", "settle", "episode"} /\ op' \in {op, "Resume"} /\ state' = "paused"
      BY <1>10, <2>1, <2>5 DEF RecordMirrorRefused, Ops, Target, Continuation, Abandoned
    <3> QED BY <2>1, <2>2, <2>5, <3>1, <3>2 DEF journal
  <2>6. CASE op \in {"Approve", "Begin", "Resume"}
    BY <1>10, <2>1, <2>2, <2>6 DEF RecordMirrorRefused, Target, journal, Continuation, Abandoned,
          Legal, Machine, Transitions
  <2> QED BY <2>1, <2>3, <2>4, <2>5, <2>6 DEF Ops
<1>11. CASE RecordHold
  <2>1. /\ AppendOk("StoreUnavailable") => Grown("StoreUnavailable") \/ Lost
        /\ AppendErr("StoreUnavailable") => Kept \/ Grown("StoreUnavailable") \/ Lost
    BY AppendEffect
  <2> QED BY <1>11, <2>1, <1>0 DEF RecordHold, Append, Kept, Lost, Grown, Replay,
       StepEvents, ReadyInv, Driving
<1>12. CASE RunStep
  BY <1>12, <1>0 DEF RunStep, Ops, journal
<1>13. CASE MarkStarted
  <2>1. /\ AppendOk("StepStarted") => Grown("StepStarted") \/ Lost
        /\ AppendErr("StepStarted") => Kept \/ Grown("StepStarted") \/ Lost
    BY AppendEffect
  <2>2. pc = "start" /\ pc' \in {"running", "settle"} /\ UNCHANGED <<files, store, inv, sink, step, exit>>
    BY <1>13 DEF MarkStarted, Append
  <2>3. Grown("StepStarted") => UNCHANGED <<stage, health>> /\ last' = "StepStarted" /\ (Reads => Touched')
    BY <2>2 DEF Grown, Replay, StepEvents, Touched
  <2>4. Kept \/ Lost \/ Grown("StepStarted")
    BY <2>1, <1>13 DEF MarkStarted, Append
  <2>5. Reads => Approved /\ last \notin TerminalEvents
    BY <2>2 DEF ReadyInv, Driving
  <2>6. CASE Kept \/ Lost
    BY <2>2, <2>6, <1>0 DEF Kept, Lost
  <2>7. CASE Grown("StepStarted")
    BY <2>2, <2>3, <2>5, <2>7
  <2> QED BY <2>4, <2>6, <2>7
<1>14. CASE MirrorStarted
  BY <1>14, <1>0 DEF MirrorStarted, RowLands, RowRefused, Refused, journal
<1>15. CASE EmitUsage
  <2>1. /\ AppendOk("Usage") => Grown("Usage") \/ Lost
        /\ AppendErr("Usage") => Kept \/ Grown("Usage") \/ Lost
    BY AppendEffect
  <2> QED BY <1>15, <2>1, <1>0 DEF EmitUsage, Append, Kept, Lost, Grown, Replay, StepEvents,
       ReadyInv, Driving
<1>16. CASE Tick
  BY <1>16 DEF Tick, Ops, journal
<1>17. CASE EpisodeOk
  BY <1>17, <1>0 DEF EpisodeOk, journal
<1>18. CASE EpisodeFails
  BY <1>18, <1>0 DEF EpisodeFails, journal
<1>19. CASE EpisodeGated
  BY <1>19, <1>0 DEF EpisodeGated, journal
<1>20. CASE EpisodeCancelled
  BY <1>20, <1>0 DEF EpisodeCancelled, Ops, journal
<1>21. CASE RecordDeliverables
  <2>1. /\ AppendOk("Deliverables") => Grown("Deliverables") \/ Lost
        /\ AppendErr("Deliverables") => Kept \/ Grown("Deliverables") \/ Lost
    BY AppendEffect
  <2>2. pc = "deliver" /\ pc' \in {"complete", "settle"} /\ UNCHANGED <<files, store, inv, sink, driver, exit>>
    BY <1>21 DEF RecordDeliverables, Append
  <2>3. Grown("Deliverables") => UNCHANGED <<stage, health>> /\ last' = "Deliverables" /\ (Reads => Touched')
    BY <2>2, <1>0, <1>a DEF InEpisode, Grown, Replay, StepEvents
  <2>4. Kept \/ Lost \/ Grown("Deliverables")
    BY <2>1, <1>21 DEF RecordDeliverables, Append
  <2>5. Reads => Approved /\ last \notin TerminalEvents
    BY <2>2 DEF ReadyInv, Driving
  <2>6. CASE Kept \/ Lost
    BY <2>2, <2>6, <1>0 DEF Kept, Lost
  <2>7. CASE Grown("Deliverables")
    BY <2>2, <2>3, <2>5, <2>7
  <2> QED BY <2>4, <2>6, <2>7
<1>22. CASE MarkCompleted
  <2>1. /\ AppendOk("StepCompleted") => Grown("StepCompleted") \/ Lost
        /\ AppendErr("StepCompleted") => Kept \/ Grown("StepCompleted") \/ Lost
    BY AppendEffect
  <2>2. pc = "complete" /\ pc' \in {"done", "settle"} /\ UNCHANGED <<files, store, inv, sink, driver, exit>>
    BY <1>22 DEF MarkCompleted, Append
  <2>3. Grown("StepCompleted") => UNCHANGED <<stage, health>> /\ last' = "StepCompleted" /\ (Reads => Touched')
    BY <2>2, <1>0, <1>a DEF InEpisode, Grown, Replay, StepEvents
  <2>4. Kept \/ Lost \/ Grown("StepCompleted")
    BY <2>1, <1>22 DEF MarkCompleted, Append
  <2>5. Reads => Approved /\ last \notin TerminalEvents
    BY <2>2 DEF ReadyInv, Driving
  <2>6. CASE Kept \/ Lost
    BY <2>2, <2>6, <1>0 DEF Kept, Lost
  <2>7. CASE Grown("StepCompleted")
    BY <2>2, <2>3, <2>5, <2>7
  <2> QED BY <2>4, <2>6, <2>7
<1>23. CASE MirrorCompleted
  BY <1>23, <1>0 DEF MirrorCompleted, LastStep, RowLands, RowRefused, Refused, Ops, journal
<1>24. CASE MarkFailed
  <2>1. /\ AppendOk("StepFailed") => Grown("StepFailed") \/ Lost
        /\ AppendErr("StepFailed") => Kept \/ Grown("StepFailed") \/ Lost
    BY AppendEffect
  <2>2. pc = "fail" /\ pc' \in {"failed", "settle"} /\ UNCHANGED <<files, store, inv, sink, driver, exit>>
    BY <1>24 DEF MarkFailed, Append
  <2>3. Grown("StepFailed") => UNCHANGED <<stage, health>> /\ last' = "StepFailed" /\ (Reads => Touched')
    BY <2>2, <1>0, <1>a DEF InEpisode, Grown, Replay, StepEvents
  <2>4. Kept \/ Lost \/ Grown("StepFailed")
    BY <2>1, <1>24 DEF MarkFailed, Append
  <2>5. Reads => Approved /\ last \notin TerminalEvents
    BY <2>2 DEF ReadyInv, Driving
  <2>6. CASE Kept \/ Lost
    BY <2>2, <2>6, <1>0 DEF Kept, Lost
  <2>7. CASE Grown("StepFailed")
    BY <2>2, <2>3, <2>5, <2>7
  <2> QED BY <2>4, <2>6, <2>7
<1>25. CASE MirrorFailed
  BY <1>25, <1>0 DEF MirrorFailed, AttemptsSpent, RowLands, RowRefused, Refused, Ops,
       journal
<1>26. CASE Settle
  <2>1. /\ pc' = "idle" /\ UNCHANGED <<journal, files, store, inv, sink, driver>>
        /\ (Touched' <=> Touched) /\ pc = "settle"
    BY <1>26, <1>0 DEF Settle, End, journal
  <2>2. UNCHANGED <<stage, steps, last, tail, health>>
    BY <2>1 DEF journal
  <2>3. CASE inv \notin {"run", "resume"}
    BY <2>1, <2>2, <2>3
  <2>4. CASE inv = "resume"
    <3>1. exit' = IF TailState = "executing" THEN "3" ELSE PositionExit(TailState)
      BY <1>26, <2>4 DEF Settle, End
    <3>2. health = "sound" => /\ exit' = "0" => last = "Completed"
                              /\ exit' = "6" => last \in PauseReasons
      BY <3>1 DEF TailState, PositionExit
    <3>3. Approved /\ last \in PauseReasons => Position = "paused"
      BY DEF Position
    <3> QED BY <2>1, <2>2, <3>2, <3>3 DEF CanResume, Position
  <2>5. CASE inv = "run"
    <3>1. exit' \in {"3", PositionExit(state)}
      BY <1>26, <2>5 DEF Settle, End
    <3>2. /\ exit' = "0" => state = "completed"
          /\ exit' = "6" => state = "paused"
      BY <3>1 DEF PositionExit
    <3>3. Approved /\ last \in PauseReasons => Position = "paused"
      BY DEF Position
    <3> QED BY <2>1, <2>2, <2>5, <3>2, <3>3, <1>b DEF CanResume, Position
  <2> QED BY <2>3, <2>4, <2>5
<1>27. CASE Resume
  BY <1>27 DEF Resume, CanResume, journal
<1>28. CASE ResumeRefused
  BY <1>28, <1>0 DEF ResumeRefused, End, journal
<1>29. CASE Repair
  BY <1>29 DEF Repair, ReadyInv, replayed, Touched
<1>30. CASE RepairCutOff
  <2>1. /\ pc = "repair" /\ pc' \in {"idle", "settle"}
        /\ UNCHANGED <<health, files, status, rows, inv, state, op, step, attempt, exit>>
        /\ state = "none" /\ exit = "none"
    BY <1>30 DEF RepairCutOff, SinkInv
  <2>2. /\ Approved' => Approved
        /\ Reads /\ last' \in PauseReasons => Approved'
    BY CutOffEffect, <1>30 DEF RecordKept, CutBack, Approved
  <2> QED BY <2>1, <2>2
<1>31. CASE ResumePosition
  BY <1>31 DEF ResumePosition, End, PositionExit, Position, Ops, journal
<1>32. CASE SeekStep
  BY <1>32, <1>0 DEF SeekStep, FirstIncomplete, Ops, journal
<1>33. CASE Cancel
  BY <1>33 DEF Cancel, journal
<1>34. CASE CancelUnknown
  BY <1>34 DEF CancelUnknown, End, journal
<1>35. CASE StopNothing
  BY <1>35, <1>0 DEF StopNothing, End, journal
<1>36. CASE StopRecord
  BY <1>36 DEF StopRecord, Position, Ops, journal, ReadyInv, MirrorInv, MirrorNeverAhead,
       JournalInv, PauseReasons
<1>37. CASE PanelStop
  BY <1>37, <1>0 DEF PanelStop, Dropped, Awaits, StoreAwaits, StatusLands, RowLands, Target,
       journal
<1>38. CASE Interrupt
  BY <1>38, <1>0 DEF Interrupt, Dropped, Awaits, StoreAwaits, StatusLands, RowLands, Target,
       End, journal
<1>39. CASE Crash
  BY <1>39, <1>c DEF Crash, Tears, Appending, journal, replayed
<1>40. CASE UNCHANGED vars
  BY <1>40, <1>c DEF vars, journal, CanResume, Position
<1> QED
  BY <1>1, <1>2, <1>3, <1>4, <1>5, <1>6, <1>7, <1>8, <1>9, <1>10, <1>11, <1>12, <1>13,
       <1>14, <1>15, <1>16, <1>17, <1>18, <1>19, <1>20, <1>21, <1>22, <1>23, <1>24, <1>25,
       <1>26, <1>27, <1>28, <1>29, <1>30, <1>31, <1>32, <1>33, <1>34, <1>35, <1>36, <1>37,
       <1>38, <1>39, <1>40 DEF Next, Work, Answers, RecordSteps, DriverSteps,
       EpisodeEnds, ResumeSteps, StopSteps, Invoke

\* All of it holds in every reachable state.
LEMMA Outcome == Spec => [](SinkInv /\ StatusInv /\ RowInv /\ ExitInv)
<1> DEFINE Inv == IInv /\ SinkInv /\ StatusInv /\ RowInv /\ ExitInv
<1>1. Init => Inv
  BY InitIInv, InitOutcome
<1>2. TypeInv /\ Inv /\ [Next]_vars => Inv'
  <2> SUFFICES ASSUME TypeInv, Inv, [Next]_vars PROVE Inv'
    OBVIOUS
  <2>1. TypeOK /\ IInv'
    BY TypeStep, StepIInv DEF TypeInv
  <2> QED BY <2>1, SinkStep, StatusStep, RowStep, ExitStep
<1> QED BY <1>1, <1>2, Invariance, PTL DEF Spec

-----------------------------------------------------------------------------

\* Once the approval reached the store, no later mirror write of status or step
\* row is one the store's transition tables refuse, whatever writes were
\* refused, lost or half done before it, unless a repair was cut off.
THEOREM NoConflict == Spec => []MirrorsNeverConflict
<1>1. IInv /\ SinkInv /\ StatusInv /\ RowInv => MirrorsNeverConflict
  <2> SUFFICES ASSUME IInv, SinkInv, StatusInv, RowInv, cuts = 0 PROVE MirrorsNeverConflict
    BY DEF MirrorsNeverConflict
  <2> USE DEF At, Recording
  <2>1. ASSUME pc = "mirror", status # "planned" PROVE StatusAllows(status, Target(op))
    <3>1. /\ Legal(state, op) /\ op \in Ops /\ status \in RunStates \ {"planned", "failed"}
      BY <2>1 DEF SinkInv, StatusInv, IInv, ReadyInv, TypeOK
    <3>2. CASE op = "Approve"
      BY <2>1, <3>2 DEF StatusInv, Fresh
    <3>3. CASE op = "Begin"
      BY <2>1, <3>3 DEF SinkInv, StatusInv, Drives, Follows, StatusAllows, Transitions, Target
    <3>4. CASE op = "Resume"
      <4>1. Reads /\ last \notin TerminalEvents
        BY <2>1, <3>4 DEF StatusInv, Resuming, IInv, ReadyInv, Reads, Driving
      <4>2. status \in {"approved", "executing", "paused"}
        BY <3>1, <4>1 DEF IInv, MirrorInv, MirrorNeverAhead, Reads, RunStates, TerminalEvents
      <4> QED BY <3>4, <4>2 DEF StatusAllows, Transitions, Target
    <3>5. CASE op = "ProcessDeath"
      <4>1. Reads /\ last \notin TerminalEvents /\ Touched
        BY <2>1, <3>5 DEF StatusInv, Resuming, IInv, ReadyInv, Reads, Driving, PauseReasons
      <4>2. status \in {"executing", "paused"}
        BY <4>1 DEF StatusInv, IInv, MirrorInv, MirrorNeverAhead, Reads, TerminalEvents
      <4> QED BY <3>5, <4>2 DEF StatusAllows, Transitions, Target
    <3>6. CASE op \in {"BudgetExhausted", "StepFailedAfterRetry", "Complete"}
      <4>1. state = "executing"
        BY <3>1, <3>6 DEF Legal, Machine, Target, Transitions, PauseReasons
      <4>2. status = "executing"
        BY <2>1, <3>6, <4>1 DEF StatusInv, Drives, Follows, InAttempt
      <4> QED BY <3>6, <4>2 DEF StatusAllows, Transitions, Target
    <3>7. CASE op = "Cancel"
      BY <2>1, <3>1, <3>7 DEF StatusInv, StatusAllows, Transitions, Target, RunStates
    <3> QED BY <3>1, <3>2, <3>3, <3>4, <3>5, <3>6, <3>7 DEF Ops
  <2>2. ASSUME pc \in StoreAwaits \ {"mirror"} PROVE RowAllows(rows[step], pc)
    BY <2>2 DEF StoreAwaits, RowAllows, RowInv, InStep, IInv, TypeOK, Steps
  <2> QED BY <2>1, <2>2 DEF MirrorsNeverConflict
<1> QED BY <1>1, Outcome, Invariance, PTL

\* A sink that paused on a ceiling starts no further step: what it still runs
\* are the retries of the step it was in.
THEOREM Boundary == Spec => []StopsAtBoundary
<1>1. SinkInv => StopsAtBoundary
  BY DEF SinkInv, StopsAtBoundary, At
<1> QED BY <1>1, Outcome, PTL

\* Exit 0 is earned and exit 6 can be resumed, after any crashes, refused
\* writes and invocations, as long as the journal reads.
THEOREM TrueExits == Spec => []ExitTellsTruth
<1>1. ExitInv => ExitTellsTruth
  BY DEF ExitInv
<1> QED BY <1>1, Outcome, PTL
=============================================================================
