# Verification of saya-cli

TLA+ models of the parts of `saya` that keep state across crashes, processes,
worker threads and concurrent tool calls, the TLC runs that check them and the
TLAPS proofs about them. Paths below are relative to `src/crates/`.

## The system

| Component | State it keeps | Operations | Hard behaviour | What makes it correct |
|---|---|---|---|---|
| Run engine (`saya-harness/src/engine`, `journal.rs`, `saya-store/src/runs`, `saya-cli/src/commands/run`) | the journal `events.ndjson`, its SQLite mirror, `spec.json`/`plan.json`, the sink's machine state | `saya run`, the TUI panel's start and stop, `saya run resume`, `saya run cancel` | crash, interrupt or refused write between any two of a transition's writes; torn lines; retries; ceilings that trip mid-episode; a stop that drops the work at an await | journal leads, mirror follows; steps run in order, each once; nothing runs unrecorded; terminal events are final; exit codes agree with the record; a run can always be finished |
| Run lock (`saya-harness/src/lock.rs`) | the lock file naming a pid | acquire, release, drop | two processes reclaim one stale file; a holder dies at any point | exclusion, a winner in every race, a stale file never wedges a run |
| Resumable downloads (`saya-harness/src/fetch`, `workspace/download.rs`) | destination, part file, sidecar; the run's wallet and the level its journal holds | `http_download`, the sink's tick, carry-over on resume | concurrent calls of one turn, crashes between two files, changed parts, a wallet at its limit | a destination is whole or absent, a sidecar describes a prefix of its part, a reported digest is true, the budget binds the run |
| Agent loop (`saya-agent/src/loop_runner`, `protocol`) | the conversation, the failed calls' memory, the named answer, the budget | turns, tool batches, refusals, salvage, compaction | a batched and a sequential tool path that decide apart; a cancellation while a prompt is open | every request pairs its calls with their replies; both paths apply one set of gates; a failed call stays refused; the user gets the statement that was named |
| TUI session (`saya-cli/src/interactive/tui`, `session_state.rs`) | the conversation, its record, a slot per worker, the queued line | keys, ticks, saves, resume, compaction, `/run`, quit | workers on threads that end between any two steps of a tick, queries that go on after the user let go of them, choices that land ticks later | one worker is waited for at a time; a turn stays in its session; records land in order; a queued line is taken |
| Knowledge store and learning (`saya-store/src/knowledge_items`, `saya-cli/src/agent/learning`, `contracts`) | the rows of a project, their versions and cleanups; the learner's breaker | learn, propose, confirm, reject, forget, recover at open | several processes; recalled facts that come back as inferences while the row changes; a cleanup held back by a reader | the slot's bound; what is forgotten is blank; recall is not learnt back |
| Child processes (`saya-harness/src/proc`) | the child, its group, its pipe | run a command, time out, cancel | descendants that fork, leave the group, keep the pipe, or take on credentials that refuse our signals | an outcome means that nothing of the group that may be signalled runs; the timeout binds what signals reach |
| Model providers and transcript (`saya-agent/src/providers`, `loop_runner/receive.rs`, `tui/transcript`, `tui/stream_events`) | a stream being decoded, the turn being assembled, the blocks on the screen and the mark of the attempt | one streamed turn, its retries and continuations, folding, rollback | a stream that breaks after part of it was shown; results without call ids | whole turns only; a text is shown once; every result stays on the screen |

The CLI claims a run (lock, store row, `RunStarted`), asks the model for a plan,
the user for an approval, and hands the plan to the engine. The engine's sink
turns every lifecycle transition into *machine check, journal append, store
write*, in that order; the episode driver does the same for step rows. Inside an
episode the agent loop calls tools, `http_download` and child processes among
them; each event it emits is a tick of the sink, which journals usage and the
wallet's level and may pause the run. `resume` takes the lock, repairs the
journal's tail, replays the journal and goes on at the first incomplete step,
with the wallet re-armed from the journal. `cancel` and the panel's stop share
`record_cancelled`. In a session the same agent loop answers the user's lines on a
worker thread; the TUI's loop drains the worker, keeps the conversation, saves it,
and after a turn the learner files what it extracted into the knowledge store.

Connectors, configuration, rendering, path containment, platform sandboxes,
migrations, the scratch database, fetch tool adapters, consensus and shared types
are input and output, parsing, pure functions or operating-system semantics;
`PROJECT.json` lists each with its reason.

## Modules

| Module | Models | Kind |
|---|---|---|
| `RunPromise` | what a run's journal promises its reader | abstract specification |
| `RunEngine` | the engine with its journal, store, episodes and CLI entry points | detailed specification, refines `RunPromise` |
| `RunEngineClaims` | two statements of the repository the engine does not keep | property over `RunEngine` |
| `RunLock` | `RunLock::acquire` and release, one file-system call per step | specification |
| `Download` | `http_download`, its files, wallet and tick | specification |
| `AgentLoop` | one agent run, its gates, tools and budget | specification |
| `Conversation` | what a session remembers of its turns | operators |
| `TuiSession` | the TUI's loop over its workers; extends `Conversation` | specification |
| `Transcript` | the blocks a session shows, folding and rollback | operators |
| `ProviderTurn` | a model service's turns from the wire to the screen; extends `Transcript` | specification |
| `Knowledge` | the rows of one object under several processes, and the learner | specification |
| `ChildProcess` | the life of one child and its descendants | specification |
| `MCDownload`, `MCAgentLoop`, `MCTuiSession`, `MCKnowledge` | instances for TLC | models |
| `RunEngine_proofs`, `RunLock_proofs`, `Download_proofs`, `Knowledge_proofs`, `ChildProcess_proofs`, `AgentLoop_proofs`, `TuiSession_proofs`, `ProviderTurn_proofs` | theorems | proofs |

### RunEngine

`stage`, `steps` and `last` are what `journal::replay` computes from the whole
lines of `events.ndjson` (the journal is kept as its replay, not as text);
`tail` tells whether the file ends in half a line and `health` whether a whole
line no longer parses (`corrupt`). `cuts` counts the repairs that lost lines:
`truncate_torn_tail` empties the file and then writes its whole lines back, so a
crash or a refused write in between (`RepairCutOff`) leaves a shorter journal, whole or torn,
that *reads*: an empty one is a run that was never started. `status` and
`rows` are the store, guarded by the tables of `runs/status.rs`. `state` and `op`
are the sink and the `TransitionEvent` it is recording; `step` and `attempt` are
`run_step`'s. `pc` says where the invocation stands and `inv` which one it is;
`idle` means no process works on the run. Every append and every store write is
its own action with its outcomes: done; refused with nothing, half a line or the
whole line written; refused by the table; refused after the row was written.
`Crash` may strike at every label, `Interrupt` (Ctrl-C) and `PanelStop` at every
await, with a write in flight carried out or not.

Abstractions: the two ceilings of a tick are one pause reason; an episode is a
choice among success, failure, gate refusal and cancellation, with any number of
usage appends and at most one recorded pause; `Fail` is in the transition table
but nothing in the source records it; the lock is taken for granted (one
invocation at a time; `RunLock` asks what it is worth). As the journal is kept as its
replay, a repair that is cut off leaves the replay of any prefix (`Prefixes`) that some journal
with this replay can have: nothing, `RunStarted` alone, or the approval with the steps finished
or begun by then. A fresh start draws a new id, so a run is started once, in `Init`.

### RunLock

One variable for the lock file, the live processes and each process's place in
`acquire` or release. The temporary file of `claim` carries the process's own pid
in its name, so only its rename is visible. `overlap` is a history variable: the
processes whose `acquire` ran while another's did. Process ids are not reused and
a process takes the lock at most once.

### Download

A file is the sequence of its blocks and a digest is the sequence it digests;
a block is a resource and an index, so bytes of different resources differ and
the *n*-th block of a body is known from any other. Between two awaits one call
runs alone (the tools of a turn share a task), so an action is what a call does
between two awaits: verify and request, open, one chunk, the end. `file` follows
what the open descriptor's name is now: a rename takes it along to the
destination, or orphans it. `raced` and `clobbered` are history variables that
name the destinations two calls were at work on at once, and those another tool
changed; `spent` is the run's account over all its invocations, less what a crash
kept out of the journal (the residual `engine/sink.rs:302-306` accepts).

Abstractions: a server answers a range with 206 from that offset or with 200; bodies
do not change between attempts; a crash is that of the process, not of the
machine, so written bytes stay; other tools write to a part only between two turns;
the sink ticks after all calls of a turn have returned, as the loop emits a
batch's events after collecting it.

### AgentLoop

One call of the loop, from the user's request to its outcome. The conversation is
the sequence of messages that goes into a request, each with the ids of the calls it
makes or answers (a nameless call's id is empty); `failed` is
`failed_statements`, `sql` the designated answer, `turns`, `calls` and `continuations` the
budget. A turn's calls either all run at once (every one of them auto-runnable) or
go one by one through validation, the failed-statement refusal, the policy and
the prompt: two pieces of code with two copies of the gates, which is what
`GatesBindBothPaths` compares. `consent` is a history variable: what the user allowed, for the
session or once, so that the property says who approved a call. A batch passes its
cancellation check (`Announce`), awaits one event per call, and only then starts the calls
(`BatchStart`): a stop that comes in between no longer holds them back, and
`CancelStopsTools` states exactly that much. On the sequential path the token is consulted
again after the prompt, so an answer given after the stop runs nothing. The budget's end leads to
salvage, which names an earlier successful statement.

Abstractions: a call is a tool with its arguments, sorted by the sets it belongs to (invalid,
nameless, statement, designation, forbidden) and by the effects of its tool; an id is the
call's place in its turn, or empty; a provider's stream is one action with the turn it produced, or a
failure; compaction drops whole exchanges beyond `Window`; clarification questions,
argument overrides and pinned knowledge are left out. No tool of today's set has
the candidate-writing role of the protocol, so none is in the model.

### TuiSession and Conversation

The loop thread goes through a tick by its steps (`event`, `workers`, `busy`,
`pending`, `resume`, `final`, `leaving`); the workers (stream, SQL, compaction,
run panel, picker, save) are slots, and a worker may end between any two steps, its
message waiting in its slot until the loop drains it. `Conversation` holds what
`session_state.rs` does to the turns: append, the compaction's split and the
summary, and what a request shows with data sharing off. `queries` are the SQL threads in
flight, `sql` the one the loop waits for: Esc drops the receiver and the thread goes on, so a
detached query (`detached`, history) runs beside whatever starts next and ends at any time,
unheard. `runs` (the run workers that are alive), `book` (the turns that belong to each session), `excused` and `astray`
are history variables.

Abstractions: a turn is its session and a number; a save's file replacement by rename
is one step; the side panels, completion, rendering and the plain line mode are left
out; a worker always ends with its message (a panic is outside the model).

### ProviderTurn and Transcript

Four decoders (`*_stream.rs`, `gemini.rs`), `receive`, the events of the turn's tools and
the transcript that follows them. `sent` is what the decoder has seen of an attempt,
frame by frame; `queue` the deltas of a chunk not yet taken (`State::pending`); `content`
what `receive` has assembled, each delta tagged with the number of its attempt;
`due` what the turn's tools have still to emit. `Verdict` says for each dialect what a
sequence of frames amounts to: open, whole, cut off by the cap, or broken. `view` is the
transcript: its blocks, the run of tool calls not yet folded (`pending_tools`, a set: calls are
numbered in the order of their requests, so it keeps their order) and the mark of the attempt (`AttemptMark`). Its operators are the transcript's methods: `StartAttempt` folds
and marks, `Rollback` is `rollback_attempt`, `Flush` is `flush_tool_buffer`. `delivered`,
`results` and `unanswered` are history variables: the text that was delivered
for good, the calls whose result was emitted, and the tools a call of which never got one.

Abstractions: the transcript drains events in the order in which they were emitted, so an
event and its display are one step; frames without text or calls, usage, reasoning, chapters,
scrolling, eviction, table formatting and groups with a nonzero exit are left out; a stall,
a dropped connection and a response beyond its limit are all `Drop`; Ollama's last line
without a newline is a chunk like another, and of the calls on one line of its one is
modelled; a Gemini response is decoded at once, its texts arriving in several
deltas instead of one; a call without an id, which ends the request, is left
to `AgentLoop`. A refused repetition emits a result without a request: such a stray line
may be paired with an open call, and `EvidenceStays` is not about it.

### Knowledge

The rows that compete for one object's single-valued slot and for its multi-valued
slot, each with its state, text, whether it was used and whether its cleanup is owed.
Each SQLite transaction is one step; the checkpoint that follows a forgetting is
another, may be held back by a reader, and is retried when the store is opened
again. A process has what its turn recalled, what its learner proposed and the
breaker's count of misses (two open it). A put to the multi-valued slot counts the
rows and then inserts, in one transaction whose read another process may outdate:
`overtaken` holds the processes whose open snapshot is so outdated, and whose insert SQLite
then refuses.

Abstractions: profiles, pagination, schema bindings, prompts and the parsing of a
reply are left out; texts are model values compared for equality, as the store
compares normalised text.

### ChildProcess

`proc/mod.rs` on Unix: the child in a group of its own, the wait with its timeout
and its cancellation arm, the kill of the group, the reaping, the sweep, the pumps
that read the pipe until every writer is gone. Descendants fork, leave the group,
write, take on another user's credentials (`Elevate`, into `immune`) and exit at any moment.
`killpg` is Linux's: it signals the members it may signal and fails only when there is
none, with EPERM if the group has members (`Refused`) and ESRCH if it has not. Each of its three
callers reads that its own way: the kill reports the refusal and leaves the child
(`KillRefused`), the probe takes every error for an empty group, the sweep ignores what its kill
answers. A call that is dropped (Ctrl-C, the panel's stop) leaves the child as it is.

Abstractions: a process id is not reused while the call lasts; credentials, once taken on, stay
and are inherited; the two output streams are one pipe and bytes are counted, not kept.

## What is checked

| Run | Instance | Distinct states | Shows |
|---|---|---|---|
| `RunEngine` | 2 steps, 2 attempts, 3 faults | 261,315 | all safety and action properties, the refinement of `RunPromise`; an invocation left alone returns or waits; a run can be finished |
| `RunLock` | 3 processes, every set of live ones, stale file or none | 56,823 | exclusion without overlap, a winner in every race, reclamation |
| `Download` | 2 calls, 1 destination, a body of 2 blocks and one of 3, file bound 2, wallet 3, 3 faults | 127,072 | whole destinations, safe sidecars, true completions, the budget |
| `AgentLoop` | 8 calls, 3 turns of at most 2, 3 calls in all, 1 continuation, 1 retry, 2 lanes, a memory of 1, five postures, one forbidden program | 440,666 | calls paired with replies, one set of gates, the stop, the failed-call refusal, the named answer, an end |
| `TuiSession` | 2 sessions, 3 lines, 2 keys of each kind, compaction from 2 turns keeping 1 | 1,818,710 | one worker waited for, turns at home, saves in order, queued lines taken, nothing forgotten |
| `ProviderTurn` | 4 dialects, 2 tools, 3 attempts of at most 3 frames in chunks of at most 2, 1 retry, 1 continuation, 2 calls, 2 requests or notices | 902,355 | whole turns, text shown once, results kept and paired |
| `Knowledge` | 2 processes, one of which learns, 2 texts, a multi-valued slot of 1 | 2,086,512 | the slot's bound, owed rows, no echo |
| `ChildProcess` | a child and 2 descendants, 1 byte, a pipe of 1 | 763,250 | outcomes are last, the timeout binds |
| `ResumeReconciles`, `NoCorruptedCompletion`, `QuitOrphansNoRun`, `StoreNeverAhead` | as the runs of the same modules, smaller where that suffices | | counterexamples, see below |

### Bounds

- `RunEngine`: two steps give a first and a last one, a step that is finished and one behind
  it; two attempts give an attempt that is retried and one that is not
  (`MAX_EPISODE_ATTEMPTS` is 3). The prefixes a repair may leave make more steps
  expensive; the theorems hold for any number of both. Each fault (crash, Ctrl-C, refused or half-done
  write) draws on `MaxFaults`; three allow a fault, a fault in the recovery from
  it, and one more. The number of resumes and cancels is not bounded.
- `RunLock`: a stale file and three processes give the race of two reclaimers and a third
  that arrives after it.
- `Download`: two calls suffice for every pairwise race on a destination; the wallet
  of 3 is smaller than two bodies, so claims meet its limit, and the 3-block body
  meets the file bound. The constraint `RacesAreFaultless` stops exploring beyond
  states in which two calls raced *and* a fault happened; properties about unraced
  destinations are not affected.
- `AgentLoop`: three turns let a statement fail, be repeated and be replaced; two
  calls a turn, of two kinds of tool, give mixed and pure batches, and two lanes let
  a batch's calls run at once; a memory of one and a window of four messages make both
  meet their limits. Five postures (ask, bypass under Plan, a frozen headless one with a
  grant, read-only, never) and a program on the deny list make each gate decide some call.
- `TuiSession`: `MinTurns` is 2 where the code has 3, so that three lines (`MaxLines`) can
  be compacted and go on; two presses of each worker-starting key (`MaxKeys`) allow
  one displaced by another.
- `ProviderTurn`: three frames hold a text, a call and an end, or two calls of one tool and an end;
  three attempts allow a continuation that appends to an older answer, breaks and is
  tried again, or a batch, a broken attempt after its fold, and an answer. The one
  retry stands for the schedule's three. The same instance with three inputs (6.1
  million states) holds as well, and so does `EvidenceStays` with one dialect, four calls
  over two turns and no retry.
- `Knowledge`: one row in a slot bounded by one is the smallest full slot; symmetry is
  on the texts, which no definition tells apart.
- `ChildProcess`: two descendants give a parent and a child of it, one that leaves the
  group or may not be signalled and one that stays; the one byte is what a descendant
  may write at any moment of the wait, the kill or the sweep.

Deadlock is checked where the system never stops by itself (`RunEngine`,
`ResumeReconciles`, `StoreNeverAhead`: an idle run can always be asked for something). The other runs say
`CHECK_DEADLOCK FALSE`: all processes may be dead or finished, a wallet spent, an agent
run settled, a session left, a request's bounds used up, a child's outcome reported.

### Fairness

- `RunEngine`: weak fairness of the running process's own steps (`Work`): between two waits it
  only computes and writes local files. Nothing obliges the user to answer the plan's
  approval, which has no timeout, the model to propose a plan or end an episode, which has no
  default ceiling, or anyone to resume (`Answers`, `Invoke`). So `InvocationEnds` says
  that an invocation is back at the prompt again and again or waits for ever at one of those
  three places. `RunCanFinish` assumes `Perseverance`: a user who
  keeps resuming, and an episode that, tried for ever, succeeds some time (strong
  fairness, as every attempt may be ended by a crash first; faults are finite).
- `RunLock` is fair to a process that started to acquire and to nobody else.
- `AgentLoop`: weak fairness of the loop's own steps, the provider's and the tools' ends
  included, for both have timeouts; none of the user's answer to a prompt, so
  `RunSettles` says what follows once no prompt is open. The turn budget is taken to
  be set; production's default is no limit, and then nothing bounds the turns.
- `TuiSession`, `ProviderTurn` and `Knowledge` assume none: what they promise about progress is an
  invariant (`LinesWaitForWorkers`: a tick never passes over a queued line while no
  worker is in flight).
- `ChildProcess`: weak fairness of the waiting task, the timer, the reaper and the pump;
  none of the child and its descendants, which may run for ever. `TimeoutBindsCall`
  excepts the processes no signal of the call reaches (`Unreached`): one that left the group
  and keeps the pipe open, and the child or an owner of the pipe that may not be
  signalled; the pumps and the reaper wait for them, as the code does. A dropped call reports
  nothing: it is set aside, not counted as an end.

### Where the code and its comments part

Each of these runs checks one sentence of the repository and TLC refutes it; the
findings in `PROJECT.json` quote the sentence.

- `ResumeReconciles`: a crash between `PlanApproved` in the journal and its mirror
  leaves the store at `planned`; every resume then records `Begin`, which the
  store refuses, and pauses as `StoreUnavailable`, for good. `MirrorsNeverConflict`
  shows that once the approval is in the store no later mirror write is refused.
- `NoCorruptedCompletion`: two calls of one turn on one destination share a part
  file; one may report the digest of bytes that are no longer there.
- `QuitOrphansNoRun`: nothing guards `/run`, so a second one replaces the panel of the
  first (`run_panel.rs:46`); quitting is then allowed while the first run's worker goes
  on.
- `StoreNeverAhead`: `truncate_torn_tail` empties the journal before it writes its whole lines
  back (`journal.rs:112-129`). Cut off in between, it leaves a journal that reads and shows
  no approval, and the store stays ahead of it, against `tests/engine_resume.rs:278-280`.
  The properties of the `RunEngine` run say what such a run keeps (`cuts`): a completed run is never
  affected, and no step but such a repair takes anything back.

The same models, or the reading they needed, show further disagreements that have
no run of their own:

- `record_cancelled` appends without cutting a torn tail off first, which only
  `resume` does: after a torn append, a cancel makes the journal unreadable
  (`commands/run/cancel.rs:78`). Properties of `RunEngine` that need a readable
  journal say so.
- `journal_position` answers `planned` for a run cancelled before its approval, so
  each further cancel appends another `Cancelled` (`commands/run/mod.rs:196`).
- The panel's stop may overtake the drive between the journal's `Cancelled` and its
  mirror, finds a terminal journal and writes nothing (`start.rs:161`).
- Between the probe of a stale holder and the removal, another process may have
  claimed and verified; its fresh file is removed and both hold (`lock.rs:35`).
  `ExclusiveUnlessRaced` excepts that race.
- A zero sidecar without its part file, in a directory that exists, is refused for
  good; the branch that starts fresh needs the directory to be missing
  (`fetch/resume.rs:66`).
- A call without an id "cannot anchor a well-formed tool message" and is to be "fatal"
  (`tools.rs:10-11`). It is when the call is also invalid and reaches the sequential path. A
  nameless but otherwise valid call is run and answered under the empty id, and so is
  any nameless call of a turn that salvage (`salvage.rs:49-56`) or a designation
  (`designation.rs:210-224`) answers. `RequestsPairCalls` says that each reply
  carries its call's id, the empty one included, and nothing of what a provider makes of it.
- Salvage may name a statement that failed in a later run of it (`salvage.rs:30`).
- A summary planned while data sharing hides some turns is made of the visible ones, but the
  number of turns it replaces is counted over all (`session_compact.rs`,
  `session_state.rs:215-231`). As long as a turn is hidden the kept turns are replayed in full; once
  sharing is on again the summary stands in for turns it never saw, which then reach the
  provider in no form. `Remembered` excepts compactions planned in that way (`whole`).
- "A SQL task and an agent stream never run concurrently" (`loop_tick/pending.rs:87-89`,
  `sql_task.rs:11-14`): Esc only detaches a query (`sql_guard.rs:24-43`), which goes on beside the
  next stream, compaction or query. `OneWorkerAtATime` is about what the loop waits for,
  and says that a query it does not wait for is one the user let go of.
- A choice made in the session picker lands ticks later without looking at the workers
  (`loop_tick/resume.rs:20`): a stream, query or compaction of the session before may then end in
  the one that was chosen. `TurnsStayHome` and `Remembered` except it (`astray`).
- "A cancelled run kills the child's whole process group" (`runner/mod.rs:118-119`): Ctrl-C and the
  panel's stop drop the work instead of letting it see the token (`start.rs:104-117`), and a
  dropped wait leaves the child running. Nor is "every descendant it created" a member of the group
  (`proc/mod.rs:191-193`): one that calls `setsid` has left.
- The sweep reads any error of `killpg` as an empty group, a refusal (EPERM) included, and ignores a
  refused kill (`proc/mod.rs:227-235`), though it is to kill "any live members left
  behind": a member that may not be signalled outlives the outcome unreported.
- A checkpoint that a reader held back is reported as "Cleaned" (`writes.rs:311`,
  against `docs/memory.md:182`); confirm and reject write a row from what they read
  of it earlier.
- A streamed turn that completes with nothing usable is an error inside the OpenAI
  and Ollama decoders, so it is retried, against `receive.rs:36-38`; an Anthropic
  turn cut off by the output cap is retried when the stream drops before its last
  frame, against `receive.rs:38-40`.
- Nothing resets the view when a turn hits the output cap: its partial text stays on
  screen, and the re-instructed turn's is appended to it, against "the partial stays
  discarded" (`loop_runner/mod.rs:100-104`).
- Gemini's decoder drops prose that comes with function calls (`gemini.rs:54-65`).
- Ollama's decoder numbers the calls of each line from zero, so calls on two lines of
  one response are joined into one and refused (`ollama_stream.rs:161`).
- Esc while a stream is being established ends as an error block, not as "Stopped"
  (`http.rs:43`, `settle.rs:143`); the notice of a line queued during an attempt goes with
  that attempt's reset, while the line stays queued (`attempt.rs:97`).
- In the transcript a denied or cancelled call stays open, and a later call of the
  same tool gives it its result (`tool_buffer.rs:66-82`).

## What is proved

Every theorem holds for every value of the constants that satisfies the modules'
`ASSUME`s, which say no more than that limits are natural numbers (not zero where the code
needs one), that a sentinel (`NoPid`, `None`) is none of the values it stands beside,
that a set of postures, dialects, flights or calls has members of the kind the code has, and
that a body has a length. Every safety invariant and every action property of the passing
runs is a theorem.

- `RunEngine`: `TypeCorrect`, by `TypeInv` = the type invariant and "an attempt is
  begun only below the bound", which the type of `attempt` needs.
- `Ordered`, `Earned`, `Mirrored`, `Recorded`: from one inductive invariant,
  `IInv`. None of the four is inductive: that `StepCompleted` keeps steps in order
  depends on the step having been started in order by an invocation whose place in
  the code vouches for it. So `IInv` says, label by label, what the journal already
  shows: `ReadyInv` what precedes each kind of append, `StepInv` where the driven
  step stands, `MirrorInv` what the next mirror write may claim. The order of steps and
  "completed means every step" hold of every journal; what the store claims needs the journal to
  read, and, but for a completed run, that no repair lost lines (`cuts = 0`). That a
  repair that is cut off keeps the order of steps, and that a completed run has no tail to
  repair, are parts of the invariant.
- `Finality` (an action property) and `Refinement` (`RunEngine` implements
  `RunPromise`): from `IInv` and a lemma on which actions append which event;
  each append is one step of `RunPromise` or a stutter, and a repair that is cut off is its `Lose`.
- `NoConflict`, `Boundary`, `TrueExits`: `SinkInv` says where the sink's machine stands at each
  label, so that a paused sink stands at a step boundary; `StatusInv` that a store past its
  approval is where the next write of the status is allowed from; `RowInv` the same of the rows of
  the driven step and of those after it; `ExitInv` what the journal ended in when an exit
  code was settled. The three rest on one another: a mirror write is not refused because the
  machine let its transition through.
- `RunLock`: `LockTypes`, and `Exclusion` for every set of processes. As long as no two
  acquisitions overlapped, at most one process is acquiring, a holder's name is in the
  file, and an acquiring process past the probe meets no holder; the three together
  are inductive. `Winner` rests on `RaceInv`: once a process has claimed, the file names a
  live claimant or somebody has just removed the name to put another in its place; with
  every process through, that claimant holds.
- `Download`: `Bounded`, the budget binds the run. `WalletInv` relates
  the wallet, the journaled level and the run's account: the journal never holds
  more than the wallet, and carrying the level over never adds to the account.
  `WholeDestination`, `SafeSidecar`, `TrueCompletion`: `DigestInv` keeps every digest, whoever
  holds it, that of a prefix of one body; `FileInv` says for an unraced
  destination and at each label of its one call what the part, the sidecar
  and the destination hold and which of them the open descriptor is.
- `Knowledge`: `KnowledgeTypes` (with the breaker's bound), `SlotIsBounded` (a count
  that no commit has outdated is still right when its row goes in, and an outdated one is
  never acted on), `OwedAreBlank` (forgetting blanks and owes in one transaction,
  and a put that revives a row settles the debt), and `NoEcho` (an action property): by `EchoInv`
  what a process has still to file is nothing its prompt showed, so the put of it
  leaves those rows alone whatever became of them meanwhile.
- `ChildProcess`: `OutcomeIsLast`, for every set of processes and every pipe: what each
  label of the wait has killed, reaped and drained by then, and that what is left of the group
  once the sweep is over may not be signalled, its later children included.
- `TuiSession`: one invariant, `IInv`, with a part for each of the five theorems. `Slots` says that
  the busy slots exclude each other, that every query in flight is the awaited one or was
  detached, and which steps of a tick may meet which;
  `HomeInv` that every copy of a session's turns, in memory, on its way and on disk, holds turns of
  that session; `RecordInv` that the newest copy (the live turns, else the snapshot that waits,
  else the one being written, else the record) is what the session came to; `MemoryInv` that a standing compaction covers the oldest turns and
  one in flight was planned on the conversation as it still is.
- `AgentLoop`: `Gates` and `StopHolds` (action properties) from `HandInv`, which says of each
  label of the sequential path which refusals its call has passed and whose consent it has, and
  of a batch that no call in it needs a question. `NamedAnswer` from `AnswerInv`. `RefusedAgain`: `MemoryInv` says that
  each failure goes by one that is still remembered or was followed by `Memory` other
  failures: what pushes a call out of the memory stands behind it there, each once. `Paired`: by `TalkInv` the conversation pairs calls and replies, id by id,
  between turns, and in a turn but for the calls not yet answered; appending, discarding a partial and
  dropping the oldest exchanges each keep that.
- `ProviderTurn`: `WholeTurns` from `StreamInv`: the queue is the deltas not yet taken, then the
  end if the turn is whole, and what is assembled and what is queued add up to what was decoded,
  under the attempt's number; a whole turn's frames are texts and calls up to its end.
  `AnswersDelivered` from `ShowInv`: the text on the screen is what was delivered and then
  the attempt's; from `TurnStarted` to the end of the stream no finished call waits to be
  folded, so no fold can take blocks from under the mark, and the blocks up to the mark,
  with the answer that was last cut to its marked length, show exactly what was delivered.
  A rollback therefore restores it. That a fold takes no answer along is a lemma about
  `Trailing`: it stops at the first block that is no line of a call.
  `EvidenceKept` from `EvidenceInv`, which takes the transcript (`Evidence`) and what the turn's
  tools have still to emit (`Ordered`) together, because neither is inductive without the other:
  - No result is lost. A fold removes at most two lines for each finished call of its run and
    puts their pairs in a group; so a line that is a result of another run must have two lines
    for each finished call, and one for each call already requested, between it and the end, or
    a block that is no line, or a failed call in the run, which then never folds (`LinesStay`).
    A denial pushes a note, a stray result is never a success. During an attempt every result
    stands before the mark (`PrefixTells`), and no call is finished, so a rollback takes none.
  - None is beside another's call. Calls end in the order of their numbers and are requested
    before (`PlanInOrder`, for batches and for calls one after the other), each call still
    awaited has its own open entry (`AllOpened`), and any other open entry of its tool is of a
    call that never got a result (`NoneLeft`): the oldest open entry that
    `buffer_tool_completion` takes is the call's own, unless the tool is in `unanswered`.

Induction: the library's induction theorems take an operator and cannot be used, but a proof can
take the least element of the set of counterexamples instead (`LeastNatural`, from the
well-foundedness of `<` on `Nat`). `AgentLoop_proofs` and `ProviderTurn_proofs` argue that way about
sequences, and about `FlattenSeq`, whose recursive function is unfolded from its `CHOOSE`
(`FlatteningExists`, `FlatteningUnique`).

What the proofs found. `FailedCallStaysRefused` once spoke of the call's *latest* failure, and the
proof of it failed. With a memory of two and a batch of three, `a`, `b`, `a` all fail and then
`c` does: `a` is forgotten, though only `c` failed since it did last, because a call that is
remembered already keeps its place (`failed_statements.rs:58-76`). The property now counts
from the first failure in a batch; the run's memory of one could not tell the two apart.
The proofs also needed `AgentLoop`'s `PostureAssumption` and `TuiSession`'s assumptions about its
sentinels, which the models had left unsaid.

Model-checked only: liveness (`InvocationEnds`, `RunCanFinish`, `StaleLockIsReclaimed`,
`RunSettles`, `TimeoutBindsCall`), which is out of the prover's reach, as is `ENABLED`.

## Not modelled

- Of the model providers: the building of requests, the framing of bytes, usage and reasoning.
- Consensus: a pure tally its unit tests enumerate.
- Workspace containment, the platform sandboxes, the Windows process tree and the
  store's migrations: what they promise is decided by the operating system or by
  SQLite, not by state the program keeps.
- The scratch database, connectors, configuration, the command surface, usage and briefs,
  fetch tool adapters, shared types, rendering, completion and the plain line mode:
  parsing, formatting and adapters that keep no state between two calls, or one thread's
  sequential use of a library.

## Plan

1. Done: the modules and theorems above.
2. Proofs: of the properties of the passing runs only liveness is left, which stays with TLC.
3. Next to model: a migration's switch of the journal mode, one of the hazards no property
   covers yet.
