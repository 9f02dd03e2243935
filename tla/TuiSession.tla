----------------------------- MODULE TuiSession -----------------------------
(***************************************************************************)
(* The event loop of the full-screen session and the threads it starts:    *)
(* the agent's stream, a direct SQL command, a compaction, a run behind    *)
(* the panel, the session picker's loader and the saver of the record.     *)
(* The loop is one thread and takes its tick in steps; the threads end     *)
(* whenever they please, and the loop looks at what they sent in its own   *)
(* order.                                                                  *)
(***************************************************************************)
EXTENDS Conversation

CONSTANTS
  Session,   \* the session ids
  Launched,  \* the session the process is launched with
  Saved,     \* the turns each session's record holds at launch
  Lines,     \* what the user may submit
  MaxLines,  \* bound on the lines the user submits
  MaxKeys    \* bound on the other keys the user presses

\* A turn, with (history) the session it was asked in; what a worker and a
\* save hold when there is one.
Turn == [in: Session, n: Int, derived: BOOLEAN]
Streams == [in: Session, n: Nat, state: {"running", "answered", "failed"}]
Snapshots == [id: Session, turns: Seq(Turn), sharing: BOOLEAN]
Flights == [of: Snapshots, state: {"writing", "saved", "failed"}]

ASSUME SessionAssumption ==
  /\ Launched \in Session
  /\ \A line \in Lines : line.do = "resume" => line.id \in Session
\* A record on disk at launch holds turns of its own session.
ASSUME SavedAssumption ==
  /\ Saved \in [Session -> {None} \cup Seq(Turn)]
  /\ \A s \in Session : Saved[s] # None => \A i \in DOMAIN Saved[s] : Saved[s][i].in = s
\* Option::None is none of the values an Option may hold.
ASSUME NoneAssumption == None \notin Streams \cup Flights \cup Snapshots \cup Nat

VARIABLES
  at,         \* the step of the tick the loop is at
  live,       \* id of the live SessionState
  turns, sharing, compaction, autoFailed, \* the rest of it
  stream,     \* request.stream: the agent's turn in flight
  sql,        \* sql_task: the query it waits for
  compact,    \* compact_task: the plan of the clone, and what came of it
  panel,      \* run_panel: the run its worker drives, if it still does
  pending,    \* the queued line
  picker,     \* the session picker
  chosen,     \* pending_resume
  flight, next, \* session_save and pending_session_save
  quitting,   \* should_quit
  disk,       \* the session records
  typed, keys, \* lines and keys so far
  runs,       \* history: the runs in flight
  queries,    \* the SQL threads in flight, listened to or not
  detached,   \* history: the queries the user let go of
  book,       \* history: the turns that belong to each session
  excused,    \* history: the sessions one of whose saves was refused, was
              \* displaced by another session's, or was read past
  astray      \* history: a choice of the picker landed while a worker ran
conversation == <<turns, sharing, compaction, autoFailed>>
workers == <<stream, sql, compact, panel>>
overlays == <<pending, picker, chosen>>
saves == <<flight, next>>
background == <<runs, queries, detached>>
history == <<book, excused, astray>>
vars == <<at, live, conversation, workers, overlays, saves, quitting, disk, typed, keys, background,
          history>>

Idle == "idle"
Ticks == {"event", "workers", "busy", "pending", "resume"}
NoTask == [plan |-> None, automatic |-> FALSE, state |-> Idle]
Busy == stream # None \/ sql # None \/ compact # NoTask
Running(worker) == worker # None /\ worker.state = "running"
Ended(worker) == worker # None /\ worker.state # "running"
Active == panel # None /\ panel.worker

\* Mutants: the queued line does not wait for the stream, or a compaction.
FreeOfOthers == sql = None /\ compact = NoTask
FreeOfStreams == stream = None /\ sql = None

\* Mutant: the queued line waits for the run behind the panel as well.
FreeOfRuns == ~Busy /\ ~Active

\* tick_pending's gate.
Free == ~Busy

Snapshot == [id |-> live, turns |-> turns, sharing |-> sharing]
NoRecord == [turns |-> None, sharing |-> FALSE]

Init ==
  /\ at = "event" /\ live = Launched
  /\ turns = IF Saved[live] = None THEN <<>> ELSE Saved[live]
  /\ sharing = FALSE /\ compaction = NoCompaction /\ autoFailed = FALSE
  /\ stream = None /\ sql = None /\ compact = NoTask /\ panel = None
  /\ pending = None /\ picker = Idle /\ chosen = None
  /\ flight = None /\ next = None /\ quitting = FALSE
  /\ disk = [s \in Session |-> [turns |-> Saved[s], sharing |-> FALSE]]
  /\ typed = 0 /\ keys = 0 /\ runs = {} /\ queries = {} /\ detached = {}
  /\ book = [s \in Session |-> IF Saved[s] = None THEN <<>> ELSE Saved[s]]
  /\ excused = {} /\ astray = FALSE

-----------------------------------------------------------------------------
(* session_save.rs: one save in flight, one snapshot behind it. *)

\* poll_session_save, on the pair of them.
Polled(f, n) ==
  IF f # None /\ f.state # "writing"
  THEN [flight |-> IF n = None THEN None ELSE [of |-> n, state |-> "writing"], next |-> None]
  ELSE [flight |-> f, next |-> n]

\* Mutant: a save in flight is taken to carry the latest state.
QueuedOnce(s, snapshot) ==
  IF s.flight # None THEN s ELSE [s EXCEPT !.flight = [of |-> snapshot, state |-> "writing"]]

\* queue_session_save.
Queued(s, snapshot) ==
  IF s.flight # None THEN [s EXCEPT !.next = snapshot]
  ELSE [s EXCEPT !.flight = [of |-> snapshot, state |-> "writing"]]

SetSaves(s) == flight' = s.flight /\ next' = s.next

\* Every queue_session_save of the loop, after the state it snapshots.
Save(s) ==
  /\ SetSaves(Queued(s, Snapshot'))
  /\ excused' = excused
       \cup (IF s.flight # None /\ s.next # None /\ s.next.id # live' THEN {s.next.id} ELSE {})
NowSaves == [flight |-> flight, next |-> next]

\* The saving thread: the record is replaced whole, or left as it was.
SaveLands ==
  /\ at # "exit" /\ flight # None /\ flight.state = "writing"
  /\ flight' = [flight EXCEPT !.state = "saved"]
  /\ disk' = [disk EXCEPT ![flight.of.id] =
                [turns |-> flight.of.turns, sharing |-> flight.of.sharing]]
  /\ UNCHANGED <<at, live, conversation, workers, overlays, next, quitting, typed, keys, background, history>>
SaveFails ==
  /\ at # "exit" /\ flight # None /\ flight.state = "writing"
  /\ flight' = [flight EXCEPT !.state = "failed"]
  /\ excused' = excused \cup {flight.of.id}
  /\ UNCHANGED <<at, live, conversation, workers, overlays, next, quitting, disk, typed, keys, background,
                 book, astray>>

-----------------------------------------------------------------------------
(* The worker threads, as long as the loop is there to hear them. *)

Looping == at \in Ticks

StreamEnds ==
  /\ Looping /\ Running(stream)
  /\ \E end \in {"answered", "failed"} : stream' = [stream EXCEPT !.state = end]
  /\ UNCHANGED <<at, live, conversation, sql, compact, panel, overlays, saves, quitting, disk, typed,
                 keys, background, history>>
\* The query's end: what it sends is for the loop, or for nobody any more.
SqlEnds ==
  /\ at # "exit"
  /\ \E q \in queries : queries' = queries \ {q}
  /\ UNCHANGED <<at, live, conversation, workers, overlays, saves, quitting, disk, typed, keys, runs,
                 detached, history>>
\* compact_task::run on its clone: nothing to do, a refused summary, or one.
CompactEnds ==
  /\ Looping /\ compact.state = "running"
  /\ \E end \in IF compact.plan = None THEN {"nothing"} ELSE {"summary", "failed"} :
        compact' = [compact EXCEPT !.state = end]
  /\ UNCHANGED <<at, live, conversation, stream, sql, panel, overlays, saves, quitting, disk, typed,
                 keys, background, history>>
\* The run worker's Done, whether or not a panel still listens.
RunEnds ==
  /\ at # "exit"
  /\ \E r \in runs : runs' = runs \ {r}
  /\ UNCHANGED <<at, live, conversation, workers, overlays, saves, quitting, disk, typed, keys, queries,
                 detached, history>>
PickerLoads ==
  /\ Looping /\ picker = "loading" /\ picker' = "loaded"
  /\ UNCHANGED <<at, live, conversation, workers, pending, chosen, saves, quitting, disk, typed, keys,
                 background, history>>

-----------------------------------------------------------------------------
(* The tick, step by step.  The steps with nothing to do are passed over:   *)
(* what a thread sends after the loop has looked is seen on the next tick. *)

\* Where the loop goes after a step, from the state the step leaves.
After(step) ==
  at' = IF step = "workers" /\ Ended(stream') THEN "busy"
        ELSE IF step \in {"workers", "busy"} /\ pending' # None /\ Free' THEN "pending"
        ELSE IF step # "resume" /\ chosen' # None THEN "resume"
        ELSE IF quitting' THEN "final" ELSE "event"

\* poll_session_picker and poll_session_save, ahead of the event.
Picker == IF picker # "loaded" THEN picker
          ELSE IF \A s \in Session : disk[s].turns = None THEN Idle ELSE "open"
Event == at = "event" /\ at' = "workers" /\ SetSaves(Polled(flight, next))

\* tick_events with nothing to read, or a key that changes only the screen;
\* a stop of the stream is a request, and the stream may still answer.
NoEvent ==
  /\ Event /\ picker' = Picker
  /\ UNCHANGED <<live, conversation, workers, pending, chosen, quitting, disk, typed, keys, background, history>>

\* submit: one slot, whether the line waits for a worker or for this tick.
Submit ==
  /\ Event /\ picker' = Picker /\ Picker # "open"
  /\ typed < MaxLines /\ typed' = typed + 1 /\ pending' \in Lines
  /\ UNCHANGED <<live, conversation, workers, chosen, quitting, disk, keys, background, history>>

Key == Event /\ keys < MaxKeys /\ keys' = keys + 1

\* The picker captures the keys while it is open: Enter and Esc.
Confirm ==
  /\ Key /\ Picker = "open" /\ picker' = Idle
  /\ \E s \in Session : disk[s].turns # None /\ chosen' = s
  /\ UNCHANGED <<live, conversation, workers, pending, quitting, disk, typed, background, history>>
ClosePicker ==
  /\ Key /\ Picker = "open" /\ picker' = Idle
  /\ UNCHANGED <<live, conversation, workers, pending, chosen, quitting, disk, typed, background, history>>

\* The other keys reach the session.
SessionKey == Key /\ Picker # "open" /\ picker' = Picker

\* Esc: a SQL command is detached, its thread going on unheard, and the
\* panel of a run that is over closed.
Esc ==
  /\ SessionKey
  /\ \/ sql # None /\ sql' = None /\ detached' = detached \cup {sql} /\ UNCHANGED panel
     \/ /\ sql = None /\ stream = None /\ panel # None /\ ~panel.worker
        /\ panel' = None /\ UNCHANGED <<sql, detached>>
  /\ UNCHANGED <<live, conversation, stream, compact, pending, chosen, quitting, disk, typed, runs, queries,
                 history>>

\* Ctrl+G.
DropQueued ==
  /\ SessionKey /\ Busy /\ pending # None /\ pending' = None
  /\ UNCHANGED <<live, conversation, workers, chosen, quitting, disk, typed, background, history>>

\* Ctrl+D on an empty line, or Ctrl+C twice when nothing can be stopped.
QuitKey ==
  /\ SessionKey /\ quitting' = ~Active
  /\ UNCHANGED <<live, conversation, workers, pending, chosen, disk, typed, background, history>>

\* compact_task::poll on what the worker sent.
ApplySummary(fits) ==
  LET now == Plan(turns, sharing, compaction)
      applies == /\ compact.state = "summary" /\ now # None
                 /\ now.turns = compact.plan.turns /\ (now.over = compact.plan.over \/ fits)
  IN /\ compaction' = IF applies THEN compact.plan ELSE compaction
     /\ autoFailed' = CASE applies -> FALSE
                        [] compact.state # "nothing" /\ ~applies /\ compact.automatic -> TRUE
                        [] OTHER -> autoFailed

\* tick_workers.  The pinned tokens of another conversation may happen to be
\* in the summary: fits.
Workers ==
  /\ at = "workers"
  /\ UNCHANGED <<live, turns, sharing, stream, overlays, quitting, disk, typed, keys, background, book, astray>>
  /\ panel' = IF Active /\ panel.run \notin runs THEN [panel EXCEPT !.worker = FALSE] ELSE panel
  /\ sql' = IF sql \in queries THEN sql ELSE None
  /\ IF compact = NoTask
     THEN SetSaves(Polled(flight, next)) /\ UNCHANGED <<compact, compaction, autoFailed, excused>>
     ELSE /\ IF compact.state = "running" THEN UNCHANGED <<compact, compaction, autoFailed>>
             ELSE compact' = NoTask /\ \E fits \in BOOLEAN : ApplySummary(fits)
          /\ Save(Polled(flight, next))
  /\ After("workers")

\* compact_task::start on the state as it is after the step.
StartCompact(automatic) ==
  compact' = IF turns' = <<>> THEN NoTask
             ELSE [plan |-> Plan(turns', sharing', compaction'), automatic |-> automatic,
                   state |-> "running"]

\* tick_busy: settle_done, with the automatic compaction at the turn's end.
Settle ==
  /\ at = "busy"
  /\ UNCHANGED <<live, sharing, compaction, autoFailed, sql, panel, overlays, quitting, disk, typed,
                 keys, background, astray>>
  /\ stream' = None
  /\ \/ /\ stream.state = "answered"
        /\ \E derived \in BOOLEAN :
             turns' = Append(turns, [in |-> stream.in, n |-> stream.n, derived |-> derived])
        /\ \/ ~autoFailed /\ compact = NoTask /\ StartCompact(TRUE)
           \/ UNCHANGED compact
     \/ stream.state = "failed" /\ UNCHANGED <<turns, compact>>
  /\ book' = [book EXCEPT ![live] = turns']
  /\ Save(NowSaves) /\ After("busy")

\* resume_session and the swap: the record as it stands on disk.  Its state
\* directory is claimed first: a holder, this process included, refuses.
Outstanding(s) == \/ flight # None /\ flight.state = "writing" /\ flight.of.id = s
                  \/ next # None /\ next.id = s
Swap(s) ==
  \/ /\ disk[s].turns # None /\ s # live
     /\ live' = s /\ turns' = disk[s].turns /\ sharing' = disk[s].sharing
     /\ compaction' = NoCompaction /\ autoFailed' = FALSE
  \/ UNCHANGED <<live, conversation>>

ReadPast(s) == IF live' = s /\ Outstanding(s) THEN {s} ELSE {}
SaveAfterSwap(s) ==
  /\ SetSaves(Queued(NowSaves, Snapshot'))
  /\ excused' = excused \cup ReadPast(s)
       \cup (IF flight # None /\ next # None /\ next.id # live' THEN {next.id} ELSE {})

Take(do) ==
  /\ at = "pending" /\ pending.do = do
  /\ pending' = None
  /\ UNCHANGED <<chosen, disk, typed, keys>>

\* start_agent.
Ask ==
  /\ Take("ask")
  /\ stream' = [in |-> live, n |-> typed, state |-> "running"]
  /\ UNCHANGED <<live, conversation, sql, compact, panel, picker, quitting, background, book, astray>>
  /\ Save(NowSaves) /\ After("pending")
RunSql ==
  /\ Take("sql") /\ sql' = typed /\ queries' = queries \cup {typed}
  /\ UNCHANGED <<live, conversation, stream, compact, panel, picker, quitting, runs, detached, book, astray>>
  /\ Save(NowSaves) /\ After("pending")
Compact ==
  /\ Take("compact")
  /\ UNCHANGED <<live, conversation, stream, sql, panel, picker, quitting, background, book, astray>>
  /\ StartCompact(FALSE) /\ Save(NowSaves) /\ After("pending")
\* start_run_panel: the panel there was goes, its worker does not.
StartRun ==
  /\ Take("run") /\ panel' = [run |-> typed, worker |-> TRUE] /\ runs' = runs \cup {typed}
  /\ UNCHANGED <<live, conversation, stream, sql, compact, picker, quitting, queries, detached, book, astray>>
  /\ Save(NowSaves) /\ After("pending")
OpenPicker ==
  /\ Take("sessions") /\ picker' = IF picker = Idle THEN "loading" ELSE picker
  /\ UNCHANGED <<live, conversation, workers, quitting, background, book, astray>>
  /\ Save(NowSaves) /\ After("pending")
\* The commands SessionState::apply answers by itself: sharing, /clear.
Share ==
  /\ Take("share") /\ sharing' = ~sharing
  /\ UNCHANGED <<live, turns, compaction, autoFailed, workers, picker, quitting, background, book, astray>>
  /\ Save(NowSaves) /\ After("pending")
Clear ==
  /\ Take("clear") /\ turns' = <<>> /\ compaction' = NoCompaction /\ autoFailed' = FALSE
  /\ book' = [book EXCEPT ![live] = <<>>]
  /\ UNCHANGED <<live, sharing, workers, picker, quitting, background, astray>>
  /\ Save(NowSaves) /\ After("pending")
Resume ==
  /\ Take("resume") /\ Swap(pending.id)
  /\ UNCHANGED <<workers, picker, quitting, background, book, astray>>
  /\ SaveAfterSwap(pending.id) /\ After("pending")
Quit ==
  /\ Take("quit") /\ quitting' = (quitting \/ ~Active)
  /\ UNCHANGED <<live, conversation, workers, picker, background, book, astray>>
  /\ Save(NowSaves) /\ After("pending")

\* tick_resume: no gate on the workers.
AdoptChoice ==
  /\ at = "resume" /\ chosen' = None
  /\ Swap(chosen) /\ SaveAfterSwap(chosen) /\ astray' = (astray \/ Busy)
  /\ UNCHANGED <<workers, pending, picker, quitting, disk, typed, keys, background, book>>
  /\ After("resume")

\* After the loop: the last state is saved on this thread, whatever the
\* saving thread still holds; then the process goes.
FinalSave ==
  /\ at = "final" /\ at' = "leaving"
  /\ disk' = [disk EXCEPT ![live] = [turns |-> turns, sharing |-> sharing]]
  /\ excused' = IF Outstanding(live) THEN excused \cup {live} ELSE excused
  /\ UNCHANGED <<live, conversation, workers, overlays, saves, quitting, typed, keys, background, book, astray>>
Leave ==
  /\ at = "leaving" /\ at' = "exit"
  /\ UNCHANGED <<live, conversation, workers, overlays, saves, quitting, disk, typed, keys, background, history>>

Tick ==
  \/ NoEvent \/ Submit \/ Confirm \/ ClosePicker \/ Esc \/ DropQueued \/ QuitKey
  \/ Workers \/ Settle
  \/ Ask \/ RunSql \/ Compact \/ StartRun \/ OpenPicker \/ Share \/ Clear \/ Resume \/ Quit
  \/ AdoptChoice \/ FinalSave \/ Leave
WorkerEnds == StreamEnds \/ SqlEnds \/ CompactEnds
Threads == SaveLands \/ SaveFails \/ WorkerEnds \/ RunEnds \/ PickerLoads
Next == Tick \/ Threads

Spec == Init /\ [][Next]_vars

-----------------------------------------------------------------------------
\* Nothing works beside the one worker the loop waits for but queries the
\* user let go of: of the agent's stream, a compaction and the SQL threads
\* that were never detached at most one is in flight, whichever of the queue,
\* the automatic trigger, a detach and the picker came before (is_busy,
\* tick_pending, settle_done).  A detached query goes on beside the next
\* stream or query (detach_sql_task).
OneWorkerAtATime ==
  /\ ~(stream # None /\ sql # None) /\ ~(compact # NoTask /\ sql # None)
  /\ ~(compact # NoTask /\ stream # None)
  /\ queries \ detached \subseteq {sql}

\* A turn is recorded in the session it was asked in, through every switch
\* the queue makes; a choice of the picker that lands while a worker runs is
\* the one way astray (tick_pending, tick_resume, settle_done).
TurnsStayHome == astray \/ \A i \in DOMAIN turns : turns[i].in = live

\* Once nothing of a session waits to be saved, its record holds the turns
\* the session came to: whatever was asked, cleared, saved late, resumed and
\* left before.  Excused are a refused save, a snapshot displaced by another
\* session's and a record read while its save was under way (session_save.rs).
RecordsAgree ==
  \A s \in Session \ excused :
    ~Outstanding(s) /\ at # "exit" =>
      disk[s].turns = (IF book[s] = <<>> /\ disk[s].turns = None THEN None ELSE book[s])

\* Whatever the model may see of the conversation reaches it word by word or
\* was in what the standing summary was made of, through further turns,
\* compactions and resumes, as long as the compaction saw every turn
\* (provider_history, plan and apply).
Remembered ==
  LET visible == Visible(turns, sharing)
  IN ~astray /\ compaction.whole =>
     \A i \in DOMAIN visible :
       Parts(visible[i]) \subseteq Covered(ProviderHistory(turns, sharing, compaction))

\* A queued line waits for a worker and for nothing else: the tick that finds
\* none in flight takes it, whether the last one answered, failed, was
\* detached or had nothing to do (submit, is_busy, tick_pending).
LinesWaitForWorkers == at = "event" /\ pending # None => Busy

\* Violated: a run the session started is over before the session quits
\* (try_quit's own words).
QuitOrphansNoRun == at = "exit" => runs = {}
=============================================================================
