--------------------------- MODULE TuiSession_proofs ---------------------------
(***************************************************************************)
(* Proofs that the session runs one worker at a time, that a queued line   *)
(* waits for nothing else, that a turn stays in the session it was asked   *)
(* in, that a session's record comes to hold its turns, and that the       *)
(* provider keeps hearing of every turn through the compactions.           *)
(***************************************************************************)
EXTENDS TuiSession, FiniteSetTheorems, SequenceTheorems, TLAPS

(***************************************************************************)
(* The inductive invariant.                                                *)
(***************************************************************************)

IsTask(c) ==
  /\ c = [plan |-> c.plan, automatic |-> c.automatic, state |-> c.state]
  /\ c.state \in {Idle, "running", "nothing", "summary", "failed"}

TypeOK ==
  /\ live \in Session
  /\ turns \in Seq(Turn) /\ sharing \in BOOLEAN /\ compaction.turns \in Nat
  /\ stream \in {None} \cup Streams
  /\ IsTask(compact)
  /\ pending \in {None} \cup Lines /\ chosen \in {None} \cup Session
  /\ flight \in {None} \cup Flights /\ next \in {None} \cup Snapshots
  /\ disk \in [Session -> [turns: {None} \cup Seq(Turn), sharing: BOOLEAN]]
  /\ typed \in Nat /\ queries \subseteq Nat
  /\ book \in [Session -> Seq(Turn)]
  /\ astray \in BOOLEAN

\* What the loop knows of the workers at each step of the tick: it takes a
\* line with none in flight, settles a stream that ended, and has left no
\* line behind that could be taken.
StepsAgree ==
  /\ at = "pending" => pending # None /\ ~Busy
  /\ at = "busy" => Ended(stream)
  /\ at = "resume" => chosen # None
  /\ at \in {"resume", "event"} /\ pending # None => Busy

Slots == OneWorkerAtATime /\ StepsAgree

\* Every copy of a session's turns, in memory, on its way and on disk, holds
\* turns of that session, and a stream in flight answers the live one.
HomeOf(copy, s) == \A i \in DOMAIN copy : copy[i].in = s
Home ==
  /\ HomeOf(turns, live)
  /\ stream # None => stream.in = live
  /\ flight # None => HomeOf(flight.of.turns, flight.of.id)
  /\ next # None => HomeOf(next.turns, next.id)
  /\ \A s \in Session : disk[s].turns # None => HomeOf(disk[s].turns, s)
HomeInv == astray \/ Home

\* The newest copy of a session's turns is what the session came to: the
\* live state, else the snapshot that waits, else the one being written,
\* else the record d.
Waits(n, s) == n # None /\ n.id = s
Written(f, s) == f # None /\ f.state = "writing" /\ f.of.id = s
Reaches(f, n, s, came, d) ==
  /\ Waits(n, s) => n.turns = came
  /\ Written(f, s) /\ ~Waits(n, s) => f.of.turns = came
  /\ ~Written(f, s) /\ ~Waits(n, s) => d = (IF came = <<>> /\ d = None THEN None ELSE came)
UpToDate(s) ==
  /\ s = live => turns = book[s]
  /\ Reaches(flight, next, s, book[s], disk[s].turns)
RecordInv ==
  /\ flight = None => next = None
  /\ at # "exit" => \A s \in Session \ excused : UpToDate(s)

\* A compaction that stands is of the oldest turns of the live conversation,
\* and one in flight was planned on the conversation as it still is.
Stands(t, c) ==
  \/ c.turns = 0
  \/ c.turns <= Len(t) /\ \A i \in 1..c.turns : Parts(t[i]) \subseteq c.over
MemoryInv ==
  ~astray => /\ compaction.whole => Stands(turns, compaction)
             /\ compact # NoTask => compact.plan = Plan(turns, sharing, compaction)

IInv == TypeOK /\ Slots /\ HomeInv /\ RecordInv /\ MemoryInv

-----------------------------------------------------------------------------
(* What the helpers of the saves return. *)

LEMMA NoneDistinct ==
  /\ \A x \in Streams : x # None
  /\ \A x \in Flights : x # None
  /\ \A x \in Snapshots : x # None
  /\ None \notin Nat
BY NoneAssumption

LEMMA PolledType ==
  ASSUME NEW f \in {None} \cup Flights, NEW n \in {None} \cup Snapshots
  PROVE  /\ Polled(f, n).flight \in {None} \cup Flights
         /\ Polled(f, n).next \in {None} \cup Snapshots
BY DEF Polled, Flights

LEMMA QueuedType ==
  ASSUME NEW s, s.flight \in {None} \cup Flights, s.next \in {None} \cup Snapshots,
         s = [flight |-> s.flight, next |-> s.next],
         NEW snapshot \in Snapshots
  PROVE  /\ Queued(s, snapshot).flight \in {None} \cup Flights
         /\ Queued(s, snapshot).next \in {None} \cup Snapshots
BY DEF Queued, Flights

LEMMA SnapshotType ==
  ASSUME live' \in Session, turns' \in Seq(Turn), sharing' \in BOOLEAN
  PROVE  Snapshot' \in Snapshots
BY DEF Snapshot, Snapshots

LEMMA SaveType ==
  ASSUME TypeOK, live' \in Session, turns' \in Seq(Turn), sharing' \in BOOLEAN,
         SetSaves(Queued(NowSaves, Snapshot')) 
  PROVE  flight' \in {None} \cup Flights /\ next' \in {None} \cup Snapshots
<1>1. Snapshot' \in Snapshots
  BY SnapshotType
<1>2. /\ NowSaves = [flight |-> NowSaves.flight, next |-> NowSaves.next]
      /\ NowSaves.flight \in {None} \cup Flights /\ NowSaves.next \in {None} \cup Snapshots
  BY DEF NowSaves, TypeOK
<1>. QED  BY <1>1, <1>2, QueuedType DEF SetSaves

LEMMA PolledSaveType ==
  ASSUME TypeOK, live' \in Session, turns' \in Seq(Turn), sharing' \in BOOLEAN,
         SetSaves(Queued(Polled(flight, next), Snapshot')) 
  PROVE  flight' \in {None} \cup Flights /\ next' \in {None} \cup Snapshots
<1> DEFINE s == Polled(flight, next)
<1>1. Snapshot' \in Snapshots
  BY SnapshotType
<1>2. /\ s.flight \in {None} \cup Flights /\ s.next \in {None} \cup Snapshots
  BY PolledType DEF TypeOK
<1>3. s = [flight |-> s.flight, next |-> s.next]
  BY DEF Polled
<1>. QED  BY <1>1, <1>2, <1>3, QueuedType DEF SetSaves

LEMMA StartCompactType ==
  ASSUME NEW automatic \in BOOLEAN, StartCompact(automatic)
  PROVE  IsTask(compact')
BY DEF StartCompact, NoTask, Idle, IsTask

LEMMA PlanTurns ==
  ASSUME turns \in Seq(Turn), Plan(turns, sharing, compaction) # None
  PROVE  /\ Plan(turns, sharing, compaction).turns = Len(turns) - KeepTail
         /\ Len(turns) - KeepTail \in Nat \ {0}
BY CompactionAssumption DEF Plan

-----------------------------------------------------------------------------
(* Types. *)

LEMMA TypeInit == Init => TypeOK
<1> SUFFICES ASSUME Init PROVE TypeOK
  OBVIOUS
<1>1. live \in Session /\ turns \in Seq(Turn) /\ book \in [Session -> Seq(Turn)]
  BY SessionAssumption, SavedAssumption DEF Init
<1>2. disk \in [Session -> [turns: {None} \cup Seq(Turn), sharing: BOOLEAN]]
  BY SavedAssumption DEF Init
<1>3. IsTask(compact)
  BY DEF Init, NoTask, Idle, IsTask
<1>. QED  BY <1>1, <1>2, <1>3 DEF Init, TypeOK, NoCompaction

LEMMA TypeStep == TypeOK /\ StepsAgree /\ [Next]_vars => TypeOK'
<1> SUFFICES ASSUME TypeOK, StepsAgree, [Next]_vars PROVE TypeOK'
  OBVIOUS
<1>e. ASSUME Event PROVE flight' \in {None} \cup Flights /\ next' \in {None} \cup Snapshots
  BY <1>e, PolledType DEF Event, SetSaves, TypeOK
<1>1. CASE NoEvent \/ Submit \/ Confirm \/ ClosePicker \/ Esc \/ DropQueued \/ QuitKey
  <2>0. CASE NoEvent
    BY <2>0, <1>e DEF NoEvent, background, TypeOK, conversation, workers, history
  <2>1. CASE Submit
    BY <2>1, <1>e DEF Submit, background, TypeOK, conversation, workers, history
  <2>2. CASE Confirm \/ ClosePicker
    BY <2>2, <1>e DEF Confirm, ClosePicker, Key, background, TypeOK, conversation, workers, history
  <2>3. CASE Esc
    BY <2>3, <1>e DEF Esc, SessionKey, Key, background, TypeOK, conversation, history
  <2>4. CASE DropQueued \/ QuitKey
    BY <2>4, <1>e DEF DropQueued, QuitKey, SessionKey, Key, background, TypeOK, conversation, workers, history
  <2>. QED  BY <1>1, <2>0, <2>1, <2>2, <2>3, <2>4
<1>2. CASE Workers
  <2>1. flight' \in {None} \cup Flights /\ next' \in {None} \cup Snapshots
    BY <1>2, PolledType, PolledSaveType DEF Workers, Save, SetSaves, TypeOK
  <2>2. ASSUME NEW fits \in BOOLEAN, ApplySummary(fits) PROVE compaction'.turns \in Nat
    BY <2>2, PlanTurns DEF ApplySummary, TypeOK
  <2>3. compaction'.turns \in Nat
    BY <1>2, <2>2 DEF Workers, TypeOK
  <2>4. IsTask(compact')
    <3>1. compact' = compact \/ compact' = NoTask
      BY <1>2 DEF Workers
    <3>2. IsTask(NoTask)
      BY DEF IsTask, NoTask, Idle
    <3>. QED  BY <3>1, <3>2 DEF TypeOK
  <2>5. UNCHANGED <<live, turns, sharing, stream, pending, chosen, disk, typed, queries, book, astray>>
    BY <1>2 DEF Workers, overlays, background
  <2>. QED  BY <2>1, <2>3, <2>4, <2>5 DEF TypeOK
<1>3. CASE Settle
  <2>0. stream \in Streams
    BY <1>3 DEF Settle, TypeOK, StepsAgree, Ended
  <2>1. turns' \in Seq(Turn)
    <3>1. CASE turns' = turns
      BY <3>1 DEF TypeOK
    <3>2. ASSUME NEW derived \in BOOLEAN,
                 turns' = Append(turns, [in |-> stream.in, n |-> stream.n, derived |-> derived])
          PROVE  turns' \in Seq(Turn)
      <4>1. [in |-> stream.in, n |-> stream.n, derived |-> derived] \in Turn
        BY <2>0 DEF Turn, Streams
      <4>. QED  BY <3>2, <4>1 DEF TypeOK
    <3>. QED  BY <1>3, <3>1, <3>2 DEF Settle
  <2>2. flight' \in {None} \cup Flights /\ next' \in {None} \cup Snapshots
    BY <1>3, <2>1, SaveType DEF Settle, Save, TypeOK
  <2>3. IsTask(compact')
    BY <1>3, StartCompactType DEF Settle, TypeOK
  <2>. QED  BY <1>3, <2>1, <2>2, <2>3 DEF Settle, background, TypeOK, overlays
<1>4. CASE Ask
  BY <1>4, SaveType DEF Ask, Take, Save, background, TypeOK, Streams, conversation
<1>5. CASE RunSql \/ StartRun \/ OpenPicker \/ Share \/ Quit
  BY <1>5, SaveType DEF RunSql, StartRun, OpenPicker, Share, Quit, Take, Save, background, TypeOK, conversation, workers
<1>6. CASE Compact
  BY <1>6, SaveType, StartCompactType DEF Compact, Take, Save, background, TypeOK, conversation
<1>7. CASE Clear
  BY <1>7, SaveType DEF Clear, Take, Save, background, TypeOK, workers, NoCompaction
<1>s. ASSUME NEW s \in Session, Swap(s), SaveAfterSwap(s)
      PROVE  /\ live' \in Session /\ turns' \in Seq(Turn) /\ sharing' \in BOOLEAN
             /\ compaction'.turns \in Nat
             /\ flight' \in {None} \cup Flights /\ next' \in {None} \cup Snapshots
  <2>1. /\ live' \in Session /\ turns' \in Seq(Turn) /\ sharing' \in BOOLEAN
        /\ compaction'.turns \in Nat
    BY <1>s DEF Swap, background, TypeOK, conversation, NoCompaction
  <2>. QED  BY <1>s, <2>1, SaveType DEF SaveAfterSwap
<1>8. CASE Resume
  <2>1. pending.id \in Session
    BY <1>8, SessionAssumption DEF Resume, Take, TypeOK, StepsAgree
  <2>. QED  BY <1>8, <2>1, <1>s DEF Resume, Take, background, TypeOK, workers
<1>9. CASE AdoptChoice
  <2>1. chosen \in Session
    BY <1>9 DEF AdoptChoice, TypeOK, StepsAgree
  <2>. QED  BY <1>9, <2>1, <1>s DEF AdoptChoice, background, TypeOK, workers
<1>10. CASE FinalSave \/ Leave
  <2>1. disk' \in [Session -> [turns: {None} \cup Seq(Turn), sharing: BOOLEAN]]
    <3>1. disk' = disk \/ disk' = [disk EXCEPT ![live] = [turns |-> turns, sharing |-> sharing]]
      BY <1>10 DEF FinalSave, Leave
    <3>2. [turns |-> turns, sharing |-> sharing] \in [turns: {None} \cup Seq(Turn), sharing: BOOLEAN]
      BY DEF TypeOK
    <3>. QED  BY <3>1, <3>2 DEF TypeOK
  <2>2. UNCHANGED <<live, conversation, workers, overlays, saves, typed, queries, book, astray>>
    BY <1>10 DEF FinalSave, Leave, history, background
  <2>. QED  BY <2>1, <2>2 DEF TypeOK, conversation, workers, overlays, saves
<1>11. CASE SaveLands
  <2>1. flight \in Flights
    BY <1>11 DEF SaveLands, TypeOK
  <2>2. flight' \in Flights
    BY <1>11, <2>1 DEF SaveLands, Flights
  <2>. QED  BY <1>11, <2>1, <2>2 DEF SaveLands, background, TypeOK, Flights, Snapshots, conversation, workers, overlays, history
<1>12. CASE SaveFails
  <2>1. flight \in Flights
    BY <1>12 DEF SaveFails, TypeOK
  <2>2. flight' \in Flights
    BY <1>12, <2>1 DEF SaveFails, Flights
  <2>. QED  BY <1>12, <2>2 DEF SaveFails, background, TypeOK, conversation, workers, overlays
<1>13. CASE StreamEnds
  <2>1. stream \in Streams
    BY <1>13 DEF StreamEnds, TypeOK, Running
  <2>2. stream' \in Streams
    BY <1>13, <2>1 DEF StreamEnds, Streams
  <2>. QED  BY <1>13, <2>2 DEF StreamEnds, background, TypeOK, conversation, overlays, saves, history
<1>14. CASE CompactEnds
  <2>1. IsTask(compact')
    BY <1>14 DEF CompactEnds, background, TypeOK, IsTask
  <2>. QED  BY <1>14, <2>1 DEF CompactEnds, background, TypeOK, conversation, overlays, saves, history
<1>15. CASE SqlEnds \/ RunEnds \/ PickerLoads
  BY <1>15 DEF SqlEnds, RunEnds, PickerLoads, background, TypeOK, conversation, workers, overlays, saves, history
<1>16. CASE UNCHANGED vars
  BY <1>16 DEF vars, background, TypeOK, conversation, workers, overlays, saves, history
<1>. QED
  BY <1>1, <1>2, <1>3, <1>4, <1>5, <1>6, <1>7, <1>8, <1>9, <1>10, <1>11, <1>12, <1>13, <1>14, <1>15, <1>16
     DEF Next, Tick, Threads, WorkerEnds

-----------------------------------------------------------------------------
(* One worker at a time, and no line left waiting for nothing. *)

LEMMA SlotsInit == Init => Slots
BY DEF Init, Slots, OneWorkerAtATime, StepsAgree

\* A worker that ends is still there until the loop has looked.
LEMMA WorkerStays ==
  ASSUME TypeOK, WorkerEnds
  PROVE  /\ stream' # None <=> stream # None
         /\ sql' = sql /\ detached' = detached /\ queries' \subseteq queries
         /\ compact' # NoTask <=> compact # NoTask
<1>1. CASE StreamEnds
  <2>1. stream \in Streams
    BY <1>1 DEF StreamEnds, TypeOK, Running
  <2>2. stream' \in Streams
    BY <1>1, <2>1 DEF StreamEnds, Streams
  <2>. QED  BY <1>1, <2>1, <2>2, NoneDistinct DEF StreamEnds, background
<1>2. CASE SqlEnds
  BY <1>2 DEF SqlEnds, workers
<1>3. CASE CompactEnds
  <2>1. compact.state = "running" /\ compact'.state # Idle
    BY <1>3 DEF CompactEnds, TypeOK, IsTask, Idle
  <2>. QED  BY <1>3, <2>1 DEF CompactEnds, NoTask, Idle, background
<1>. QED  BY <1>1, <1>2, <1>3 DEF WorkerEnds

LEMMA SlotsStep == TypeOK /\ Slots /\ [Next]_vars => Slots'
<1> SUFFICES ASSUME TypeOK, Slots, [Next]_vars PROVE Slots'
  OBVIOUS
<1> USE DEF Slots
<1>1. CASE NoEvent \/ Submit \/ Confirm \/ ClosePicker \/ DropQueued \/ QuitKey
  <2>1. at' = "workers" /\ UNCHANGED <<workers, background>>
    BY <1>1 DEF NoEvent, Submit, Confirm, ClosePicker, DropQueued, QuitKey, SessionKey, Key, Event
  <2>. QED  BY <2>1 DEF OneWorkerAtATime, StepsAgree, workers, background
<1>2. CASE Esc
  <2>1. /\ at' = "workers" /\ UNCHANGED <<stream, compact, queries>>
        /\ \/ sql' = sql /\ detached' = detached
           \/ sql' = None /\ detached' = detached \cup {sql}
    BY <1>2 DEF Esc, SessionKey, Key, Event
  <2>. QED  BY <2>1 DEF OneWorkerAtATime, StepsAgree
<1>3. CASE Workers
  <2>1. /\ UNCHANGED <<stream, queries, detached>>
        /\ sql' = IF sql \in queries THEN sql ELSE None
        /\ compact' = compact \/ compact' = NoTask
        /\ After("workers")
    BY <1>3 DEF Workers, background
  <2>2. OneWorkerAtATime'
    BY <2>1 DEF OneWorkerAtATime
  <2>3. StepsAgree'
    BY <2>1 DEF After, StepsAgree, Free
  <2>. QED  BY <2>2, <2>3
<1>4. CASE Settle
  <2>1. stream' = None /\ UNCHANGED <<sql, queries, detached>> /\ After("busy")
    BY <1>4 DEF Settle, background
  <2>2. stream # None
    BY <1>4 DEF Settle, StepsAgree, Ended
  <2>3. OneWorkerAtATime'
    BY <2>1, <2>2 DEF OneWorkerAtATime
  <2>4. StepsAgree'
    BY <2>1 DEF After, StepsAgree, Free
  <2>. QED  BY <2>3, <2>4
<1>5. CASE Ask \/ RunSql \/ Compact \/ StartRun \/ OpenPicker \/ Share \/ Clear \/ Resume \/ Quit
  <2>1. at = "pending" /\ pending' = None /\ After("pending")
    BY <1>5 DEF Ask, RunSql, Compact, StartRun, OpenPicker, Share, Clear, Resume, Quit, Take
  <2>2. StepsAgree'
    BY <2>1 DEF After, StepsAgree
  <2>3. stream = None /\ sql = None /\ compact = NoTask
    BY <2>1 DEF StepsAgree, Busy
  <2>4. queries \ detached = {}
    BY <2>3, NoneDistinct DEF OneWorkerAtATime, TypeOK
  <2>5. CASE RunSql
    <3>1. UNCHANGED <<stream, compact, detached>> /\ sql' = typed /\ queries' = queries \cup {typed}
      BY <2>5 DEF RunSql
    <3>2. OneWorkerAtATime'
      BY <2>3, <2>4, <3>1 DEF OneWorkerAtATime
    <3>. QED  BY <2>2, <3>2
  <2>6. CASE ~RunSql
    <3>1. UNCHANGED <<queries, detached>>
      BY <1>5, <2>6 DEF Ask, Compact, StartRun, OpenPicker, Share, Clear, Resume, Quit, background
    <3>2. UNCHANGED <<sql, stream>> \/ UNCHANGED <<sql, compact>>
      BY <1>5, <2>6 DEF Ask, Compact, StartRun, OpenPicker, Share, Clear, Resume, Quit, workers
    <3>3. OneWorkerAtATime'
      BY <2>3, <2>4, <3>1, <3>2 DEF OneWorkerAtATime
    <3>. QED  BY <2>2, <3>3
  <2>. QED  BY <2>5, <2>6
<1>6. CASE AdoptChoice
  <2>1. at = "resume" /\ UNCHANGED <<workers, background, pending>> /\ at' \in {"final", "event"}
    BY <1>6 DEF AdoptChoice, After
  <2>. QED  BY <2>1 DEF OneWorkerAtATime, StepsAgree, Busy, workers, background
<1>7. CASE FinalSave \/ Leave
  <2>1. at' \in {"leaving", "exit"} /\ UNCHANGED <<workers, background>>
    BY <1>7 DEF FinalSave, Leave
  <2>. QED  BY <2>1 DEF OneWorkerAtATime, StepsAgree, workers, background
<1>8. CASE WorkerEnds
  <2>1. UNCHANGED <<at, pending, chosen>>
    BY <1>8 DEF WorkerEnds, StreamEnds, SqlEnds, CompactEnds, overlays
  <2>2. OneWorkerAtATime' /\ (Busy' <=> Busy)
    BY <1>8, WorkerStays DEF OneWorkerAtATime, Busy
  <2>3. Ended(stream) => stream' = stream
    BY <1>8 DEF WorkerEnds, StreamEnds, SqlEnds, CompactEnds, Ended, Running, workers
  <2>. QED  BY <2>1, <2>2, <2>3 DEF StepsAgree, Ended
<1>9. CASE SaveLands \/ SaveFails \/ RunEnds \/ PickerLoads \/ UNCHANGED vars
  <2>1. UNCHANGED <<at, stream, sql, compact, queries, detached, pending, chosen>>
    BY <1>9 DEF SaveLands, SaveFails, RunEnds, PickerLoads, vars, workers, overlays, background
  <2>. QED  BY <2>1 DEF OneWorkerAtATime, StepsAgree, Busy, Ended
<1>. QED
  BY <1>1, <1>2, <1>3, <1>4, <1>5, <1>6, <1>7, <1>8, <1>9 DEF Next, Tick, Threads

-----------------------------------------------------------------------------
(* A turn stays in its session. *)

\* No step takes a session back from astray.
LEMMA AstrayStays == [Next]_vars /\ astray => astray'
BY DEF Next, Tick, Threads, WorkerEnds, NoEvent, Submit, Confirm, ClosePicker, Esc, DropQueued,
   QuitKey, SessionKey, Key, Workers, Settle, Ask, RunSql, Compact, StartRun, OpenPicker, Share,
   Clear, Resume, Quit, AdoptChoice, FinalSave, Leave, SaveLands, SaveFails, StreamEnds, SqlEnds,
   CompactEnds, RunEnds, PickerLoads, vars, history

LEMMA HomeInit == Init => HomeInv
<1> SUFFICES ASSUME Init PROVE Home
  BY DEF HomeInv
<1>1. \A s \in Session : Saved[s] # None => HomeOf(Saved[s], s)
  BY SavedAssumption DEF HomeOf
<1>2. HomeOf(turns, live)
  BY <1>1, SessionAssumption DEF Init, HomeOf
<1>3. \A s \in Session : disk[s].turns = Saved[s]
  BY DEF Init
<1>. QED  BY <1>1, <1>2, <1>3 DEF Init, Home

\* Queueing a snapshot moves no other: each slot keeps what it held or takes it.
LEMMA QueuedFrom ==
  ASSUME NEW s, NEW snapshot, s = [flight |-> s.flight, next |-> s.next]
  PROVE  LET q == Queued(s, snapshot)
         IN /\ q.flight = s.flight \/ q.flight = [of |-> snapshot, state |-> "writing"]
            /\ q.next = s.next \/ q.next = snapshot
BY DEF Queued

HomeOfSnapshot(s) == HomeOf(s.turns, s.id)

LEMMA SavesHome ==
  ASSUME NEW f, NEW n,
         f # None => HomeOfSnapshot(f.of), n # None => HomeOfSnapshot(n),
         \/ SetSaves(Polled(f, n))
         \/ /\ HomeOf(turns', live')
            /\ \/ SetSaves(Queued([flight |-> f, next |-> n], Snapshot'))
               \/ SetSaves(Queued(Polled(f, n), Snapshot'))
  PROVE  /\ flight' # None => HomeOfSnapshot(flight'.of)
         /\ next' # None => HomeOfSnapshot(next')
<1> DEFINE p == Polled(f, n)
<1>1. /\ p = [flight |-> p.flight, next |-> p.next]
      /\ p.flight # None => HomeOfSnapshot(p.flight.of)
      /\ p.next # None => HomeOfSnapshot(p.next)
  BY DEF Polled
<1>2. ASSUME HomeOf(turns', live') PROVE HomeOfSnapshot(Snapshot')
  BY <1>2 DEF HomeOfSnapshot, Snapshot
<1>3. ASSUME NEW s, s = [flight |-> s.flight, next |-> s.next],
             s.flight # None => HomeOfSnapshot(s.flight.of),
             s.next # None => HomeOfSnapshot(s.next),
             HomeOf(turns', live'), SetSaves(Queued(s, Snapshot'))
      PROVE  /\ flight' # None => HomeOfSnapshot(flight'.of)
             /\ next' # None => HomeOfSnapshot(next')
  <2>1. /\ flight' = s.flight \/ flight' = [of |-> Snapshot', state |-> "writing"]
        /\ next' = s.next \/ next' = Snapshot'
    BY <1>3, QueuedFrom DEF SetSaves
  <2>. QED  BY <2>1, <1>2, <1>3
<1>4. CASE SetSaves(p)
  BY <1>4, <1>1 DEF SetSaves
<1>5. CASE HomeOf(turns', live') /\ SetSaves(Queued(p, Snapshot'))
  BY <1>5, <1>1, <1>3
<1>6. CASE HomeOf(turns', live') /\ SetSaves(Queued([flight |-> f, next |-> n], Snapshot'))
  BY <1>6, <1>3
<1>. QED  BY <1>4, <1>5, <1>6

LEMMA HomeStep == TypeOK /\ Slots /\ HomeInv /\ [Next]_vars => HomeInv'
<1> SUFFICES ASSUME TypeOK, Slots, HomeInv, [Next]_vars, ~astray' PROVE Home'
  BY DEF HomeInv
<1>h. Home
  BY AstrayStays DEF HomeInv
<1>f. /\ flight # None => HomeOfSnapshot(flight.of)
      /\ next # None => HomeOfSnapshot(next)
  BY <1>h DEF Home, HomeOfSnapshot
<1>g. ASSUME flight' # None => HomeOfSnapshot(flight'.of),
             next' # None => HomeOfSnapshot(next'),
             HomeOf(turns', live'),
             stream' # None => stream'.in = live',
             \A s \in Session : disk'[s].turns # None => HomeOf(disk'[s].turns, s)
      PROVE  Home'
  BY <1>g DEF Home, HomeOfSnapshot
<1>1. CASE NoEvent \/ Submit \/ Confirm \/ ClosePicker \/ Esc \/ DropQueued \/ QuitKey
  <2>1. UNCHANGED <<live, turns, stream, disk>> /\ SetSaves(Polled(flight, next))
    BY <1>1 DEF NoEvent, Submit, Confirm, ClosePicker, Esc, DropQueued, QuitKey, SessionKey, Key, Event,
       conversation, workers
  <2>. QED  BY <2>1, <1>h, <1>f, <1>g, SavesHome DEF Home
<1>2. CASE Workers
  <2>1. /\ UNCHANGED <<live, turns, stream, disk>>
        /\ SetSaves(Polled(flight, next)) \/ SetSaves(Queued(Polled(flight, next), Snapshot'))
    BY <1>2 DEF Workers, Save
  <2>2. HomeOf(turns', live')
    BY <2>1, <1>h DEF Home
  <2>. QED  BY <2>1, <2>2, <1>h, <1>f, <1>g, SavesHome DEF Home
<1>3. CASE Settle
  <2>0. stream \in Streams /\ stream.in = live
    BY <1>3, <1>h, NoneDistinct DEF Settle, Slots, StepsAgree, Ended, TypeOK, Home
  <2>1. UNCHANGED <<live, disk>> /\ stream' = None /\ SetSaves(Queued([flight |-> flight, next |-> next], Snapshot'))
    BY <1>3 DEF Settle, Save, NowSaves
  <2>2. HomeOf(turns', live')
    <3>1. CASE turns' = turns
      BY <3>1, <2>1, <1>h DEF Home
    <3>2. ASSUME NEW derived \in BOOLEAN,
                 turns' = Append(turns, [in |-> stream.in, n |-> stream.n, derived |-> derived])
          PROVE  HomeOf(turns', live')
      <4>1. [in |-> stream.in, n |-> stream.n, derived |-> derived].in = live'
        BY <2>0, <2>1
      <4>2. \A i \in DOMAIN turns' :
               turns'[i] = (IF i \in DOMAIN turns THEN turns[i]
                            ELSE [in |-> stream.in, n |-> stream.n, derived |-> derived])
        <5>1. [in |-> stream.in, n |-> stream.n, derived |-> derived] \in Turn
          BY <2>0 DEF Streams, Turn
        <5>. QED  BY <3>2, <5>1 DEF TypeOK
      <4>. QED  BY <4>1, <4>2, <2>1, <1>h DEF Home, HomeOf
    <3>. QED  BY <1>3, <3>1, <3>2 DEF Settle
  <2>. QED  BY <2>1, <2>2, <1>h, <1>f, <1>g, SavesHome DEF Home
<1>4. CASE Ask \/ RunSql \/ Compact \/ StartRun \/ OpenPicker \/ Share \/ Clear \/ Quit
  <2>1. /\ UNCHANGED <<live, disk>> /\ (turns' = turns \/ turns' = <<>>)
        /\ stream' = stream \/ stream' = [in |-> live, n |-> typed, state |-> "running"]
        /\ SetSaves(Queued([flight |-> flight, next |-> next], Snapshot'))
    BY <1>4 DEF Ask, RunSql, Compact, StartRun, OpenPicker, Share, Clear, Quit, Take, Save, NowSaves,
       conversation, workers
  <2>2. HomeOf(turns', live')
    BY <2>1, <1>h DEF Home, HomeOf
  <2>. QED  BY <2>1, <2>2, <1>h, <1>f, <1>g, SavesHome DEF Home
<1>5. ASSUME NEW s \in Session, Swap(s), SaveAfterSwap(s), UNCHANGED <<workers, disk>>,
             ~Busy \/ live' = live
      PROVE  Home'
  <2>1. HomeOf(turns', live')
    BY <1>5, <1>h DEF Swap, Home, conversation
  <2>2. stream' # None => stream'.in = live'
    BY <1>5, <1>h DEF Busy, Home, workers
  <2>3. SetSaves(Queued([flight |-> flight, next |-> next], Snapshot'))
    BY <1>5 DEF SaveAfterSwap, NowSaves
  <2>. QED  BY <1>5, <2>1, <2>2, <2>3, <1>h, <1>f, <1>g, SavesHome DEF Home
<1>6. CASE Resume
  <2>1. pending.id \in Session /\ ~Busy /\ UNCHANGED <<workers, disk>>
    BY <1>6, SessionAssumption DEF Resume, Take, TypeOK, Slots, StepsAgree
  <2>. QED  BY <1>6, <2>1, <1>5 DEF Resume
<1>7. CASE AdoptChoice
  <2>1. chosen \in Session /\ ~Busy /\ UNCHANGED <<workers, disk>>
    BY <1>7 DEF AdoptChoice, TypeOK, Slots, StepsAgree
  <2>. QED  BY <1>7, <2>1, <1>5 DEF AdoptChoice
<1>8. CASE FinalSave
  <2>1. UNCHANGED <<live, turns, stream, flight, next>>
    BY <1>8 DEF FinalSave, conversation, workers, saves
  <2>2. disk' = [disk EXCEPT ![live] = [turns |-> turns, sharing |-> sharing]]
    BY <1>8 DEF FinalSave
  <2>3. \A s \in Session : disk'[s].turns = IF s = live THEN turns ELSE disk[s].turns
    BY <2>2 DEF TypeOK
  <2>. QED  BY <2>1, <2>3, <1>h DEF Home
<1>9. CASE SaveLands
  <2>0. flight \in Flights /\ flight.of.id \in Session
    BY <1>9 DEF SaveLands, TypeOK, Flights, Snapshots
  <2>1. UNCHANGED <<live, turns, stream, next>> /\ flight' = [flight EXCEPT !.state = "saved"]
    BY <1>9 DEF SaveLands, conversation, workers
  <2>2. flight'.of = flight.of
    BY <2>0, <2>1 DEF Flights
  <2>3. disk' = [disk EXCEPT ![flight.of.id] =
                   [turns |-> flight.of.turns, sharing |-> flight.of.sharing]]
    BY <1>9 DEF SaveLands
  <2>4. \A s \in Session :
           disk'[s].turns = IF s = flight.of.id THEN flight.of.turns ELSE disk[s].turns
    BY <2>0, <2>3 DEF TypeOK
  <2>. QED  BY <1>9, <2>1, <2>2, <2>4, <1>h DEF Home, SaveLands
<1>10. CASE SaveFails
  <2>1. UNCHANGED <<live, turns, stream, next, disk>> /\ flight' = [flight EXCEPT !.state = "failed"]
    BY <1>10 DEF SaveFails, conversation, workers
  <2>2. flight'.of = flight.of /\ flight # None
    BY <1>10, <2>1 DEF SaveFails, TypeOK, Flights
  <2>. QED  BY <2>1, <2>2, <1>h DEF Home
<1>11. CASE StreamEnds
  <2>1. stream # None /\ stream \in Streams
    BY <1>11 DEF StreamEnds, Running, TypeOK
  <2>2. stream'.in = stream.in /\ UNCHANGED <<live, turns, flight, next, disk>>
    BY <1>11, <2>1 DEF StreamEnds, Streams, conversation, saves
  <2>. QED  BY <2>1, <2>2, <1>h DEF Home
<1>12. CASE Leave \/ SqlEnds \/ CompactEnds \/ RunEnds \/ PickerLoads \/ UNCHANGED vars
  <2>1. UNCHANGED <<live, turns, stream, flight, next, disk>>
    BY <1>12 DEF Leave, SqlEnds, CompactEnds, RunEnds, PickerLoads, vars, conversation, workers, saves
  <2>. QED  BY <2>1, <1>h DEF Home
<1>. QED
  BY <1>1, <1>2, <1>3, <1>4, <1>6, <1>7, <1>8, <1>9, <1>10, <1>11, <1>12
     DEF Next, Tick, Threads, WorkerEnds

-----------------------------------------------------------------------------
(* A session's record comes to hold its turns. *)

LEMMA RecordInit == Init => RecordInv
<1> SUFFICES ASSUME Init, NEW s \in Session PROVE UpToDate(s)
  BY DEF Init, RecordInv
<1>1. /\ flight = None /\ next = None /\ disk[s].turns = Saved[s]
      /\ book[s] = IF Saved[s] = None THEN <<>> ELSE Saved[s]
      /\ s = live => turns = book[s]
  BY DEF Init
<1>. QED  BY <1>1 DEF UpToDate, Reaches, Waits, Written

\* The snapshot that waits is written once the save before it is over.
LEMMA PolledReaches ==
  ASSUME NEW f \in {None} \cup Flights, NEW n \in {None} \cup Snapshots,
         NEW s, NEW came, NEW d, f = None => n = None
  PROVE  LET p == Polled(f, n)
         IN /\ p.flight = None => p.next = None
            /\ Reaches(f, n, s, came, d) => Reaches(p.flight, p.next, s, came, d)
<1> DEFINE p == Polled(f, n)
<1>1. CASE f # None /\ f.state # "writing" /\ n = None
  BY <1>1 DEF Polled, Reaches, Waits, Written
<1>2. CASE f # None /\ f.state # "writing" /\ n # None
  <2>1. p.flight = [of |-> n, state |-> "writing"] /\ p.next = None
    BY <1>2 DEF Polled
  <2>2. p.flight \in Flights
    BY <1>2, <2>1 DEF Flights
  <2>. QED  BY <1>2, <2>1, <2>2, NoneDistinct DEF Reaches, Waits, Written
<1>3. CASE ~(f # None /\ f.state # "writing")
  <2>1. p.flight = f /\ p.next = n
    BY <1>3 DEF Polled
  <2>. QED  BY <2>1
<1>. QED  BY <1>1, <1>2, <1>3

\* A snapshot queued is the newest copy of its session, and hides no other's.
LEMMA QueuedReaches ==
  ASSUME NEW f \in {None} \cup Flights, NEW n \in {None} \cup Snapshots, f = None => n = None,
         NEW snapshot \in Snapshots, NEW s, NEW came, NEW d,
         \/ snapshot.id = s /\ snapshot.turns = came
         \/ /\ snapshot.id # s /\ Reaches(f, n, s, came, d)
            /\ f # None /\ n # None => n.id # s
  PROVE  LET q == Queued([flight |-> f, next |-> n], snapshot)
         IN Reaches(q.flight, q.next, s, came, d) /\ (q.flight = None => q.next = None)
<1> DEFINE q == Queued([flight |-> f, next |-> n], snapshot)
<1>1. CASE f # None
  <2>1. q.flight = f /\ q.next = snapshot
    BY <1>1 DEF Queued
  <2>. QED  BY <1>1, <2>1, NoneDistinct DEF Reaches, Waits, Written
<1>2. CASE f = None
  <2>1. q.flight = [of |-> snapshot, state |-> "writing"] /\ q.next = None
    BY <1>2 DEF Queued
  <2>2. q.flight \in Flights
    BY <2>1 DEF Flights
  <2>. QED  BY <1>2, <2>1, <2>2, NoneDistinct DEF Reaches, Waits, Written
<1>. QED  BY <1>1, <1>2

\* Any queue_session_save leaves the newest copy of a session where it is,
\* or is that copy.
LEMMA QueueKeeps ==
  ASSUME TypeOK, TypeOK', flight = None => next = None,
         NEW saved \in {NowSaves, Polled(flight, next)},
         SetSaves(Queued(saved, Snapshot')),
         NEW s \in Session,
         s = live' => turns' = book'[s],
         s # live' => /\ Reaches(flight, next, s, book'[s], disk'[s].turns)
                      /\ saved.flight # None /\ saved.next # None => saved.next.id # s
  PROVE  /\ Reaches(flight', next', s, book'[s], disk'[s].turns)
         /\ flight' = None => next' = None
<1> DEFINE f == saved.flight  n == saved.next
<1>0. /\ saved = [flight |-> f, next |-> n]
      /\ \/ f = flight /\ n = next
         \/ f = Polled(flight, next).flight /\ n = Polled(flight, next).next
  BY DEF NowSaves, Polled
<1> HIDE DEF f, n
<1>1. f \in {None} \cup Flights /\ n \in {None} \cup Snapshots /\ (f = None => n = None)
  BY <1>0, PolledType, PolledReaches DEF TypeOK
<1>2. s # live' => Reaches(f, n, s, book'[s], disk'[s].turns)
  <2>1. flight \in {None} \cup Flights /\ next \in {None} \cup Snapshots
    BY DEF TypeOK
  <2>. QED  BY <1>0, <2>1, PolledReaches
<1>3. Snapshot' \in Snapshots /\ Snapshot'.id = live' /\ Snapshot'.turns = turns'
  BY SnapshotType DEF TypeOK, Snapshot
<1>4. s # live' /\ f # None /\ n # None => n.id # s
  BY DEF f, n
<1>5. LET q == Queued([flight |-> f, next |-> n], Snapshot')
      IN Reaches(q.flight, q.next, s, book'[s], disk'[s].turns) /\ (q.flight = None => q.next = None)
  <2>1. CASE s = live'
    <3>1. Snapshot'.id = s /\ Snapshot'.turns = book'[s]
      BY <1>3, <2>1
    <3>. QED  BY <1>1, <1>3, <3>1, QueuedReaches
  <2>2. CASE s # live'
    <3>1. Snapshot'.id # s /\ Reaches(f, n, s, book'[s], disk'[s].turns)
      BY <1>2, <1>3, <2>2
    <3>. QED  BY <1>1, <1>3, <1>4, <2>2, <3>1, QueuedReaches
  <2>. QED  BY <2>1, <2>2
<1>. QED  BY <1>0, <1>5 DEF SetSaves

LEMMA SaveKeeps ==
  ASSUME TypeOK, TypeOK', flight = None => next = None,
         NEW saved \in {NowSaves, Polled(flight, next)},
         Save(saved), UNCHANGED <<live, disk>>,
         NEW s \in Session, s \notin excused', s \notin excused => UpToDate(s),
         s = live => turns' = book'[s], s # live => book'[s] = book[s]
  PROVE  /\ Reaches(flight', next', s, book'[s], disk'[s].turns)
         /\ flight' = None => next' = None
<1>1. /\ SetSaves(Queued(saved, Snapshot'))
      /\ s \notin excused
      /\ saved.flight # None /\ saved.next # None /\ saved.next.id # live' => s # saved.next.id
  BY DEF Save
<1>2. s # live' => Reaches(flight, next, s, book'[s], disk'[s].turns)
  BY <1>1 DEF UpToDate
<1>. QED  BY <1>1, <1>2, QueueKeeps

LEMMA RecordStep ==
  ASSUME TypeOK, TypeOK', Slots, RecordInv, [Next]_vars
  PROVE  RecordInv'
<1>a. at = "exit" => at' = "exit" /\ UNCHANGED <<flight, next>>
  <2> SUFFICES ASSUME at = "exit" PROVE UNCHANGED <<at, flight, next>>
    OBVIOUS
  <2>1. ~Tick
    BY DEF Tick, NoEvent, Submit, Confirm, ClosePicker, Esc, DropQueued, QuitKey, SessionKey, Key, Event,
       Workers, Settle, Ask, RunSql, Compact, StartRun, OpenPicker, Share, Clear, Resume, Quit, Take,
       AdoptChoice, FinalSave, Leave
  <2>2. ~Threads
    BY DEF Threads, SaveLands, SaveFails, WorkerEnds, StreamEnds, SqlEnds, CompactEnds, RunEnds,
       PickerLoads, Looping, Ticks
  <2>. QED  BY <2>1, <2>2 DEF Next, vars, saves
<1>b. CASE at = "exit"
  BY <1>a, <1>b DEF RecordInv
<1>c. CASE at # "exit"
  <2>p. flight = None => next = None
    BY DEF RecordInv
  <2> SUFFICES ASSUME NEW s \in Session,
                      s \notin excused => UpToDate(s)
               PROVE  /\ flight' = None => next' = None
                      /\ s \notin excused' => UpToDate(s)'
    BY <1>c, SessionAssumption DEF RecordInv, UpToDate
  <2>1. CASE NoEvent \/ Submit \/ Confirm \/ ClosePicker \/ Esc \/ DropQueued \/ QuitKey
    <3>1. UNCHANGED <<live, turns, disk, book, excused>> /\ SetSaves(Polled(flight, next))
      BY <2>1 DEF NoEvent, Submit, Confirm, ClosePicker, Esc, DropQueued, QuitKey, SessionKey, Key,
         Event, conversation, history
    <3>2. flight \in {None} \cup Flights /\ next \in {None} \cup Snapshots
      BY DEF TypeOK
    <3>3. /\ flight' = None => next' = None
          /\ Reaches(flight, next, s, book[s], disk[s].turns)
               => Reaches(flight', next', s, book[s], disk[s].turns)
      BY <2>p, <3>1, <3>2, PolledReaches DEF SetSaves
    <3>. QED  BY <3>1, <3>3 DEF UpToDate
  <2>2. CASE Workers /\ compact = NoTask
    <3>1. UNCHANGED <<live, turns, disk, book, excused>> /\ SetSaves(Polled(flight, next))
      BY <2>2 DEF Workers
    <3>2. flight \in {None} \cup Flights /\ next \in {None} \cup Snapshots
      BY DEF TypeOK
    <3>3. /\ flight' = None => next' = None
          /\ Reaches(flight, next, s, book[s], disk[s].turns)
               => Reaches(flight', next', s, book[s], disk[s].turns)
      BY <2>p, <3>1, <3>2, PolledReaches DEF SetSaves
    <3>. QED  BY <3>1, <3>3 DEF UpToDate
  <2>s. ASSUME NEW saved \in {NowSaves, Polled(flight, next)}, Save(saved), UNCHANGED <<live, disk>>,
               s \notin excused => (s = live => turns' = book'[s]),
               s # live => book'[s] = book[s]
        PROVE  /\ flight' = None => next' = None
               /\ s \notin excused' => UpToDate(s)'
    <3>1. excused \subseteq excused'
      BY <2>s DEF Save
    <3>2. CASE s \notin excused'
      <4>1. /\ Reaches(flight', next', s, book'[s], disk'[s].turns)
            /\ flight' = None => next' = None
        BY <2>p, <2>s, <3>1, <3>2, SaveKeeps
      <4>. QED  BY <2>s, <3>1, <3>2, <4>1 DEF UpToDate
    <3>3. flight' = None => next' = None
      <4>1. SetSaves(Queued(saved, Snapshot'))
        BY <2>s DEF Save
      <4>2. saved.flight = None => saved.next = None
        BY <2>p, <2>s DEF NowSaves, Polled
      <4>3. ASSUME saved.flight = None PROVE flight' # None
        <5>1. flight' = [of |-> Snapshot', state |-> "writing"]
          BY <4>1, <4>3, <2>s DEF SetSaves, Queued, NowSaves, Polled
        <5>2. Snapshot' \in Snapshots
          BY SnapshotType DEF TypeOK
        <5>. QED  BY <5>1, <5>2, NoneDistinct DEF Flights
      <4>4. saved.flight # None => flight' = saved.flight
        BY <4>1, <2>s DEF SetSaves, Queued, NowSaves, Polled
      <4>. QED  BY <4>3, <4>4
    <3>. QED  BY <3>2, <3>3
  <2>3. CASE Workers /\ compact # NoTask
    <3>1. UNCHANGED <<live, turns, disk, book>> /\ Save(Polled(flight, next))
      BY <2>3 DEF Workers
    <3>. QED  BY <3>1, <2>s DEF UpToDate
  <2>4. CASE Settle
    <3>1. UNCHANGED <<live, disk>> /\ Save(NowSaves) /\ book' = [book EXCEPT ![live] = turns']
      BY <2>4 DEF Settle
    <3>2. \A t \in Session : book'[t] = IF t = live THEN turns' ELSE book[t]
      BY <3>1 DEF TypeOK
    <3>. QED  BY <3>1, <3>2, <2>s
  <2>5. CASE Ask \/ RunSql \/ Compact \/ StartRun \/ OpenPicker \/ Share \/ Quit
    <3>1. UNCHANGED <<live, turns, disk, book>> /\ Save(NowSaves)
      BY <2>5 DEF Ask, RunSql, Compact, StartRun, OpenPicker, Share, Quit, Take, conversation
    <3>. QED  BY <3>1, <2>s DEF UpToDate
  <2>6. CASE Clear
    <3>1. UNCHANGED <<live, disk>> /\ Save(NowSaves) /\ turns' = <<>> /\ book' = [book EXCEPT ![live] = <<>>]
      BY <2>6 DEF Clear, Take
    <3>2. \A t \in Session : book'[t] = IF t = live THEN <<>> ELSE book[t]
      BY <3>1 DEF TypeOK
    <3>. QED  BY <3>1, <3>2, <2>s
  <2>7. ASSUME NEW t \in Session, Swap(t), SaveAfterSwap(t), UNCHANGED <<disk, book>>
        PROVE  /\ flight' = None => next' = None
               /\ s \notin excused' => UpToDate(s)'
    <3>1. excused \subseteq excused' /\ SetSaves(Queued(NowSaves, Snapshot'))
      BY <2>7 DEF SaveAfterSwap
    <3>2. ASSUME s \notin excused' PROVE UpToDate(s)'
      <4>1. UpToDate(s)
        BY <3>1, <3>2
      <4>2. s = live' => turns' = book'[s]
        <5>1. CASE UNCHANGED <<live, turns>>
          BY <5>1, <4>1, <2>7 DEF UpToDate
        <5>2. CASE disk[t].turns # None /\ live' = t /\ turns' = disk[t].turns
          <6>1. s = live' => ~Outstanding(t)
            BY <5>2, <2>7, <3>2 DEF SaveAfterSwap, ReadPast
          <6>2. s = live' => ~Written(flight, s) /\ ~Waits(next, s)
            BY <6>1, <5>2 DEF Outstanding, Written, Waits
          <6>. QED  BY <6>2, <5>2, <4>1, <2>7 DEF UpToDate, Reaches
        <5>. QED  BY <2>7, <5>1, <5>2 DEF Swap, conversation
      <4>3. s # live' => /\ Reaches(flight, next, s, book'[s], disk'[s].turns)
                         /\ NowSaves.flight # None /\ NowSaves.next # None => NowSaves.next.id # s
        BY <4>1, <2>7, <3>2 DEF SaveAfterSwap, UpToDate, NowSaves
      <4>4. Reaches(flight', next', s, book'[s], disk'[s].turns)
        BY <2>p, <3>1, <4>2, <4>3, QueueKeeps
      <4>. QED  BY <4>2, <4>4 DEF UpToDate
    <3>3. flight' = None => next' = None
      <4>1. flight' = flight \/ flight' = [of |-> Snapshot', state |-> "writing"]
        BY <3>1 DEF SetSaves, Queued, NowSaves
      <4>2. flight = None => flight' = [of |-> Snapshot', state |-> "writing"]
        BY <3>1 DEF SetSaves, Queued, NowSaves
      <4>3. Snapshot' \in Snapshots
        BY SnapshotType DEF TypeOK
      <4>. QED  BY <4>1, <4>2, <4>3, NoneDistinct DEF Flights
    <3>. QED  BY <3>2, <3>3
  <2>8. CASE Resume
    <3>1. pending.id \in Session
      BY <2>8, SessionAssumption DEF Resume, Take, TypeOK, Slots, StepsAgree
    <3>. QED  BY <2>8, <3>1, <2>7 DEF Resume, Take
  <2>9. CASE AdoptChoice
    <3>1. chosen \in Session
      BY <2>9 DEF AdoptChoice, TypeOK, Slots, StepsAgree
    <3>. QED  BY <2>9, <3>1, <2>7 DEF AdoptChoice
  <2>10. CASE FinalSave
    <3>1. /\ UNCHANGED <<live, turns, flight, next, book>>
          /\ disk' = [disk EXCEPT ![live] = [turns |-> turns, sharing |-> sharing]]
          /\ excused' = IF Outstanding(live) THEN excused \cup {live} ELSE excused
      BY <2>10 DEF FinalSave, conversation, saves
    <3>2. \A t \in Session : disk'[t].turns = IF t = live THEN turns ELSE disk[t].turns
      BY <3>1 DEF TypeOK
    <3>3. s \notin excused' => s \notin excused /\ (s = live => ~Written(flight, s) /\ ~Waits(next, s))
      BY <3>1 DEF Outstanding, Written, Waits
    <3>. QED  BY <2>p, <3>1, <3>2, <3>3 DEF UpToDate, Reaches
  <2>11. CASE SaveLands
    <3>0. flight \in Flights /\ flight.state = "writing"
      BY <2>11 DEF SaveLands, TypeOK
    <3>1. /\ UNCHANGED <<live, turns, next, book, excused>>
          /\ flight' = [flight EXCEPT !.state = "saved"]
          /\ disk' = [disk EXCEPT ![flight.of.id] =
                        [turns |-> flight.of.turns, sharing |-> flight.of.sharing]]
      BY <2>11 DEF SaveLands, conversation, history
    <3>2. flight' \in Flights /\ flight'.state = "saved"
      BY <3>0, <3>1 DEF Flights
    <3>3. \A t \in Session :
             disk'[t].turns = IF t = flight.of.id THEN flight.of.turns ELSE disk[t].turns
      BY <3>0, <3>1 DEF TypeOK, Flights, Snapshots
    <3>. QED  BY <3>0, <3>1, <3>2, <3>3, NoneDistinct DEF UpToDate, Reaches, Waits, Written
  <2>12. CASE SaveFails
    <3>0. flight \in Flights /\ flight.state = "writing"
      BY <2>12 DEF SaveFails, TypeOK
    <3>1. /\ UNCHANGED <<live, turns, next, book, disk>>
          /\ flight' = [flight EXCEPT !.state = "failed"]
          /\ excused' = excused \cup {flight.of.id}
      BY <2>12 DEF SaveFails, conversation
    <3>2. flight' \in Flights /\ flight'.state = "failed"
      BY <3>0, <3>1 DEF Flights
    <3>. QED  BY <3>0, <3>1, <3>2, NoneDistinct DEF UpToDate, Reaches, Waits, Written
  <2>13. CASE Leave \/ WorkerEnds \/ RunEnds \/ PickerLoads \/ UNCHANGED vars
    <3>1. UNCHANGED <<live, turns, flight, next, book, disk, excused>>
      BY <2>13 DEF Leave, WorkerEnds, StreamEnds, SqlEnds, CompactEnds, RunEnds, PickerLoads, vars,
         conversation, saves, history
    <3>. QED  BY <2>p, <3>1 DEF UpToDate
  <2>. QED
    BY <2>1, <2>2, <2>3, <2>4, <2>5, <2>6, <2>8, <2>9, <2>10, <2>11, <2>12, <2>13
       DEF Next, Tick, Threads
<1>. QED  BY <1>b, <1>c

-----------------------------------------------------------------------------
(* What the provider hears of the conversation. *)

LEMMA VisibleIsASeq ==
  ASSUME NEW t \in Seq(Turn), NEW sh
  PROVE  \E S : Visible(t, sh) \in Seq(S)
<1> DEFINE kept == {i \in DOMAIN t : sh \/ ~t[i].derived}
<1>1. Cardinality(kept) \in Nat
  <2>1. IsFiniteSet(1..Len(t))
    BY FS_Interval
  <2>2. kept \subseteq 1..Len(t)
    OBVIOUS
  <2>. QED  BY <2>1, <2>2, FS_Subset, FS_CardinalityType
<1> HIDE DEF kept
<1>2. \E f : Visible(t, sh) = [k \in 1..Cardinality(kept) |-> f[k]]
  <2> DEFINE g == Visible(t, sh)
  <2>1. g = [k \in 1..Cardinality(kept) |-> g[k]]
    BY DEF Visible, kept
  <2>. QED  BY <2>1
<1>3. PICK f : Visible(t, sh) = [k \in 1..Cardinality(kept) |-> f[k]]
  BY <1>2
<1>4. Visible(t, sh) \in Seq({f[k] : k \in 1..Cardinality(kept)})
  BY <1>1, <1>3, IsASeq
<1>. QED  BY <1>4

\* Two messages a turn, in order.
LEMMA VerbatimSays ==
  ASSUME NEW S, NEW q \in Seq(S)
  PROVE  /\ Verbatim(q) \in Seq(SUBSET (S \X {"user", "assistant"}))
         /\ Len(Verbatim(q)) = 2 * Len(q)
         /\ \A i \in 1..Len(q) : /\ Verbatim(q)[2 * i - 1] = {<<q[i], "user">>}
                                 /\ Verbatim(q)[2 * i] = {<<q[i], "assistant">>}
<1>1. 2 * Len(q) \in Nat
  BY LenProperties
<1>2. \A j \in 1..2 * Len(q) : (j + 1) \div 2 \in 1..Len(q)
  BY LenProperties
<1>3. \A j \in 1..2 * Len(q) :
         {<<q[(j + 1) \div 2], IF j % 2 = 1 THEN "user" ELSE "assistant">>} \in SUBSET (S \X {"user", "assistant"})
  BY <1>2, ElementOfSeq
<1>4. Verbatim(q) \in [1..2 * Len(q) -> SUBSET (S \X {"user", "assistant"})]
  BY <1>3 DEF Verbatim
<1>5. Verbatim(q) \in Seq(SUBSET (S \X {"user", "assistant"})) /\ Len(Verbatim(q)) = 2 * Len(q)
  BY <1>1, <1>4, LenProperties
<1>6. ASSUME NEW i \in 1..Len(q)
      PROVE  /\ Verbatim(q)[2 * i - 1] = {<<q[i], "user">>}
             /\ Verbatim(q)[2 * i] = {<<q[i], "assistant">>}
  <2>1. /\ 2 * i - 1 \in 1..2 * Len(q) /\ 2 * i \in 1..2 * Len(q)
        /\ (2 * i - 1 + 1) \div 2 = i /\ (2 * i + 1) \div 2 = i
        /\ (2 * i - 1) % 2 = 1 /\ (2 * i) % 2 = 0
    BY LenProperties
  <2>. QED  BY <2>1 DEF Verbatim
<1>. QED  BY <1>5, <1>6

\* A part in one of the first n messages is covered by the oldest n.
LEMMA OldestCovers ==
  ASSUME NEW M, NEW h \in Seq(M), NEW n \in Nat, NEW j \in 1..Len(h), j <= n, NEW part \in h[j]
  PROVE  part \in Covered(Oldest(h, n)) /\ part \in Covered(h)
<1> DEFINE m == IF n < Len(h) THEN n ELSE Len(h)
           old == SubSeq(h, 1, m)
<1>0. Len(h) \in Nat /\ DOMAIN h = 1..Len(h)
  BY LenProperties
<1>1. /\ m \in Nat /\ 1 <= m /\ m <= Len(h) /\ j \in 1..m
  BY <1>0
<1>2. Oldest(h, n) = old
  BY DEF Oldest
<1> HIDE DEF m
<1>3. old = [k \in 1..m |-> h[1 + k - 1]]
  BY <1>0, <1>1, SubSeqProperties
<1>4. j \in DOMAIN old /\ old[j] = h[j]
  BY <1>1, <1>3
<1> HIDE DEF old
<1>5. part \in Covered(old)
  BY <1>4 DEF Covered
<1>. QED  BY <1>0, <1>2, <1>5 DEF Covered

\* A summary in front of what was said since: where each message then is.
Summed(over, said, from) == <<over>> \o SubSeq(said, from + 1, Len(said))
LEMMA SummaryFirst ==
  ASSUME NEW M, NEW said \in Seq(M), NEW over \in M, NEW from \in Nat, from <= Len(said)
  PROVE  /\ Summed(over, said, from) \in Seq(M)
         /\ Len(Summed(over, said, from)) = 1 + Len(said) - from
         /\ Summed(over, said, from)[1] = over
         /\ \A j \in Nat : from < j /\ j <= Len(said) =>
              Summed(over, said, from)[1 + j - from] = said[j]
<1> DEFINE rest == SubSeq(said, from + 1, Len(said))
           g == <<over>> \o rest
<1>0. Len(said) \in Nat
  BY LenProperties
<1>1. /\ rest \in Seq(M) /\ Len(rest) = Len(said) - from
      /\ \A k \in 1..Len(said) - from : rest[k] = said[from + k]
  <2>1. CASE from < Len(said)
    <3>1. from + 1 \in 1..Len(said) /\ Len(said) \in from + 1 - 1..Len(said)
      BY <1>0, <2>1
    <3>2. /\ rest \in Seq(M) /\ Len(rest) = Len(said) - from
          /\ rest = [k \in 1..Len(said) - from |-> said[from + k]]
      BY <1>0, <3>1
    <3> HIDE DEF rest
    <3>. QED  BY <3>2
  <2>2. CASE from = Len(said)
    <3>1. rest = <<>>
      BY <1>0, <2>2
    <3>. QED  BY <1>0, <2>2, <3>1
  <2>. QED  BY <1>0, <2>1, <2>2
<1>2. Summed(over, said, from) = g
  BY DEF Summed
<1> HIDE DEF rest
<1>3. <<over>> \in Seq(M) /\ Len(<<over>>) = 1 /\ <<over>>[1] = over
  OBVIOUS
<1>4. /\ g \in Seq(M) /\ Len(g) = 1 + Len(rest)
      /\ \A k \in 1..1 + Len(rest) : g[k] = IF k <= 1 THEN <<over>>[k] ELSE rest[k - 1]
  BY ONLY <1>0, <1>1, <1>3, ConcatProperties
<1> HIDE DEF g
<1>5. g[1] = over
  BY ONLY <1>0, <1>1, <1>3, <1>4, from \in Nat, from <= Len(said)
<1>6. ASSUME NEW j \in Nat, from < j, j <= Len(said) PROVE g[1 + j - from] = said[j]
  <2>1. /\ 1 + j - from \in 1..1 + Len(rest) /\ ~(1 + j - from <= 1)
        /\ j - from \in 1..Len(said) - from /\ 1 + j - from - 1 = j - from /\ from + (j - from) = j
    BY <1>0, <1>1, <1>6
  <2>2. g[1 + j - from] = rest[j - from]
    BY ONLY <1>4, <2>1
  <2>3. rest[j - from] = said[from + (j - from)]
    BY <1>1, <2>1
  <2>. QED  BY <2>1, <2>2, <2>3
<1>7. Len(g) = 1 + Len(said) - from
  BY <1>0, <1>1, <1>4
<1>. QED  BY ONLY <1>2, <1>4, <1>5, <1>6, <1>7

\* With no turn filtered out, the first 2n messages of the history cover the
\* first n turns, through the summary or word by word.
LEMMA HistorySays ==
  ASSUME NEW t \in Seq(Turn), NEW sh, NEW c, c.turns \in Nat, Stands(t, c), Visible(t, sh) = t,
         NEW n \in 1..Len(t), NEW i \in 1..n
  PROVE  /\ Parts(t[i]) \subseteq Covered(Oldest(ProviderHistory(t, sh, c), 2 * n))
         /\ Parts(t[i]) \subseteq Covered(ProviderHistory(t, sh, c))
<1> DEFINE h == ProviderHistory(t, sh, c)  said == Verbatim(t)
           parts == SUBSET (Turn \X {"user", "assistant"})
           L == Len(t)
           two == 2 * c.turns
           over == c.over
           M == parts \cup {over}
<1>2. L \in Nat /\ i \in 1..L /\ n \in Nat /\ i \in Nat /\ n <= L
  BY LenProperties
<1>1. /\ said \in Seq(M) /\ Len(said) = 2 * L /\ over \in M
      /\ said[2 * i - 1] = {<<t[i], "user">>} /\ said[2 * i] = {<<t[i], "assistant">>}
  <2>1. /\ said \in Seq(parts) /\ Len(said) = 2 * L
        /\ said[2 * i - 1] = {<<t[i], "user">>} /\ said[2 * i] = {<<t[i], "assistant">>}
    BY <1>2, VerbatimSays
  <2> HIDE DEF said, L, parts, over
  <2>2. parts \subseteq M /\ over \in M
    OBVIOUS
  <2>. QED  BY <2>1, <2>2, SeqMonotonic
<1>3. c.turns = 0 => h = said
  BY DEF ProviderHistory
<1>4. c.turns > 0 => h = <<over>> \o SubSeq(said, two + 1, Len(said))
  BY DEF ProviderHistory
<1>5. c.turns > 0 => c.turns <= L /\ (i <= c.turns => Parts(t[i]) \subseteq over)
  BY <1>2 DEF Stands
<1>c. /\ two \in Nat /\ (c.turns > 0 => two >= 2)
      /\ c.turns <= L => two <= 2 * L
      /\ i > c.turns => two + 2 <= 2 * i
      /\ c.turns = 0 \/ c.turns > 0
      /\ i <= c.turns \/ i > c.turns
  BY <1>2
<1> HIDE DEF h, said, M, L, two, over
<1>6. ASSUME NEW role \in {"user", "assistant"}
      PROVE  h \in Seq(M) /\ \E j \in 1..Len(h) : j <= 2 * n /\ <<t[i], role>> \in h[j]
  <2> DEFINE k == IF role = "user" THEN 2 * i - 1 ELSE 2 * i
  <2>0. k \in 1..2 * L /\ k <= 2 * n /\ <<t[i], role>> \in said[k]
    BY <1>1, <1>2
  <2> HIDE DEF k
  <2>k. 2 * i - 1 <= k
    BY <1>2 DEF k
  <2>1. CASE c.turns = 0
    BY <1>1, <1>3, <2>0, <2>1
  <2>2. CASE c.turns > 0
    <3>1. two \in Nat /\ two <= Len(said)
      BY <1>1, <1>c, <1>5, <2>2
    <3>2. /\ h \in Seq(M) /\ Len(h) = 1 + Len(said) - two /\ h[1] = over
          /\ \A j \in Nat : two < j /\ j <= Len(said) => h[1 + j - two] = said[j]
      <4>1. h = Summed(over, said, two)
        BY <1>4, <2>2 DEF Summed
      <4>2. said \in Seq(M) /\ over \in M /\ two \in Nat /\ two <= Len(said)
        BY <1>1, <3>1
      <4>. QED  BY ONLY <4>1, <4>2, SummaryFirst
    <3>3. CASE i <= c.turns
      <4>1. <<t[i], role>> \in h[1]
        BY <1>5, <2>2, <3>2, <3>3 DEF Parts
      <4>2. 1 \in 1..Len(h) /\ 1 <= 2 * n
        BY <1>1, <1>2, <1>c, <3>1, <3>2, <2>2
      <4>. QED  BY <3>2, <4>1, <4>2
    <3>4. CASE i > c.turns
      <4>1. k \in Nat /\ two < k /\ k <= Len(said) /\ 1 + k - two \in 1..Len(h) /\ 1 + k - two <= 2 * n
        <5>1. i \in Nat /\ n \in Nat /\ L \in Nat /\ k \in Nat /\ k <= 2 * L /\ Len(said) = 2 * L
          BY <1>1, <1>2, <2>0
        <5>2. two < k
          BY <1>c, <2>k, <3>1, <3>4, <5>1
        <5>3. Len(h) = 1 + Len(said) - two /\ two >= 2
          BY <1>c, <2>2, <3>2
        <5>4. k <= 2 * n
          BY <2>0
        <5>. QED  BY <3>1, <5>1, <5>2, <5>3, <5>4
      <4>2. <<t[i], role>> \in h[1 + k - two]
        BY <2>0, <3>2, <4>1
      <4>. QED  BY <3>2, <4>1, <4>2
    <3>. QED  BY <1>c, <3>3, <3>4
  <2>. QED  BY <1>c, <2>1, <2>2
<1>7. ASSUME NEW role \in {"user", "assistant"}
      PROVE  <<t[i], role>> \in Covered(Oldest(h, 2 * n)) /\ <<t[i], role>> \in Covered(h)
  <2>1. PICK j \in 1..Len(h) : j <= 2 * n /\ <<t[i], role>> \in h[j]
    BY <1>6
  <2>2. h \in Seq(M) /\ 2 * n \in Nat
    BY <1>2, <1>6
  <2>. QED  BY <2>1, <2>2, OldestCovers, SMTT(20)
<1>. QED  BY <1>7 DEF Parts, h

\* A plan that saw every turn covers all the turns it replaces.
LEMMA PlanCovers ==
  ASSUME NEW t \in Seq(Turn), NEW sh, NEW c, c.turns \in Nat, c.whole => Stands(t, c),
         Plan(t, sh, c) # None, Plan(t, sh, c).whole
  PROVE  Stands(t, Plan(t, sh, c))
<1> DEFINE older == Len(t) - KeepTail
           taken == Oldest(ProviderHistory(t, sh, c), 2 * older)
           plan == Plan(t, sh, c)
           whole == c.whole /\ Visible(t, sh) = t
<1>0. Len(t) \in Nat
  BY LenProperties
<1>1. /\ plan = [over |-> Covered(taken), turns |-> older, whole |-> whole]
      /\ ~(Len(t) <= MinTurns)
  BY DEF Plan
<1>2. older \in 1..Len(t)
  BY <1>0, <1>1, CompactionAssumption
<1>3. /\ plan.over = Covered(taken) /\ plan.turns = older
      /\ Stands(t, c) /\ Visible(t, sh) = t
  <2> HIDE DEF whole
  <2>1. plan.over = Covered(taken) /\ plan.turns = older /\ plan.whole = whole
    BY <1>1
  <2> HIDE DEF plan
  <2>2. plan.whole
    BY DEF plan
  <2>3. whole
    BY <2>1, <2>2, Zenon
  <2>. QED  BY <2>1, <2>3 DEF whole
<1> HIDE DEF plan
<1>4. ASSUME NEW i \in 1..older PROVE Parts(t[i]) \subseteq plan.over
  BY <1>2, <1>3, <1>4, HistorySays
<1> HIDE DEF older
<1>5. Stands(t, plan)
  BY <1>0, <1>2, <1>3, <1>4 DEF Stands
<1>. QED  BY <1>5 DEF plan

LEMMA MemoryInit == Init => MemoryInv
BY DEF Init, MemoryInv, Stands, NoCompaction

LEMMA StandsGrows ==
  ASSUME NEW t \in Seq(Turn), NEW turn \in Turn, NEW c, c.turns \in Nat, Stands(t, c)
  PROVE  Stands(Append(t, turn), c)
<1>1. /\ Len(Append(t, turn)) = Len(t) + 1 /\ Len(t) \in Nat
      /\ \A i \in 1..Len(t) : Append(t, turn)[i] = t[i]
  BY AppendProperties, LenProperties
<1>2. CASE c.turns = 0
  BY <1>2 DEF Stands
<1>3. CASE c.turns # 0
  <2>1. c.turns <= Len(t) /\ \A i \in 1..c.turns : Parts(t[i]) \subseteq c.over
    BY <1>3 DEF Stands
  <2>2. \A i \in 1..c.turns : Append(t, turn)[i] = t[i]
    BY <1>1, <2>1
  <2>3. c.turns <= Len(Append(t, turn))
    BY <1>1, <2>1
  <2>. QED  BY <2>1, <2>2, <2>3 DEF Stands
<1>. QED  BY <1>2, <1>3

LEMMA MemoryStep ==
  ASSUME TypeOK, TypeOK', Slots, MemoryInv, [Next]_vars
  PROVE  MemoryInv'
<1> SUFFICES ASSUME ~astray'
             PROVE  /\ compaction'.whole => Stands(turns', compaction')
                    /\ compact' # NoTask => compact'.plan = Plan(turns', sharing', compaction')
  BY DEF MemoryInv
<1>m. /\ compaction.whole => Stands(turns, compaction)
      /\ compact # NoTask => compact.plan = Plan(turns, sharing, compaction)
  BY AstrayStays DEF MemoryInv
\* Steps that touch neither the conversation nor the compaction in flight.
<1>u. ASSUME UNCHANGED <<turns, sharing, compaction>>,
             compact' = compact \/ compact' = NoTask
      PROVE  /\ compaction'.whole => Stands(turns', compaction')
             /\ compact' # NoTask => compact'.plan = Plan(turns', sharing', compaction')
  BY <1>u, <1>m
<1>s. ASSUME NEW automatic \in BOOLEAN, StartCompact(automatic)
      PROVE  compact' # NoTask => compact'.plan = Plan(turns', sharing', compaction')
  BY <1>s DEF StartCompact
<1>1. CASE NoEvent \/ Submit \/ Confirm \/ ClosePicker \/ Esc \/ DropQueued \/ QuitKey
  <2>1. UNCHANGED <<turns, sharing, compaction, compact>>
    BY <1>1 DEF NoEvent, Submit, Confirm, ClosePicker, Esc, DropQueued, QuitKey, SessionKey, Key,
       conversation, workers
  <2>. QED  BY <2>1, <1>u
<1>2. CASE Workers
  <2>1. /\ UNCHANGED <<turns, sharing>> /\ (compact' = compact \/ compact' = NoTask)
        /\ \/ compaction' = compaction
           \/ /\ compact # NoTask /\ compact' = NoTask
              /\ \E fits \in BOOLEAN : ApplySummary(fits)
    BY <1>2 DEF Workers
  <2>2. CASE compaction' = compaction
    BY <2>1, <2>2, <1>u
  <2>3. ASSUME NEW fits \in BOOLEAN, ApplySummary(fits), compact # NoTask, compact' = NoTask
        PROVE  compaction'.whole => Stands(turns', compaction')
    <3> DEFINE now == Plan(turns, sharing, compaction)
    <3>1. compact.plan = now
      BY <2>3, <1>m
    <3>2. compaction' = compaction \/ (now # None /\ compaction' = now)
      BY <2>3, <3>1 DEF ApplySummary
    <3>3. CASE compaction' = compaction
      BY <3>3, <2>1, <1>m
    <3>4. CASE now # None /\ compaction' = now
      <4>1. turns \in Seq(Turn) /\ compaction.turns \in Nat
        BY DEF TypeOK
      <4>2. now.whole => Stands(turns, now)
        BY <3>4, <4>1, <1>m, PlanCovers
      <4>. QED  BY <3>4, <4>2, <2>1
    <3>. QED  BY <3>2, <3>3, <3>4
  <2>. QED  BY <2>1, <2>2, <2>3
<1>3. CASE Settle
  <2>0. stream \in Streams /\ compact = NoTask
    BY <1>3 DEF Settle, TypeOK, Slots, StepsAgree, OneWorkerAtATime, Ended
  <2>1. /\ UNCHANGED <<sharing, compaction>>
        /\ compact' = compact \/ StartCompact(TRUE)
        /\ \/ turns' = turns
           \/ \E derived \in BOOLEAN :
                turns' = Append(turns, [in |-> stream.in, n |-> stream.n, derived |-> derived])
    BY <1>3 DEF Settle
  <2>2. compact' # NoTask => compact'.plan = Plan(turns', sharing', compaction')
    BY <2>0, <2>1, <1>s
  <2>3. compaction.whole => Stands(turns', compaction)
    <3>1. CASE turns' = turns
      BY <3>1, <1>m
    <3>2. ASSUME NEW derived \in BOOLEAN,
                 turns' = Append(turns, [in |-> stream.in, n |-> stream.n, derived |-> derived])
          PROVE  compaction.whole => Stands(turns', compaction)
      <4>1. [in |-> stream.in, n |-> stream.n, derived |-> derived] \in Turn
        BY <2>0 DEF Streams, Turn
      <4>2. turns \in Seq(Turn) /\ compaction.turns \in Nat
        BY DEF TypeOK
      <4>. QED  BY <1>m, <3>2, <4>1, <4>2, StandsGrows
    <3>. QED  BY <2>1, <3>1, <3>2
  <2>. QED  BY <2>1, <2>2, <2>3
<1>4. CASE Ask \/ RunSql \/ StartRun \/ OpenPicker \/ Quit
  <2>1. UNCHANGED <<turns, sharing, compaction, compact>>
    BY <1>4 DEF Ask, RunSql, StartRun, OpenPicker, Quit, conversation, workers
  <2>. QED  BY <2>1, <1>u
<1>5. CASE Compact
  <2>1. UNCHANGED <<turns, sharing, compaction>> /\ StartCompact(FALSE)
    BY <1>5 DEF Compact, conversation
  <2>. QED  BY <2>1, <1>m, <1>s
<1>6. CASE Share \/ Clear \/ Resume
  <2>1. compact = NoTask /\ compact' = compact
    BY <1>6 DEF Share, Clear, Resume, Take, workers, Slots, StepsAgree, Busy
  <2>2. UNCHANGED <<turns, compaction>> \/ compaction' = NoCompaction
    BY <1>6 DEF Share, Clear, Resume, Swap, conversation
  <2>. QED  BY <2>1, <2>2, <1>m DEF Stands, NoCompaction
<1>7. CASE AdoptChoice
  <2>1. compact = NoTask /\ compact' = compact
    BY <1>7 DEF AdoptChoice, workers, Busy
  <2>2. UNCHANGED <<turns, compaction>> \/ compaction' = NoCompaction
    BY <1>7 DEF AdoptChoice, Swap, conversation
  <2>. QED  BY <2>1, <2>2, <1>m DEF Stands, NoCompaction
<1>8. CASE CompactEnds
  <2>1. UNCHANGED <<turns, sharing, compaction>> /\ compact # NoTask /\ compact'.plan = compact.plan
    BY <1>8 DEF CompactEnds, conversation, NoTask, Idle, TypeOK, IsTask
  <2>. QED  BY <2>1, <1>m
<1>9. CASE FinalSave \/ Leave \/ SaveLands \/ SaveFails \/ StreamEnds \/ SqlEnds \/ RunEnds \/ PickerLoads
           \/ UNCHANGED vars
  <2>1. UNCHANGED <<turns, sharing, compaction, compact>>
    BY <1>9 DEF FinalSave, Leave, SaveLands, SaveFails, StreamEnds, SqlEnds, RunEnds, PickerLoads, vars,
       conversation, workers
  <2>. QED  BY <2>1, <1>u
<1>. QED
  BY <1>1, <1>2, <1>3, <1>4, <1>5, <1>6, <1>7, <1>8, <1>9 DEF Next, Tick, Threads, WorkerEnds

\* What the provider is sent covers every turn it may see.
LEMMA MemoryRemembers == TypeOK /\ MemoryInv => Remembered
<1> DEFINE visible == Visible(turns, sharing)
<1> SUFFICES ASSUME TypeOK, MemoryInv, ~astray, compaction.whole, NEW i \in DOMAIN visible
             PROVE  Parts(visible[i]) \subseteq Covered(ProviderHistory(turns, sharing, compaction))
  BY DEF Remembered
<1>1. Stands(turns, compaction) /\ turns \in Seq(Turn) /\ compaction.turns \in Nat
  BY DEF MemoryInv, TypeOK
<1>2. CASE visible = turns
  <2>1. Len(turns) \in 1..Len(turns) /\ i \in 1..Len(turns)
    BY <1>1, <1>2, LenProperties
  <2>. QED  BY <1>1, <1>2, <2>1, HistorySays
<1>3. CASE visible # turns
  <2>1. ProviderHistory(turns, sharing, compaction) = Verbatim(visible)
    BY <1>3 DEF ProviderHistory
  <2>2. PICK S : visible \in Seq(S)
    BY <1>1, VisibleIsASeq
  <2> HIDE DEF visible
  <2>3. i \in 1..Len(visible) /\ Len(visible) \in Nat
    BY <2>2, LenProperties
  <2>4. /\ Verbatim(visible) \in Seq(SUBSET (S \X {"user", "assistant"}))
        /\ Len(Verbatim(visible)) = 2 * Len(visible)
        /\ Verbatim(visible)[2 * i - 1] = {<<visible[i], "user">>}
        /\ Verbatim(visible)[2 * i] = {<<visible[i], "assistant">>}
    BY <2>2, <2>3, VerbatimSays
  <2>5. 2 * i - 1 \in DOMAIN Verbatim(visible) /\ 2 * i \in DOMAIN Verbatim(visible)
    BY <2>3, <2>4, LenProperties
  <2>6. /\ <<visible[i], "user">> \in Covered(Verbatim(visible))
        /\ <<visible[i], "assistant">> \in Covered(Verbatim(visible))
    BY <2>4, <2>5 DEF Covered
  <2>. QED  BY <2>1, <2>6 DEF Parts
<1>. QED  BY <1>2, <1>3

-----------------------------------------------------------------------------
(* The invariant holds of the session, and the run's properties follow.    *)

\* The session's state is well typed and coherent after every step.
THEOREM Coherent == Spec => []IInv
<1>1. Init => IInv
  BY TypeInit, SlotsInit, HomeInit, RecordInit, MemoryInit DEF IInv
<1>2. IInv /\ [Next]_vars => IInv'
  <2> SUFFICES ASSUME IInv, [Next]_vars PROVE IInv'
    OBVIOUS
  <2>1. TypeOK' /\ Slots' /\ HomeInv'
    BY TypeStep, SlotsStep, HomeStep DEF IInv, Slots
  <2>2. RecordInv' /\ MemoryInv'
    BY <2>1, RecordStep, MemoryStep DEF IInv
  <2>. QED  BY <2>1, <2>2 DEF IInv
<1>. QED  BY <1>1, <1>2, PTL DEF Spec

\* TuiSession!OneWorkerAtATime: the agent's stream, a SQL command and a
\* compaction are never in flight together.
THEOREM OneWorkerTheorem == Spec => []OneWorkerAtATime
<1>1. IInv => OneWorkerAtATime
  BY DEF IInv, Slots
<1>. QED  BY <1>1, Coherent, PTL

\* TuiSession!LinesWaitForWorkers: the loop never goes back to the keys with
\* a line queued and no worker in flight for it to wait for.
THEOREM LinesWaitTheorem == Spec => []LinesWaitForWorkers
<1>1. IInv => LinesWaitForWorkers
  BY DEF IInv, Slots, StepsAgree, LinesWaitForWorkers
<1>. QED  BY <1>1, Coherent, PTL

\* TuiSession!TurnsStayHome: every turn of the live conversation was asked in
\* the live session, unless a choice of the picker landed under a worker.
THEOREM TurnsStayHomeTheorem == Spec => []TurnsStayHome
<1>1. IInv => TurnsStayHome
  BY DEF IInv, HomeInv, Home, HomeOf, TurnsStayHome
<1>. QED  BY <1>1, Coherent, PTL

\* TuiSession!RecordsAgree: once nothing of a session waits to be saved, its
\* record holds the turns it came to, for any number of sessions and lines.
THEOREM RecordsAgreeTheorem == Spec => []RecordsAgree
<1>1. IInv => RecordsAgree
  BY DEF IInv, RecordInv, RecordsAgree, UpToDate, Reaches, Waits, Written, Outstanding
<1>. QED  BY <1>1, Coherent, PTL

\* TuiSession!Remembered: through any number of turns, compactions and
\* resumes, what the provider is sent covers every turn it may see.
THEOREM RememberedTheorem == Spec => []Remembered
<1>1. IInv => Remembered
  BY MemoryRemembers DEF IInv
<1>. QED  BY <1>1, Coherent, PTL
====
