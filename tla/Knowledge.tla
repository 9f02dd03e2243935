----------------------------- MODULE Knowledge -----------------------------
(***************************************************************************)
(* What SAYA knows about one database object: the rows of knowledge_items, *)
(* written by several `saya` processes over one SQLite file.  A user       *)
(* remembers, confirms, rejects and forgets; after a turn the model's      *)
(* proposals are filed.  A single-valued slot has one row whatever its     *)
(* text; a value of the multi-valued slot has a row of its own.  Each SQL  *)
(* transaction is a step, so is each checkpoint, and a process may die     *)
(* between any two.                                                        *)
(***************************************************************************)
EXTENDS FiniteSets, Naturals, Sequences

CONSTANTS
  Process,       \* the processes that have the store open
  Assisted,      \* those whose [memory] mode is assisted; the others learn nothing
  Text,          \* the contents a fact may have
  Slot,          \* the id of the single-valued slot's one row
  Blank,         \* the content of a forgotten row
  MaxMulti,      \* MAX_MULTI_SLOT_VALUES: rows of the multi-valued slot
  MaxProposals   \* proposals one extraction returns
ASSUME KnowledgeAssumption ==
  /\ Assisted \subseteq Process
  /\ Slot \notin Text /\ Blank \notin Text
  /\ MaxMulti \in Nat /\ MaxProposals \in Nat

Id == {Slot} \cup Text
\* knowledge_item_id: the text plays no part in a single-valued slot's id.
Contents(id) == IF id = Slot THEN Text ELSE {id}
Facts == UNION {{id} \X Contents(id) : id \in Id}

VARIABLES
  rows,      \* the table: of the ids that have a row, its columns
  sidecar,   \* <<id, text>>: texts no row holds that the files still do
  pc,        \* what each process is in the middle of
  job,       \* the write it is about to make
  overtaken, \* processes whose open read snapshot another commit outdated
  supplied,  \* the facts recall put into the turn's prompt
  queue,     \* proposals that passed the filter and are not yet filed
  misses,    \* LearningBreaker.misses of the process's session
  disabled   \* LearningBreaker.disabled
table == <<rows, sidecar>>
learning == <<supplied, queue, misses, disabled>>
vars == <<rows, sidecar, pc, job, overtaken, supplied, queue, misses, disabled>>

State == {"pending", "active", "dismissed"}
Row == [text : Text \cup {Blank}, state : State, cleanup : {"pending", "complete"}]
Write == [id : Id, text : Text, state : {"pending", "active"}, by : {"user", "model"}]
NoJob == [id |-> Slot, text |-> Blank, state |-> "pending", by |-> "user"]
Stored == DOMAIN rows
Live == {id \in Stored : rows[id].state # "dismissed"}

Init ==
  /\ rows = << >>
  /\ sidecar = {}
  /\ pc = [p \in Process |-> "idle"]
  /\ job = [p \in Process |-> NoJob]
  /\ overtaken = {}
  /\ supplied = [p \in Process |-> {}]
  /\ queue = [p \in Process |-> << >>]
  /\ misses = [p \in Process |-> 0]
  /\ disabled = [p \in Process |-> FALSE]

Goto(p, label) == pc' = [pc EXCEPT ![p] = label]

-----------------------------------------------------------------------------
\* One committed UPDATE or upsert of a row.  The page image it replaces stays
\* in the files until a checkpoint, and a snapshot opened before is outdated.
Commit(p, id, row) ==
  /\ rows' = [i \in Stored \cup {id} |-> IF i = id THEN row ELSE rows[i]]
  /\ sidecar' = IF id \in Stored /\ rows[id].text \notin {Blank, row.text}
                THEN sidecar \cup {<<id, rows[id].text>>} ELSE sidecar
  /\ overtaken' = {q \in Process \ {p} : pc[q] = "insert"}

\* cleanup_files: PRAGMA wal_checkpoint(TRUNCATE).  A reader in another
\* process holds it back, which SQLite reports in a result row, not as an error.
HeldBack(p) == \E q \in Process \ {p} : pc[q] = "insert"
Fold(p, outcome) ==
  CASE outcome = "folded" -> ~HeldBack(p) /\ sidecar' = {}
    [] outcome = "held"   -> HeldBack(p) /\ UNCHANGED sidecar
    [] outcome = "failed" -> UNCHANGED sidecar
Outcome == {"folded", "held", "failed"}

\* After a write: a user's command is over, an extraction files its next
\* proposal.  `?` in ingest_proposals gives up the rest at the first error.
Finish(p, label) == Goto(p, label) /\ job' = [job EXCEPT ![p] = NoJob]
Onward(p) == Finish(p, IF job[p].by = "model" THEN "filing" ELSE "idle")
GiveUp(p) == queue' = [queue EXCEPT ![p] = << >>]

-----------------------------------------------------------------------------
(* insert_or_replace: of the multi-valued slot a new row is counted first,  *)
(* in the transaction that inserts it.                                      *)
MultiRows == Stored \ {Slot}
HasRoom == Cardinality(MultiRows) < MaxMulti

Count(p) ==
  /\ pc[p] = "put" /\ job[p].id # Slot
  /\ IF job[p].id \in Stored \/ HasRoom
     THEN Goto(p, "insert") /\ UNCHANGED <<job, queue>>
     ELSE Onward(p) /\ GiveUp(p)
  /\ UNCHANGED <<table, overtaken, supplied, misses, disabled>>

\* Mutants: the row keeps its cleanup mark; the count is read on its own.
UpsertKeepingMark(p) ==
  Commit(p, job[p].id,
         [text |-> job[p].text, state |-> job[p].state,
          cleanup |-> IF job[p].id \in Stored THEN rows[job[p].id].cleanup ELSE "complete"])
Upsert(p) ==
  Commit(p, job[p].id, [text |-> job[p].text, state |-> job[p].state, cleanup |-> "complete"])

OutdatedNever(p) == FALSE
Outdated(p) == p \in overtaken
Insert(p) ==
  /\ \/ pc[p] = "insert" /\ ~Outdated(p)
     \/ pc[p] = "put" /\ job[p].id = Slot
  /\ Upsert(p)
  /\ Goto(p, "folding")
  /\ UNCHANGED <<job, learning>>

\* SQLite refuses a write in a transaction whose snapshot is outdated, or the
\* store is busy: nothing was written.
PutFails(p) ==
  /\ pc[p] \in {"put", "insert"}
  /\ Onward(p) /\ GiveUp(p)
  /\ overtaken' = overtaken \ {p}
  /\ UNCHANGED <<table, supplied, misses, disabled>>

\* The checkpoint after the commit.  Its failure is the call's, though the row
\* is in.
PutFold(p) ==
  /\ pc[p] = "folding"
  /\ \E outcome \in Outcome :
       /\ Fold(p, outcome)
       /\ IF outcome = "failed" THEN GiveUp(p) ELSE UNCHANGED queue
  /\ Onward(p)
  /\ UNCHANGED <<rows, overtaken, supplied, misses, disabled>>

-----------------------------------------------------------------------------
(* The user's operations.                                                   *)

\* remember: a dismissed row is reported and left alone; anything else is new,
\* a revision or a replacement, decided on what was read.
Remember(p) ==
  /\ pc[p] = "idle"
  /\ \E f \in Facts :
       /\ f[1] \in Stored => f[1] \in Live
       /\ job' = [job EXCEPT ![p] = [id |-> f[1], text |-> f[2], state |-> "active", by |-> "user"]]
  /\ Goto(p, "put")
  /\ UNCHANGED <<table, overtaken, learning>>

\* confirm and reject read the row ...
Decide(p) ==
  /\ pc[p] = "idle"
  /\ \E id \in Live :
       /\ job' = [job EXCEPT ![p] = [NoJob EXCEPT !.id = id]]
       /\ \/ Goto(p, "confirm")
          \/ rows[id].state = "pending" /\ Goto(p, "reject")
  /\ UNCHANGED <<table, overtaken, learning>>

\* ... and then set its state, whatever has become of it.
SetState(p) ==
  /\ pc[p] \in {"confirm", "reject"}
  /\ Commit(p, job[p].id,
            [rows[job[p].id] EXCEPT !.state = IF pc[p] = "confirm" THEN "active" ELSE "dismissed"])
  /\ Finish(p, "idle")
  /\ UNCHANGED learning

\* forget_item: a tombstone whose cleanup is owed is only cleaned up; any other
\* row is blanked and marked in one transaction.
Owed(id) == rows[id].state = "dismissed" /\ rows[id].cleanup = "pending"
Forget(p) ==
  /\ pc[p] = "idle"
  /\ \E id \in Stored :
       /\ job' = [job EXCEPT ![p] = [NoJob EXCEPT !.id = id]]
       /\ IF Owed(id) THEN UNCHANGED <<table, overtaken>>
          ELSE Commit(p, id, [text |-> Blank, state |-> "dismissed", cleanup |-> "pending"])
  /\ Goto(p, "clean")
  /\ UNCHANGED learning

\* finish_cleanup: the checkpoint, then the mark.  Either may fail, and the row
\* stays pending.
Clean(p) ==
  /\ pc[p] = "clean"
  /\ \E outcome \in Outcome :
       /\ Fold(p, outcome)
       /\ IF outcome = "failed" THEN Finish(p, "idle") ELSE Goto(p, "mark") /\ UNCHANGED job
  /\ UNCHANGED <<rows, overtaken, learning>>

Mark(p) ==
  /\ pc[p] = "mark"
  /\ \/ Commit(p, job[p].id, [rows[job[p].id] EXCEPT !.cleanup = "complete"])
     \/ UNCHANGED <<table, overtaken>>
  /\ Finish(p, "idle")
  /\ UNCHANGED learning

-----------------------------------------------------------------------------
(* A turn with memory assisted: recall, the answer, the extraction.         *)

\* Recall supplies some of the live rows: ranked, bounded, or none at all when
\* the store does not answer.
Recall(p) ==
  /\ pc[p] = "idle" /\ p \in Assisted
  /\ \E ids \in SUBSET Live :
       supplied' = [supplied EXCEPT ![p] = {<<id, rows[id].text>> : id \in ids}]
  /\ Goto(p, "turn")
  /\ UNCHANGED <<table, job, overtaken, queue, misses, disabled>>

\* resolve_proposal: the user's word, if the prompt shows one, is filed active;
\* all else is a pending inference.
Proposal == {w \in Write : w.text \in Contents(w.id) /\ (w.state = "active") = (w.by = "user")}
\* Mutant: only an exact duplicate is dropped.
ExactEcho(p, w) == w.by = "model" /\ <<w.id, w.text>> \in supplied[p]
\* filter_anti_self_reinforcement.
Echo(p, w) ==
  /\ w.by = "model"
  /\ \/ <<w.id, w.text>> \in supplied[p]
     \/ w.id = Slot /\ \E f \in supplied[p] : f[1] = Slot

\* What the filter leaves of any reply: echo-free proposals, in order.
Kept(p) == {w \in Proposal : ~Echo(p, w)}
Extracted(p) == UNION {[1 .. n -> Kept(p)] : n \in 0 .. MaxProposals}

\* run_post_turn_extraction: the gate may decline, and a tripped breaker asks
\* for nothing.
Skip(p) ==
  /\ pc[p] = "turn"
  /\ Goto(p, "idle")
  /\ supplied' = [supplied EXCEPT ![p] = {}]
  /\ UNCHANGED <<table, job, overtaken, queue, misses, disabled>>

AsksAlways(p) == TRUE  \* mutant: the breaker is not asked
Asks(p) == ~disabled[p]
Extract(p) ==
  /\ pc[p] = "turn" /\ Asks(p)
  /\ \E proposals \in Extracted(p) : queue' = [queue EXCEPT ![p] = proposals]
  /\ Goto(p, "filing")
  /\ UNCHANGED <<table, job, overtaken, supplied, misses, disabled>>

\* No usable reply.  LearningBreaker::record: a second miss in a row turns
\* learning off; any other outcome starts the count again.
ExtractFails(p) ==
  /\ pc[p] = "turn" /\ Asks(p)
  /\ \/ /\ misses' = [misses EXCEPT ![p] = @ + 1]
        /\ disabled' = [disabled EXCEPT ![p] = @ \/ misses[p] + 1 = 2]
     \/ misses' = [misses EXCEPT ![p] = 0] /\ UNCHANGED disabled
  /\ supplied' = [supplied EXCEPT ![p] = {}]
  /\ Goto(p, "idle")
  /\ UNCHANGED <<table, job, overtaken, queue>>

\* ingest_proposals: one put after the other.
File(p) ==
  /\ pc[p] = "filing" /\ queue[p] # << >>
  /\ job' = [job EXCEPT ![p] = [Head(queue[p]) EXCEPT !.by = "model"]]
  /\ queue' = [queue EXCEPT ![p] = Tail(@)]
  /\ Goto(p, "put")
  /\ UNCHANGED <<table, overtaken, supplied, misses, disabled>>

FiledAll(p) ==
  /\ pc[p] = "filing" /\ queue[p] = << >>
  /\ misses' = [misses EXCEPT ![p] = 0]
  /\ supplied' = [supplied EXCEPT ![p] = {}]
  /\ Goto(p, "idle")
  /\ UNCHANGED <<table, job, overtaken, queue, disabled>>

-----------------------------------------------------------------------------
(* A process ends, wherever it is; the next one opens the store.            *)
Crash(p) ==
  /\ pc[p] # "down"
  /\ Goto(p, "down")
  /\ job' = [job EXCEPT ![p] = NoJob]
  /\ supplied' = [supplied EXCEPT ![p] = {}]
  /\ misses' = [misses EXCEPT ![p] = 0]
  /\ disabled' = [disabled EXCEPT ![p] = FALSE]
  /\ GiveUp(p)
  /\ overtaken' = overtaken \ {p}
  /\ UNCHANGED table

\* recover_pending_cleanup, at every open: count the marks owed, checkpoint,
\* mark whatever is pending by then.
OwedRows == {id \in Stored : rows[id].cleanup = "pending"}
Open(p) ==
  /\ pc[p] = "down"
  /\ Goto(p, IF OwedRows = {} THEN "idle" ELSE "recover")
  /\ UNCHANGED <<table, job, overtaken, learning>>

Recover(p) ==
  /\ pc[p] = "recover"
  /\ \E outcome \in Outcome :
       Fold(p, outcome) /\ Goto(p, IF outcome = "failed" THEN "idle" ELSE "settle")
  /\ UNCHANGED <<rows, job, overtaken, learning>>

Settle(p) ==
  /\ pc[p] = "settle"
  /\ rows' = [id \in Stored |-> [rows[id] EXCEPT !.cleanup = "complete"]]
  /\ overtaken' = IF OwedRows = {} THEN overtaken ELSE {q \in Process : pc[q] = "insert"}
  /\ Goto(p, "idle")
  /\ UNCHANGED <<sidecar, job, learning>>

Next == \E p \in Process :
  \/ Remember(p) \/ Count(p) \/ Insert(p) \/ PutFails(p) \/ PutFold(p)
  \/ Decide(p) \/ SetState(p) \/ Forget(p) \/ Clean(p) \/ Mark(p)
  \/ Recall(p) \/ Skip(p) \/ Extract(p) \/ ExtractFails(p) \/ File(p) \/ FiledAll(p)
  \/ Crash(p) \/ Open(p) \/ Recover(p) \/ Settle(p)
Spec == Init /\ [][Next]_vars

-----------------------------------------------------------------------------
\* Type correctness.  A row's text is one its slot may have, and an extraction
\* is never asked for after two misses in a row (LearningBreaker).
TypeOK ==
  /\ Stored \subseteq Id
  /\ \A id \in Stored : rows[id] \in Row /\ rows[id].text \in Contents(id) \cup {Blank}
  /\ sidecar \subseteq Facts
  /\ pc \in [Process -> {"idle", "put", "insert", "folding", "confirm", "reject", "clean", "mark",
                         "turn", "filing", "down", "recover", "settle"}]
  /\ \A p \in Process : job[p] \in Write \cup {[NoJob EXCEPT !.id = id] : id \in Id}
  /\ overtaken \subseteq {p \in Process : pc[p] = "insert"}
  /\ \A p \in Process : supplied[p] \subseteq Id \X (Text \cup {Blank})
  /\ misses \in [Process -> 0 .. 2]
  /\ disabled \in [Process -> BOOLEAN]

\* The multi-valued slot never has more rows than its bound, tombstones
\* counted, whoever else inserts between the count and the insert
\* (MAX_MULTI_SLOT_VALUES in insert_or_replace).
MultiSlotBounded == Cardinality(MultiRows) <= MaxMulti

\* A cleanup is owed only for a row without content.  forget_item does no more
\* than clean up when it finds a dismissed row whose cleanup is owed, so a row
\* that got content back and kept the mark could be "forgotten" with it.
OwedRowsAreBlank == \A id \in OwedRows : rows[id].text = Blank

\* What recall put in front of the model, the inferences of that turn leave as
\* it was: a fact cannot strengthen, replace or demote itself by being recalled
\* (filter_anti_self_reinforcement), however long the model took to answer.  A
\* blank row a confirm raced with forget to revive says nothing to echo.
Infers(p) == job[p].by = "model" /\ job[p].state = "pending" /\ pc[p] \in {"put", "insert"}
RecallLeavesNoEcho ==
  [][\A p \in Process : Infers(p) /\ pc'[p] = "folding" =>
       \A f \in supplied[p] :
         f[2] # Blank /\ f[1] \in Stored /\ rows[f[1]].text = f[2] => rows'[f[1]] = rows[f[1]]]_vars
=============================================================================
