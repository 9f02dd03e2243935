-------------------------- MODULE Knowledge_proofs --------------------------
(***************************************************************************)
(* The table's integrity for any number of processes, any texts and any    *)
(* bound on the multi-valued slot.                                         *)
(***************************************************************************)
EXTENDS Knowledge, FiniteSetTheorems, TLAPS

Stages == {"idle", "put", "insert", "folding", "confirm", "reject", "clean", "mark",
           "turn", "filing", "down", "recover", "settle"}
Jobs == Write \cup {[NoJob EXCEPT !.id = id] : id \in Id}

\* A row holds a text of its own, and owes a cleanup only when blank.
RowOK(id, row) ==
  /\ row \in Row /\ row.text \in Contents(id) \cup {Blank}
  /\ row.cleanup = "pending" => row.text = Blank

TableInv ==
  /\ Stored \subseteq Id
  /\ \A id \in Stored : RowOK(id, rows[id])
  /\ sidecar \subseteq Facts

\* What a process is about to write has a text its slot may have; a row it is
\* about to change was there when it looked, and rows are never deleted.
JobOK(p) ==
  /\ job[p] \in Jobs
  /\ pc[p] \in {"put", "insert", "folding"} =>
       job[p] \in Write /\ job[p].text \in Contents(job[p].id)
  /\ pc[p] = "insert" => job[p].id # Slot
  /\ pc[p] \in {"confirm", "reject", "clean", "mark"} => job[p].id \in Stored

ProcInv ==
  /\ pc \in [Process -> Stages]
  /\ DOMAIN job = Process
  /\ job = [p \in Process |-> job[p]]
  /\ \A p \in Process : JobOK(p)
  /\ overtaken \subseteq {p \in Process : pc[p] = "insert"}
  /\ queue \in [Process -> Seq(Proposal)]

TurnInv ==
  /\ supplied \in [Process -> SUBSET (Id \X (Text \cup {Blank}))]
  /\ misses \in [Process -> 0 .. 2]
  /\ disabled \in [Process -> BOOLEAN]
  /\ \A p \in Process : misses[p] = 2 => disabled[p]

\* A count that no commit has outdated is still right when its row goes in.
CountOK ==
  /\ IsFiniteSet(MultiRows)
  /\ MultiSlotBounded
  /\ \A p \in Process :
       pc[p] = "insert" /\ p \notin overtaken => job[p].id \in Stored \/ HasRoom

IInv == TableInv /\ ProcInv /\ TurnInv /\ CountOK

LEMMA FactsDef == \A id, text : <<id, text>> \in Facts <=> id \in Id /\ text \in Contents(id)
BY DEF Facts

LEMMA ContentsAreTexts == \A id \in Id : Contents(id) \subseteq Text
BY DEF Contents, Id

LEMMA NoJobIsJob == NoJob \in Jobs /\ \A id \in Id : [NoJob EXCEPT !.id = id] \in Jobs
<1>1. Slot \in Id /\ NoJob = [NoJob EXCEPT !.id = Slot]
  BY DEF Id, NoJob
<1> QED BY <1>1 DEF Jobs

LEMMA InitIInv == Init => IInv
<1> SUFFICES ASSUME Init PROVE IInv
  OBVIOUS
<1>1. Stored = {} /\ MultiRows = {}
  BY DEF Init, Stored, MultiRows
<1>2. TableInv
  BY <1>1 DEF Init, TableInv
<1>3. NoJob \in Jobs
  BY NoJobIsJob
<1>4. ProcInv
  <2>1. \A p \in Process : job[p] = NoJob /\ pc[p] = "idle"
    BY DEF Init
  <2>2. \A p \in Process : JobOK(p)
    BY <1>3, <2>1 DEF JobOK
  <2>3. queue \in [Process -> Seq(Proposal)]
    BY DEF Init
  <2> QED BY <2>2, <2>3 DEF Init, ProcInv, Stages
<1>5. TurnInv
  BY DEF Init, TurnInv
<1>6. CountOK
  <2>1. IsFiniteSet({}) /\ Cardinality({}) = 0
    BY FS_EmptySet
  <2> QED BY <1>1, <2>1, KnowledgeAssumption DEF Init, CountOK, MultiSlotBounded
<1> QED BY <1>2, <1>4, <1>5, <1>6 DEF IInv

-----------------------------------------------------------------------------
(* The table: what one commit of a well-formed row keeps.                  *)

LEMMA CommitTable ==
  ASSUME TableInv, NEW p \in Process, NEW id \in Id, NEW row, RowOK(id, row), Commit(p, id, row)
  PROVE  /\ TableInv'
         /\ Stored' = Stored \cup {id}
         /\ overtaken' = {q \in Process \ {p} : pc[q] = "insert"}
<1>1. Stored' = Stored \cup {id}
  BY DEF Commit, Stored
<1>2. \A i \in Stored' : RowOK(i, rows'[i])
  BY <1>1 DEF Commit, Stored, TableInv
<1>3. sidecar' \subseteq Facts
  BY FactsDef DEF Commit, TableInv, RowOK
<1>4. \A i \in Stored' : RowOK(i, rows[i])' 
  BY <1>2 DEF RowOK
<1> QED BY <1>1, <1>3, <1>4 DEF Commit, TableInv

\* Nobody's count survives a commit, so the bound is the writer's to keep.
LEMMA CommitCount ==
  ASSUME CountOK, NEW p \in Process, NEW id \in Id,
         Stored' = Stored \cup {id}, id \in Stored \/ id = Slot \/ HasRoom,
         overtaken' = {q \in Process \ {p} : pc[q] = "insert"},
         \A q \in Process \ {p} : pc'[q] = pc[q], pc'[p] # "insert"
  PROVE  CountOK'
<1>1. \A q \in Process : pc'[q] = "insert" => q \in overtaken'
  OBVIOUS
<1>2. IsFiniteSet(MultiRows') /\ Cardinality(MultiRows') <= MaxMulti
  <2>1. CASE id \in Stored \/ id = Slot
    <3>1. MultiRows' = MultiRows
      BY <2>1 DEF MultiRows
    <3> QED BY <3>1 DEF CountOK, MultiSlotBounded
  <2>2. CASE id \notin Stored /\ id # Slot
    <3>1. MultiRows' = MultiRows \cup {id} /\ HasRoom
      BY <2>2 DEF MultiRows
    <3>2. /\ IsFiniteSet(MultiRows \cup {id})
          /\ Cardinality(MultiRows \cup {id}) = Cardinality(MultiRows)
             \/ Cardinality(MultiRows \cup {id}) = Cardinality(MultiRows) + 1
      BY FS_AddElement DEF CountOK
    <3>3. Cardinality(MultiRows) \in Nat
      BY FS_CardinalityType DEF CountOK
    <3> QED BY <3>1, <3>2, <3>3, KnowledgeAssumption DEF HasRoom
  <2> QED BY <2>1, <2>2
<1> QED BY <1>1, <1>2 DEF CountOK, MultiSlotBounded

\* A step without a commit leaves the counts as they are.
LEMMA NoCommitCount ==
  ASSUME CountOK, Stored' = Stored,
         \A q \in Process : pc'[q] = "insert" /\ q \notin overtaken' =>
           \/ pc[q] = "insert" /\ q \notin overtaken /\ job'[q] = job[q]
           \/ job'[q].id \in Stored \/ HasRoom
  PROVE  CountOK'
BY DEF CountOK, MultiSlotBounded, MultiRows, HasRoom

\* One process moves; the others stay as they are.
LEMMA OneMoves ==
  ASSUME ProcInv, NEW p \in Process, NEW stage \in Stages, NEW work,
         Stored \subseteq Stored',
         pc' = [pc EXCEPT ![p] = stage], job' = [job EXCEPT ![p] = work],
         JobOK(p)',
         overtaken' \subseteq {q \in Process : pc'[q] = "insert"},
         queue' \in [Process -> Seq(Proposal)]
  PROVE  ProcInv'
<1>1. pc' \in [Process -> Stages]
  BY DEF ProcInv
<1>2. DOMAIN job' = Process /\ job' = [q \in Process |-> job'[q]]
  BY DEF ProcInv
<1>3. \A q \in Process \ {p} : pc'[q] = pc[q] /\ job'[q] = job[q]
  BY DEF ProcInv
<1>4. \A q \in Process : JobOK(q)'
  BY <1>3 DEF ProcInv, JobOK
<1> QED BY <1>1, <1>2, <1>4 DEF ProcInv

-----------------------------------------------------------------------------
(* The steps of a write.                                                   *)

\* A write's step ends and the process takes up what comes next.
LEMMA FinishMoves ==
  ASSUME ProcInv, NEW p \in Process, NEW stage \in {"idle", "filing"},
         Stored \subseteq Stored', Finish(p, stage),
         overtaken' \subseteq {q \in Process \ {p} : pc[q] = "insert"},
         queue' \in [Process -> Seq(Proposal)]
  PROVE  /\ ProcInv'
         /\ pc'[p] = stage
         /\ \A q \in Process \ {p} : pc'[q] = pc[q] /\ job'[q] = job[q]
<1>1. /\ pc' = [pc EXCEPT ![p] = stage] /\ job' = [job EXCEPT ![p] = NoJob]
      /\ pc \in [Process -> Stages] /\ DOMAIN job = Process
  BY DEF Finish, Goto, ProcInv
<1>2. pc'[p] = stage /\ job'[p] = NoJob
      /\ \A q \in Process \ {p} : pc'[q] = pc[q] /\ job'[q] = job[q]
  BY <1>1
<1>3. NoJob \in Jobs
  BY NoJobIsJob
<1>4. JobOK(p)'
  BY <1>2, <1>3 DEF JobOK
<1>5. overtaken' \subseteq {q \in Process : pc'[q] = "insert"}
  BY <1>2
<1>6. stage \in Stages
  BY DEF Stages
<1> QED BY <1>1, <1>2, <1>4, <1>5, <1>6, OneMoves

LEMMA GiveUpQueue ==
  ASSUME ProcInv, NEW p \in Process, GiveUp(p)
  PROVE  queue' \in [Process -> Seq(Proposal)]
BY DEF GiveUp, ProcInv

LEMMA CountStep == ASSUME IInv, NEW p \in Process, Count(p) PROVE IInv'
<1>1. TableInv' /\ TurnInv' /\ Stored' = Stored
  BY DEF Count, IInv, TableInv, TurnInv, table, Stored
<1>2. CASE job[p].id \in Stored \/ HasRoom
  <2>1. pc' = [pc EXCEPT ![p] = "insert"] /\ UNCHANGED <<job, queue, overtaken>> /\ pc[p] = "put"
        /\ job[p].id # Slot
    BY <1>2 DEF Count, Goto
  <2>2. pc'[p] = "insert" /\ \A q \in Process \ {p} : pc'[q] = pc[q]
    BY <2>1 DEF IInv, ProcInv
  <2>3. JobOK(p)'
    BY <2>1, <2>2 DEF IInv, ProcInv, JobOK
  <2>4. job' = [job EXCEPT ![p] = job[p]]
    BY <2>1 DEF IInv, ProcInv
  <2>5. ProcInv'
    BY <1>1, <2>1, <2>2, <2>3, <2>4, OneMoves, ZenonT(30) DEF IInv, ProcInv, Stages
  <2>6. CountOK'
    BY <1>1, <1>2, <2>1, <2>2, NoCommitCount DEF IInv
  <2> QED BY <1>1, <2>5, <2>6 DEF IInv
<1>3. CASE ~(job[p].id \in Stored \/ HasRoom)
  <2>1. Onward(p) /\ GiveUp(p) /\ pc[p] = "put" /\ UNCHANGED overtaken
    BY <1>3 DEF Count
  <2>2. ProcInv' /\ pc'[p] # "insert" /\ \A q \in Process \ {p} : pc'[q] = pc[q] /\ job'[q] = job[q]
    BY <1>1, <2>1, FinishMoves, GiveUpQueue, ZenonT(30) DEF Onward, IInv, ProcInv
  <2>3. CountOK'
    BY <1>1, <2>1, <2>2, NoCommitCount DEF IInv
  <2> QED BY <1>1, <2>2, <2>3 DEF IInv
<1> QED BY <1>2, <1>3

LEMMA InsertStep == ASSUME IInv, NEW p \in Process, Insert(p) PROVE IInv'
<1> DEFINE row == [text |-> job[p].text, state |-> job[p].state, cleanup |-> "complete"]
<1>1. /\ Commit(p, job[p].id, row)
      /\ pc' = [pc EXCEPT ![p] = "folding"] /\ UNCHANGED <<job, queue, supplied, misses, disabled>>
      /\ pc[p] \in {"put", "insert"}
  BY DEF Insert, Upsert, Goto, learning
<1>2. job[p] \in Write /\ job[p].text \in Contents(job[p].id)
  BY <1>1 DEF IInv, ProcInv, JobOK
<1>3. job[p].id \in Id /\ RowOK(job[p].id, row)
  BY <1>2 DEF RowOK, Row, Write, State
<1>4. TableInv' /\ Stored' = Stored \cup {job[p].id}
      /\ overtaken' = {q \in Process \ {p} : pc[q] = "insert"}
  BY <1>1, <1>3, CommitTable DEF IInv
<1>5. pc'[p] = "folding" /\ \A q \in Process \ {p} : pc'[q] = pc[q]
  BY <1>1 DEF IInv, ProcInv
<1>6. ProcInv'
  <2>1. JobOK(p)'
    BY <1>1, <1>2, <1>5 DEF IInv, ProcInv, JobOK
  <2>2. job' = [job EXCEPT ![p] = job[p]]
    BY <1>1 DEF IInv, ProcInv
  <2>3. overtaken' \subseteq {q \in Process : pc'[q] = "insert"}
    BY <1>4, <1>5
  <2> QED BY <1>1, <1>4, <2>1, <2>2, <2>3, OneMoves DEF IInv, ProcInv, Stages
<1>7. job[p].id \in Stored \/ job[p].id = Slot \/ HasRoom
  BY DEF Insert, Outdated, IInv, CountOK
<1>8. CountOK'
  BY <1>3, <1>4, <1>5, <1>7, CommitCount DEF IInv
<1>9. TurnInv'
  BY <1>1 DEF IInv, TurnInv
<1> QED BY <1>4, <1>6, <1>8, <1>9 DEF IInv

\* A checkpoint only empties the sidecar.
LEMMA FoldTable ==
  ASSUME TableInv, NEW p, NEW outcome \in Outcome, Fold(p, outcome), UNCHANGED rows
  PROVE  TableInv' /\ Stored' = Stored
<1>1. sidecar' \subseteq sidecar
  BY DEF Fold, Outcome
<1> QED BY <1>1 DEF TableInv, Stored

LEMMA PutEnds == ASSUME IInv, NEW p \in Process, PutFails(p) \/ PutFold(p) PROVE IInv'
<1>1. TableInv' /\ Stored' = Stored
  <2>1. CASE PutFails(p)
    BY <2>1 DEF PutFails, IInv, TableInv, table, Stored
  <2>2. CASE PutFold(p)
    BY <2>2, FoldTable DEF PutFold, IInv
  <2> QED BY <2>1, <2>2
<1>2. Onward(p) /\ overtaken' \subseteq {q \in Process \ {p} : pc[q] = "insert"}
      /\ overtaken \ {p} \subseteq overtaken'
  BY DEF PutFails, PutFold, IInv, ProcInv
<1>3. queue' \in [Process -> Seq(Proposal)]
  BY GiveUpQueue DEF PutFails, PutFold, IInv, ProcInv
<1>4. ProcInv' /\ pc'[p] # "insert" /\ \A q \in Process \ {p} : pc'[q] = pc[q] /\ job'[q] = job[q]
  BY <1>1, <1>2, <1>3, FinishMoves DEF Onward, IInv
<1>5. CountOK'
  BY <1>1, <1>2, <1>4, NoCommitCount DEF IInv
<1>6. TurnInv'
  BY DEF PutFails, PutFold, IInv, TurnInv
<1> QED BY <1>1, <1>4, <1>5, <1>6 DEF IInv

-----------------------------------------------------------------------------
(* The user's decisions.                                                   *)

\* A process moves on and commits nothing.
LEMMA MoveStep ==
  ASSUME IInv, NEW p \in Process, NEW stage \in Stages \ {"insert"}, NEW work \in Jobs,
         TableInv', TurnInv', Stored' = Stored,
         overtaken' \subseteq {q \in Process \ {p} : pc[q] = "insert"},
         overtaken \ {p} \subseteq overtaken',
         queue' \in [Process -> Seq(Proposal)],
         pc' = [pc EXCEPT ![p] = stage], job' = [job EXCEPT ![p] = work],
         stage \in {"put", "folding"} => work \in Write /\ work.text \in Contents(work.id),
         stage \in {"confirm", "reject", "clean", "mark"} => work.id \in Stored
  PROVE  IInv'
<1>1. pc'[p] = stage /\ job'[p] = work
      /\ \A q \in Process \ {p} : pc'[q] = pc[q] /\ job'[q] = job[q]
  BY DEF IInv, ProcInv
<1>2. JobOK(p)'
  BY <1>1 DEF JobOK
<1>3. overtaken' \subseteq {q \in Process : pc'[q] = "insert"}
  BY <1>1 DEF IInv, ProcInv
<1>4. ProcInv'
  BY <1>2, <1>3, OneMoves DEF IInv
<1>5. CountOK'
  BY <1>1, NoCommitCount DEF IInv
<1> QED BY <1>4, <1>5 DEF IInv

\* The common case: the table and the proposals stay as they are.
LEMMA BeginStep ==
  ASSUME IInv, NEW p \in Process, NEW stage \in Stages \ {"insert"}, NEW work \in Jobs,
         UNCHANGED <<table, overtaken, queue>>, TurnInv', pc[p] # "insert",
         pc' = [pc EXCEPT ![p] = stage], job' = [job EXCEPT ![p] = work],
         stage \in {"put", "folding"} => work \in Write /\ work.text \in Contents(work.id),
         stage \in {"confirm", "reject", "clean", "mark"} => work.id \in Stored
  PROVE  IInv'
<1>1. TableInv' /\ Stored' = Stored
  BY DEF IInv, TableInv, table, Stored
<1>2. overtaken' \subseteq {q \in Process \ {p} : pc[q] = "insert"} /\ overtaken \ {p} \subseteq overtaken'
      /\ queue' \in [Process -> Seq(Proposal)]
  BY DEF IInv, ProcInv
<1> QED BY <1>1, <1>2, MoveStep

\* A commit by a process that changes a row it has seen.
LEMMA ChangeStep ==
  ASSUME IInv, NEW p \in Process, NEW id \in Stored, NEW row, RowOK(id, row),
         Commit(p, id, row), UNCHANGED learning,
         NEW stage \in Stages \ {"put", "insert", "folding"}, NEW work \in Jobs,
         pc' = [pc EXCEPT ![p] = stage], job' = [job EXCEPT ![p] = work],
         stage \in {"confirm", "reject", "clean", "mark"} => work.id \in Stored
  PROVE  IInv'
<1>1. id \in Id
  BY DEF IInv, TableInv
<1>2. TableInv' /\ Stored' = Stored \cup {id}
      /\ overtaken' = {q \in Process \ {p} : pc[q] = "insert"}
  BY <1>1, CommitTable DEF IInv
<1>3. pc'[p] = stage /\ job'[p] = work
      /\ \A q \in Process \ {p} : pc'[q] = pc[q] /\ job'[q] = job[q]
  BY DEF IInv, ProcInv
<1>4. JobOK(p)'
  BY <1>2, <1>3 DEF JobOK
<1>5. overtaken' \subseteq {q \in Process : pc'[q] = "insert"}
  BY <1>2, <1>3
<1>6. queue' \in [Process -> Seq(Proposal)]
  BY DEF IInv, ProcInv, learning
<1>7. ProcInv'
  BY <1>2, <1>4, <1>5, <1>6, OneMoves DEF IInv
<1>8. CountOK'
  BY <1>1, <1>2, <1>3, CommitCount DEF IInv
<1>9. TurnInv'
  BY DEF IInv, TurnInv, learning
<1> QED BY <1>2, <1>7, <1>8, <1>9 DEF IInv

LEMMA RememberStep == ASSUME IInv, NEW p \in Process, Remember(p) PROVE IInv'
<1>1. PICK f \in Facts :
        job' = [job EXCEPT ![p] = [id |-> f[1], text |-> f[2], state |-> "active", by |-> "user"]]
  BY DEF Remember
<1> DEFINE work == [id |-> f[1], text |-> f[2], state |-> "active", by |-> "user"]
<1>2. f[1] \in Id /\ f[2] \in Contents(f[1])
  BY DEF Facts
<1>3. work \in Write /\ work.text \in Contents(work.id) /\ work \in Jobs
  BY <1>2, ContentsAreTexts DEF Write, Jobs
<1>4. TurnInv' /\ pc[p] # "insert" /\ pc' = [pc EXCEPT ![p] = "put"] /\ UNCHANGED <<table, overtaken, queue>>
  BY DEF Remember, Goto, IInv, TurnInv, learning
<1> QED BY <1>1, <1>3, <1>4, BeginStep DEF Stages

LEMMA DecideStep == ASSUME IInv, NEW p \in Process, Decide(p) PROVE IInv'
<1>1. PICK id \in Live :
        /\ job' = [job EXCEPT ![p] = [NoJob EXCEPT !.id = id]]
        /\ pc' = [pc EXCEPT ![p] = "confirm"] \/ pc' = [pc EXCEPT ![p] = "reject"]
  BY DEF Decide, Goto
<1>2. id \in Stored /\ id \in Id
  BY DEF Live, IInv, TableInv
<1>3. [NoJob EXCEPT !.id = id] \in Jobs /\ [NoJob EXCEPT !.id = id].id = id
  BY <1>2, NoJobIsJob DEF NoJob
<1>4. TurnInv' /\ pc[p] # "insert" /\ UNCHANGED <<table, overtaken, queue>>
  BY DEF Decide, IInv, TurnInv, learning
<1> QED BY <1>1, <1>2, <1>3, <1>4, BeginStep DEF Stages

LEMMA SetStateStep == ASSUME IInv, NEW p \in Process, SetState(p) PROVE IInv'
<1> DEFINE id == job[p].id
           row == [rows[id] EXCEPT !.state = IF pc[p] = "confirm" THEN "active" ELSE "dismissed"]
<1>1. Commit(p, id, row) /\ UNCHANGED learning /\ pc[p] \in {"confirm", "reject"}
      /\ pc' = [pc EXCEPT ![p] = "idle"] /\ job' = [job EXCEPT ![p] = NoJob]
  BY DEF SetState, Finish, Goto
<1>2. id \in Stored
  BY <1>1 DEF IInv, ProcInv, JobOK
<1>3. RowOK(id, rows[id])
  BY <1>2 DEF IInv, TableInv
<1>4. RowOK(id, row)
  BY <1>3 DEF RowOK, Row, State
<1> HIDE DEF id, row
<1> QED BY <1>1, <1>2, <1>4, NoJobIsJob, ChangeStep DEF Stages

LEMMA ForgetStep == ASSUME IInv, NEW p \in Process, Forget(p) PROVE IInv'
<1> DEFINE tombstone == [text |-> Blank, state |-> "dismissed", cleanup |-> "pending"]
<1>1. PICK id \in Stored :
        /\ job' = [job EXCEPT ![p] = [NoJob EXCEPT !.id = id]]
        /\ UNCHANGED <<table, overtaken>> \/ Commit(p, id, tombstone)
  BY DEF Forget
<1>2. pc' = [pc EXCEPT ![p] = "clean"] /\ pc[p] # "insert" /\ UNCHANGED learning
  BY DEF Forget, Goto
<1>3. id \in Id /\ [NoJob EXCEPT !.id = id] \in Jobs /\ [NoJob EXCEPT !.id = id].id = id
  BY NoJobIsJob DEF NoJob, IInv, TableInv
<1>4. RowOK(id, tombstone)
  BY DEF RowOK, Row, State
<1>5. TurnInv' /\ UNCHANGED queue
  BY <1>2 DEF IInv, TurnInv, learning
<1>6. CASE UNCHANGED <<table, overtaken>>
  BY <1>1, <1>2, <1>3, <1>5, <1>6, BeginStep DEF Stages
<1>7. CASE Commit(p, id, tombstone)
  <2> HIDE DEF tombstone
  <2> QED BY <1>1, <1>2, <1>3, <1>4, <1>7, ChangeStep DEF Stages
<1> QED BY <1>1, <1>6, <1>7

LEMMA JobStays == ASSUME ProcInv, NEW p \in Process, UNCHANGED job
                  PROVE  job' = [job EXCEPT ![p] = job[p]] /\ job[p] \in Jobs
BY DEF ProcInv, JobOK

LEMMA CleanStep == ASSUME IInv, NEW p \in Process, Clean(p) PROVE IInv'
<1>1. TableInv' /\ Stored' = Stored
  BY FoldTable DEF Clean, IInv
<1>2. TurnInv' /\ queue' \in [Process -> Seq(Proposal)] /\ UNCHANGED overtaken /\ pc[p] = "clean"
      /\ overtaken' \subseteq {q \in Process \ {p} : pc[q] = "insert"}
  BY DEF Clean, IInv, TurnInv, ProcInv, learning
<1>3. job[p].id \in Stored
  BY <1>2 DEF IInv, ProcInv, JobOK
<1>4. CASE Finish(p, "idle")
  <2>1. pc' = [pc EXCEPT ![p] = "idle"] /\ job' = [job EXCEPT ![p] = NoJob]
    BY <1>4 DEF Finish, Goto
  <2> QED BY <1>1, <1>2, <2>1, NoJobIsJob, MoveStep DEF Stages
<1>5. CASE Goto(p, "mark") /\ UNCHANGED job
  <2>1. job' = [job EXCEPT ![p] = job[p]] /\ job[p] \in Jobs
    BY <1>5, JobStays DEF IInv
  <2> QED BY <1>1, <1>2, <1>3, <1>5, <2>1, MoveStep DEF Stages, Goto
<1> QED BY <1>4, <1>5 DEF Clean

LEMMA MarkStep == ASSUME IInv, NEW p \in Process, Mark(p) PROVE IInv'
<1> DEFINE id == job[p].id
           row == [rows[id] EXCEPT !.cleanup = "complete"]
<1>1. pc[p] = "mark" /\ pc' = [pc EXCEPT ![p] = "idle"] /\ job' = [job EXCEPT ![p] = NoJob]
      /\ UNCHANGED learning
  BY DEF Mark, Finish, Goto
<1>2. id \in Stored
  BY <1>1 DEF IInv, ProcInv, JobOK
<1>3. RowOK(id, row)
  <2>1. RowOK(id, rows[id])
    BY <1>2 DEF IInv, TableInv
  <2> QED BY <2>1 DEF RowOK, Row
<1>4. CASE Commit(p, id, row)
  <2> HIDE DEF id, row
  <2> QED BY <1>1, <1>2, <1>3, <1>4, NoJobIsJob, ChangeStep DEF Stages
<1>5. CASE UNCHANGED <<table, overtaken>>
  <2>1. TurnInv' /\ UNCHANGED queue
    BY <1>1 DEF IInv, TurnInv, learning
  <2> QED BY <1>1, <1>5, <2>1, NoJobIsJob, BeginStep DEF Stages
<1> QED BY <1>4, <1>5 DEF Mark

-----------------------------------------------------------------------------
(* The turn and the process's life.                                        *)

LEMMA RecallStep == ASSUME IInv, NEW p \in Process, Recall(p) PROVE IInv'
<1>1. PICK ids \in SUBSET Live : supplied' = [supplied EXCEPT ![p] = {<<id, rows[id].text>> : id \in ids}]
  BY DEF Recall
<1>2. {<<id, rows[id].text>> : id \in ids} \subseteq Id \X (Text \cup {Blank})
  <2>1. \A id \in ids : id \in Id /\ rows[id].text \in Text \cup {Blank}
    BY ContentsAreTexts DEF Live, IInv, TableInv, RowOK
  <2> QED BY <2>1
<1>3. TurnInv'
  BY <1>1, <1>2 DEF Recall, IInv, TurnInv
<1>4. pc[p] # "insert" /\ pc' = [pc EXCEPT ![p] = "turn"] /\ UNCHANGED <<table, job, overtaken, queue>>
  BY DEF Recall, Goto
<1> QED BY <1>3, <1>4, JobStays, BeginStep DEF Stages, IInv

LEMMA SkipStep == ASSUME IInv, NEW p \in Process, Skip(p) \/ ExtractFails(p) \/ FiledAll(p) PROVE IInv'
<1>1. /\ pc[p] # "insert" /\ pc' = [pc EXCEPT ![p] = "idle"]
      /\ UNCHANGED <<table, job, overtaken, queue>>
  BY DEF Skip, ExtractFails, FiledAll, Goto
<1>2. TurnInv'
  <2>1. CASE Skip(p)
    BY <2>1 DEF Skip, IInv, TurnInv
  <2>2. CASE FiledAll(p)
    BY <2>2 DEF FiledAll, IInv, TurnInv
  <2>3. CASE ExtractFails(p)
    <3>1. misses[p] \in 0 .. 1
      BY <2>3 DEF ExtractFails, Asks, IInv, TurnInv
    <3>2. supplied' \in [Process -> SUBSET (Id \X (Text \cup {Blank}))]
      BY <2>3 DEF ExtractFails, IInv, TurnInv
    <3>3. CASE misses' = [misses EXCEPT ![p] = @ + 1]
               /\ disabled' = [disabled EXCEPT ![p] = @ \/ misses[p] + 1 = 2]
      <4>1. misses' \in [Process -> 0 .. 2] /\ disabled' \in [Process -> BOOLEAN]
        BY <3>1, <3>3 DEF IInv, TurnInv
      <4>2. \A q \in Process : misses'[q] = 2 => disabled'[q]
        BY <3>1, <3>3 DEF IInv, TurnInv
      <4> QED BY <3>2, <4>1, <4>2 DEF TurnInv
    <3>4. CASE misses' = [misses EXCEPT ![p] = 0] /\ UNCHANGED disabled
      BY <3>2, <3>4 DEF IInv, TurnInv
    <3> QED BY <2>3, <3>3, <3>4 DEF ExtractFails
  <2> QED BY <2>1, <2>2, <2>3
<1> QED BY <1>1, <1>2, JobStays, BeginStep DEF Stages, IInv

LEMMA ExtractStep == ASSUME IInv, NEW p \in Process, Extract(p) PROVE IInv'
<1>1. PICK proposals \in Extracted(p) : queue' = [queue EXCEPT ![p] = proposals]
  BY DEF Extract
<1>2. proposals \in Seq(Proposal)
  BY KnowledgeAssumption DEF Extracted, Kept
<1>3. queue' \in [Process -> Seq(Proposal)]
  BY <1>1, <1>2 DEF IInv, ProcInv
<1>4. pc[p] = "turn" /\ pc' = [pc EXCEPT ![p] = "filing"] /\ UNCHANGED <<table, job, overtaken>>
  BY DEF Extract, Goto
<1>5. TurnInv' /\ TableInv' /\ Stored' = Stored
  BY DEF Extract, IInv, TurnInv, TableInv, table, Stored
<1>6. overtaken' \subseteq {q \in Process \ {p} : pc[q] = "insert"}
  BY <1>4 DEF IInv, ProcInv
<1> QED BY <1>3, <1>4, <1>5, <1>6, JobStays, MoveStep DEF Stages, IInv

LEMMA FileStep == ASSUME IInv, NEW p \in Process, File(p) PROVE IInv'
<1> DEFINE work == [Head(queue[p]) EXCEPT !.by = "model"]
<1>1. queue[p] # << >> /\ queue[p] \in Seq(Proposal)
  BY DEF File, IInv, ProcInv
<1>2. Head(queue[p]) \in Proposal /\ Tail(queue[p]) \in Seq(Proposal)
  BY <1>1
<1>3. work \in Write /\ work.text \in Contents(work.id) /\ work \in Jobs
  BY <1>2 DEF Proposal, Write, Jobs
<1>4. queue' \in [Process -> Seq(Proposal)]
  BY <1>2 DEF File, IInv, ProcInv
<1>5. TurnInv' /\ TableInv' /\ Stored' = Stored
  BY DEF File, IInv, TurnInv, TableInv, table, Stored
<1>6. pc[p] = "filing" /\ pc' = [pc EXCEPT ![p] = "put"] /\ job' = [job EXCEPT ![p] = work] /\ UNCHANGED overtaken
  BY DEF File, Goto
<1>7. overtaken' \subseteq {q \in Process \ {p} : pc[q] = "insert"}
  BY <1>6 DEF IInv, ProcInv
<1> HIDE DEF work
<1> QED BY <1>3, <1>4, <1>5, <1>6, <1>7, MoveStep DEF Stages

LEMMA CrashStep == ASSUME IInv, NEW p \in Process, Crash(p) PROVE IInv'
<1>1. pc' = [pc EXCEPT ![p] = "down"] /\ job' = [job EXCEPT ![p] = NoJob] /\ overtaken' = overtaken \ {p}
  BY DEF Crash, Goto
<1>2. TableInv' /\ Stored' = Stored
  BY DEF Crash, IInv, TableInv, table, Stored
<1>3. TurnInv'
  BY DEF Crash, IInv, TurnInv
<1>4. queue' \in [Process -> Seq(Proposal)]
  BY GiveUpQueue DEF Crash, IInv
<1>5. overtaken' \subseteq {q \in Process \ {p} : pc[q] = "insert"}
  BY <1>1 DEF IInv, ProcInv
<1> QED BY <1>1, <1>2, <1>3, <1>4, <1>5, NoJobIsJob, MoveStep DEF Stages

LEMMA OpenStep == ASSUME IInv, NEW p \in Process, Open(p) PROVE IInv'
<1>1. PICK stage \in {"idle", "recover"} : pc' = [pc EXCEPT ![p] = stage]
  BY DEF Open, Goto
<1>2. pc[p] = "down" /\ UNCHANGED <<table, job, overtaken, queue>> /\ TurnInv'
  BY DEF Open, IInv, TurnInv, learning
<1> QED BY <1>1, <1>2, JobStays, BeginStep DEF Stages, IInv

LEMMA RecoverStep == ASSUME IInv, NEW p \in Process, Recover(p) PROVE IInv'
<1>1. PICK stage \in {"idle", "settle"} : pc' = [pc EXCEPT ![p] = stage]
  BY DEF Recover, Goto
<1>2. TableInv' /\ Stored' = Stored
  BY FoldTable DEF Recover, IInv
<1>3. pc[p] = "recover" /\ UNCHANGED <<job, overtaken>> /\ TurnInv' /\ queue' \in [Process -> Seq(Proposal)]
  BY DEF Recover, IInv, TurnInv, ProcInv, learning
<1>4. overtaken' \subseteq {q \in Process \ {p} : pc[q] = "insert"}
  BY <1>3 DEF IInv, ProcInv
<1> QED BY <1>1, <1>2, <1>3, <1>4, JobStays, MoveStep DEF Stages, IInv

LEMMA SettleStep == ASSUME IInv, NEW p \in Process, Settle(p) PROVE IInv'
<1>1. /\ rows' = [id \in Stored |-> [rows[id] EXCEPT !.cleanup = "complete"]]
      /\ pc[p] = "settle" /\ pc' = [pc EXCEPT ![p] = "idle"] /\ UNCHANGED <<sidecar, job, learning>>
  BY DEF Settle, Goto
<1>2. Stored' = Stored
  BY <1>1 DEF Stored
<1>3. \A id \in Stored : RowOK(id, rows'[id])
  BY <1>1 DEF IInv, TableInv, RowOK, Row
<1>4. \A id \in Stored' : RowOK(id, rows[id])'
  BY <1>2, <1>3 DEF RowOK
<1>5. TableInv'
  BY <1>1, <1>2, <1>4 DEF IInv, TableInv
<1>6. overtaken' \subseteq {q \in Process \ {p} : pc[q] = "insert"} /\ overtaken \ {p} \subseteq overtaken'
  BY <1>1 DEF Settle, IInv, ProcInv
<1>7. TurnInv' /\ queue' \in [Process -> Seq(Proposal)]
  BY <1>1 DEF IInv, TurnInv, ProcInv, learning
<1> QED BY <1>1, <1>2, <1>5, <1>6, <1>7, JobStays, MoveStep DEF Stages, IInv

LEMMA NextIInv == IInv /\ [Next]_vars => IInv'
<1>1. ASSUME IInv, UNCHANGED vars PROVE IInv'
  <2>1. TableInv' /\ TurnInv' /\ Stored' = Stored
    BY <1>1 DEF vars, IInv, TableInv, TurnInv, Stored
  <2>2. ProcInv'
    BY <1>1, <2>1 DEF vars, IInv, ProcInv, JobOK
  <2>3. CountOK'
    BY <1>1, <2>1, NoCommitCount DEF vars, IInv
  <2> QED BY <2>1, <2>2, <2>3 DEF IInv
<1> QED
  BY <1>1, CountStep, InsertStep, PutEnds, RememberStep, DecideStep, SetStateStep, ForgetStep, CleanStep,
     MarkStep, RecallStep, SkipStep, ExtractStep, FileStep, CrashStep, OpenStep, RecoverStep, SettleStep
     DEF Next

LEMMA SpecIInv == Spec => []IInv
BY InitIInv, NextIInv, PTL DEF Spec

-----------------------------------------------------------------------------
\* Rows, jobs and the learning breaker are well formed: no text lands in a
\* slot it does not belong to, and two misses in a row end the asking.
THEOREM KnowledgeTypes == Spec => []TypeOK
<1>1. IInv => TypeOK
  <2> SUFFICES ASSUME IInv PROVE TypeOK
    OBVIOUS
  <2>1. \A p \in Process : supplied[p] \subseteq Id \X (Text \cup {Blank})
    BY DEF IInv, TurnInv
  <2> QED BY <2>1 DEF IInv, TableInv, ProcInv, TurnInv, RowOK, JobOK, Jobs, Stages, TypeOK
<1> QED BY <1>1, SpecIInv, PTL

\* However many processes race to remember or to learn, the multi-valued slot
\* keeps to its bound: a count another commit outdated is never acted on.
THEOREM SlotIsBounded == Spec => []MultiSlotBounded
<1>1. IInv => MultiSlotBounded
  BY DEF IInv, CountOK
<1> QED BY <1>1, SpecIInv, PTL

\* A row that owes a cleanup is blank, so cleaning it up again forgets it.
THEOREM OwedAreBlank == Spec => []OwedRowsAreBlank
<1>1. IInv => OwedRowsAreBlank
  BY DEF IInv, TableInv, RowOK, OwedRows, OwedRowsAreBlank
<1> QED BY <1>1, SpecIInv, PTL

-----------------------------------------------------------------------------
(* Recall leaves no echo.                                                  *)

\* While a turn's proposals are being filed, nothing still queued and no
\* inference about to be written repeats what recall supplied; and a supplied
\* fact's text is one its slot may have.
Filing(p) ==
  \/ pc[p] = "filing"
  \/ pc[p] \in {"put", "insert", "folding"} /\ job[p].by = "model"
Fresh(p) ==
  /\ \A f \in supplied[p] : f[2] # Blank => f[2] \in Contents(f[1])
  /\ Filing(p) => \A i \in 1 .. Len(queue[p]) : ~Echo(p, queue[p][i])
  /\ Infers(p) => ~Echo(p, job[p])
EchoInv == \A p \in Process : Fresh(p)

LEMMA InitEcho == Init => EchoInv
BY DEF Init, EchoInv, Fresh, Filing, Infers

\* A process that stays as it is stays fresh, and only one moves at a time.
LEMMA OthersStay ==
  ASSUME IInv, EchoInv, NEW p \in Process, NEW stage,
         Goto(p, stage), \A q \in Process \ {p} :
           job'[q] = job[q] /\ supplied'[q] = supplied[q] /\ queue'[q] = queue[q],
         Fresh(p)'
  PROVE  EchoInv'
<1>1. \A q \in Process \ {p} : pc'[q] = pc[q]
  BY DEF Goto, IInv, ProcInv
<1>2. ASSUME NEW q \in Process \ {p} PROVE Fresh(q)'
  BY <1>1, <1>2, SMTT(30) DEF EchoInv, Fresh, Filing, Infers, Echo
<1> QED BY <1>2 DEF EchoInv

\* At a stage with nothing to file only the supplied facts matter.
LEMMA NothingFiled ==
  ASSUME NEW p \in Process, pc'[p] \notin {"put", "insert", "folding", "filing"},
         supplied'[p] = {} \/ (Fresh(p) /\ supplied'[p] = supplied[p])
  PROVE  Fresh(p)'
BY DEF Fresh, Filing, Infers

LEMMA UserSteps ==
  ASSUME IInv, EchoInv, NEW p \in Process,
         \/ Remember(p) \/ Decide(p) \/ SetState(p) \/ Forget(p) \/ Clean(p) \/ Mark(p)
         \/ Open(p) \/ Recover(p) \/ Settle(p)
  PROVE  EchoInv'
<1>1. UNCHANGED learning /\ \A q \in Process \ {p} : job'[q] = job[q]
  BY DEF Remember, Decide, SetState, Forget, Clean, Mark, Open, Recover, Settle, Finish, IInv, ProcInv
<1>2. PICK stage \in Stages : Goto(p, stage)
  BY DEF Remember, Decide, SetState, Forget, Clean, Mark, Open, Recover, Settle, Finish, Stages
<1>3. pc'[p] = stage
  BY <1>2 DEF Goto, IInv, ProcInv
<1>4. Fresh(p)'
  <2>1. CASE Remember(p)
    <3>1. pc'[p] = "put" /\ job'[p].by = "user"
      BY <2>1 DEF Remember, Goto, IInv, ProcInv
    <3> QED BY <1>1, <3>1 DEF EchoInv, Fresh, Filing, Infers, learning
  <2>2. CASE ~Remember(p)
    <3>1. pc'[p] \in Stages \ {"put", "insert", "folding", "filing"}
      BY <2>2 DEF Decide, SetState, Forget, Clean, Mark, Open, Recover, Settle, Finish, Goto,
                  IInv, ProcInv, Stages
    <3> QED BY <1>1, <3>1, NothingFiled DEF EchoInv, learning
  <2> QED BY <2>1, <2>2
<1> QED BY <1>1, <1>2, <1>4, OthersStay DEF learning

LEMMA TurnSteps ==
  ASSUME IInv, EchoInv, NEW p \in Process,
         Recall(p) \/ Skip(p) \/ ExtractFails(p) \/ FiledAll(p) \/ Crash(p)
  PROVE  EchoInv'
<1>1. \A q \in Process \ {p} :
        job'[q] = job[q] /\ supplied'[q] = supplied[q] /\ queue'[q] = queue[q]
  BY DEF Recall, Skip, ExtractFails, FiledAll, Crash, GiveUp, IInv, ProcInv, TurnInv
<1>2. PICK stage \in {"turn", "idle", "down"} : Goto(p, stage)
  BY DEF Recall, Skip, ExtractFails, FiledAll, Crash
<1>3. pc'[p] = stage
  BY <1>2 DEF Goto, IInv, ProcInv
<1>4. Fresh(p)'
  <2>1. CASE Recall(p)
    <3>1. PICK ids \in SUBSET Live : supplied'[p] = {<<id, rows[id].text>> : id \in ids}
      BY <2>1 DEF Recall, IInv, TurnInv
    <3>2. \A id \in ids : rows[id].text \in Contents(id) \cup {Blank}
      BY DEF Live, IInv, TableInv, RowOK
    <3>3. \A f \in supplied'[p] : f[2] # Blank => f[2] \in Contents(f[1])
      BY <3>1, <3>2
    <3> QED BY <1>3, <3>3 DEF Fresh, Filing, Infers
  <2>2. CASE ~Recall(p)
    <3>1. supplied'[p] = {}
      BY <2>2 DEF Skip, ExtractFails, FiledAll, Crash, IInv, TurnInv
    <3> QED BY <1>3, <3>1, NothingFiled
  <2> QED BY <2>1, <2>2
<1> QED BY <1>1, <1>2, <1>4, OthersStay

LEMMA ExtractEcho == ASSUME IInv, EchoInv, NEW p \in Process, Extract(p) PROVE EchoInv'
<1>1. PICK proposals \in Extracted(p) : queue' = [queue EXCEPT ![p] = proposals]
  BY DEF Extract
<1>2. proposals \in Seq(Kept(p))
  BY KnowledgeAssumption DEF Extracted
<1>3. queue'[p] = proposals /\ pc'[p] = "filing" /\ UNCHANGED supplied /\ Goto(p, "filing")
      /\ \A q \in Process \ {p} : queue'[q] = queue[q] /\ job'[q] = job[q]
  BY <1>1 DEF Extract, Goto, IInv, ProcInv
<1>4. \A i \in 1 .. Len(proposals) : ~Echo(p, proposals[i])
  BY <1>2 DEF Kept
<1>5. Fresh(p)'
  BY <1>3, <1>4 DEF EchoInv, Fresh, Filing, Infers, Echo
<1> QED BY <1>3, <1>5, OthersStay

\* A proposal taken off the queue is the next job; an inference among them was
\* the model's before it was filed as the model's.
LEMMA FileEcho == ASSUME IInv, EchoInv, NEW p \in Process, File(p) PROVE EchoInv'
<1> DEFINE work == [Head(queue[p]) EXCEPT !.by = "model"]
<1>1. queue[p] # << >> /\ queue[p] \in Seq(Proposal) /\ pc[p] = "filing"
  BY DEF File, IInv, ProcInv
<1>2. queue'[p] = Tail(queue[p]) /\ job'[p] = work /\ pc'[p] = "put" /\ UNCHANGED supplied
      /\ Goto(p, "put")
      /\ \A q \in Process \ {p} : queue'[q] = queue[q] /\ job'[q] = job[q]
  BY DEF File, Goto, IInv, ProcInv
<1>3. \A i \in 1 .. Len(queue[p]) : ~Echo(p, queue[p][i])
  BY <1>1 DEF EchoInv, Fresh, Filing
<1>4. \A i \in 1 .. Len(queue'[p]) : ~Echo(p, queue'[p][i])
  <2>1. \A i \in 1 .. Len(Tail(queue[p])) :
          i + 1 \in 1 .. Len(queue[p]) /\ Tail(queue[p])[i] = queue[p][i + 1]
    BY <1>1
  <2> QED BY <1>2, <1>3, <2>1
<1>5. work.state = "pending" => ~Echo(p, work)
  <2>1. Head(queue[p]) \in Proposal /\ ~Echo(p, Head(queue[p]))
    BY <1>1, <1>3
  <2>2. work.state = "pending" => work = Head(queue[p])
    BY <2>1 DEF Proposal, Write
  <2> QED BY <2>1, <2>2
<1> HIDE DEF work
<1>6. Fresh(p)'
  BY <1>2, <1>4, <1>5 DEF EchoInv, Fresh, Filing, Infers, Echo
<1> QED BY <1>2, <1>6, OthersStay

\* A write's own steps change neither the facts nor the job, and shorten the
\* queue only to nothing.
LEMMA WriteEcho ==
  ASSUME IInv, EchoInv, NEW p \in Process, Count(p) \/ Insert(p) \/ PutFails(p) \/ PutFold(p)
  PROVE  EchoInv'
<1>1. /\ pc[p] \in {"put", "insert", "folding"}
      /\ UNCHANGED supplied
      /\ UNCHANGED queue \/ GiveUp(p)
      /\ \/ \E stage \in {"insert", "folding"} : Goto(p, stage) /\ UNCHANGED <<job, queue>>
         \/ Onward(p)
  BY DEF Count, Insert, PutFails, PutFold, learning
<1>2. /\ \A q \in Process \ {p} : queue'[q] = queue[q] /\ job'[q] = job[q]
      /\ queue'[p] = queue[p] \/ queue'[p] = << >>
  BY <1>1 DEF GiveUp, Onward, Finish, IInv, ProcInv
<1>3. CASE \E stage \in {"insert", "folding"} : Goto(p, stage) /\ UNCHANGED <<job, queue>>
  <2>1. PICK stage \in {"insert", "folding"} : Goto(p, stage) /\ UNCHANGED <<job, queue>>
    BY <1>3
  <2>2. pc'[p] = stage
    BY <2>1 DEF Goto, IInv, ProcInv
  <2>3. Infers(p)' => Infers(p)
    BY <1>1, <2>1, <2>2 DEF Count, Insert, PutFails, PutFold, Infers, Onward, Finish, Goto
  <2>4. Fresh(p)'
    BY <1>1, <2>1, <2>2, <2>3 DEF EchoInv, Fresh, Filing, Echo
  <2> QED BY <1>1, <1>2, <2>1, <2>4, OthersStay
<1>4. CASE Onward(p)
  <2>1. PICK stage \in {"idle", "filing"} :
          Goto(p, stage) /\ (stage = "filing" => job[p].by = "model")
    BY <1>4 DEF Onward, Finish
  <2>2. pc'[p] = stage
    BY <2>1 DEF Goto, IInv, ProcInv
  <2>3. stage = "filing" => \A i \in 1 .. Len(queue'[p]) : ~Echo(p, queue'[p][i])
    <3>1. stage = "filing" => \A i \in 1 .. Len(queue[p]) : ~Echo(p, queue[p][i])
      BY <1>1, <2>1 DEF EchoInv, Fresh, Filing
    <3>2. CASE queue'[p] = queue[p]
      BY <3>1, <3>2
    <3>3. CASE queue'[p] = << >>
      BY <3>3
    <3> QED BY <1>2, <3>2, <3>3
  <2>4. Fresh(p)'
    BY <1>1, <2>2, <2>3 DEF EchoInv, Fresh, Filing, Infers, Echo
  <2> QED BY <1>1, <1>2, <2>1, <2>4, OthersStay
<1> QED BY <1>1, <1>3, <1>4

LEMMA NextEcho == IInv /\ EchoInv /\ [Next]_vars => EchoInv'
<1>1. ASSUME EchoInv, UNCHANGED vars PROVE EchoInv'
  BY <1>1 DEF vars, EchoInv, Fresh, Filing, Infers, Echo
<1> QED BY <1>1, UserSteps, TurnSteps, ExtractEcho, FileEcho, WriteEcho DEF Next

LEMMA SpecEcho == Spec => [](IInv /\ EchoInv)
BY InitIInv, NextIInv, InitEcho, NextEcho, PTL DEF Spec

\* An inference that is written writes one row, and that row is not one of
\* those whose text the prompt showed.
LEMMA InferenceIsNew ==
  ASSUME IInv, EchoInv, [Next]_vars, NEW p \in Process, Infers(p), pc'[p] = "folding",
         NEW f \in supplied[p], f[2] # Blank, f[1] \in Stored
  PROVE  rows'[f[1]] = rows[f[1]]
<1>1. Insert(p)
  <2>1. PICK q \in Process :
          \/ Remember(q) \/ Count(q) \/ Insert(q) \/ PutFails(q) \/ PutFold(q)
          \/ Decide(q) \/ SetState(q) \/ Forget(q) \/ Clean(q) \/ Mark(q)
          \/ Recall(q) \/ Skip(q) \/ Extract(q) \/ ExtractFails(q) \/ File(q) \/ FiledAll(q)
          \/ Crash(q) \/ Open(q) \/ Recover(q) \/ Settle(q)
    BY DEF Infers, Next, vars
  <2>2. PICK stage \in Stages : Goto(q, stage) /\ (stage = "folding" => Insert(q))
    BY <2>1 DEF Remember, Count, Insert, PutFails, PutFold, Decide, SetState, Forget, Clean, Mark,
                Recall, Skip, Extract, ExtractFails, File, FiledAll, Crash, Open, Recover, Settle,
                Onward, Finish, Stages
  <2>3. q = p /\ stage = "folding"
    BY <2>2 DEF Goto, Infers, IInv, ProcInv
  <2> QED BY <2>2, <2>3
<1>2. job[p] \in Write /\ job[p].text \in Contents(job[p].id) /\ ~Echo(p, job[p]) /\ job[p].by = "model"
  BY DEF Infers, IInv, ProcInv, JobOK, EchoInv, Fresh
<1>3. f[2] \in Contents(f[1]) /\ f = <<f[1], f[2]>>
  BY DEF EchoInv, Fresh, IInv, TurnInv
<1>4. f[1] # job[p].id
  BY <1>2, <1>3 DEF Echo, Contents
<1> QED BY <1>1, <1>4 DEF Insert, Upsert, Commit

\* What recall put in front of the model, the inferences of that turn leave as
\* it was, for any number of processes that write meanwhile
\* (filter_anti_self_reinforcement).
THEOREM NoEcho == Spec => RecallLeavesNoEcho
<1>1. IInv /\ EchoInv /\ [Next]_vars =>
        \A p \in Process : Infers(p) /\ pc'[p] = "folding" =>
          \A f \in supplied[p] :
            f[2] # Blank /\ f[1] \in Stored /\ rows[f[1]].text = f[2] => rows'[f[1]] = rows[f[1]]
  BY InferenceIsNew
<1> QED BY <1>1, SpecEcho, PTL DEF Spec, RecallLeavesNoEcho
=============================================================================
