------------------------------ MODULE Download ------------------------------
(***************************************************************************)
(* `http_download`: bounded, resumable downloads into the run workspace.   *)
(* The calls of one assistant turn run concurrently, on one task: another  *)
(* call gets its turn only where this one awaits the network, so each      *)
(* action below is what one call does between two awaits.                  *)
(*                                                                         *)
(* A destination d has three names on disk: d itself, its part file and    *)
(* its sidecar.  A file is the sequence of its blocks; a digest is the     *)
(* sequence it digests, so equal digests mean equal bytes.                 *)
(***************************************************************************)
EXTENDS Integers, Sequences, FiniteSets

CONSTANTS
  Call,      \* tool calls that may run at the same time
  Path,      \* destinations in the workspace
  Url,       \* the resources: their bodies do not change
  BodyLen,   \* how many blocks the body of each has
  MaxChunk,  \* blocks the network may deliver at once
  MaxFile,   \* DownloadLimits::max_file_bytes, in blocks
  Limit,     \* the run's DownloadBudget, in blocks
  MaxFaults, \* bound on crashes, refused writes and changed parts
  Absent     \* no such file, record, plan or report

ASSUME BodyAssumption == BodyLen \in [Url -> Nat \ {0}] /\ MaxChunk \in Nat \ {0}
ASSUME BoundAssumption == MaxFile \in Nat /\ Limit \in Nat /\ MaxFaults \in Nat

VARIABLES
  dest, part, sidecar,  \* the files of each destination
  call,      \* each call: where it stands, its arguments, its session
  report,    \* what the step just taken returned to its caller, or Absent
  consumed, tripped,  \* the wallet
  journaled, \* the level the journal holds
  due,       \* the next tick of the sink has not come yet
  raced,     \* destinations two calls were at work on at the same time
  clobbered, \* destinations whose part another tool has changed
  spent,     \* blocks the run has fetched, but those a crash kept from its journal
  faults
disk == <<dest, part, sidecar>>
wallet == <<consumed, tripped>>
record == <<journaled, due>>
ghost == <<raced, clobbered, spent>>
vars == <<disk, call, report, wallet, record, ghost, faults>>

Working == {c \in Call : call[c].at # "idle"}

Body(u) == [i \in 1 .. BodyLen[u] |-> <<u, i>>]
Hole == << >>   \* what a file reads where nothing was written

Resize(s, n) == [i \in 1 .. n |-> IF i <= Len(s) THEN s[i] ELSE Hole]
\* n blocks of u, its blocks total + 1 .. total + n, written behind offset.
Write(s, offset, u, total, n) ==
  [i \in 1 .. (IF offset + n > Len(s) THEN offset + n ELSE Len(s)) |->
     IF i \in offset + 1 .. offset + n THEN <<u, total + i - offset>>
     ELSE IF i <= Len(s) THEN s[i] ELSE Hole]

Fault == faults < MaxFaults /\ faults' = faults + 1
NoFault == UNCHANGED faults

\* plan: the verified prefix to resume from, or Absent.  file: the name the
\* open file goes by now.  append: it was opened for appending.  hashed: what
\* the hasher has been fed; the session's total is its length.
Idle == [at |-> "idle", path |-> Absent, url |-> Absent, plan |-> Absent,
         file |-> "gone", append |-> FALSE, hashed |-> << >>]
Total(c) == Len(call[c].hashed)

\* The call goes on; or it returns to its caller.
Continue(c, session) == call' = [call EXCEPT ![c] = session] /\ report' = Absent
Return(c, outcome) ==
  /\ call' = [call EXCEPT ![c] = Idle]
  /\ report' = [is |-> outcome, path |-> call[c].path, digest |-> << >>]

-----------------------------------------------------------------------------

\* Mutant: the recorded length is compared, the bytes are not read back.
VerifyLength(meta, p) ==
  IF p = Absent THEN "missing"
  ELSE IF Len(p) < Len(meta.bytes) THEN "mismatch" ELSE "verified"

\* verify_resume on a sidecar for the requested URL: a missing part, a part
\* that does not begin with the digested bytes, or a prefix to go on from.
Verify(meta, p) ==
  IF p = Absent THEN "missing"
  ELSE IF Len(p) < Len(meta.bytes) \/ SubSeq(p, 1, Len(meta.bytes)) # meta.bytes
       THEN "mismatch" ELSE "verified"

\* http_download up to its first await: load_meta and, for a sidecar of this
\* URL, verify_resume, which may refuse.
Start(c, d, u) ==
  /\ c \notin Working /\ (due => Working # {})
  /\ LET meta == sidecar[d]
         verdict == IF meta # Absent /\ meta.url = u THEN Verify(meta, part[d]) ELSE "fresh"
         asked == [Idle EXCEPT !.at = "requested", !.path = d, !.url = u]
     IN \/ verdict = "fresh" /\ Continue(c, asked)
        \/ verdict = "verified" /\ Continue(c, [asked EXCEPT !.plan = meta.bytes])
        \/ /\ verdict \in {"missing", "mismatch"} /\ UNCHANGED call
           /\ report' = [is |-> verdict, path |-> d, digest |-> << >>]
  /\ raced' = IF \E k \in Working : call[k].path = d THEN raced \cup {d} ELSE raced
  /\ UNCHANGED <<disk, wallet, record, clobbered, spent, faults>>

\* The policy, a resolved address, a redirect, a status, a served range or the
\* transport refuses; nothing has been written.
Refuse(c) ==
  /\ call[c].at = "requested" /\ Return(c, "refused")
  /\ UNCHANGED <<disk, wallet, record, ghost, faults>>

Zero(u) == [url |-> u, bytes |-> << >>]

\* Mutant: the part is opened for appending but not cut back.
ReopenUncut(c) ==
  part' = [part EXCEPT ![call[c].path] = IF @ = Absent THEN << >> ELSE @]

\* reopen: created if it has gone, and set to the recorded length.
Reopen(c) ==
  part' = [part EXCEPT ![call[c].path] =
             Resize(IF @ = Absent THEN << >> ELSE @, Len(call[c].plan))]

\* A 206 from the offset asked for: the part goes on where the plan ends.
Resume(c) ==
  /\ call[c].at = "requested" /\ call[c].plan # Absent
  /\ Reopen(c)
  /\ Continue(c, [call[c] EXCEPT !.at = "streaming", !.file = "part", !.append = TRUE,
                                 !.hashed = call[c].plan, !.plan = Absent])
  /\ UNCHANGED <<dest, sidecar, wallet, record, ghost, faults>>

\* A whole body, because none was recorded or the range was ignored: the zero
\* sidecar first, then the part is created or truncated.
Fresh(c) ==
  /\ call[c].at = "requested"
  /\ sidecar' = [sidecar EXCEPT ![call[c].path] = Zero(call[c].url)]
  /\ part' = [part EXCEPT ![call[c].path] = << >>]
  /\ Continue(c, [call[c] EXCEPT !.at = "streaming", !.file = "part", !.plan = Absent])
  /\ UNCHANGED <<dest, wallet, record, ghost, faults>>

\* start_fresh or reopen refused, the zero sidecar perhaps written already.
OpenFails(c) ==
  /\ call[c].at = "requested" /\ Fault
  /\ \/ UNCHANGED sidecar
     \/ sidecar' = [sidecar EXCEPT ![call[c].path] = Zero(call[c].url)]
  /\ Return(c, "failed")
  /\ UNCHANGED <<dest, part, wallet, record, ghost>>

-----------------------------------------------------------------------------

\* Session::persist.
Persisted(c) ==
  sidecar' = [sidecar EXCEPT ![call[c].path] = [url |-> call[c].url, bytes |-> call[c].hashed]]
\* ... best effort.
Persist(c) ==
  \/ Persisted(c) /\ NoFault
  \/ UNCHANGED sidecar /\ Fault

\* The session writes n blocks of its body into whatever its open file is now.
Store(c, n) ==
  LET d == call[c].path
      Written(s) == Write(s, IF call[c].append THEN Len(s) ELSE Total(c), call[c].url, Total(c), n)
  IN /\ part' = IF call[c].file = "part" THEN [part EXCEPT ![d] = Written(@)] ELSE part
     /\ dest' = IF call[c].file = "dest" THEN [dest EXCEPT ![d] = Written(@)] ELSE dest

\* The network delivers n blocks more of the body.
Delivered(c, n) == call[c].at = "streaming" /\ Total(c) + n <= BodyLen[call[c].url]

\* DownloadBudget::claim.
Fits(n) == consumed + n <= Limit
Claimed(n) == consumed' = consumed + n /\ spent' = spent + n /\ due' = TRUE

\* A chunk within the bounds: claimed, written, hashed.
Chunk(c, n) ==
  /\ Delivered(c, n) /\ Total(c) + n <= MaxFile /\ Fits(n)
  /\ Claimed(n) /\ Store(c, n)
  /\ LET fed == SubSeq(Body(call[c].url), Total(c) + 1, Total(c) + n)
     IN Continue(c, [call[c] EXCEPT !.hashed = @ \o fed])
  /\ UNCHANGED <<sidecar, tripped, journaled, raced, clobbered, faults>>

\* A chunk beyond a bound, which is not written.
ChunkRefused(c, n) ==
  /\ Delivered(c, n)
  /\ \/ Total(c) + n > MaxFile /\ Return(c, "bounded") /\ UNCHANGED tripped
     \/ /\ Total(c) + n <= MaxFile /\ ~Fits(n)
        /\ Return(c, "exhausted") /\ tripped' = TRUE
  /\ Persist(c) /\ due' = TRUE
  /\ UNCHANGED <<dest, part, consumed, journaled, ghost>>

\* The transport broke or the deadline passed.
BodyFails(c) ==
  /\ call[c].at = "streaming" /\ Return(c, "failed")
  /\ Persist(c) /\ due' = TRUE
  /\ UNCHANGED <<dest, part, wallet, journaled, ghost>>

\* write_all refused: claimed and partly written, not hashed.
WriteFails(c) ==
  /\ Delivered(c, 1) /\ Total(c) < MaxFile /\ Fits(1)
  /\ Claimed(1) /\ Store(c, 1)
  /\ Return(c, "failed") /\ Fault
  /\ Persisted(c) \/ UNCHANGED sidecar
  /\ UNCHANGED <<tripped, journaled, raced, clobbered>>

\* The rename takes the part's open files along and orphans the old ones.
Renamed(k, d) ==
  IF call[k].path # d THEN call[k]
  ELSE [call[k] EXCEPT !.file = IF @ = "part" THEN "dest" ELSE "gone"]
Promoted(d) ==
  /\ dest' = [dest EXCEPT ![d] = part[d]]
  /\ part' = [part EXCEPT ![d] = Absent]

\* Mutant: a body cut short is taken for its end.
AtEndEarly(c) == Total(c) >= 1
\* The body ended: the transport reports a body cut short as an error.
AtEnd(c) == Total(c) = BodyLen[call[c].url]

\* The body ended: promote, then remove_meta.
Promote(c) ==
  LET d == call[c].path
      Finish(outcome) ==
        /\ call' = [k \in Call |-> IF k = c THEN Idle ELSE Renamed(k, d)]
        /\ report' = [is |-> outcome, path |-> d, digest |-> call[c].hashed]
  IN /\ call[c].at = "streaming" /\ AtEnd(c) /\ part[d] # Absent
     /\ Promoted(d)
     /\ \/ sidecar' = [sidecar EXCEPT ![d] = Absent] /\ Finish("done") /\ NoFault
        \/ UNCHANGED sidecar /\ Finish("failed") /\ Fault
     /\ due' = TRUE
     /\ UNCHANGED <<wallet, journaled, ghost>>

\* ... but another call has promoted the part meanwhile.
PromoteMissing(c) ==
  /\ call[c].at = "streaming" /\ AtEnd(c) /\ part[call[c].path] = Absent
  /\ Return(c, "failed") /\ due' = TRUE
  /\ UNCHANGED <<disk, wallet, journaled, ghost, faults>>

-----------------------------------------------------------------------------

\* The sink's next tick, once every call of the turn has returned:
\* journal_downloads; a failed append is held and the level stays.
Tick ==
  /\ due /\ Working = {} /\ due' = FALSE /\ report' = Absent
  /\ \/ journaled' = consumed /\ NoFault
     \/ UNCHANGED journaled /\ Fault
  /\ UNCHANGED <<disk, call, wallet, ghost>>

\* Mutant: a resumed run arms a fresh wallet.
CarriedNothing == 0
\* carried_from_journal, into the wallet of the next invocation.
Carried == journaled

\* What a crash may find half done: a fresh start between its two files, a
\* promotion between the rename and the sidecar's removal.
HalfDone ==
  \/ UNCHANGED disk
  \/ \E c \in Call :
       /\ call[c].at = "requested"
       /\ sidecar' = [sidecar EXCEPT ![call[c].path] = Zero(call[c].url)]
       /\ UNCHANGED <<dest, part>>
  \/ \E c \in Call :
       /\ call[c].at = "streaming" /\ AtEnd(c) /\ part[call[c].path] # Absent
       /\ Promoted(call[c].path) /\ UNCHANGED sidecar

\* The process dies, or simply ends; the run is resumed by another.
Restart ==
  /\ Fault /\ HalfDone
  /\ call' = [c \in Call |-> Idle] /\ report' = Absent
  /\ consumed' = Carried /\ tripped' = FALSE /\ due' = FALSE
  /\ spent' = spent - (consumed - journaled)
  /\ UNCHANGED <<journaled, raced, clobbered>>

\* Another tool of the run writes to the part between two turns: its bytes are
\* cut off, or its first block is another one.
Clobber(d) ==
  /\ Working = {} /\ part[d] # Absent /\ part[d] # << >> /\ Fault
  /\ \E p \in {<< >>, [part[d] EXCEPT ![1] = Hole]} : part' = [part EXCEPT ![d] = p]
  /\ clobbered' = clobbered \cup {d} /\ report' = Absent
  /\ UNCHANGED <<dest, sidecar, call, wallet, record, raced, spent>>

Init ==
  /\ dest = [d \in Path |-> Absent] /\ part = dest /\ sidecar = dest
  /\ call = [c \in Call |-> Idle] /\ report = Absent
  /\ consumed = 0 /\ tripped = FALSE /\ journaled = 0 /\ due = FALSE
  /\ raced = {} /\ clobbered = {} /\ spent = 0 /\ faults = 0

Attempt(c) ==
  \/ Refuse(c) \/ Resume(c) \/ Fresh(c) \/ OpenFails(c)
  \/ (\E n \in 1 .. MaxChunk : Chunk(c, n) \/ ChunkRefused(c, n))
  \/ BodyFails(c) \/ WriteFails(c) \/ Promote(c) \/ PromoteMissing(c)
Next ==
  \/ \E c \in Call : Attempt(c) \/ \E d \in Path, u \in Url : Start(c, d, u)
  \/ Tick \/ Restart \/ \E d \in Path : Clobber(d)
Spec == Init /\ [][Next]_vars

-----------------------------------------------------------------------------

\* "The destination path never holds partial content": whatever was refused,
\* cut off, resumed, crashed or changed behind its back before, a destination no
\* two calls worked on at once is absent or the whole body of one resource.
DestinationIsWhole ==
  \A d \in Path \ raced : dest[d] = Absent \/ \E u \in Url : dest[d] = Body(u)

\* The invariant "that makes every state safe": a sidecar beside a part
\* describes a prefix of it, at every step of every attempt and after every
\* crash, as long as nothing else changed the part.
SidecarIsSafe ==
  \A d \in Path \ (raced \cup clobbered) :
    sidecar[d] # Absent /\ part[d] # Absent => Verify(sidecar[d], part[d]) = "verified"

\* The wallet binds the run, not the invocation: over all its invocations a run
\* fetches no more than its budget and what crashes kept out of the journal.
BudgetBindsRun == spent <= Limit

ReportIsOf(d) ==
  report # Absent /\ report.is = "done" /\ report.path = d => dest[d] = report.digest

\* A call that reports success reports the digest of what the destination
\* holds, as long as no other call works on that destination.
CompletionIsTrue == \A d \in Path \ raced : ReportIsOf(d)

\* "never a corrupted completion", with nothing said of other calls.
NoCorruptedCompletion == \A d \in Path : ReportIsOf(d)
=============================================================================
