----------------------------- MODULE AgentLoop -----------------------------
(***************************************************************************)
(* One run of the agent loop: the provider is asked for a turn, the calls  *)
(* of the turn are executed (together, or one by one behind the session    *)
(* policy and the user's prompt) and answered into the conversation, until *)
(* the model answers, a ceiling is reached, the provider fails or the user *)
(* cancels.                                                                *)
(***************************************************************************)
EXTENDS Naturals, Sequences, FiniteSets

CONSTANTS
  Call,         \* what a turn may ask for: a tool with its arguments
  Effect,       \* per call: does its tool need approval, reach outside, write
  Invalid,      \* the calls of no known tool, or without an argument object
  Nameless,     \* the calls that arrive without an id
  Statement,    \* the calls that carry a SQL statement
  Designation,  \* the designate_answer calls, by the statement they name
  Forbidden,    \* the calls whose program the session was launched without
  Permitted,    \* the writes and effects AgentLimits permits
  Posture,      \* the session policies a run may start under
  MaxTurns, MaxCalls, MaxContinuations, \* AgentLimits
  MaxRetries,   \* default_retry_delays (3)
  Memory,       \* MAX_REMEMBERED_FAILURES (64)
  Lanes,        \* MAX_CONCURRENT_TOOL_CALLS (4)
  Window,       \* context_byte_budget, counted in messages
  PerTurn,      \* bound on the calls of one turn
  None
ASSUME LimitsAssumption ==
  /\ {MaxTurns, MaxCalls, MaxContinuations, MaxRetries} \subseteq Nat
  /\ {Memory, Lanes, Window, PerTurn} \subseteq Nat \ {0}
ASSUME CallsAssumption ==
  /\ UNION {Invalid, Nameless, Statement, Designation, Forbidden} \subseteq Call
  /\ None \notin Call
ASSUME PostureAssumption ==
  Posture \subseteq [mode : {"bypass", "read-only", "never", "ask"}, plan : BOOLEAN,
                    frozen : BOOLEAN, grants : SUBSET Call]

VARIABLES
  pc,        \* where run_agent_with_sink stands
  cancelled, \* the cancellation token
  turns, calls, continuations, \* what is spent of the limits
  attempt,   \* the retries spent on the request in flight
  messages,  \* the conversation, by role
  pending,   \* the calls of the turn in hand
  at,        \* the call in hand, or the calls the batch has started
  results,   \* what the batch's calls came to
  failed,    \* the calls remembered as failed, oldest first
  lastSql,   \* the statement that succeeded last
  sql, recoveries, proseDue, \* designation::State
  policy,    \* the session policy: mode, agent mode, frozen, grants
  answer,    \* answer_sql of the output
  consent,   \* history: the calls the user allowed: for the session, or once
  ran,       \* history: the calls executed, in order, and how they ended
  named      \* history: the designations the model made, in order
spent == <<turns, calls, continuations>>
designation == <<sql, recoveries, proseDue>>
turn == <<pending, at, results>>
permission == <<policy, consent>>
history == <<ran, named>>
vars == <<pc, cancelled, spent, attempt, messages, turn, failed, lastSql,
          designation, permission, answer, history>>

Ended == {"complete", "error", "cancelled"}
Asked == {"receive", "salvage"}

\* A message: how many calls it makes, and their ids - or the one it answers.
\* An id is its call's place in the turn; a nameless call has the empty one.
NoId == 0
Ids(cs) == [i \in DOMAIN cs |-> IF cs[i] \in Nameless THEN NoId ELSE i]
Text(role) == [role |-> role, n |-> 0, ids |-> <<>>]
Prompt == Text("user")
Note == Text("note")
Digest == Text("digest")
Assistant(cs) == [role |-> "assistant", n |-> Len(cs), ids |-> Ids(cs)]
Reply(id) == [role |-> "tool", n |-> 0, ids |-> <<id>>]
Replies(cs) == [i \in DOMAIN cs |-> Reply(Ids(cs)[i])]

Turns == UNION {[1..n -> Call] : n \in 0..PerTurn}
Remembered == {failed[i] : i \in DOMAIN failed}

Init ==
  /\ pc = "turn" /\ cancelled = FALSE
  /\ turns = 0 /\ calls = 0 /\ continuations = 0 /\ attempt = 0
  /\ messages = <<Prompt>>
  /\ pending = <<>> /\ at = 0 /\ results = <<>>
  /\ failed = <<>> /\ lastSql = None
  /\ sql = None /\ recoveries = 0 /\ proseDue = FALSE
  /\ policy \in Posture /\ consent = policy.grants \X {"session"}
  /\ answer = None /\ ran = <<>> /\ named = <<>>

-----------------------------------------------------------------------------
(* The gates of tools.rs and the session policy. *)

Gated(c) ==
  \/ Effect[c].external /\ ~Effect[c].approval /\ "external" \notin Permitted
  \/ Effect[c].writes \in {"candidate", "workspace"} \ Permitted
AutoRunnable(c) == ~Effect[c].approval /\ ~Gated(c)
ReadOnlyPermits(c) ==
  ~Effect[c].external /\ Effect[c].writes \notin {"candidate", "workspace"}

\* SessionPolicy::resolve.
Resolve(c) ==
  IF policy.plan /\ ~ReadOnlyPermits(c) THEN "deny"
  ELSE CASE policy.mode = "bypass" -> "allow"
         [] policy.mode = "read-only" -> IF ReadOnlyPermits(c) THEN "allow" ELSE "deny"
         [] policy.mode = "never" -> "deny"
         [] policy.mode = "ask" -> IF c \in policy.grants THEN "allow"
                                   ELSE IF policy.frozen THEN "deny" ELSE "ask"

ForSession == consent \ (Call \X {"once"})

\* ChannelApproval::approve up to the prompt: the deny list, then the policy.
Decide(c) == IF c \in Forbidden THEN "deny" ELSE Resolve(c)

\* Mutant: a full memory takes in nothing more.
RememberWhileRoom(mem, c) == IF Len(mem) >= Memory THEN mem ELSE Append(mem, c)

\* FailedStatements::record.
Remember(mem, c) ==
  IF \E i \in DOMAIN mem : mem[i] = c THEN mem
  ELSE Append(IF Len(mem) >= Memory THEN Tail(mem) ELSE mem, c)

\* record_outcome, for the executed calls cs with the outcomes oks, in order.
Together == IF pc = "launch" THEN turns ELSE 0
Outcomes(cs, oks) ==
  LET mem[i \in 0..Len(cs)] ==
        IF i = 0 THEN failed ELSE IF oks[i] THEN mem[i - 1] ELSE Remember(mem[i - 1], cs[i])
      good == {i \in DOMAIN cs : oks[i] /\ cs[i] \in Statement}
  IN /\ failed' = mem[Len(cs)]
     /\ lastSql' = IF good = {} THEN lastSql
                   ELSE cs[CHOOSE i \in good : \A j \in good : j <= i]
     /\ ran' = ran \o [i \in DOMAIN cs |-> [call |-> cs[i], ok |-> oks[i], batch |-> Together]]

-----------------------------------------------------------------------------
(* output.rs: the intra-loop budget. *)

GroupStarts(ms) == {i \in DOMAIN ms : ms[i].role = "assistant" /\ ms[i].n > 0}
Least(S) == CHOOSE i \in S : \A j \in S : i <= j
Greatest(S) == CHOOSE i \in S : \A j \in S : j <= i
Folded(ms, from, kept) ==
  SubSeq(ms, 1, from - 1) \o <<Digest>> \o SubSeq(ms, kept, Len(ms))

\* trim_to_budget and compact: the oldest groups give way to one digest.
Trimmed(ms) ==
  LET groups == GroupStarts(ms)
      from == Least(groups \cup {i \in DOMAIN ms : ms[i].role = "digest"})
      later == groups \ {Least(groups)}
      fits == {k \in later : Len(Folded(ms, from, k)) <= Window}
  IN IF Len(ms) <= Window \/ Cardinality(groups) <= 1 THEN ms
     ELSE Folded(ms, from, IF fits = {} THEN Greatest(groups) ELSE Least(fits))
-----------------------------------------------------------------------------

Finish(how, with) ==
  /\ pc' = how /\ answer' = with
  /\ UNCHANGED <<cancelled, spent, attempt, messages, turn, failed, lastSql,
                 designation, permission, history>>
Best == IF sql # None THEN sql ELSE lastSql

\* check_cancelled, wherever the loop consults the token.
StopIfCancelled ==
  /\ cancelled
  /\ \/ pc \in {"turn", "batch", "tools", "go"} \cup Asked
     \/ pc = "launch" /\ Len(results) = Len(pending)
  /\ Finish("cancelled", None)

\* The top of the loop: the turn ceiling, then one more turn.
StartTurn ==
  /\ pc = "turn" /\ ~cancelled
  /\ attempt' = 0
  /\ IF turns >= MaxTurns
     THEN pc' = "salvage" /\ messages' = Append(messages, Note) /\ UNCHANGED turns
     ELSE pc' = "receive" /\ turns' = turns + 1 /\ UNCHANGED messages
  /\ UNCHANGED <<cancelled, calls, continuations, turn, failed, lastSql,
                 designation, permission, answer, history>>

\* receive: a stream that failed mid-response is retried, within the schedule.
Retry ==
  /\ pc \in Asked /\ ~cancelled /\ attempt < MaxRetries
  /\ attempt' = attempt + 1
  /\ UNCHANGED <<pc, cancelled, spent, messages, turn, failed, lastSql,
                 designation, permission, answer, history>>

\* The schedule is exhausted, or the failure is not one to retry.
ProviderFails ==
  \/ /\ pc = "receive"
     /\ IF proseDue THEN Finish("complete", sql) ELSE Finish("error", None)
  \/ pc = "salvage" /\ Finish("complete", Best)

\* Mutant: the request is sent again for free.
TruncateForFree ==
  /\ pc = "receive" /\ continuations < MaxContinuations
  /\ turns' = turns - 1 /\ pc' = "turn"
  /\ UNCHANGED <<cancelled, calls, continuations, attempt, messages, turn, failed,
                 lastSql, designation, permission, answer, history>>

\* The output cap: re-instructed within the continuation budget.
Truncate ==
  /\ pc = "receive" /\ continuations < MaxContinuations
  /\ continuations' = continuations + 1
  /\ messages' = Append(messages, Note)
  /\ pc' = "turn"
  /\ UNCHANGED <<cancelled, turns, calls, attempt, turn, failed, lastSql,
                 designation, permission, answer, history>>

\* The model answers in prose, with no tool call; a salvage's answer is final
\* whatever it carries, and consults the token no more.
AnswerInProse ==
  \/ pc = "salvage" /\ Finish("complete", Best)
  \/ /\ pc = "receive" /\ ~cancelled
     /\ proseDue' = FALSE
     /\ messages' = Append(messages, Assistant(<<>>))
     /\ pc' = "complete" /\ answer' = sql
     /\ UNCHANGED <<cancelled, spent, attempt, turn, failed, lastSql, sql,
                    recoveries, permission, history>>

Designations(cs) == {i \in DOMAIN cs : cs[i] \in Designation}
FirstDesignation(cs) == cs[Least(Designations(cs))]
\* Mutant: the last designation wins.
LatestStands(d) == d
Standing(d) == IF sql = None THEN d ELSE sql

\* designation::handle: a turn that designates, with prose or without.
Designate(cs, prose) ==
  LET spentIt == recoveries > 0 IN
  /\ pc = "receive"
  /\ Designations(cs) # {}
  /\ sql' = Standing(FirstDesignation(cs))
  /\ named' = Append(named, FirstDesignation(cs))
  /\ IF prose \/ spentIt
     THEN /\ IF cancelled THEN pc' = "cancelled" /\ UNCHANGED answer
                          ELSE pc' = "complete" /\ answer' = sql'
          /\ messages' = Append(messages, Assistant(cs))
          /\ proseDue' = FALSE /\ UNCHANGED recoveries
     ELSE /\ pc' = "turn" /\ UNCHANGED answer
          /\ messages' = Append(messages, Assistant(cs)) \o Replies(cs)
          /\ proseDue' = TRUE /\ recoveries' = recoveries + 1
  /\ UNCHANGED <<cancelled, spent, attempt, turn, failed, lastSql, permission, ran>>

\* The turn asks for tools: the whole-run ceiling is checked before any runs,
\* then the batch path is taken or the sequential one.
Batchable(cs) ==
  /\ Len(cs) > 1
  /\ \A i \in DOMAIN cs :
       cs[i] \notin Invalid /\ AutoRunnable(cs[i]) /\ cs[i] \notin Remembered
\* Mutant: the pending calls are left unanswered.
NoReplies(cs) == <<>>
BudgetReplies(cs) == Replies(cs)

AskForTools(cs) ==
  /\ pc = "receive" /\ cs # <<>> /\ Designations(cs) = {}
  /\ proseDue' = FALSE /\ attempt' = 0
  /\ IF calls + Len(cs) > MaxCalls
     THEN /\ pc' = "salvage"
          /\ messages' = (Append(messages, Assistant(cs)) \o BudgetReplies(cs))
                         \o <<Note>>
          /\ UNCHANGED <<calls, turn>>
     ELSE /\ messages' = Append(messages, Assistant(cs))
          /\ calls' = calls + Len(cs)
          /\ pending' = cs /\ results' = <<>>
          /\ IF Batchable(cs) THEN pc' = "batch" /\ at' = 0 ELSE pc' = "tools" /\ at' = 1
  /\ UNCHANGED <<cancelled, turns, continuations, failed, lastSql, sql,
                 recoveries, permission, answer, history>>

\* The token is consulted before the batch's calls are announced, one awaited
\* event each, and not again until all of them have finished.
Announce ==
  /\ pc = "batch" /\ ~cancelled /\ pc' = "launch"
  /\ UNCHANGED <<cancelled, spent, attempt, messages, turn, failed, lastSql,
                 designation, permission, answer, history>>

\* execute_batch: the calls start in order, Lanes of them ahead of the oldest
\* unfinished one at most.
BatchStart ==
  /\ pc = "launch" /\ at < Len(pending) /\ at - Len(results) < Lanes
  /\ at' = at + 1
  /\ UNCHANGED <<pc, cancelled, spent, attempt, messages, pending, results,
                 failed, lastSql, designation, permission, answer, history>>

\* The oldest unfinished call's result is taken: `buffered` keeps input order.
BatchFinish(ok) ==
  /\ pc = "launch" /\ Len(results) < at
  /\ results' = Append(results, ok)
  /\ UNCHANGED <<pc, cancelled, spent, attempt, messages, pending, at,
                 failed, lastSql, designation, permission, answer, history>>

BatchRecord ==
  /\ pc = "launch" /\ Len(results) = Len(pending) /\ ~cancelled
  /\ Outcomes(pending, results)
  /\ messages' = Trimmed(messages \o Replies(pending))
  /\ pc' = "turn" /\ pending' = <<>> /\ at' = 0 /\ results' = <<>>
  /\ UNCHANGED <<cancelled, spent, attempt, designation, permission, answer, named>>

-----------------------------------------------------------------------------
(* The sequential path.                                                    *)

InHand == pending[at]

\* The call in hand is answered; the last answer of the turn trims and loops.
Answered ==
  LET more == at < Len(pending)
      told == Append(messages, Reply(Ids(pending)[at])) IN
  /\ messages' = IF more THEN told ELSE Trimmed(told)
  /\ pc' = IF more THEN "tools" ELSE "turn"
  /\ at' = IF more THEN at + 1 ELSE 0
  /\ pending' = IF more THEN pending ELSE <<>>
  /\ UNCHANGED <<cancelled, spent, attempt, results, designation, answer, named>>

\* An invalid call without an id is fatal.
InvalidWithoutId ==
  pc = "tools" /\ InHand \in Invalid \cap Nameless /\ Finish("error", None)

\* An invalid call, or a call that failed before, is answered and not run.
AnswerInvalid ==
  /\ pc = "tools" /\ InHand \in Invalid \ Nameless /\ ~cancelled
  /\ Answered /\ UNCHANGED <<failed, lastSql, permission, ran>>

RefuseRepeat ==
  /\ pc = "tools" /\ InHand \notin Invalid /\ InHand \in Remembered /\ ~cancelled
  /\ Answered /\ UNCHANGED <<failed, lastSql, permission, ran>>

\* Mutant: the gates bind the batch path only.
ProceedUngated ==
  /\ pc' = "go"
  /\ UNCHANGED <<cancelled, spent, attempt, messages, turn, failed, lastSql,
                 designation, answer, history>>

\* Approval: no question, the policy's answer, or a prompt the user answers
\* later.  The gates bind whether or not approval was given.
Deny == Answered /\ UNCHANGED <<failed, lastSql, ran>>
Proceed ==
  IF Gated(InHand) THEN Deny
  ELSE /\ pc' = "go"
       /\ UNCHANGED <<cancelled, spent, attempt, messages, turn, failed, lastSql,
                      designation, answer, history>>
Approve ==
  /\ pc = "tools" /\ InHand \notin Invalid /\ InHand \notin Remembered /\ ~cancelled
  /\ UNCHANGED policy /\ consent' = ForSession
  /\ CASE ~Effect[InHand].approval \/ Decide(InHand) = "allow" -> Proceed
       [] Effect[InHand].approval /\ Decide(InHand) = "deny" -> Deny
       [] Effect[InHand].approval /\ Decide(InHand) = "ask" ->
            /\ pc' = "ask"
            /\ UNCHANGED <<cancelled, spent, attempt, messages, turn, failed,
                           lastSql, designation, answer, history>>

\* The user answers the prompt; "for this session" grants the call's token.
\* A prompt whose surface is gone denies.
UserAnswers(choice) ==
  /\ pc = "ask"
  /\ policy' = IF choice = "session"
               THEN [policy EXCEPT !.grants = @ \cup {InHand}] ELSE policy
  /\ consent' = IF choice = "deny" THEN consent ELSE consent \cup {<<InHand, choice>>}
  /\ IF choice = "deny" THEN Deny ELSE Proceed

\* Mutant: the token is not consulted after the approval.
ExecuteAnyway(ok) ==
  /\ pc = "go" /\ Outcomes(<<InHand>>, <<ok>>)
  /\ Answered /\ UNCHANGED policy /\ consent' = ForSession

\* The call runs: the token is consulted first, and after the reply is noted.
Execute(ok) ==
  /\ pc = "go" /\ ~cancelled
  /\ Outcomes(<<InHand>>, <<ok>>)
  /\ Answered /\ UNCHANGED policy /\ consent' = ForSession

\* The user stops the run, at any moment; the loop notices when it looks.
Cancel ==
  /\ pc \notin Ended /\ ~cancelled /\ cancelled' = TRUE
  /\ UNCHANGED <<pc, spent, attempt, messages, turn, failed, lastSql,
                 designation, permission, answer, history>>

-----------------------------------------------------------------------------

Respond ==
  \/ Retry \/ ProviderFails \/ Truncate \/ AnswerInProse
  \/ \E cs \in Turns : AskForTools(cs) \/ \E prose \in BOOLEAN : Designate(cs, prose)
Batch == Announce \/ BatchStart \/ BatchRecord \/ \E ok \in BOOLEAN : BatchFinish(ok)
Sequential ==
  \/ InvalidWithoutId \/ AnswerInvalid \/ RefuseRepeat \/ Approve
  \/ \E ok \in BOOLEAN : Execute(ok)
Step == StopIfCancelled \/ StartTurn \/ Respond \/ Batch \/ Sequential
Next == Step \/ Cancel \/ \E choice \in {"once", "session", "deny"} : UserAnswers(choice)

\* The loop runs on; the provider's and the tools' own timeouts answer for
\* them.  Nothing obliges the user to answer a prompt, or to cancel.
Spec == Init /\ [][Next]_vars /\ WF_vars(Step)

-----------------------------------------------------------------------------

\* Whatever is sent to the provider pairs its calls with their replies: the
\* prompt first, every call of every assistant turn answered in order by the
\* messages that follow it, each under that call's own id, no reply without its
\* call, one digest at most - through budget exhaustion, an unfinished
\* designation, a discarded partial, and compaction.  A call that came without
\* an id is answered under the empty one (by a salvage, by a designation, and
\* when the call is valid): nothing is said of what a provider makes of that.
RequestsPairCalls ==
  pc \in Asked =>
    /\ messages[1] = Prompt
    /\ \A g \in GroupStarts(messages) :
         /\ g + messages[g].n <= Len(messages)
         /\ \A k \in 1..messages[g].n : messages[g + k] = Reply(messages[g].ids[k])
    /\ \A i \in DOMAIN messages : messages[i].role = "tool" =>
         \E g \in GroupStarts(messages) : g < i /\ i <= g + messages[g].n
    /\ Cardinality({i \in DOMAIN messages : messages[i].role = "digest"}) <= 1

\* The batch path and the sequential one cannot drift: a call starts on
\* either only if its tool is known, its gates are open, and it needs no
\* approval or was given it - by the launch policy, by the user for the session
\* in an earlier turn, or by the user for this call - never for a denied
\* program and never, where approval is due, for a write under Plan.
Started == IF pc = "launch" /\ at' > at THEN {pending[at']} ELSE {}
Approved(c) ==
  \/ policy.mode = "bypass"
  \/ policy.mode = "read-only" /\ ReadOnlyPermits(c)
  \/ policy.mode = "ask" /\ (<<c, "once">> \in consent \/ <<c, "session">> \in consent)
Allowed(c) ==
  /\ c \notin Invalid /\ ~Gated(c)
  /\ Effect[c].approval =>
       c \notin Forbidden /\ (policy.plan => ReadOnlyPermits(c)) /\ Approved(c)
GatesBindBothPaths ==
  [][ /\ \A c \in Started : Allowed(c) /\ ~Effect[c].approval
      /\ \A i \in (Len(ran) + 1)..Len(ran') : Allowed(ran'[i].call) ]_vars

\* A call that failed is not run again while fewer than Memory other calls
\* have failed since - neither in the same turn nor in a later one, except
\* that two calls of one batch know nothing of each other.  In a batch that
\* made it more than once the first failure counts: a call remembered already
\* keeps its place in the memory.
SameBatch(i, j) == ran[i].batch = ran[j].batch /\ ran[i].batch > 0
FailedSince(i, j) == {ran[k].call : k \in {k \in (i + 1)..(j - 1) : ~ran[k].ok}} \ {ran[i].call}
Forgotten(k, j) == Cardinality(FailedSince(k, j)) >= Memory
FailedCallStaysRefused ==
  \A i, j \in DOMAIN ran :
    i < j /\ ran[i].call = ran[j].call /\ ~ran[i].ok
    => \/ SameBatch(i, j) \/ Forgotten(i, j)
       \/ \E k \in 1..i : /\ SameBatch(k, i) /\ ran[k].call = ran[i].call /\ ~ran[k].ok
                         /\ Forgotten(k, j)

\* After the user's stop no tool starts except those of a batch that had
\* passed its check before the stop, and no batch passes it any more: an
\* approved call too is held back when the stop came while it was asked.
CancelStopsTools ==
  [][ cancelled => /\ Started # {} => pc = "launch"
                   /\ pc' = "launch" => pc = "launch"
                   /\ ran' = ran ]_vars

\* A run that ends with an answer carries the statement the model designated
\* first, whatever ended it - prose, a spent recovery, a failed follow-up, a
\* ceiling; without one only a ceiling nominates, and only what succeeded.
AnswerIsWhatWasNamed ==
  pc = "complete" =>
    IF named # <<>> THEN answer = named[1]
    ELSE answer # None => \E i \in DOMAIN ran : ran[i].call = answer /\ ran[i].ok

\* A run under a turn ceiling ends, or waits for its user at a prompt.
RunSettles == <>[](pc \in Ended \cup {"ask"})
=============================================================================
