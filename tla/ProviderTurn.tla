---------------------------- MODULE ProviderTurn ----------------------------
(***************************************************************************)
(* The turns of a model service, from the frames on the wire to what the   *)
(* user sees: four dialects are decoded into events, `receive` assembles a *)
(* turn from them and tries a broken stream again, the loop runs the       *)
(* turn's tools, and the transcript follows.  Frames that carry usage or   *)
(* reasoning, or nothing, are left out; so are compaction, salvage and     *)
(* designation (AgentLoop).  The transcript drains the events in the order *)
(* they are emitted, so an event and its display are one step.             *)
(***************************************************************************)
EXTENDS Transcript

CONSTANTS
  Dialect,          \* the services: "openai", "anthropic", "ollama", "gemini"
  Tool,             \* the tools a turn may ask for
  AutoRun,          \* those that run without approval
  MaxRetries,       \* default_retry_delays: attempts after the first
  MaxContinuations, \* limits.max_continuations
  MaxChunk,         \* bound: frames that arrive together
  MaxFrames,        \* bound: frames of one attempt
  MaxAttempts,      \* bound: attempts in all
  MaxCalls,         \* bound: calls in all
  MaxInputs         \* bound: requests of the user, and notices while one runs
ASSUME ProviderAssumption ==
  /\ Dialect \subseteq {"openai", "anthropic", "ollama", "gemini"} /\ AutoRun \subseteq Tool
  /\ {MaxRetries, MaxContinuations, MaxChunk, MaxFrames, MaxAttempts,
      MaxCalls, MaxInputs} \subseteq Nat

VARIABLES
  dialect,       \* the service the session talks to
  pc,            \* where the worker of the request is
  attempt,       \* receive's attempt, from 0
  continuations, \* re-instructions after the output cap
  sent,          \* the frames this attempt has decoded
  queue,         \* State.pending: text deltas, and "end" for Done
  content,       \* receive's content: the deltas, each with its attempt's number
  due,           \* what the turn's tools have still to emit
  failed,        \* the tools a call of which failed in this request
  view,          \* the transcript
  number,        \* (bounds) attempts, calls, and requests and notices so far
  delivered,     \* history: the text of ended attempts that were not reset
  results,       \* history: the calls whose result was emitted
  unanswered     \* history: tools a call of which got no result

tries == <<attempt, continuations>>
stream == <<sent, queue, content>>
history == <<delivered, results, unanswered>>
vars == <<dialect, pc, tries, stream, due, failed, view, number, history>>

TextCount(frames) == Quantify(DOMAIN frames, LAMBDA i : frames[i] = "text")
CallCount(frames) == Quantify(DOMAIN frames, LAMBDA i : frames[i] \in {"call", "badcall"})
Frame == {"text", "call", "badcall", "cap", "junk", "end"}
Frames(bound) == UNION {[1..n -> Frame] : n \in 1..bound}

Init ==
  /\ dialect \in Dialect
  /\ pc = "idle"
  /\ attempt = 0 /\ continuations = 0
  /\ sent = <<>> /\ queue = <<>> /\ content = <<>>
  /\ due = <<>> /\ failed = {}
  /\ view = EmptyView
  /\ number = [attempts |-> 0, calls |-> 0, inputs |-> 0]
  /\ delivered = <<>> /\ results = {} /\ unanswered = {}

-----------------------------------------------------------------------------
(* Decoding.  OpenAI names the cap in the frame that finishes a choice and   *)
(* Ollama in its last line; both fail at once.  Anthropic remembers the stop *)
(* reason until message_stop.  What follows the end in its chunk, a call     *)
(* whose arguments do not parse, and, of all but Anthropic, a response with  *)
(* nothing in it, are protocol errors.  Ollama's decoder counts the calls of *)
(* each line from zero, so calls on two lines are taken for pieces of one.   *)
Ends(frames) == {i \in DOMAIN frames :
                   frames[i] \in {"junk", "end"} \/ (frames[i] = "cap" /\ dialect # "anthropic")}

\* Mutant: a stop reason of max_tokens ends a turn like any other.
VerdictUncapped(frames) ==
  IF Ends(frames) = {} THEN "open"
  ELSE LET last == Min(Ends(frames)) IN
       IF frames[last] = "end" /\ last = Len(frames) THEN "whole" ELSE "broken"

Verdict(frames) ==
  IF Ends(frames) = {} THEN "open"
  ELSE LET last == Min(Ends(frames))
           before == Range(SubSeq(frames, 1, last - 1))
           empty == before \cap {"text", "call"} = {} /\ dialect # "anthropic"
           garbled == \/ "badcall" \in before
                      \/ dialect = "ollama" /\ CallCount(SubSeq(frames, 1, last - 1)) > 1
       IN IF frames[last] = "cap" \/ (frames[last] = "end" /\ "cap" \in before) THEN "truncated"
          ELSE IF frames[last] = "junk" \/ last < Len(frames) \/ garbled \/ empty
          THEN "broken" ELSE "whole"

\* Gemini answers in one piece and keeps no prose beside calls.
Deltas(frames) == IF dialect = "gemini" /\ CallCount(frames) > 0 THEN 0 ELSE TextCount(frames)
Queued(frames, whole) ==
  [i \in 1..Deltas(frames) |-> "text"] \o (IF whole THEN <<"end">> ELSE <<>>)

-----------------------------------------------------------------------------
(* How an attempt ends.                                                      *)
\* The text that was shown stays: of a turn that is over, was cut off by the
\* cap, failed for good or was stopped.
Keep == delivered' = delivered \o content /\ content' = <<>>

CutOff(e) == e.kind = "result" /\ \A f \in Range(due) : f.call = e.call => f.kind # "request"

\* The request is over, and what it kept is dropped; settle_done says how it
\* failed, if it did.
Over(kind) ==
  /\ pc' = "idle" /\ Keep /\ queue' = <<>> /\ sent' = <<>>
  /\ attempt' = 0 /\ continuations' = 0 /\ failed' = {}
  /\ view' = IF kind = "answered" THEN Flush(view) ELSE Push(view, "note", <<>>)
  /\ due' = <<>>
  /\ unanswered' = unanswered \cup {e.tool : e \in {e \in Range(due) : CutOff(e)}}
  /\ UNCHANGED <<dialect, number, results>>

\* A broken stream: TurnReset and another attempt while the schedule lasts.
Again ==
  /\ attempt < MaxRetries
  /\ pc' = "wait" /\ content' = <<>> /\ queue' = <<>> /\ sent' = <<>>
  /\ view' = Rollback(view)
  /\ UNCHANGED <<dialect, tries, due, failed, number, history>>
MidStream == Again \/ (attempt = MaxRetries /\ Over("failed"))

\* The output cap is never retried: within its budget the loop re-instructs.
Truncated ==
  \/ /\ continuations < MaxContinuations
     /\ continuations' = continuations + 1 /\ attempt' = 0
     /\ pc' = "turn" /\ Keep /\ queue' = <<>> /\ sent' = <<>>
     /\ UNCHANGED <<dialect, due, failed, view, number, results, unanswered>>
  \/ continuations = MaxContinuations /\ Over("failed")

-----------------------------------------------------------------------------
(* The request and its attempts.                                             *)
Ask ==
  /\ pc = "idle" /\ number.inputs < MaxInputs
  /\ pc' = "turn"
  /\ view' = Push(Spaced(view), "user", <<>>)
  /\ number' = [number EXCEPT !.inputs = @ + 1]
  /\ UNCHANGED <<dialect, tries, stream, due, failed, history>>

\* TurnStarted, on the first attempt and on every other.
Begin ==
  /\ \/ pc = "turn" /\ UNCHANGED attempt
     \/ pc = "wait" /\ attempt' = attempt + 1
  /\ number.attempts < MaxAttempts
  /\ number' = [number EXCEPT !.attempts = @ + 1]
  /\ pc' = "establish"
  /\ view' = StartAttempt(view)
  /\ UNCHANGED <<dialect, continuations, stream, due, failed, history>>

\* A response is refused, never comes, or the user's stop comes first: fatal.
Refused == pc = "establish" /\ Over("failed")

Established ==
  /\ pc = "establish" /\ dialect # "gemini"
  /\ pc' = "stream"
  /\ UNCHANGED <<dialect, tries, stream, due, failed, view, number, history>>

Respond(frames) ==
  /\ pc = "establish" /\ dialect = "gemini" /\ number.calls + CallCount(frames) <= MaxCalls
  /\ \/ /\ Verdict(frames) = "whole"
        /\ pc' = "stream" /\ sent' = frames /\ queue' = Queued(frames, TRUE)
        /\ UNCHANGED <<dialect, tries, content, due, failed, view, number, history>>
     \/ Verdict(frames) = "truncated" /\ Truncated

\* A chunk is decoded whole before its first event is handed on; an error in
\* it takes the events before it along.
Arrive(frames) ==
  /\ pc = "stream" /\ queue = <<>> /\ Verdict(sent) = "open"
  /\ LET all == sent \o frames IN
     /\ Len(all) <= MaxFrames /\ number.calls + CallCount(all) <= MaxCalls
     /\ CASE Verdict(all) = "broken" -> MidStream
          [] Verdict(all) = "truncated" -> Truncated
          [] OTHER ->
               /\ sent' = all /\ queue' = Queued(frames, Verdict(all) = "whole")
               /\ UNCHANGED <<dialect, pc, tries, content, due, failed, view, number, history>>

\* The connection drops, stalls or ends without an end frame, or the response
\* outgrows its limit.
Drop == pc = "stream" /\ queue = <<>> /\ Verdict(sent) = "open" /\ MidStream

\* One delta is taken, assembled and shown.
Show ==
  /\ pc = "stream" /\ queue # <<>> /\ Head(queue) = "text"
  /\ queue' = Tail(queue) /\ content' = Append(content, number.attempts)
  /\ view' = PushText(Flush(view), number.attempts)
  /\ UNCHANGED <<dialect, pc, tries, sent, due, failed, number, history>>

\* The stream is over; of a response with nothing usable in it nothing is
\* tried again.
Return ==
  /\ pc = "stream" /\ queue = <<"end">>
  /\ IF content = <<>> /\ CallCount(sent) = 0 THEN Over("failed")
     ELSE /\ pc' = "returned" /\ queue' = <<>>
          /\ UNCHANGED <<dialect, tries, sent, content, due, failed, view, number, history>>

\* A turn without calls is the answer.
Answer == pc = "returned" /\ CallCount(sent) = 0 /\ Over("answered")

-----------------------------------------------------------------------------
(* The turn's tools: what the calls emit, in order.  A step marked as checked *)
(* looks for the user's stop before it.                                       *)
Step(kind, call, tool, ok, checked) ==
  [kind |-> kind, call |-> call, tool |-> tool, ok |-> ok, checked |-> checked]
Asked(c, t, checked) == Step("request", c, t, TRUE, checked)

\* A call one after the other: it runs well or badly, is invalid, repeats a
\* failed one, or is denied.
Fate == {"ok", "bad", "invalid", "repeat", "denied"}
OneByOne(c, t, fate) ==
  CASE fate = "ok"      -> <<Asked(c, t, TRUE), Step("result", c, t, TRUE, TRUE)>>
    [] fate = "bad"     -> <<Asked(c, t, TRUE), Step("result", c, t, FALSE, TRUE)>>
    [] fate = "invalid" -> <<Asked(c, t, TRUE), Step("result", c, t, FALSE, FALSE)>>
    [] fate = "repeat"  -> <<Step("stray", c, t, FALSE, TRUE)>>
    [] fate = "denied"  -> <<Asked(c, t, TRUE), Step("denied", c, t, FALSE, FALSE)>>

\* All at once: every request first, then every result.
Plan(calls) ==
  LET id(i) == number.calls + i IN
  IF Len(calls) > 1 /\ \A i \in DOMAIN calls : calls[i].tool \in AutoRun /\ calls[i].fate \in {"ok", "bad"}
  THEN [i \in DOMAIN calls |-> Asked(id(i), calls[i].tool, i = 1)] \o
       [i \in DOMAIN calls |-> Step("result", id(i), calls[i].tool, calls[i].fate = "ok", TRUE)]
  ELSE FlattenSeq([i \in DOMAIN calls |-> OneByOne(id(i), calls[i].tool, calls[i].fate)])

Possible(call) ==
  /\ call.fate = "repeat" => call.tool \in failed
  /\ call.fate = "denied" => call.tool \notin AutoRun
StartTools(calls) ==
  /\ pc = "returned" /\ Len(calls) = CallCount(sent)
  /\ \A i \in DOMAIN calls : Possible(calls[i])
  /\ Keep /\ sent' = <<>> /\ due' = Plan(calls) /\ pc' = "emit"
  /\ number' = [number EXCEPT !.calls = @ + Len(calls)]
  /\ UNCHANGED <<dialect, tries, queue, failed, view, results, unanswered>>

Emit ==
  /\ pc = "emit" /\ due # <<>>
  /\ LET e == Head(due) IN
     /\ view' = CASE e.kind = "request" -> Buffer(view, e.call, e.tool)
                  [] e.kind \in {"result", "stray"} -> Complete(view, e.call, e.tool, e.ok)
                  [] e.kind = "denied" -> Push(Flush(view), "note", <<>>)
     /\ results' = IF e.kind = "result" THEN results \cup {[call |-> e.call, tool |-> e.tool]} ELSE results
     /\ unanswered' = IF e.kind = "denied" THEN unanswered \cup {e.tool} ELSE unanswered
     /\ failed' = IF e.kind = "result" /\ ~e.ok /\ e.checked THEN failed \cup {e.tool} ELSE failed
  /\ due' = Tail(due)
  /\ UNCHANGED <<dialect, pc, tries, stream, number, delivered>>

NextTurn ==
  /\ pc = "emit" /\ due = <<>> /\ pc' = "turn" /\ attempt' = 0
  /\ UNCHANGED <<dialect, continuations, stream, due, failed, view, number, history>>

-----------------------------------------------------------------------------
(* The user's stop is a flag.  It shows nowhere but where the worker looks    *)
(* for it, so setting it is no step of its own.                              *)
Stop ==
  /\ \/ pc \in {"turn", "wait", "stream", "returned"}
     \/ pc = "emit" /\ due # <<>> /\ Head(due).checked
  /\ Over("stopped")

\* A notice of the session's own: a line was queued, a grant not recorded.
Notice ==
  /\ pc # "idle" /\ number.inputs < MaxInputs
  /\ number' = [number EXCEPT !.inputs = @ + 1]
  /\ view' = Push(view, "note", <<>>)
  /\ UNCHANGED <<dialect, pc, tries, stream, due, failed, history>>

Calls == UNION {[1..n -> [tool : Tool, fate : Fate]] : n \in 1..MaxCalls}
Next ==
  \/ Ask \/ Begin \/ Refused \/ Established \/ \E f \in Frames(MaxFrames) : Respond(f)
  \/ \E f \in Frames(MaxChunk) : Arrive(f)
  \/ Drop \/ Show \/ Return \/ Answer
  \/ \E calls \in Calls : StartTools(calls)
  \/ Emit \/ NextTurn \/ Stop \/ Notice
Spec == Init /\ [][Next]_vars

-----------------------------------------------------------------------------
\* The answers on the screen are the text of the turns and of the attempts
\* that were cut off by the cap, failed for good or were stopped, and of the
\* attempt in flight so far: a broken attempt leaves none of its text behind
\* and takes nobody else's along, whatever notices came between (rollback_attempt).
ShownIsDelivered == ShownText(view) = delivered \o content

\* A result the tools gave is on the screen, through folds, resets and the
\* next request's blocks; in a folded group it stands beside its own call,
\* unless an earlier call of that tool never got one (flush_tool_buffer).
EvidenceStays ==
  \A r \in results :
    /\ r.call \in ShownResults(view)
    /\ r.tool \notin unanswered => \A pair \in Groups(view) : pair[2] = r.call => pair[1] = r.call

\* What the loop gets for a turn is what the service sent up to its end, and
\* neither cut off, garbled, nor put together from two attempts; Gemini's
\* prose beside calls is lost (receive, and the four decoders).
OnlyWholeTurns ==
  pc = "returned" =>
    /\ sent # <<>> /\ Last(sent) = "end" /\ Range(Front(sent)) \subseteq {"text", "call"}
    /\ content = [i \in 1..Deltas(sent) |-> number.attempts]
=============================================================================
