----------------------------- MODULE Transcript -----------------------------
(***************************************************************************)
(* What the TUI shows of a session: a list of blocks, the run of tool      *)
(* calls not yet folded, and the mark of the attempt in flight, to which a *)
(* TurnReset rolls back.  A block's text is of an answer the sequence of   *)
(* its deltas, of a request or a result line its call, of a folded group   *)
(* the pairs of request and result of its calls.  Left out: chapters,      *)
(* scrolling, wording, the eviction of the oldest blocks, and a group      *)
(* with a nonzero exit.                                                    *)
(***************************************************************************)
EXTENDS Naturals, Sequences, FiniteSetsExt, SequencesExt

\* mark.tail is the length of the answer that was last, 0 if none was.
EmptyView == [blocks |-> <<>>, pending |-> {},
              mark |-> [blocks |-> 0, tail |-> 0, pending |-> {}]]

Block(kind, text) == [kind |-> kind, text |-> text]
Push(view, kind, text) == [view EXCEPT !.blocks = Append(@, Block(kind, text))]
EndsIn(view, kind) == view.blocks # <<>> /\ Last(view.blocks).kind = kind

\* A blank line before what follows, unless there is one or nothing above.
Spaced(view) ==
  IF view.blocks = <<>> \/ EndsIn(view, "spacer") THEN view ELSE Push(view, "spacer", <<>>)

\* append_delta: the trailing answer grows, or a new one opens.
PushText(view, delta) ==
  IF EndsIn(view, "answer")
  THEN [view EXCEPT !.blocks[Len(view.blocks)].text = Append(@, delta)]
  ELSE Push(Spaced(view), "answer", <<delta>>)

-----------------------------------------------------------------------------
(* The buffered run.  Calls are numbered in the order of their requests, so  *)
(* a set keeps their order.  The order of a folded group's lines is left out.*)
Buffer(view, call, tool) ==
  [Push(view, "request", <<call>>) EXCEPT
     !.pending = @ \cup {[call |-> call, tool |-> tool, open |-> TRUE, result |-> call, ok |-> TRUE]}]

Open(view, tool) == {e \in view.pending : e.open /\ e.tool = tool}
\* Mutant: a result goes to the newest open call.
NewestOpen(view, tool) == CHOOSE e \in Open(view, tool) : \A f \in Open(view, tool) : f.call <= e.call
\* A result carries its tool's name and no call: the oldest open one gets it.
OldestOpen(view, tool) == CHOOSE e \in Open(view, tool) : \A f \in Open(view, tool) : e.call <= f.call

\* Without an open call the result is a stray line outside the run.
Complete(view, call, tool, ok) ==
  LET taken == OldestOpen(view, tool)
      closed == [taken EXCEPT !.open = FALSE, !.result = call, !.ok = ok]
      shown == Push(view, "result", <<call>>)
  IN IF Open(view, tool) = {} THEN shown
     ELSE [shown EXCEPT !.pending = (@ \ {taken}) \cup {closed}]

\* folds_run: two calls at least, and none that failed.
Folds(closed) == Cardinality(closed) >= 2 /\ \A e \in closed : e.ok

\* The live lines at the tail go, as many as the run has and no further than
\* the first block that is none.
Trailing(blocks, n) ==
  Max({k \in 0..Min({n, Len(blocks)}) :
         \A i \in Len(blocks) - k + 1..Len(blocks) : blocks[i].kind \in {"request", "result"}})

\* flush_tool_buffer: open calls stay buffered.  Each closed one has two live
\* lines, its request and its result.
Flush(view) ==
  LET closed == {e \in view.pending : ~e.open}
      kept == Len(view.blocks) - Trailing(view.blocks, 2 * Cardinality(closed))
      group == Block("group", {<<e.call, e.result>> : e \in closed})
  IN [view EXCEPT
        !.pending = @ \ closed,
        !.blocks = IF Folds(closed) THEN Append(SubSeq(@, 1, kept), group) ELSE @]

-----------------------------------------------------------------------------
(* The attempt in flight.                                                   *)
Mark(view) ==
  [view EXCEPT !.mark =
     [blocks |-> Len(view.blocks), pending |-> view.pending,
      tail |-> IF EndsIn(view, "answer") THEN Len(Last(view.blocks).text) ELSE 0]]

\* Mutant: the mark is taken over an unfolded run.
MarkFirst(view) == Flush(Mark(view))

\* TurnStarted: the finished run folds before the mark is taken.
StartAttempt(view) == Mark(Flush(view))

\* rollback_attempt: what the attempt pushed goes, the answer it went on with
\* is cut back, and a notice says so if any of its text had been shown.
Rollback(view) ==
  LET mark == view.mark
      kept == SubSeq(view.blocks, 1, Min({mark.blocks, Len(view.blocks)}))
      grew == mark.tail > 0 /\ kept # <<>> /\ Last(kept).kind = "answer"
      cut == IF grew
             THEN [kept EXCEPT ![Len(kept)].text = SubSeq(@, 1, mark.tail)] ELSE kept
      discarded == \/ \E i \in mark.blocks + 1..Len(view.blocks) : view.blocks[i].kind = "answer"
                   \/ grew /\ Len(Last(kept).text) > mark.tail
      back == [view EXCEPT !.blocks = cut, !.pending = mark.pending]
  IN IF discarded THEN Push(back, "retry", <<>>) ELSE back

-----------------------------------------------------------------------------
(* What a reader finds on the screen.                                       *)
ShownText(view) ==
  FlattenSeq([i \in DOMAIN view.blocks |->
                IF view.blocks[i].kind = "answer" THEN view.blocks[i].text ELSE <<>>])
Groups(view) == UNION {view.blocks[i].text :
                         i \in {i \in DOMAIN view.blocks : view.blocks[i].kind = "group"}}
ShownResults(view) ==
  {pair[2] : pair \in Groups(view)} \cup
  UNION {Range(view.blocks[i].text) :
           i \in {i \in DOMAIN view.blocks : view.blocks[i].kind = "result"}}
=============================================================================
