---------------------------- MODULE Conversation ----------------------------
(***************************************************************************)
(* What a session remembers of its conversation: the turns, the view of    *)
(* them the provider is sent, and the compaction that replaces the older   *)
(* ones by a summary.  A message is the set of the parts of turns it       *)
(* carries: one for a message said, many for a summary.                    *)
(***************************************************************************)
EXTENDS Integers, Sequences, FiniteSets

CONSTANTS
  KeepTail,  \* COMPACT_KEEP_TAIL_TURNS (2)
  MinTurns,  \* COMPACT_MIN_TURNS (3)
  None
ASSUME CompactionAssumption ==
  KeepTail \in Nat /\ MinTurns \in Nat /\ KeepTail < MinTurns

Parts(turn) == {turn} \X {"user", "assistant"}
Covered(messages) == UNION {messages[i] : i \in DOMAIN messages}

\* What the data-sharing choice lets the provider see of the turns.
Visible(turns, sharing) ==
  LET kept == {i \in DOMAIN turns : sharing \/ ~turns[i].derived}
      nth(k) == CHOOSE i \in kept : Cardinality({j \in kept : j <= i}) = k
  IN [k \in 1..Cardinality(kept) |-> turns[nth(k)]]

\* provider_history without a summary: two messages a turn.
Verbatim(turns) ==
  [i \in 1..2 * Len(turns) |->
     {<<turns[(i + 1) \div 2], IF i % 2 = 1 THEN "user" ELSE "assistant">>}]

\* A compaction that stands: the parts its summary was made of, the number of
\* oldest turns it replaces, and (history) whether no turn was filtered out
\* of it or of the summary before it.
NoCompaction == [over |-> {}, turns |-> 0, whole |-> TRUE]

\* provider_history.
ProviderHistory(turns, sharing, compaction) ==
  LET said == Verbatim(Visible(turns, sharing))
  IN IF compaction.turns > 0 /\ Visible(turns, sharing) = turns
     THEN <<compaction.over>> \o SubSeq(said, 2 * compaction.turns + 1, Len(said))
     ELSE said

Oldest(history, n) == SubSeq(history, 1, IF n < Len(history) THEN n ELSE Len(history))

\* Mutant: one turn more is replaced than was summarised.
PlanShort(turns, sharing, compaction) ==
  LET older == Len(turns) - KeepTail
      taken == Oldest(ProviderHistory(turns, sharing, compaction), 2 * older - 2)
  IN IF Len(turns) <= MinTurns \/ taken = <<>> THEN None
     ELSE [over |-> Covered(taken), turns |-> older,
           whole |-> compaction.whole /\ Visible(turns, sharing) = turns]

\* session_compact::plan over the live history.
Plan(turns, sharing, compaction) ==
  LET older == Len(turns) - KeepTail
      taken == Oldest(ProviderHistory(turns, sharing, compaction), 2 * older)
  IN IF Len(turns) <= MinTurns \/ taken = <<>> THEN None
     ELSE [over |-> Covered(taken), turns |-> older,
           whole |-> compaction.whole /\ Visible(turns, sharing) = turns]
=============================================================================
