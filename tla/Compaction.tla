----------------------------- MODULE Compaction -----------------------------
(***************************************************************************)
(* SummarizationCompactor.compact (builtin/compaction/summarization.py) on *)
(* a sequence of messages with a role: the leading system messages stay,   *)
(* the last `keep` stay, what is between becomes one summary.              *)
(***************************************************************************)
EXTENDS Naturals, Sequences, FiniteSets

Leading(ms) == Cardinality({k \in 1..Len(ms) : \A j \in 1..k : ms[j].role = "system"})

\* rest[-0:] is the whole of rest: keep = 0 summarises nothing and drops nothing.
CompactedOneMore(ms, keep, summary) ==
  IF Len(ms) - Leading(ms) <= keep THEN ms
  ELSE SubSeq(ms, 1, Leading(ms)) \o <<summary>> \o SubSeq(ms, Len(ms) - keep, Len(ms))

Compacted(ms, keep, summary) ==
  IF Len(ms) - Leading(ms) <= keep THEN ms
  ELSE SubSeq(ms, 1, Leading(ms)) \o <<summary>>
         \o SubSeq(ms, IF keep = 0 THEN Leading(ms) + 1 ELSE Len(ms) - keep + 1, Len(ms))

=============================================================================
