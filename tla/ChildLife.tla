----------------------------- MODULE ChildLife -----------------------------
(***************************************************************************)
(* What a multi-agent backend promises about child agents, without tasks,  *)
(* futures and timers: the status of a child goes from unknown to running  *)
(* to one final state and stays there, and whatever a caller is told about *)
(* a child is final and true when it is told.                              *)
(***************************************************************************)
CONSTANTS Children, Callers

VARIABLES
  status,     \* of each child
  answer      \* of each caller: the child it last asked about, and what it was told

Final == {"succeeded", "failed", "cancelled"}

\* The verdicts a caller may be given when the status of its child is s.
Tellable(s) ==
  CASE s = "succeeded" -> {"result", "timeout", "gone"}
    [] s = "failed"    -> {"error", "timeout", "gone"}
    [] s = "cancelled" -> {"cancelled", "timeout", "gone"}
    [] s = "unknown"   -> {"not_found", "gone"}
    [] OTHER           -> {}

Init ==
  /\ status = [c \in Children |-> "unknown"]
  /\ answer \in [Callers -> {<<>>}]

Begin(c) ==
  /\ status[c] = "unknown"
  /\ status' = [status EXCEPT ![c] = "running"]

End(c) ==
  /\ status[c] = "running"
  /\ \E s \in Final : status' = [status EXCEPT ![c] = s]

\* A blocking child is heard of when it has succeeded, or not at all.
BeginAndSucceed(c) ==
  /\ status[c] = "unknown"
  /\ status' = [status EXCEPT ![c] = "succeeded"]

Live(c) == (Begin(c) \/ End(c) \/ BeginAndSucceed(c)) /\ UNCHANGED answer

Ask(k) ==
  /\ answer' = [answer EXCEPT ![k] = <<>>]
  /\ UNCHANGED status

Hear(k, c) ==
  /\ \E v \in Tellable(status[c]) : answer' = [answer EXCEPT ![k] = <<c, v>>]
  /\ UNCHANGED status

Next ==
  \/ \E c \in Children : Live(c)
  \/ \E k \in Callers : Ask(k)
  \/ \E k \in Callers, c \in Children : Hear(k, c)

Spec == Init /\ [][Next]_<<status, answer>>

=============================================================================
