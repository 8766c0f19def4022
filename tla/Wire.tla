-------------------------------- MODULE Wire --------------------------------
(***************************************************************************)
(* Messages, and how the two provider adapters put a history on the wire   *)
(* (_convert_messages_to_anthropic and _convert_messages_to_openai).       *)
(*                                                                         *)
(* A text, a signature or a JSON string is the sequence of the pieces it   *)
(* was streamed in; every piece is a number of its own, so that a piece    *)
(* lost, doubled, moved or taken from another stream shows.  Names, images *)
(* and the escaping of strings are left out.                               *)
(***************************************************************************)
EXTENDS Naturals, Sequences, SequencesExt

Block(kind, id, text, signature) ==
  [kind |-> kind, id |-> id, text |-> text, signature |-> signature]

NoId == <<"none", 0>>
Text(pieces) == Block("text", NoId, pieces, <<>>)

\* `from` is the vendor that made the message; `said` is a ghost: the blocks
\* that vendor had finished streaming.
Message(role, from, blocks, said) ==
  [role |-> role, from |-> from, blocks |-> blocks, said |-> said]

\* The k-th of the numbers S, and the values of f at the numbers S, in their order.
Nth(S, k) == CHOOSE i \in S : Cardinality({j \in S : j <= i}) = k
InOrder(f, S) == [k \in 1..Cardinality(S) |-> f[Nth(S, k)]]

Of(blocks, kinds) == InOrder(blocks, {k \in DOMAIN blocks : blocks[k].kind \in kinds})

\* "".join of the blocks' texts.
Joined(blocks) == FlattenSeq([k \in DOMAIN blocks |-> blocks[k].text])

-----------------------------------------------------------------------------
(* Anthropic: system messages move to the system prompt, tool results are  *)
(* a user message, thinking nobody signed is dropped.                      *)

Signed(b) == b.kind = "thinking" => b.signature # <<>>

ConvertBlocksUnsignedToo(blocks) == blocks

ConvertBlocks(blocks) == InOrder(blocks, {k \in DOMAIN blocks : Signed(blocks[k])})

ToAnthropic(ms) ==
  LET spoken == InOrder(ms, {k \in DOMAIN ms : ms[k].role # "system"}) IN
    [k \in DOMAIN spoken |->
       [role |-> IF spoken[k].role = "tool" THEN "user" ELSE spoken[k].role,
        blocks |-> ConvertBlocks(spoken[k].blocks)]]

-----------------------------------------------------------------------------
(* OpenAI Chat Completions: one entry per message, and one per tool        *)
(* result.  `replay` is the gate for vendors that want reasoning_content   *)
(* with every tool call.                                                   *)

Entry(role, id, content, calls, reasoned, reasoning) ==
  [role |-> role, id |-> id, content |-> content, calls |-> calls,
   reasoned |-> reasoned, reasoning |-> reasoning]

\* reasoning_content: what was thought, or an empty string where the gate asks for it.
Entries(m, replay) ==
  IF m.role = "tool"
    THEN [k \in DOMAIN m.blocks |-> Entry("tool", m.blocks[k].id, m.blocks[k].text, <<>>, FALSE, <<>>)]
    ELSE LET calls == Of(m.blocks, {"call"})
             thoughts == Of(m.blocks, {"thinking"})
             reasoned == m.role = "assistant" /\ (thoughts # <<>> \/ (calls # <<>> /\ replay))
         IN <<Entry(m.role, NoId, Joined(Of(m.blocks, {"text"})), calls, reasoned,
                    IF reasoned THEN Joined(thoughts) ELSE <<>>)>>

ToOpenAI(ms, replay) == FlattenSeq([k \in DOMAIN ms |-> Entries(ms[k], replay)])

\* is_deepseek_reasoner: the endpoint's and the model's name must both match.
DeepseekEndpoint(v) == v = "deepseek"
DeepseekModel(v) == v \in {"deepseek", "relay"}
IsDeepseekReasoner(v) == DeepseekEndpoint(v) /\ DeepseekModel(v)
RequiresReplay(v) == IsDeepseekReasoner(v)

\* What vendor v is sent for the history ms.
Request(v, ms) == IF v = "anthropic" THEN ToAnthropic(ms) ELSE ToOpenAI(ms, RequiresReplay(v))

=============================================================================
