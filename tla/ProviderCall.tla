---------------------------- MODULE ProviderCall ----------------------------
(***************************************************************************)
(* Model calls: providers/anthropic.py and providers/openai.py between the *)
(* vendor's stream and the engine, with the parts of engine/loop.py that   *)
(* open the stream, assemble the assistant message and go round the loop.  *)
(* What is streamed in one call is put on the wire again in the next ones, *)
(* after compaction, and to another vendor when the application changed    *)
(* provider between two turns.                                             *)
(*                                                                         *)
(* One chunk of the vendor is one step; the events an adapter yields for   *)
(* it are consumed by the engine in the same step.  A turn may end with an *)
(* exception or a cancellation at any moment (StreamFails, BreakOff, Act   *)
(* with last); its `finally` saves what the history is by then.  Saves     *)
(* that meet another turn's are module Turn's.                             *)
(***************************************************************************)
EXTENDS Wire, Compaction

CONSTANTS
  Vendors,       \* some of "anthropic", "openai", "deepseek", "relay"
  MaxAttempts,   \* retry.max_attempts
  KeepRecent,    \* keep_recent of the compactor
  Compacting,    \* whether there is a compactor
  MaxPieces,     \* bound: pieces streamed, over all calls
  MaxBlocks,     \* bound: blocks of a response
  MaxMessages    \* bound: messages of the history

ASSUME ProviderCallAssumption ==
  /\ Vendors \subseteq {"anthropic", "openai", "deepseek", "relay"} /\ Vendors # {}
  /\ MaxAttempts \in Nat \ {0} /\ KeepRecent \in Nat /\ Compacting \in BOOLEAN
  /\ MaxPieces \in Nat /\ MaxBlocks \in Nat /\ MaxMessages \in Nat

VARIABLES
  vendor,     \* whom the current turn calls
  history,    \* session.messages
  phase,      \* "idle": no turn; "streaming"; "acting": the calls of a response are due
  attempt,    \* of opening the stream
  buffer,     \* the adapter's: unfinished blocks by index
  events,     \* the ProviderStreamEvents of this attempt
  piece,      \* the next piece's number
  said,       \* ghost: the blocks streamed in this attempt, by index
  open,       \* ghost: the indexes of those that are not finished
  ragged,     \* ghost: some turn ended without a last answer
  compacted,  \* ghost: the history was compacted
  brokenOff   \* ghost: some turn ended between a response's calls and their results

call == <<attempt, buffer, events, said, open>>
vars == <<vendor, history, phase, call, piece, ragged, compacted, brokenOff>>

Anthropic == vendor = "anthropic"

-----------------------------------------------------------------------------
(* The arguments of a tool call are a JSON text.  It is an object when its *)
(* last piece is the closing brace; it may also close something that is no *)
(* object.  A text that is not closed does not parse.                      *)

Brace == 0       \* the piece that closes an object
Odd == 1         \* the piece that closes a list, a number, null
FirstPiece == 2

Whole(raw) == raw = <<>> \/ Last(raw) \in {Brace, Odd}

\* json.loads, {} where it fails.
Args(raw) == IF Whole(raw) THEN raw ELSE <<>>

\* ProviderToolCall takes an object only: its constructor raises.
Valid(raw) == raw = <<>> \/ Last(raw) # Odd

-----------------------------------------------------------------------------
(* The engine *)

\* The assistant message: thinking first, then the text, then the calls.
Assembled(evs) ==
  LET texts == Of(evs, {"text_delta"}) IN
    Of(evs, {"thinking", "redacted"})
      \o (IF texts = <<>> THEN <<>> ELSE <<Text(Joined(texts))>>)
      \o Of(evs, {"call"})

TypeOK ==
  /\ vendor \in Vendors
  /\ phase \in {"idle", "streaming", "acting"}
  /\ attempt \in 1..MaxAttempts
  /\ piece \in FirstPiece..(FirstPiece + MaxPieces)
  /\ \A i \in DOMAIN buffer : buffer[i].kind \in {"thinking", "call"}
  /\ open \subseteq DOMAIN said
  /\ Anthropic => DOMAIN buffer \subseteq open
  /\ \A k \in DOMAIN events :
       events[k].kind \in {"text_delta", "thinking_delta", "thinking", "redacted", "call"}
  /\ \A k \in DOMAIN history : history[k].role \in {"user", "assistant", "tool", "system"}
  /\ phase = "acting" => Last(history).role = "assistant"
  /\ phase = "streaming" => Last(history).role \in {"user", "tool", "system"}
  /\ {ragged, compacted, brokenOff} \subseteq BOOLEAN

Nothing == [i \in {} |-> NoId]

Init ==
  /\ vendor \in Vendors
  /\ history = <<>> /\ phase = "idle"
  /\ attempt = 1 /\ buffer = Nothing /\ events = <<>>
  /\ said = Nothing /\ open = {}
  /\ piece = FirstPiece
  /\ ragged = FALSE /\ compacted = FALSE /\ brokenOff = FALSE

\* The locals of a stream that is over, or is about to be opened.
NewCall ==
  /\ attempt' = 1 /\ buffer' = Nothing /\ events' = <<>>
  /\ said' = Nothing /\ open' = {}

\* The turn ends with an exception.
Fail ==
  /\ phase' = "idle" /\ ragged' = TRUE /\ NewCall
  /\ UNCHANGED <<vendor, history, piece, compacted, brokenOff>>

NewTurn(v) ==
  /\ phase = "idle" /\ Len(history) < MaxMessages
  /\ vendor' = v
  /\ history' = Append(history, Message("user", v, <<Text(<<0>>)>>, <<>>))
  /\ phase' = "streaming" /\ NewCall
  /\ UNCHANGED <<piece, ragged, compacted, brokenOff>>

\* The vendor fails.  Before the first event a retryable error is followed by
\* the next attempt, with new buffers; otherwise the turn is over.
RetryAlways(retryable) ==
  /\ phase = "streaming"
  /\ IF retryable /\ attempt < MaxAttempts
       THEN /\ attempt' = attempt + 1
            /\ buffer' = Nothing /\ said' = Nothing /\ open' = {}
            /\ UNCHANGED <<vendor, history, phase, events, piece, ragged, compacted, brokenOff>>
       ELSE Fail

StreamFails(retryable) ==
  /\ phase = "streaming"
  /\ IF retryable /\ events = <<>> /\ attempt < MaxAttempts
       THEN /\ attempt' = attempt + 1
            /\ buffer' = Nothing /\ said' = Nothing /\ open' = {}
            /\ UNCHANGED <<vendor, history, phase, events, piece, ragged, compacted, brokenOff>>
       ELSE Fail

\* The adapter yields evs and the engine takes them.
Yield(evs) == events' = events \o evs

\* The stream has ended after the events evs: the message is recorded.
Record(evs) ==
  /\ LET blocks == Assembled(events \o evs)
         finished == InOrder(said, {i \in DOMAIN said :
                               i \notin open \/ said[i].kind \in {"text", "redacted"}})
     IN /\ history' = Append(history, Message("assistant", vendor, blocks, finished))
        /\ phase' = IF Of(blocks, {"call"}) = <<>> THEN "idle" ELSE "acting"
  /\ NewCall
  /\ UNCHANGED <<vendor, piece, ragged, compacted, brokenOff>>

\* The tools have answered.  The history may be compacted; then the loop goes
\* on, or ends at its last iteration without an answer.
Act(compact, last) ==
  /\ phase = "acting" /\ Len(history) < MaxMessages
  /\ LET calls == Of(Last(history).blocks, {"call"})
         result(c) == Block("result", c.id, <<0>>, <<>>)
         answered == Append(history, Message("tool", vendor, [k \in DOMAIN calls |-> result(calls[k])], <<>>))
     IN history' = IF compact
                     THEN Compacted(answered, KeepRecent, Message("system", vendor, <<Text(<<0>>)>>, <<>>))
                     ELSE answered
  /\ compact => Compacting
  /\ compacted' = (compacted \/ compact)
  /\ phase' = IF last THEN "idle" ELSE "streaming"
  /\ ragged' = (ragged \/ last)
  /\ NewCall
  /\ UNCHANGED <<vendor, piece, brokenOff>>

\* The turn ends before the results are appended: the post_llm hook halts it, the
\* permission resolver raises, it is cancelled in a tool or a hook.  The results
\* there are so far are lost; the calls are in the history, and it is saved.
BreakOff ==
  /\ phase = "acting"
  /\ phase' = "idle" /\ ragged' = TRUE /\ brokenOff' = TRUE /\ NewCall
  /\ UNCHANGED <<vendor, history, piece, compacted>>

-----------------------------------------------------------------------------
(* Chunks, for both adapters. *)

Streaming == phase = "streaming" /\ piece < FirstPiece + MaxPieces

Put(f, i, b) == [j \in DOMAIN f \cup {i} |-> IF j = i THEN b ELSE f[j]]
DropNothing(f, i) == f

Drop(f, i) == [j \in DOMAIN f \ {i} |-> f[j]]

\* Piece p is appended to the text of block i, by the vendor and in the buffer.
Grow(i, p) ==
  /\ said' = [said EXCEPT ![i].text = Append(@, p)]
  /\ buffer' = IF i \in DOMAIN buffer THEN [buffer EXCEPT ![i].text = Append(@, p)] ELSE buffer

\* The next piece of a call's arguments: an ordinary one, or one that closes them.
ArgsPiece(i) ==
  /\ said[i].kind = "call" /\ (said[i].text = <<>> \/ ~Whole(said[i].text))
  /\ \E p \in {piece, Brace, Odd} : Grow(i, p)

Tick == piece' = piece + 1

-----------------------------------------------------------------------------
(* AnthropicProvider.stream: blocks one after the other. *)

Current == Cardinality(DOMAIN said)

BlockStart(kind) ==
  /\ Anthropic /\ Streaming /\ open = {} /\ Current < MaxBlocks
  /\ LET i == Current + 1
         b == Block(kind, IF kind = "call" THEN <<"api", piece>> ELSE NoId,
                    IF kind = "redacted" THEN <<piece>> ELSE <<>>, <<>>)
     IN /\ said' = Put(said, i, b) /\ open' = {i}
        /\ buffer' = IF kind \in {"thinking", "call"} THEN Put(buffer, i, b) ELSE buffer
        /\ Yield(IF kind = "redacted" THEN <<b>> ELSE <<>>)
  /\ piece' = IF kind \in {"redacted", "call"} THEN piece + 1 ELSE piece
  /\ UNCHANGED <<vendor, history, phase, attempt, ragged, compacted, brokenOff>>

TextDelta ==
  /\ Anthropic /\ Streaming /\ open # {} /\ said[Current].kind = "text"
  /\ Grow(Current, piece)
  /\ Yield(<<Block("text_delta", NoId, <<piece>>, <<>>)>>)
  /\ Tick
  /\ UNCHANGED <<vendor, history, phase, attempt, open, ragged, compacted, brokenOff>>

\* The vendor signs a thought after its last piece.
ThinkingDelta ==
  /\ Anthropic /\ Streaming /\ open # {} /\ said[Current].kind = "thinking"
  /\ said[Current].signature = <<>>
  /\ Grow(Current, piece)
  /\ Yield(<<Block("thinking_delta", NoId, <<piece>>, <<>>)>>)
  /\ Tick
  /\ UNCHANGED <<vendor, history, phase, attempt, open, ragged, compacted, brokenOff>>

SignatureDelta ==
  /\ Anthropic /\ Streaming /\ open # {} /\ said[Current].kind = "thinking"
  /\ said[Current].signature = <<>>
  /\ said' = [said EXCEPT ![Current].signature = <<piece>>]
  /\ buffer' = [buffer EXCEPT ![Current].signature = <<piece>>]
  /\ Tick
  /\ UNCHANGED <<vendor, history, phase, attempt, events, open, ragged, compacted, brokenOff>>

InputJsonDelta ==
  /\ Anthropic /\ Streaming /\ open # {}
  /\ ArgsPiece(Current)
  /\ Tick
  /\ UNCHANGED <<vendor, history, phase, attempt, events, open, ragged, compacted, brokenOff>>

\* What the adapter yields for the finished block b.
FinishedUnsigned(b) ==
  IF b.kind = "call" THEN [b EXCEPT !.text = Args(@)] ELSE [b EXCEPT !.signature = <<>>]

Finished(b) == IF b.kind = "call" THEN [b EXCEPT !.text = Args(@)] ELSE b

\* A thought is signed; the arguments of a call may have been cut off.
BlockStop ==
  /\ Anthropic /\ phase = "streaming" /\ open # {}
  /\ said[Current].kind = "thinking" => said[Current].signature # <<>>
  /\ IF Current \in DOMAIN buffer /\ ~Valid(buffer[Current].text)
       THEN Fail
       ELSE /\ open' = {}
            /\ buffer' = Drop(buffer, Current)
            /\ Yield(IF Current \in DOMAIN buffer THEN <<Finished(buffer[Current])>> ELSE <<>>)
            /\ UNCHANGED <<vendor, history, phase, attempt, said, piece, ragged, compacted, brokenOff>>

\* ProviderStreamDone carries a stop reason and the usage: nothing depends on them.
MessageStop ==
  /\ Anthropic /\ phase = "streaming" /\ open = {}
  /\ Record(<<>>)

\* The connection closes without a message_stop: what is unfinished is dropped,
\* and the engine is not told.
StreamCut ==
  /\ Anthropic /\ phase = "streaming"
  /\ Record(<<>>)

-----------------------------------------------------------------------------
(* OpenAIProvider.stream: everything in parallel.  Index 0 is the text,    *)
(* index 1 the reasoning, tool calls follow.                               *)

TextIndex == 0
ThoughtIndex == 1
FirstCall == 2

ContentDelta ==
  /\ ~Anthropic /\ Streaming
  /\ LET old == IF TextIndex \in DOMAIN said THEN said[TextIndex].text ELSE <<>> IN
       said' = Put(said, TextIndex, Text(Append(old, piece)))
  /\ Yield(<<Block("text_delta", NoId, <<piece>>, <<>>)>>)
  /\ Tick
  /\ UNCHANGED <<vendor, history, phase, attempt, buffer, open, ragged, compacted, brokenOff>>

ReasoningDelta ==
  /\ ~Anthropic /\ Streaming
  /\ LET old == IF ThoughtIndex \in DOMAIN buffer THEN buffer[ThoughtIndex].text ELSE <<>>
         new == Block("thinking", NoId, Append(old, piece), <<>>)
     IN said' = Put(said, ThoughtIndex, new) /\ buffer' = Put(buffer, ThoughtIndex, new)
  /\ Yield(<<Block("thinking_delta", NoId, <<piece>>, <<>>)>>)
  /\ Tick
  /\ UNCHANGED <<vendor, history, phase, attempt, open, ragged, compacted, brokenOff>>

\* The first delta of a tool call, with an id or, from some vendors, without.
CallDelta(i, id) ==
  /\ ~Anthropic /\ Streaming /\ i \notin DOMAIN said
  /\ said' = Put(said, i, Block("call", id, <<>>, <<>>))
  /\ buffer' = Put(buffer, i, Block("call", id, <<>>, <<>>))
  /\ Tick
  /\ UNCHANGED <<vendor, history, phase, attempt, events, open, ragged, compacted, brokenOff>>

ArgumentsDelta(i) ==
  /\ ~Anthropic /\ Streaming /\ i \in DOMAIN said
  /\ ArgsPiece(i)
  /\ Tick
  /\ UNCHANGED <<vendor, history, phase, attempt, events, open, ragged, compacted, brokenOff>>

\* A later delta may bring the call's id; the last one counts.
IdDelta(i) ==
  /\ ~Anthropic /\ Streaming /\ i \in DOMAIN said
  /\ said' = [said EXCEPT ![i].id = <<"api", piece>>]
  /\ buffer' = [buffer EXCEPT ![i].id = <<"api", piece>>]
  /\ Tick
  /\ UNCHANGED <<vendor, history, phase, attempt, events, open, ragged, compacted, brokenOff>>

\* The id of the call at index i; one without gets an id that depends on i alone.
OneIdForAll(i) == IF buffer[i].id = NoId THEN <<"openai-tc", 0>> ELSE buffer[i].id

IdOf(i) == IF buffer[i].id = NoId THEN <<"openai-tc", i>> ELSE buffer[i].id

\* The stream ends, with a finish_reason or cut off: the adapter takes both
\* for the end and yields what it has collected.
StreamEnd ==
  /\ ~Anthropic /\ phase = "streaming"
  /\ LET indexes == DOMAIN buffer \ {ThoughtIndex}
         thought == IF ThoughtIndex \in DOMAIN buffer THEN <<buffer[ThoughtIndex]>> ELSE <<>>
         toolCall == [i \in indexes |-> [buffer[i] EXCEPT !.id = IdOf(i), !.text = Args(@)]]
     IN IF \A i \in indexes : Valid(buffer[i].text)
          THEN Record(thought \o InOrder(toolCall, indexes))
          ELSE Fail

-----------------------------------------------------------------------------
Next ==
  \/ \E v \in Vendors : NewTurn(v)
  \/ \E retryable \in BOOLEAN : StreamFails(retryable)
  \/ \E compact, last \in BOOLEAN : Act(compact, last)
  \/ BreakOff
  \/ \E kind \in {"text", "thinking", "redacted", "call"} : BlockStart(kind)
  \/ TextDelta \/ ThinkingDelta \/ SignatureDelta \/ InputJsonDelta
  \/ BlockStop \/ MessageStop \/ StreamCut
  \/ ContentDelta \/ ReasoningDelta \/ StreamEnd
  \/ \E i \in FirstCall..(FirstCall + MaxBlocks - 1) :
       CallDelta(i, <<"api", piece>>) \/ CallDelta(i, NoId) \/ ArgumentsDelta(i) \/ IdDelta(i)

Spec == Init /\ [][Next]_vars

-----------------------------------------------------------------------------
(* Properties. *)

Assistant == {k \in DOMAIN history : history[k].role = "assistant"}

(***************************************************************************)
(* What a vendor said comes back to it as it said it, through the          *)
(* adapter's buffers, the engine's message and the conversion: all of its  *)
(* text, every thought it finished with its signature and before anything  *)
(* else, every call it finished with its id and, when they were whole, its *)
(* arguments; nothing it did not say, and nothing of an attempt that       *)
(* failed; and reasoning_content wherever DeepSeek demands it.             *)
(***************************************************************************)
SaidBack(got, was) ==
  /\ Len(got) = Len(was)
  /\ \A k \in DOMAIN was :
       /\ was[k].id = NoId \/ got[k].id = was[k].id
       /\ Whole(was[k].text) => got[k].text = was[k].text

AnthropicHearsItself(m) ==
  LET wire == Request("anthropic", <<m>>)[1].blocks
      thoughts == Of(m.said, {"thinking", "redacted"})
  IN /\ Of(wire, {"thinking", "redacted"}) = thoughts
     /\ \A k \in DOMAIN thoughts : wire[k] = thoughts[k]
     /\ Joined(Of(wire, {"text"})) = Joined(Of(m.said, {"text"}))
     /\ SaidBack(Of(wire, {"call"}), Of(m.said, {"call"}))

OpenAIHearsItself(m) ==
  LET wire == Request(m.from, <<m>>)[1] IN
    /\ wire.reasoning = Joined(Of(m.said, {"thinking"}))
    /\ wire.reasoned \/ (wire.reasoning = <<>> /\ (wire.calls = <<>> \/ m.from # "deepseek"))
    /\ wire.content = Joined(Of(m.said, {"text"}))
    /\ SaidBack(wire.calls, Of(m.said, {"call"}))

ReplayedAsSaid ==
  \A k \in Assistant :
    IF history[k].from = "anthropic" THEN AnthropicHearsItself(history[k])
                                     ELSE OpenAIHearsItself(history[k])

(***************************************************************************)
(* Whoever made the history, every thought on the wire to Anthropic is one *)
(* Anthropic has signed, whole: it rejects any other for good, since the   *)
(* history is sent again with every call.                                  *)
(***************************************************************************)
OnlySignedThoughts ==
  \A k \in Assistant :
    \A b \in ToSet(Of(Request("anthropic", <<history[k]>>)[1].blocks, {"thinking"})) :
      /\ history[k].from = "anthropic" /\ b \in ToSet(history[k].said)
      /\ b.signature # <<>>

(***************************************************************************)
(* When a request is sent, the calls of each assistant message have        *)
(* distinct ids and are followed by the results of exactly these calls, in *)
(* order; there is no other result.  This is so on either wire, but for    *)
(* the calls of turns that broke off: they dangle in front of the next     *)
(* user message for as long as nothing is compacted, and vendors refuse    *)
(* every request that has such.  Compaction may cut between calls and      *)
(* results as well: not if KeepRecent is even, as its default is, and no   *)
(* turn so far ended without a last answer.                                *)
(***************************************************************************)
Ids(blocks) == [k \in DOMAIN blocks |-> blocks[k].id]

IdsAt(ms, k, kind) == IF k \in DOMAIN ms THEN Ids(Of(ms[k].blocks, {kind})) ELSE <<>>

DanglingForAnthropic(ms) ==
  {k \in DOMAIN ms :
     /\ IdsAt(ms, k, "call") # <<>> /\ k < Len(ms)
     /\ ms[k + 1].role = "user" /\ IdsAt(ms, k + 1, "result") = <<>>}

PairedForAnthropic(ms) ==
  \A k \in 0..Len(ms) :
    /\ IsInjective(IdsAt(ms, k, "call"))
    /\ k \notin DanglingForAnthropic(ms) => IdsAt(ms, k, "call") = IdsAt(ms, k + 1, "result")

\* Here the results are entries of their own: the n behind an entry with n calls.
DanglingForOpenAI(es) ==
  {k \in DOMAIN es : es[k].calls # <<>> /\ k < Len(es) /\ es[k + 1].role = "user"}

PairedForOpenAI(es) ==
  \A k \in DOMAIN es :
    LET n == Len(es[k].calls) IN
      /\ k \notin DanglingForOpenAI(es) =>
           /\ k + n <= Len(es)
           /\ \A j \in 1..n : es[k + j].role = "tool" /\ es[k + j].id = es[k].calls[j].id
      /\ IsInjective(Ids(es[k].calls))
      /\ es[k].role = "tool" =>
           \E j \in 1..(k - 1) : /\ es[j].role = "assistant" /\ j + Len(es[j].calls) >= k
                                 /\ j \notin DanglingForOpenAI(es)

CallsPaired ==
  phase = "streaming" /\ said = Nothing /\ (compacted => KeepRecent % 2 = 0 /\ ~ragged) =>
    \A v \in Vendors :
      LET sent == Request(v, history) IN
        IF v = "anthropic"
          THEN PairedForAnthropic(sent) /\ (DanglingForAnthropic(sent) # {} <=> brokenOff)
          ELSE PairedForOpenAI(sent) /\ (DanglingForOpenAI(sent) # {} <=> brokenOff)

(***************************************************************************)
(* A message without content on the wire is refused with every later call. *)
(* One comes about only if nothing at all was said before the stream       *)
(* ended, or nothing but reasoning: unfinished, or by a vendor that does   *)
(* not sign it.                                                            *)
(***************************************************************************)
SilentOnlyIfNothingSaid ==
  \A k \in Assistant :
    Request("anthropic", <<history[k]>>)[1].blocks = <<>> =>
      /\ Joined(Of(history[k].said, {"text"})) = <<>>
      /\ Of(history[k].said, {"call", "redacted"}) = <<>>
      /\ history[k].from = "anthropic" => history[k].said = <<>> \/ Of(history[k].said, {"text"}) # <<>>

=============================================================================
