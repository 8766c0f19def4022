------------------------- MODULE ProviderCallProofs -------------------------
(***************************************************************************)
(* Model calls, for any set of vendors, any number of attempts, blocks,    *)
(* pieces and messages and any compaction window: what a vendor said comes *)
(* back as it said it, only signed thoughts go to Anthropic, and calls and *)
(* results are paired on either wire.                                      *)
(***************************************************************************)
EXTENDS ProviderCall, WireProofs

(***************************************************************************)
(* What the state is made of.  A block is open, in an event, or in a       *)
(* message.                                                                *)
(***************************************************************************)
Kinds == {"text", "thinking", "redacted", "call"}
EventKinds == {"text_delta", "thinking_delta", "thinking", "redacted", "call"}
Identifiers == {"none", "api", "openai-tc"} \X Nat

Blocks == [kind : Kinds \cup EventKinds \cup {"result"}, id : Identifiers,
           text : Seq(Nat), signature : Seq(Nat)]

Messages == [role : {"user", "assistant", "tool", "system"}, from : Vendors,
             blocks : Seq(Blocks), said : Seq(Blocks)]

(***************************************************************************)
(* The variables without structure.                                        *)
(***************************************************************************)
Control ==
  /\ vendor \in Vendors
  /\ phase \in {"idle", "streaming", "acting"}
  /\ attempt \in 1..MaxAttempts
  /\ piece \in FirstPiece..(FirstPiece + MaxPieces)
  /\ ragged \in BOOLEAN /\ compacted \in BOOLEAN /\ brokenOff \in BOOLEAN

(***************************************************************************)
(* The blocks streamed in this attempt, and the events: the adapter's      *)
(* buffer holds unfinished blocks as the vendor has streamed them so far.  *)
(***************************************************************************)
StreamTyped ==
  /\ Numbers(DOMAIN said) /\ said \in [DOMAIN said -> Blocks]
  /\ \A i \in DOMAIN said : said[i].kind \in Kinds
  /\ DOMAIN buffer \subseteq DOMAIN said
  /\ buffer = [i \in DOMAIN buffer |-> said[i]]
  /\ events \in Seq(Blocks)
  /\ \A k \in 1..Len(events) : events[k].kind \in EventKinds
  /\ open \subseteq DOMAIN said

(***************************************************************************)
(* Anthropic streams one block after the other: at most the last one is    *)
(* open, and a thought is signed when it is finished.                      *)
(***************************************************************************)
Serial ==
  Anthropic =>
    /\ DOMAIN said = 1..Current
    /\ open = {} \/ open = {Current}
    /\ DOMAIN buffer = {i \in open : said[i].kind \in {"thinking", "call"}}
    /\ \A i \in DOMAIN said \ open : said[i].kind = "thinking" => said[i].signature # <<>>

(***************************************************************************)
(* The others stream everything at once, at fixed indexes, and sign        *)
(* nothing; the buffer holds all but the text.                             *)
(***************************************************************************)
Parallel ==
  ~Anthropic =>
    /\ open = {}
    /\ DOMAIN buffer = DOMAIN said \ {TextIndex}
    /\ \A k \in 1..Len(events) : events[k].kind \in {"text_delta", "thinking_delta"}
    /\ \A i \in DOMAIN said :
         /\ said[i].kind = (IF i = TextIndex THEN "text" ELSE IF i = ThoughtIndex THEN "thinking" ELSE "call")
         /\ said[i].signature = <<>>
         /\ said[i].kind # "call" => said[i].id = NoId

(***************************************************************************)
(* The blocks that would be recorded as said if the stream ended now:      *)
(* those that are finished, and those that go on at once or are never in   *)
(* the buffer.                                                             *)
(***************************************************************************)
Done == {i \in DOMAIN said : i \notin open \/ said[i].kind \in {"text", "redacted"}}
DoneOf(kinds) == {i \in Done : said[i].kind \in kinds}
Thoughts == {"thinking", "redacted"}

(***************************************************************************)
(* The blocks as the adapter yields them.                                  *)
(***************************************************************************)
Sent == [i \in DOMAIN said |-> Finished(said[i])]

(***************************************************************************)
(* The events tell what is done: the text joined, the thoughts and the     *)
(* calls one by one and in the order of their indexes.                     *)
(***************************************************************************)
HeardText ==
  Joined(Of(events, {"text_delta"})) = Joined(InOrder(said, DoneOf({"text"})))

HeardThoughts == Anthropic => Of(events, Thoughts) = InOrder(said, DoneOf(Thoughts))
HeardCalls == Anthropic => Of(events, {"call"}) = InOrder(Sent, DoneOf({"call"}))

(***************************************************************************)
(* An id comes with a piece, so no two blocks of a stream have the same    *)
(* one; Anthropic gives every call an id.                                  *)
(***************************************************************************)
Identified ==
  /\ \A i \in DOMAIN said :
       said[i].id = NoId \/ \E p \in FirstPiece..(piece - 1) : said[i].id = <<"api", p>>
  /\ \A i, j \in DOMAIN said : said[i].id = said[j].id /\ said[i].id # NoId => i = j
  /\ Anthropic => \A i \in DOMAIN said : said[i].kind = "call" => said[i].id # NoId

(***************************************************************************)
(* The invariant of one stream.                                            *)
(***************************************************************************)
Stream == StreamTyped /\ Serial /\ Parallel /\ HeardText /\ HeardThoughts /\ HeardCalls /\ Identified

(***************************************************************************)
(* Before the first chunk nothing is done.                                 *)
(***************************************************************************)
LEMMA BlocksText == Texts(Blocks, Nat)
BY DEF Texts, Blocks

LEMMA NoneDone == ASSUME DOMAIN said = {}, NEW K
                  PROVE  DoneOf(K) = {} /\ InOrder(said, DoneOf(K)) = <<>>
BY InOrderEmpty DEF DoneOf, Done

LEMMA DoneNumbers ==
  ASSUME StreamTyped, NEW K
  PROVE  Numbers(DoneOf(K)) /\ DoneOf(K) \subseteq DOMAIN said
BY SubNumbers DEF StreamTyped, DoneOf, Done

Fresh == said = Nothing /\ buffer = Nothing /\ open = {} /\ events = <<>>

LEMMA FreshStream == Fresh => Stream
<1> SUFFICES ASSUME Fresh PROVE Stream
  OBVIOUS
<1>1. DOMAIN said = {} /\ DOMAIN buffer = {} /\ open = {} /\ events = <<>>
  BY DEF Fresh, Nothing
<1>2. Numbers({}) /\ Cardinality({}) = 0
  BY FS_EmptySet DEF Numbers
<1>3. said = [i \in {} |-> NoId] /\ buffer = [i \in {} |-> NoId]
  BY DEF Fresh, Nothing
<1>4. StreamTyped
  <2>1. said \in [{} -> Blocks] /\ buffer = [i \in {} |-> said[i]]
    BY <1>3
  <2> QED BY <1>1, <1>2, <2>1 DEF StreamTyped
<1>5. Serial
  <2>1. Current = 0
    BY <1>1, <1>2 DEF Current
  <2>2. DOMAIN said = 1..Current
    BY <1>1, <2>1
  <2>3. DOMAIN buffer = {i \in open : said[i].kind \in {"thinking", "call"}}
    BY <1>1
  <2> QED BY <1>1, <2>2, <2>3 DEF Serial
<1>6. Parallel
  BY <1>1 DEF Parallel
<1>7. HeardText
  <2>1. Of(events, {"text_delta"}) = <<>> /\ InOrder(said, DoneOf({"text"})) = <<>>
    BY <1>1, OfEmpty, NoneDone
  <2> QED BY <2>1 DEF HeardText
<1>8. HeardThoughts
  <2>1. Of(events, Thoughts) = <<>> /\ InOrder(said, DoneOf(Thoughts)) = <<>>
    BY <1>1, OfEmpty, NoneDone
  <2> QED BY <2>1 DEF HeardThoughts
<1>9. HeardCalls
  <2>1. Of(events, {"call"}) = <<>> /\ DoneOf({"call"}) = {}
    BY <1>1, OfEmpty, NoneDone
  <2> QED BY <2>1, InOrderEmpty DEF HeardCalls
<1>10. Identified
  BY <1>1 DEF Identified
<1> QED BY <1>4, <1>5, <1>6, <1>7, <1>8, <1>9, <1>10 DEF Stream

(***************************************************************************)
(* What yielding one block adds to what is picked of the events.           *)
(***************************************************************************)
LEMMA OfYield ==
  ASSUME NEW T, NEW s \in Seq(T), NEW b \in T, NEW K
  PROVE  /\ s \o <<b>> \in Seq(T) /\ Len(s \o <<b>>) = Len(s) + 1
         /\ \A k \in 1..Len(s) : (s \o <<b>>)[k] = s[k]
         /\ (s \o <<b>>)[Len(s) + 1] = b
         /\ Of(s, K) \in Seq(T)
         /\ b.kind \in K => Of(s \o <<b>>, K) = Append(Of(s, K), b)
         /\ b.kind \notin K => Of(s \o <<b>>, K) = Of(s, K)
<1> DEFINE t == <<b>>
<1>1. t \in Seq(T) /\ Len(t) = 1 /\ t[1] = b
  OBVIOUS
<1>2. Of(s \o t, K) = Of(s, K) \o Of(t, K)
  <2> HIDE DEF t
  <2> QED BY <1>1, OfConcat
<1>3. Of(s, K) \in Seq(T)
  BY OfProperties
<1>4. ASSUME b.kind \in K PROVE Of(s \o t, K) = Append(Of(s, K), b)
  <2>1. Of(t, K) = t
    <3> HIDE DEF t
    <3>1. \A i \in 1..Len(t) : t[i].kind \in K
      BY <1>1, <1>4
    <3> QED BY <1>1, <3>1, OfAll
  <2>2. Of(s, K) \o <<b>> = Append(Of(s, K), b)
    BY <1>3, AppendIsConcat
  <2> QED BY <1>2, <2>1, <2>2
<1>5. ASSUME b.kind \notin K PROVE Of(s \o t, K) = Of(s, K)
  <2>1. Of(t, K) = <<>>
    <3> HIDE DEF t
    <3>1. \A i \in 1..Len(t) : t[i].kind \notin K
      BY <1>1, <1>5
    <3> QED BY <1>1, <3>1, OfNone
  <2> QED BY <1>2, <1>3, <2>1, ConcatEmptySeq
<1>6. /\ s \o <<b>> \in Seq(T) /\ Len(s \o <<b>>) = Len(s) + 1
      /\ \A k \in 1..Len(s) : (s \o <<b>>)[k] = s[k]
      /\ (s \o <<b>>)[Len(s) + 1] = b
  BY <1>1
<1> QED BY <1>3, <1>4, <1>5, <1>6

(***************************************************************************)
(* json.loads, and the block that is yielded, keep kind, id and signature; *)
(* what is parsed is what was streamed or {}.                              *)
(***************************************************************************)
LEMMA ArgsTyped ==
  ASSUME NEW raw \in Seq(Nat)
  PROVE  Args(raw) \in Seq(Nat)
BY DEF Args

LEMMA FinishedProperties ==
  ASSUME NEW b \in Blocks
  PROVE  /\ Finished(b) \in Blocks /\ Finished(b).kind = b.kind /\ Finished(b).id = b.id
         /\ Finished(b).signature = b.signature
         /\ b.kind # "call" => Finished(b) = b
         /\ Whole(b.text) => Finished(b).text = b.text
<1>1. b.text \in Seq(Nat) /\ Args(b.text) \in Seq(Nat)
  BY ArgsTyped DEF Blocks
<1>2. Whole(b.text) => Args(b.text) = b.text
  BY DEF Args
<1>3. CASE b.kind = "call"
  <2>1. Finished(b) = [b EXCEPT !.text = Args(b.text)]
    BY <1>3 DEF Finished
  <2>2. b = [kind |-> b.kind, id |-> b.id, text |-> b.text, signature |-> b.signature]
    BY DEF Blocks
  <2>3. Finished(b) = [kind |-> b.kind, id |-> b.id, text |-> Args(b.text), signature |-> b.signature]
    BY <2>1, <2>2
  <2> HIDE DEF Finished
  <2> QED BY <1>1, <1>2, <1>3, <2>3 DEF Blocks
<1>4. CASE b.kind # "call"
  BY <1>4 DEF Finished
<1> QED BY <1>3, <1>4

LEMMA SentTyped ==
  ASSUME StreamTyped
  PROVE  \A i \in DOMAIN said : Sent[i] \in Blocks /\ Sent[i].kind = said[i].kind
BY FinishedProperties DEF StreamTyped, Sent

(***************************************************************************)
(* A chunk that finishes nothing: the same blocks are done and nothing     *)
(* about them has changed.  Then what was heard is still all there is.     *)
(***************************************************************************)
DoneSame(K) ==
  /\ DoneOf(K)' = DoneOf(K)
  /\ \A j \in DoneOf(K) : said'[j] = said[j]

LEMMA DoneSameText ==
  ASSUME StreamTyped, HeardText, DoneSame({"text"}), Of(events', {"text_delta"}) = Of(events, {"text_delta"})
  PROVE  HeardText'
<1>1. Numbers(DoneOf({"text"}))
  BY DoneNumbers
<1>2. InOrder(said', DoneOf({"text"})) = InOrder(said, DoneOf({"text"}))
  BY <1>1, InOrderSame DEF DoneSame
<1> QED BY <1>2 DEF HeardText, DoneSame

LEMMA DoneSameThoughts ==
  ASSUME StreamTyped, HeardThoughts, DoneSame(Thoughts), Of(events', Thoughts) = Of(events, Thoughts),
         vendor' = vendor
  PROVE  HeardThoughts'
<1>1. Numbers(DoneOf(Thoughts))
  BY DoneNumbers
<1>2. InOrder(said', DoneOf(Thoughts)) = InOrder(said, DoneOf(Thoughts))
  BY <1>1, InOrderSame DEF DoneSame
<1>3. Thoughts' = Thoughts
  BY DEF Thoughts
<1> QED BY <1>2, <1>3 DEF HeardThoughts, DoneSame, Anthropic

LEMMA DoneSameCalls ==
  ASSUME StreamTyped, HeardCalls, DoneSame({"call"}), Of(events', {"call"}) = Of(events, {"call"}),
         vendor' = vendor, DOMAIN said \subseteq DOMAIN said'
  PROVE  HeardCalls'
<1>1. Numbers(DoneOf({"call"})) /\ DoneOf({"call"}) \subseteq DOMAIN said
  BY DoneNumbers
<1>2. \A j \in DoneOf({"call"}) : Sent'[j] = Sent[j]
  BY <1>1 DEF DoneSame, Sent
<1>3. InOrder(Sent', DoneOf({"call"})) = InOrder(Sent, DoneOf({"call"}))
  BY <1>1, <1>2, InOrderSame
<1> QED BY <1>3 DEF HeardCalls, DoneSame, Anthropic

(***************************************************************************)
(* A chunk that finishes block i, behind the others.                       *)
(***************************************************************************)
DoneMore(K, i) ==
  /\ DoneOf(K)' = DoneOf(K) \cup {i}
  /\ \A j \in DoneOf(K) : said'[j] = said[j] /\ j < i

LEMMA DoneMoreInOrder ==
  ASSUME StreamTyped, NEW K, NEW i \in Nat, DoneMore(K, i), said'[i] \in Blocks
  PROVE  InOrder(said', DoneOf(K)') = Append(InOrder(said, DoneOf(K)), said'[i])
<1>1. Numbers(DoneOf(K)) /\ \A j \in DoneOf(K) : said[j] \in Blocks
  BY DoneNumbers DEF StreamTyped
<1>2. \A j \in DoneOf(K) \cup {i} : said'[j] \in Blocks
  BY <1>1 DEF DoneMore
<1>3. \A j \in DoneOf(K) : j < i
  BY DEF DoneMore
<1>4. InOrder(said', DoneOf(K) \cup {i}) = Append(InOrder(said', DoneOf(K)), said'[i])
  BY <1>1, <1>2, <1>3, InOrderAdd
<1>5. InOrder(said', DoneOf(K)) = InOrder(said, DoneOf(K))
  BY <1>1, InOrderSame DEF DoneMore
<1> QED BY <1>4, <1>5 DEF DoneMore

LEMMA DoneMoreSent ==
  ASSUME StreamTyped, NEW K, NEW i \in Nat, DoneMore(K, i), said'[i] \in Blocks,
         DOMAIN said \subseteq DOMAIN said', i \in DOMAIN said'
  PROVE  InOrder(Sent', DoneOf(K)') = Append(InOrder(Sent, DoneOf(K)), Finished(said'[i]))
<1>1. /\ Numbers(DoneOf(K)) /\ DoneOf(K) \subseteq DOMAIN said
      /\ \A j \in DoneOf(K) : Sent[j] \in Blocks
  BY DoneNumbers, SentTyped
<1>2. \A j \in DoneOf(K) : Sent'[j] = Sent[j]
  BY <1>1 DEF DoneMore, Sent
<1>3. Sent'[i] = Finished(said'[i]) /\ Finished(said'[i]) \in Blocks
  BY FinishedProperties DEF Sent
<1>4. \A j \in DoneOf(K) \cup {i} : Sent'[j] \in Blocks
  BY <1>1, <1>2, <1>3
<1>5. \A j \in DoneOf(K) : j < i
  BY DEF DoneMore
<1>6. InOrder(Sent', DoneOf(K) \cup {i}) = Append(InOrder(Sent', DoneOf(K)), Sent'[i])
  BY <1>1, <1>4, <1>5, InOrderAdd
<1>7. InOrder(Sent', DoneOf(K)) = InOrder(Sent, DoneOf(K))
  BY <1>1, <1>2, InOrderSame
<1> QED BY <1>3, <1>6, <1>7 DEF DoneMore

(***************************************************************************)
(* The parts of a chunk's step: Put, the blocks of Anthropic, the number   *)
(* of the next piece.                                                      *)
(***************************************************************************)
LEMMA PutProperties ==
  ASSUME NEW f, NEW i, NEW b
  PROVE  /\ DOMAIN Put(f, i, b) = DOMAIN f \cup {i}
         /\ Put(f, i, b)[i] = b
         /\ \A j \in DOMAIN f : j # i => Put(f, i, b)[j] = f[j]
BY DEF Put

LEMMA SerialFacts ==
  ASSUME Serial, StreamTyped, Anthropic
  PROVE  /\ Current \in Nat /\ DOMAIN said = 1..Current
         /\ open = {} \/ open = {Current}
         /\ DOMAIN buffer = {i \in open : said[i].kind \in {"thinking", "call"}}
         /\ open # {} => Current \in 1..Current /\ said[Current] \in Blocks
<1>1. Current \in Nat
  BY FS_CardinalityType DEF StreamTyped, Numbers, Current
<1>2. DOMAIN said = 1..Current /\ (open = {} \/ open = {Current}) /\ open \subseteq DOMAIN said
  BY DEF Serial, StreamTyped
<1>3. open # {} => Current \in 1..Current
  BY <1>2
<1> QED BY <1>1, <1>2, <1>3 DEF Serial, StreamTyped

LEMMA PieceTyped ==
  ASSUME Control
  PROVE  /\ piece \in Nat /\ piece >= 2
         /\ <<piece>> \in Seq(Nat)
         /\ NoId \in Identifiers /\ <<"api", piece>> \in Identifiers
<1>1. piece \in Nat /\ piece >= 2
  BY ProviderCallAssumption DEF Control, FirstPiece
<1>2. NoId \in Identifiers
  BY DEF NoId, Identifiers
<1> QED BY <1>1, <1>2 DEF Identifiers

LEMMA IntervalGrows ==
  ASSUME NEW a \in Nat, NEW b \in Nat, NEW c \in Nat, b <= c
  PROVE  a..(b - 1) \subseteq a..(c - 1)
OBVIOUS

(***************************************************************************)
(* content_block_start keeps the invariant of the stream: a new last       *)
(* block, done at once if it is redacted.                                  *)
(***************************************************************************)
LEMMA BlockStartStream ==
  ASSUME Control, Stream, NEW kind \in Kinds, BlockStart(kind)
  PROVE  Stream'
<1> DEFINE n == Current
           i == Current + 1
           b == Block(kind, IF kind = "call" THEN <<"api", piece>> ELSE NoId,
                      IF kind = "redacted" THEN <<piece>> ELSE <<>>, <<>>)
<1>1. /\ Anthropic /\ Anthropic' /\ open = {} /\ vendor' = vendor
      /\ said' = Put(said, i, b) /\ open' = {i}
      /\ buffer' = (IF kind \in {"thinking", "call"} THEN Put(buffer, i, b) ELSE buffer)
      /\ events' = events \o (IF kind = "redacted" THEN <<b>> ELSE <<>>)
      /\ piece' = (IF kind \in {"redacted", "call"} THEN piece + 1 ELSE piece)
  BY DEF BlockStart, Anthropic, Yield
<1>2. /\ n \in Nat /\ DOMAIN said = 1..n /\ DOMAIN buffer = {}
      /\ StreamTyped /\ Serial /\ Parallel /\ HeardText /\ HeardThoughts /\ HeardCalls /\ Identified
  BY <1>1, SerialFacts DEF Stream
<1>3. /\ b \in Blocks /\ b.kind = kind /\ b.text = (IF kind = "redacted" THEN <<piece>> ELSE <<>>)
      /\ b.id = (IF kind = "call" THEN <<"api", piece>> ELSE NoId)
  <2> DEFINE id == IF kind = "call" THEN <<"api", piece>> ELSE NoId
             text == IF kind = "redacted" THEN <<piece>> ELSE <<>>
  <2>1. id \in Identifiers
    BY PieceTyped
  <2>2. text \in Seq(Nat) /\ <<>> \in Seq(Nat)
    BY PieceTyped
  <2>3. kind \in Kinds \cup EventKinds \cup {"result"}
    OBVIOUS
  <2>4. b = Block(kind, id, text, <<>>)
    OBVIOUS
  <2> HIDE DEF id, text, b
  <2>5. b \in Blocks /\ b.kind = kind /\ b.text = text /\ b.id = id
    BY <2>1, <2>2, <2>3, <2>4 DEF Block, Blocks
  <2> QED BY <2>5 DEF id, text
<1>4. DOMAIN said' = 1..i /\ said'[i] = b /\ \A j \in 1..n : said'[j] = said[j]
  <2>1. DOMAIN said' = (1..n) \cup {i}
    BY <1>1, <1>2, PutProperties
  <2>2. \A j \in 1..n : j # i
    BY <1>2
  <2> HIDE DEF b
  <2>3. said' = Put(said, i, b)
    BY <1>1
  <2>4. said'[i] = b /\ \A j \in DOMAIN said : j # i => said'[j] = said[j]
    <3> HIDE DEF i
    <3> QED BY <2>3 DEF Put
  <2>5. (1..n) \cup {i} = 1..i
    BY <1>2
  <2> QED BY <1>2, <2>1, <2>2, <2>4, <2>5
<1>5. Numbers(1..i) /\ Cardinality(1..i) = i /\ i \in Nat
  BY <1>2, IntervalNumbers
<1>6. Current' = i
  BY <1>4, <1>5 DEF Current
<1> HIDE DEF b
<1>7. events' = (IF kind = "redacted" THEN events \o <<b>> ELSE events) /\ events \in Seq(Blocks)
  <2>1. events \in Seq(Blocks)
    BY <1>2 DEF StreamTyped
  <2> QED BY <1>1, <2>1, ConcatEmptySeq
<1>8. /\ DOMAIN buffer' = (IF kind \in {"thinking", "call"} THEN {i} ELSE {})
      /\ buffer' = [j \in DOMAIN buffer' |-> said'[j]]
  <2>1. CASE kind \in {"thinking", "call"}
    BY <1>1, <1>2, <1>4, <2>1 DEF Put
  <2>2. CASE kind \notin {"thinking", "call"}
    BY <1>1, <1>2, <2>2 DEF StreamTyped
  <2> QED BY <2>1, <2>2
<1>9. events' \in Seq(Blocks) /\ \A k \in 1..Len(events') : events'[k].kind \in EventKinds
  <2>1. \A k \in 1..Len(events) : events[k].kind \in EventKinds
    BY <1>2 DEF StreamTyped
  <2>2. CASE kind = "redacted"
    <3>1. events' = events \o <<b>>
      BY <1>7, <2>2
    <3>2. b.kind \in EventKinds
      BY <1>3, <2>2 DEF EventKinds
    <3>3. /\ events' \in Seq(Blocks) /\ Len(events') = Len(events) + 1
          /\ \A k \in 1..Len(events) : events'[k] = events[k]
          /\ events'[Len(events) + 1] = b
      BY <1>3, <1>7, <3>1, OfYield
    <3>4. \A k \in 1..(Len(events) + 1) : k = Len(events) + 1 \/ k \in 1..Len(events)
      BY <1>7
    <3> QED BY <2>1, <3>2, <3>3, <3>4
  <2> QED BY <1>7, <2>1, <2>2
<1>10. StreamTyped'
  <2>1. said' \in [DOMAIN said' -> Blocks] /\ \A j \in DOMAIN said' : said'[j].kind \in Kinds
    <3>1. said' = [j \in DOMAIN said' |-> said'[j]]
      BY <1>1 DEF Put
    <3>2. \A j \in DOMAIN said : said[j] \in Blocks /\ said[j].kind \in Kinds
      BY <1>2 DEF StreamTyped
    <3>3. \A j \in 1..i : j # i => j \in 1..n
      BY <1>2
    <3>4. \A j \in DOMAIN said' : said'[j] \in Blocks /\ said'[j].kind \in Kinds
      BY <1>2, <1>3, <1>4, <3>2, <3>3
    <3> QED BY <3>1, <3>4
  <2>2. i \in 1..i
    BY <1>2
  <2> QED BY <1>1, <1>4, <1>5, <1>8, <1>9, <2>1, <2>2 DEF StreamTyped
<1>11. Serial'
  <2>1. DOMAIN buffer' = {j \in open' : said'[j].kind \in {"thinking", "call"}}
    BY <1>1, <1>3, <1>4, <1>8
  <2>2. \A j \in DOMAIN said' \ open' : said'[j].kind = "thinking" => said'[j].signature # <<>>
    <3>1. \A j \in DOMAIN said' \ open' : j \in 1..n
      BY <1>1, <1>2, <1>4
    <3> QED BY <1>1, <1>2, <1>4, <3>1 DEF Serial
  <2> QED BY <1>1, <1>4, <1>6, <2>1, <2>2 DEF Serial
<1>12. Parallel'
  BY <1>1 DEF Parallel
<1>13. Identified'
  <2>1. /\ piece' \in Nat /\ piece \in Nat
        /\ piece >= 2 /\ (kind = "call" => piece \in 2..(piece' - 1)) /\ piece <= piece'
    BY <1>1, PieceTyped
  <2>2. \A j \in DOMAIN said' : j # i => j \in DOMAIN said /\ said'[j] = said[j]
    BY <1>2, <1>4
  <2>3. \A j \in DOMAIN said : said[j].id # <<"api", piece>>
    <3> SUFFICES ASSUME NEW j \in DOMAIN said, said[j].id = <<"api", piece>> PROVE FALSE
      OBVIOUS
    <3>1. said[j].id # NoId
      BY DEF NoId
    <3>2. PICK p \in FirstPiece..(piece - 1) : said[j].id = <<"api", p>>
      BY <1>2, <3>1 DEF Identified
    <3> QED BY <2>1, <3>2 DEF FirstPiece
  <2>4. \A j \in DOMAIN said' : said'[j].id = NoId \/ \E p \in FirstPiece..(piece' - 1) : said'[j].id = <<"api", p>>
    <3>1. FirstPiece..(piece - 1) \subseteq FirstPiece..(piece' - 1)
      <4>1. piece \in Nat /\ piece' \in Nat /\ piece <= piece' /\ FirstPiece \in Nat
        BY <2>1 DEF FirstPiece
      <4> QED BY <4>1, IntervalGrows
    <3>2. \A j \in DOMAIN said : said[j].id = NoId \/ \E p \in FirstPiece..(piece' - 1) : said[j].id = <<"api", p>>
      BY <1>2, <3>1 DEF Identified
    <3>3. b.id = NoId \/ \E p \in FirstPiece..(piece' - 1) : b.id = <<"api", p>>
      BY <1>3, <2>1 DEF FirstPiece
    <3> QED BY <1>4, <2>2, <3>2, <3>3
  <2>5. \A j, l \in DOMAIN said' : said'[j].id = said'[l].id /\ said'[j].id # NoId => j = l
    <3>1. \A j, l \in DOMAIN said : said[j].id = said[l].id /\ said[j].id # NoId => j = l
      BY <1>2 DEF Identified
    <3> QED BY <1>3, <1>4, <2>2, <2>3, <3>1
  <2>6. \A j \in DOMAIN said' : said'[j].kind = "call" => said'[j].id # NoId
    <3>1. \A j \in DOMAIN said : said[j].kind = "call" => said[j].id # NoId
      BY <1>1, <1>2 DEF Identified
    <3>2. <<"api", piece>> # NoId
      BY DEF NoId
    <3> QED BY <1>3, <1>4, <2>2, <3>1, <3>2
  <2> QED BY <2>4, <2>5, <2>6 DEF Identified
<1>14. ASSUME NEW K
       PROVE  DoneOf(K)' = IF kind \in {"text", "redacted"} /\ kind \in K THEN DoneOf(K) \cup {i} ELSE DoneOf(K)
  <2>1. \A j \in DOMAIN said : j \in DOMAIN said' /\ said'[j] = said[j] /\ j # i
    BY <1>2, <1>4
  <2>2. \A j \in DOMAIN said' : j # i => j \in DOMAIN said
    BY <1>2, <1>4
  <2>3. i \in DOMAIN said' /\ said'[i].kind = kind
    BY <1>2, <1>3, <1>4
  <2>4. \A j \in DOMAIN said : j \in Done /\ j \in Done'
    BY <1>1, <2>1 DEF Done
  <2>5. i \in Done' <=> kind \in {"text", "redacted"}
    BY <1>1, <2>3 DEF Done
  <2>6. \A j \in DoneOf(K)' : j \in DOMAIN said' /\ j \in Done' /\ said'[j].kind \in K
    BY DEF DoneOf, Done
  <2>7. \A j \in DoneOf(K)' : j # i => j \in DoneOf(K)
    BY <2>1, <2>2, <2>4, <2>6 DEF DoneOf
  <2>8. \A j \in DoneOf(K) : j \in DoneOf(K)'
    <3>1. \A j \in DoneOf(K) : j \in DOMAIN said /\ said[j].kind \in K
      BY DEF DoneOf, Done
    <3> QED BY <2>1, <2>4, <3>1 DEF DoneOf
  <2>9. i \in DoneOf(K)' <=> kind \in {"text", "redacted"} /\ kind \in K
    BY <2>3, <2>5 DEF DoneOf
  <2> QED BY <2>7, <2>8, <2>9
<1>15. ASSUME NEW K PROVE \A j \in DoneOf(K) : said'[j] = said[j] /\ j < i
  <2>1. \A j \in DoneOf(K) : j \in 1..n
    BY <1>2, DoneNumbers
  <2> QED BY <1>2, <1>4, <2>1
<1>16. ASSUME NEW K
       PROVE  /\ kind = "redacted" /\ kind \in K => Of(events', K) = Append(Of(events, K), b)
              /\ ~(kind = "redacted" /\ kind \in K) => Of(events', K) = Of(events, K)
  <2>1. /\ b.kind \in K => Of(events \o <<b>>, K) = Append(Of(events, K), b)
        /\ b.kind \notin K => Of(events \o <<b>>, K) = Of(events, K)
    <3>1. b \in Blocks /\ events \in Seq(Blocks)
      BY <1>3, <1>7
    <3> QED BY <3>1, OfYield
  <2>2. CASE kind = "redacted"
    BY <1>3, <1>7, <2>1, <2>2
  <2>3. CASE kind # "redacted"
    BY <1>7, <2>3
  <2> QED BY <2>2, <2>3
<1>17. HeardText'
  <2>1. CASE kind = "text"
    <3>1. DoneMore({"text"}, i)
      BY <1>14, <1>15, <2>1 DEF DoneMore
    <3>2. InOrder(said', DoneOf({"text"})') = Append(InOrder(said, DoneOf({"text"})), b)
      BY <1>2, <1>3, <1>4, <1>5, <3>1, DoneMoreInOrder
    <3>3. InOrder(said, DoneOf({"text"})) \in Seq(Blocks)
      <4>1. Numbers(DoneOf({"text"})) /\ \A j \in DoneOf({"text"}) : said[j] \in Blocks
        BY <1>2, DoneNumbers DEF StreamTyped
      <4> QED BY <4>1, InOrderTyped
    <3>4. Joined(InOrder(said', DoneOf({"text"})')) = Joined(InOrder(said, DoneOf({"text"}))) \o b.text
      BY <1>3, <3>2, <3>3, BlocksText, JoinedAppend
    <3>5. Joined(InOrder(said, DoneOf({"text"}))) \in Seq(Nat) /\ b.text = <<>>
      BY <1>3, <2>1, <3>3, BlocksText, JoinedTyped
    <3>6. Joined(InOrder(said', DoneOf({"text"})')) = Joined(InOrder(said, DoneOf({"text"})))
      BY <3>4, <3>5, ConcatEmptySeq
    <3> QED BY <1>2, <1>16, <2>1, <3>6 DEF HeardText
  <2>2. CASE kind # "text"
    <3>1. DoneSame({"text"})
      BY <1>14, <1>15, <2>2 DEF DoneSame
    <3>2. Of(events', {"text_delta"}) = Of(events, {"text_delta"})
      BY <1>16
    <3> QED BY <1>2, <3>1, <3>2, DoneSameText
  <2> QED BY <2>1, <2>2
<1>18. HeardThoughts'
  <2>1. CASE kind = "redacted"
    <3>1. DoneMore(Thoughts, i)
      BY <1>14, <1>15, <2>1 DEF DoneMore, Thoughts
    <3>2. InOrder(said', DoneOf(Thoughts)') = Append(InOrder(said, DoneOf(Thoughts)), b)
      BY <1>2, <1>3, <1>4, <1>5, <3>1, DoneMoreInOrder
    <3>3. Of(events', Thoughts) = Append(Of(events, Thoughts), b)
      BY <1>16, <2>1 DEF Thoughts
    <3>4. Thoughts' = Thoughts
      BY DEF Thoughts
    <3> QED BY <1>1, <1>2, <3>2, <3>3, <3>4 DEF HeardThoughts
  <2>2. CASE kind # "redacted"
    <3>1. DoneSame(Thoughts)
      BY <1>14, <1>15, <2>2 DEF DoneSame, Thoughts
    <3>2. Of(events', Thoughts) = Of(events, Thoughts)
      BY <1>16, <2>2
    <3> QED BY <1>1, <1>2, <3>1, <3>2, DoneSameThoughts
  <2> QED BY <2>1, <2>2
<1>19. HeardCalls'
  <2>1. DoneSame({"call"})
    BY <1>14, <1>15 DEF DoneSame
  <2>2. Of(events', {"call"}) = Of(events, {"call"})
    BY <1>16
  <2>3. DOMAIN said \subseteq DOMAIN said'
    BY <1>2, <1>4
  <2> QED BY <1>1, <1>2, <2>1, <2>2, <2>3, DoneSameCalls
<1> QED BY <1>10, <1>11, <1>12, <1>13, <1>17, <1>18, <1>19 DEF Stream

(***************************************************************************)
(* A chunk that is passed on at once, as an event of the kind text_delta   *)
(* or thinking_delta, or not at all.                                       *)
(***************************************************************************)
Passed(b) == b \in Blocks /\ b.kind \in {"text_delta", "thinking_delta"}
PassedOn == events' = events \/ \E b : Passed(b) /\ events' = events \o <<b>>

LEMMA PassedOnEvents ==
  ASSUME StreamTyped, PassedOn
  PROVE  /\ events' \in Seq(Blocks) /\ \A k \in 1..Len(events') : events'[k].kind \in EventKinds
         /\ (\A k \in 1..Len(events) : events[k].kind \in {"text_delta", "thinking_delta"}) =>
              \A k \in 1..Len(events') : events'[k].kind \in {"text_delta", "thinking_delta"}
         /\ Of(events', Thoughts) = Of(events, Thoughts)
         /\ Of(events', {"call"}) = Of(events, {"call"})
<1>1. events \in Seq(Blocks) /\ \A k \in 1..Len(events) : events[k].kind \in EventKinds
  BY DEF StreamTyped
<1>2. CASE events' = events
  BY <1>1, <1>2
<1>3. ASSUME NEW b, Passed(b), events' = events \o <<b>>
      PROVE  /\ events' \in Seq(Blocks) /\ \A k \in 1..Len(events') : events'[k].kind \in EventKinds
             /\ (\A k \in 1..Len(events) : events[k].kind \in {"text_delta", "thinking_delta"}) =>
                  \A k \in 1..Len(events') : events'[k].kind \in {"text_delta", "thinking_delta"}
             /\ Of(events', Thoughts) = Of(events, Thoughts)
             /\ Of(events', {"call"}) = Of(events, {"call"})
  <2>1. b \in Blocks /\ b.kind \in {"text_delta", "thinking_delta"}
    BY <1>3 DEF Passed
  <2>2. /\ events' \in Seq(Blocks) /\ Len(events') = Len(events) + 1
        /\ \A k \in 1..Len(events) : events'[k] = events[k]
        /\ events'[Len(events) + 1] = b
    BY <1>1, <1>3, <2>1, OfYield
  <2>3. \A k \in 1..(Len(events) + 1) : k = Len(events) + 1 \/ k \in 1..Len(events)
    BY <1>1
  <2>4. b.kind \notin Thoughts /\ b.kind \notin {"call"} /\ b.kind \in EventKinds
    BY <2>1 DEF Thoughts, EventKinds
  <2>5. Of(events', Thoughts) = Of(events, Thoughts) /\ Of(events', {"call"}) = Of(events, {"call"})
    BY <1>1, <1>3, <2>1, <2>4, OfYield
  <2>6. \A k \in 1..Len(events') : events'[k].kind \in EventKinds
    BY <1>1, <2>2, <2>3, <2>4
  <2>7. (\A k \in 1..Len(events) : events[k].kind \in {"text_delta", "thinking_delta"}) =>
           \A k \in 1..Len(events') : events'[k].kind \in {"text_delta", "thinking_delta"}
    BY <2>1, <2>2, <2>3
  <2> QED BY <2>2, <2>5, <2>6, <2>7
<1> QED BY <1>2, <1>3 DEF PassedOn

(***************************************************************************)
(* Block i becomes b, in what was said and in the buffer: its kind stays,  *)
(* and an id it had not before is fresh.                                   *)
(***************************************************************************)
Becomes(i, b) ==
  /\ DOMAIN said' = DOMAIN said \cup {i}
  /\ said' = [j \in DOMAIN said' |-> said'[j]]
  /\ said'[i] = b /\ \A j \in DOMAIN said \ {i} : said'[j] = said[j]
  /\ i \in DOMAIN said => b.kind = said[i].kind
  /\ \/ i \in DOMAIN said /\ b.id = said[i].id
     \/ i \notin DOMAIN said /\ b.id = NoId
     \/ b.id = <<"api", piece>> /\ piece' = piece + 1
  /\ piece' \in {piece, piece + 1} /\ vendor' = vendor /\ open' = open
  /\ b \in Blocks /\ b.kind \in Kinds /\ i \in Nat
  /\ DOMAIN buffer' \subseteq DOMAIN said'
  /\ buffer' = [j \in DOMAIN buffer' |-> said'[j]]

(***************************************************************************)
(* What this keeps of the invariant: its types, the ids, and all that was  *)
(* heard of blocks other than i.                                           *)
(***************************************************************************)
LEMMA BecomesTyped ==
  ASSUME Control, StreamTyped, PassedOn, NEW i, NEW b, Becomes(i, b)
  PROVE  StreamTyped'
<1>1. Numbers(DOMAIN said')
  BY FS_AddElement DEF StreamTyped, Numbers, Becomes
<1>2. \A j \in DOMAIN said' : said'[j] \in Blocks /\ said'[j].kind \in Kinds
  BY DEF StreamTyped, Becomes
<1>3. said' \in [DOMAIN said' -> Blocks]
  BY <1>2 DEF Becomes
<1>4. events' \in Seq(Blocks) /\ \A k \in 1..Len(events') : events'[k].kind \in EventKinds
  BY PassedOnEvents
<1> QED BY <1>1, <1>2, <1>3, <1>4 DEF StreamTyped, Becomes

LEMMA BecomesIdentified ==
  ASSUME Control, StreamTyped, Identified, NEW i, NEW b, Becomes(i, b),
         Anthropic => i \in DOMAIN said
  PROVE  Identified'
<1>1. piece \in Nat /\ piece >= 2 /\ piece' \in Nat /\ piece <= piece'
  BY PieceTyped DEF Becomes
<1>2. \A j \in DOMAIN said : said[j].id # <<"api", piece>>
  <2> SUFFICES ASSUME NEW j \in DOMAIN said, said[j].id = <<"api", piece>> PROVE FALSE
    OBVIOUS
  <2>1. said[j].id # NoId
    BY DEF NoId
  <2>2. PICK p \in FirstPiece..(piece - 1) : said[j].id = <<"api", p>>
    BY <2>1 DEF Identified
  <2> QED BY <1>1, <2>2 DEF FirstPiece
<1>3. FirstPiece..(piece - 1) \subseteq FirstPiece..(piece' - 1)
  <2>1. FirstPiece \in Nat
    BY DEF FirstPiece
  <2> QED BY <1>1, <2>1, IntervalGrows
<1>4. \A j \in DOMAIN said : /\ j \in DOMAIN said' /\ said'[j].kind = said[j].kind
                             /\ j # i => said'[j].id = said[j].id
  BY DEF Becomes
<1>5. \A j \in DOMAIN said' : j \in DOMAIN said \/ j = i
  BY DEF Becomes
<1>6. \/ i \in DOMAIN said /\ said'[i].id = said[i].id
      \/ said'[i].id = NoId /\ i \notin DOMAIN said
      \/ said'[i].id = <<"api", piece>> /\ piece' = piece + 1
  BY DEF Becomes
<1>10. <<"api", piece>> # NoId
  BY DEF NoId
<1>7. \A j \in DOMAIN said' : said'[j].id = NoId \/ \E p \in FirstPiece..(piece' - 1) : said'[j].id = <<"api", p>>
  <2>1. \A j \in DOMAIN said : said[j].id = NoId \/ \E p \in FirstPiece..(piece' - 1) : said[j].id = <<"api", p>>
    BY <1>3 DEF Identified
  <2>2. piece' = piece + 1 => piece \in FirstPiece..(piece' - 1)
    BY <1>1 DEF FirstPiece
  <2> QED BY <1>4, <1>5, <1>6, <2>1, <2>2
<1>8. \A j, l \in DOMAIN said' : said'[j].id = said'[l].id /\ said'[j].id # NoId => j = l
  <2>1. \A j, l \in DOMAIN said : said[j].id = said[l].id /\ said[j].id # NoId => j = l
    BY DEF Identified
  <2> QED BY <1>2, <1>4, <1>5, <1>6, <2>1
<1>9. Anthropic' => \A j \in DOMAIN said' : said'[j].kind = "call" => said'[j].id # NoId
  <2>1. Anthropic' = Anthropic
    BY DEF Anthropic, Becomes
  <2> QED BY <1>4, <1>5, <1>6, <1>10, <2>1 DEF Identified
<1> QED BY <1>7, <1>8, <1>9 DEF Identified

LEMMA BecomesDone ==
  ASSUME StreamTyped, NEW i, NEW b, Becomes(i, b), NEW K,
         i \in DOMAIN said \/ b.kind \notin K
  PROVE  DoneOf(K)' = DoneOf(K) /\ \A j \in DoneOf(K) : j # i => said'[j] = said[j]
<1>1. \A j \in DOMAIN said : j \in DOMAIN said' /\ said'[j].kind = said[j].kind
  BY DEF Becomes
<1>2. \A j \in DOMAIN said' : j \in DOMAIN said \/ (j = i /\ said'[j].kind \notin K)
  BY DEF Becomes
<1>3. \A j \in DOMAIN said : j \in Done <=> j \in Done'
  BY <1>1 DEF Done, Becomes
<1>4. DoneOf(K)' = {j \in DOMAIN said' : j \in Done' /\ said'[j].kind \in K}
  BY DEF DoneOf, Done
<1>5. DoneOf(K) = {j \in DOMAIN said : j \in Done /\ said[j].kind \in K}
  BY DEF DoneOf, Done
<1>6. DoneOf(K)' = DoneOf(K)
  BY <1>1, <1>2, <1>3, <1>4, <1>5
<1> QED BY <1>5, <1>6 DEF Becomes

LEMMA BecomesHeard ==
  ASSUME StreamTyped, HeardText, HeardThoughts, HeardCalls, NEW i, NEW b, Becomes(i, b),
         PassedOn,
         Anthropic => /\ i \in open /\ b.kind \in {"text", "thinking", "call"}
  PROVE  /\ HeardThoughts' /\ HeardCalls'
         /\ b.kind # "text" /\ Of(events', {"text_delta"}) = Of(events, {"text_delta"}) => HeardText'
<1>1. Of(events', Thoughts) = Of(events, Thoughts) /\ Of(events', {"call"}) = Of(events, {"call"})
  BY PassedOnEvents
<1>2. /\ Anthropic' = Anthropic /\ vendor' = vendor
      /\ open \subseteq DOMAIN said /\ DOMAIN said \subseteq DOMAIN said'
  BY DEF Anthropic, Becomes, StreamTyped
<1>3. HeardThoughts'
  <2>1. CASE Anthropic
    <3>1. i \in DOMAIN said /\ said[i].kind = b.kind /\ i \in open
      BY <1>2, <2>1 DEF Becomes
    <3>2. i \notin DoneOf(Thoughts)
      BY <2>1, <3>1 DEF DoneOf, Done, Thoughts
    <3>3. DoneSame(Thoughts)
      BY <3>1, <3>2, BecomesDone DEF DoneSame, Thoughts
    <3> QED BY <1>1, <1>2, <3>3, DoneSameThoughts
  <2>2. CASE ~Anthropic
    BY <1>2, <2>2 DEF HeardThoughts
  <2> QED BY <2>1, <2>2
<1>4. HeardCalls'
  <2>1. CASE Anthropic
    <3>1. i \in DOMAIN said /\ said[i].kind = b.kind /\ i \in open
      BY <1>2, <2>1 DEF Becomes
    <3>2. i \notin DoneOf({"call"})
      BY <2>1, <3>1 DEF DoneOf, Done
    <3>3. DoneSame({"call"})
      BY <3>1, <3>2, BecomesDone DEF DoneSame
    <3> QED BY <1>1, <1>2, <3>3, DoneSameCalls
  <2>2. CASE ~Anthropic
    BY <1>2, <2>2 DEF HeardCalls
  <2> QED BY <2>1, <2>2
<1>5. ASSUME b.kind # "text", Of(events', {"text_delta"}) = Of(events, {"text_delta"})
      PROVE  HeardText'
  <2>1. i \in DOMAIN said => said[i].kind # "text"
    BY <1>5 DEF Becomes
  <2>2. i \notin DoneOf({"text"})
    BY <2>1 DEF DoneOf, Done
  <2>3. DoneSame({"text"})
    BY <1>5, <2>2, BecomesDone DEF DoneSame
  <2> QED BY <1>5, <2>3, DoneSameText
<1> QED BY <1>3, <1>4, <1>5

(***************************************************************************)
(* A piece of text is heard as it is said, behind all text so far.         *)
(***************************************************************************)
LEMMA PieceAppended ==
  \A a, b \in Seq(Nat) : \A p \in Nat : (a \o b) \o <<p>> = a \o Append(b, p)
<1> SUFFICES ASSUME NEW a \in Seq(Nat), NEW b \in Seq(Nat), NEW p \in Nat
             PROVE  (a \o b) \o <<p>> = a \o Append(b, p)
  OBVIOUS
<1> DEFINE c == <<p>>
<1>1. c \in Seq(Nat) /\ Append(b, p) = b \o c
  BY AppendIsConcat
<1>2. (a \o b) \o c = a \o (b \o c)
  <2> HIDE DEF c
  <2> QED BY <1>1, ConcatAssociative
<1> QED BY <1>1, <1>2

LEMMA TextGrows ==
  ASSUME StreamTyped, HeardText, NEW i, NEW b, Becomes(i, b), b.kind = "text",
         NEW d \in Blocks, d.kind = "text_delta", NEW p \in Nat, d.text = <<p>>,
           events' = events \o <<d>>,
         i \in DOMAIN said => b.text = Append(said[i].text, p),
         i \notin DOMAIN said => b.text = <<p>>,
         \A j \in DOMAIN said : said[j].kind = "text" => j <= i
  PROVE  HeardText'
<1> DEFINE A == DoneOf({"text"}) \ {i}
           old == Joined(InOrder(said, A))
<1>1. Numbers(DoneOf({"text"})) /\ DoneOf({"text"}) \subseteq DOMAIN said
  BY DoneNumbers
<1>2. Numbers(A) /\ A \subseteq DoneOf({"text"})
  BY <1>1, SubNumbers
<1>3. i \in Nat /\ b \in Blocks /\ said'[i] = b /\ i \in DOMAIN said'
  BY DEF Becomes
<1>4. \A j \in A : j < i /\ said[j] \in Blocks /\ said'[j] = said[j] /\ j \in DOMAIN said
  <2>1. \A j \in A : j \in DOMAIN said /\ said[j].kind = "text" /\ j \in Nat /\ j # i
    BY <1>1, <1>2 DEF DoneOf, Numbers
  <2> HIDE DEF A
  <2>2. \A j \in A : j < i
    BY <1>3, <2>1
  <2> QED BY <2>1, <2>2 DEF Becomes, StreamTyped
<1>5. DoneOf({"text"})' = A \cup {i}
  <2>1. \A j \in DOMAIN said' : j \in DoneOf({"text"})' <=> said'[j].kind = "text"
    BY DEF DoneOf, Done
  <2>2. \A j \in DoneOf({"text"})' : j \in DOMAIN said'
    BY DEF DoneOf, Done
  <2>3. \A j \in DOMAIN said : j \in DoneOf({"text"}) <=> said[j].kind = "text"
    BY DEF DoneOf, Done
  <2>4. \A j \in DOMAIN said' : j = i \/ j \in DOMAIN said
    BY DEF Becomes
  <2>5. \A j \in DOMAIN said : j \in DOMAIN said' /\ said'[j].kind = said[j].kind
    BY DEF Becomes
  <2> QED BY <1>1, <1>3, <2>1, <2>2, <2>3, <2>4, <2>5
<1>6. InOrder(said', A) = InOrder(said, A) /\ InOrder(said, A) \in Seq(Blocks)
  <2> HIDE DEF A
  <2> QED BY <1>2, <1>4, InOrderSame, InOrderTyped
<1>7. InOrder(said', A \cup {i}) = Append(InOrder(said', A), b)
  <2> HIDE DEF A
  <2>1. \A j \in A \cup {i} : said'[j] \in Blocks
    BY <1>3, <1>4
  <2> QED BY <1>2, <1>3, <1>4, <2>1, InOrderAdd
<1>8. Joined(InOrder(said', DoneOf({"text"})')) = old \o b.text
  <2> DEFINE x == InOrder(said, A)
  <2>1. x \in Seq(Blocks) /\ InOrder(said', DoneOf({"text"})') = Append(x, b)
    BY <1>5, <1>6, <1>7
  <2>2. Joined(Append(x, b)) = Joined(x) \o b.text
    <3> HIDE DEF x
    <3> QED BY <1>3, <2>1, BlocksText, JoinedAppend
  <2> QED BY <2>1, <2>2
<1>9. old \in Seq(Nat) /\ b.text \in Seq(Nat)
  BY <1>3, <1>6, BlocksText, JoinedTyped DEF Blocks
<1>10. Joined(Of(events', {"text_delta"})) = Joined(Of(events, {"text_delta"})) \o <<p>>
  <2>1. events \in Seq(Blocks)
    BY DEF StreamTyped
  <2>2. /\ Of(events, {"text_delta"}) \in Seq(Blocks)
        /\ Of(events', {"text_delta"}) = Append(Of(events, {"text_delta"}), d)
    BY <2>1, OfYield
  <2> QED BY <2>2, BlocksText, JoinedAppend
<1> HIDE DEF A, old
<1>11. old \o b.text = Joined(InOrder(said, DoneOf({"text"}))) \o <<p>>
  <2>1. CASE i \in DOMAIN said
    <3>1. said[i] \in Blocks /\ said[i].kind = "text" /\ said[i].text \in Seq(Nat)
      BY <2>1 DEF StreamTyped, Becomes, Blocks
    <3>2. i \in DoneOf({"text"})
      BY <2>1, <3>1 DEF DoneOf, Done
    <3>3. DoneOf({"text"}) = A \cup {i}
      BY <3>2 DEF A
    <3>4. \A j \in A \cup {i} : said[j] \in Blocks
      BY <1>4, <3>1
    <3>5. InOrder(said, A \cup {i}) = Append(InOrder(said, A), said[i])
      BY <1>2, <1>3, <1>4, <3>4, InOrderAdd
    <3>6. Joined(InOrder(said, A \cup {i})) = old \o said[i].text
      BY <1>6, <3>1, <3>5, BlocksText, JoinedAppend DEF old
    <3>7. (old \o said[i].text) \o <<p>> = old \o Append(said[i].text, p)
      BY <1>9, <3>1, PieceAppended, Zenon
    <3> QED BY <2>1, <3>3, <3>6, <3>7
  <2>2. CASE i \notin DOMAIN said
    <3>1. DoneOf({"text"}) = A
      BY <1>1, <2>2 DEF A
    <3> QED BY <2>2, <3>1 DEF old
  <2> QED BY <2>1, <2>2
<1> QED BY <1>8, <1>10, <1>11 DEF HeardText

(***************************************************************************)
(* Both disciplines of indexes are kept when a block grows.                *)
(***************************************************************************)
LEMMA BecomesSerial ==
  ASSUME StreamTyped, Serial, NEW i, NEW b, Becomes(i, b), Anthropic, i \in open,
         DOMAIN buffer' = DOMAIN buffer
  PROVE  Serial' /\ Parallel'
<1>1. Anthropic' = Anthropic /\ i \in DOMAIN said /\ open' = open
  BY DEF Anthropic, Becomes, StreamTyped
<1>2. DOMAIN said' = DOMAIN said /\ Current' = Current
  BY <1>1 DEF Becomes, Current
<1>3. \A j \in open : said'[j].kind = said[j].kind
  BY DEF Becomes, StreamTyped
<1>4. DOMAIN buffer' = {j \in open' : said'[j].kind \in {"thinking", "call"}}
  BY <1>1, <1>3 DEF Serial
<1>5. \A j \in DOMAIN said' \ open' : said'[j] = said[j]
  BY <1>1, <1>2 DEF Becomes
<1> QED BY <1>1, <1>2, <1>4, <1>5 DEF Serial, Parallel

LEMMA BecomesParallel ==
  ASSUME StreamTyped, Parallel, NEW i, NEW b, Becomes(i, b), ~Anthropic, PassedOn,
         DOMAIN buffer' = DOMAIN said' \ {TextIndex},
         b.kind = (IF i = TextIndex THEN "text" ELSE IF i = ThoughtIndex THEN "thinking" ELSE "call"),
         b.signature = <<>>, b.kind # "call" => b.id = NoId
  PROVE  Serial' /\ Parallel'
<1>1. Anthropic' = Anthropic /\ open' = open
  BY DEF Anthropic, Becomes
<1>2. \A k \in 1..Len(events') : events'[k].kind \in {"text_delta", "thinking_delta"}
  BY PassedOnEvents DEF Parallel
<1>3. \A j \in DOMAIN said' :
         /\ said'[j].kind = (IF j = TextIndex THEN "text" ELSE IF j = ThoughtIndex THEN "thinking" ELSE "call")
         /\ said'[j].signature = <<>>
         /\ said'[j].kind # "call" => said'[j].id = NoId
  <2>1. \A j \in DOMAIN said' : j = i \/ (j \in DOMAIN said /\ said'[j] = said[j])
    BY DEF Becomes
  <2>2. said'[i] = b
    BY DEF Becomes
  <2> QED BY <2>1, <2>2 DEF Parallel
<1> QED BY <1>1, <1>2, <1>3 DEF Serial, Parallel

(***************************************************************************)
(* Grow is such a step.                                                    *)
(***************************************************************************)
LEMMA GrowBecomes ==
  ASSUME Control, StreamTyped, NEW i \in DOMAIN said, NEW p \in Nat, Grow(i, p),
         piece' \in {piece, piece + 1}, vendor' = vendor, open' = open
  PROVE  /\ Becomes(i, [said[i] EXCEPT !.text = Append(@, p)])
         /\ DOMAIN buffer' = DOMAIN buffer /\ DOMAIN said' = DOMAIN said
<1> DEFINE b == [said[i] EXCEPT !.text = Append(@, p)]
<1>1. said[i] \in Blocks /\ i \in Nat /\ said \in [DOMAIN said -> Blocks] /\ said[i].kind \in Kinds
  BY DEF StreamTyped, Numbers
<1>2. b \in Blocks /\ b.kind = said[i].kind /\ b.id = said[i].id
  <2> DEFINE t == Append(said[i].text, p)
  <2>1. t \in Seq(Nat) /\ b = [said[i] EXCEPT !.text = t]
    BY <1>1 DEF Blocks
  <2> HIDE DEF t, b
  <2> QED BY <1>1, <2>1 DEF Blocks
<1>3. said' = [said EXCEPT ![i] = b]
  BY DEF Grow
<1> HIDE DEF b
<1>4. DOMAIN said' = DOMAIN said /\ said'[i] = b /\ \A j \in DOMAIN said \ {i} : said'[j] = said[j]
  BY <1>1, <1>3
<1>5. DOMAIN buffer' = DOMAIN buffer /\ DOMAIN buffer \subseteq DOMAIN said
  BY DEF Grow, StreamTyped
<1>6. ASSUME NEW j \in DOMAIN buffer PROVE buffer'[j] = said'[j]
  <2>1. buffer[j] = said[j] /\ j \in DOMAIN said
    BY <1>5, <1>6 DEF StreamTyped
  <2>2. CASE j = i
    <3>1. buffer' = [buffer EXCEPT ![i].text = Append(@, p)]
      BY <1>6, <2>2 DEF Grow
    <3>2. buffer'[i] = [buffer[i] EXCEPT !.text = Append(@, p)]
      BY <1>6, <2>2, <3>1
    <3> QED BY <1>4, <2>1, <2>2, <3>2 DEF b
  <2>3. CASE j # i
    <3>1. buffer'[j] = buffer[j]
      BY <1>6, <2>3 DEF Grow
    <3> QED BY <1>4, <2>1, <2>3, <3>1
  <2> QED BY <2>2, <2>3
<1>7. buffer' = [j \in DOMAIN buffer' |-> buffer'[j]]
  <2>1. CASE i \in DOMAIN buffer
    BY <2>1 DEF Grow
  <2>2. CASE i \notin DOMAIN buffer
    BY <2>2 DEF Grow, StreamTyped
  <2> QED BY <2>1, <2>2
<1>8. buffer' = [j \in DOMAIN buffer' |-> said'[j]]
  BY <1>5, <1>6, <1>7
<1>9. said' = [j \in DOMAIN said' |-> said'[j]]
  BY <1>1, <1>3
<1>10. Becomes(i, b)
  BY <1>1, <1>2, <1>4, <1>5, <1>8, <1>9 DEF Becomes
<1> QED BY <1>4, <1>5, <1>10 DEF b

LEMMA ChunkTyped ==
  ASSUME Control, NEW kind \in {"text_delta", "thinking_delta"}
  PROVE  /\ Passed(Block(kind, NoId, <<piece>>, <<>>))
         /\ Block(kind, NoId, <<piece>>, <<>>) \in Blocks
         /\ Block(kind, NoId, <<piece>>, <<>>).kind = kind
         /\ Block(kind, NoId, <<piece>>, <<>>).text = <<piece>>
<1>1. <<piece>> \in Seq(Nat) /\ <<>> \in Seq(Nat) /\ NoId \in Identifiers
  BY PieceTyped
<1> DEFINE text == <<piece>>
<1>2. kind \in Kinds \cup EventKinds \cup {"result"}
  BY DEF EventKinds
<1>3. text \in Seq(Nat)
  BY <1>1
<1> HIDE DEF text
<1>4. Block(kind, NoId, text, <<>>) \in Blocks
  BY <1>1, <1>2, <1>3 DEF Block, Blocks
<1> QED BY <1>4 DEF Passed, Block, text

(***************************************************************************)
(* Each chunk of Anthropic keeps the invariant of the stream.  A BlockStop *)
(* with arguments the constructor refuses ends the turn.                   *)
(***************************************************************************)
LEMMA TextDeltaStream ==
  ASSUME Control, Stream, TextDelta
  PROVE  Stream'
<1> DEFINE i == Current
           d == Block("text_delta", NoId, <<piece>>, <<>>)
           b == [said[i] EXCEPT !.text = Append(@, piece)]
<1>1. /\ Anthropic /\ open # {} /\ said[i].kind = "text" /\ Grow(i, piece)
      /\ events' = events \o <<d>> /\ piece' = piece + 1 /\ vendor' = vendor /\ open' = open
  BY DEF TextDelta, Yield, Tick
<1>2. /\ StreamTyped /\ Serial /\ Parallel /\ HeardText /\ HeardThoughts /\ HeardCalls /\ Identified
  BY DEF Stream
<1>3. i \in DOMAIN said /\ i \in open /\ DOMAIN said = 1..i /\ i \in Nat /\ said[i] \in Blocks
  BY <1>1, <1>2, SerialFacts
<1>4. piece \in Nat
  BY PieceTyped
<1>5. Becomes(i, b) /\ DOMAIN buffer' = DOMAIN buffer
  BY <1>1, <1>2, <1>3, <1>4, GrowBecomes
<1>6. d \in Blocks /\ d.kind = "text_delta" /\ d.text = <<piece>> /\ Passed(d)
  BY ChunkTyped
<1>7. PassedOn
  BY <1>1, <1>6 DEF PassedOn
<1>8. b.kind = "text" /\ b.text = Append(said[i].text, piece)
  BY <1>1, <1>3 DEF Blocks
<1> HIDE DEF i, b, d
<1>9. StreamTyped' /\ Identified'
  BY <1>1, <1>2, <1>3, <1>5, <1>7, BecomesTyped, BecomesIdentified
<1>10. Serial' /\ Parallel'
  BY <1>1, <1>2, <1>3, <1>5, BecomesSerial
<1>11. HeardThoughts' /\ HeardCalls'
  BY <1>1, <1>2, <1>3, <1>5, <1>7, <1>8, BecomesHeard
<1>12. HeardText'
  <2>1. \A j \in DOMAIN said : said[j].kind = "text" => j <= i
    BY <1>3
  <2> QED BY <1>1, <1>2, <1>3, <1>4, <1>5, <1>6, <1>8, <2>1, TextGrows
<1> QED BY <1>9, <1>10, <1>11, <1>12 DEF Stream

LEMMA ThinkingDeltaStream ==
  ASSUME Control, Stream, ThinkingDelta
  PROVE  Stream'
<1> DEFINE i == Current
           d == Block("thinking_delta", NoId, <<piece>>, <<>>)
           b == [said[i] EXCEPT !.text = Append(@, piece)]
<1>1. /\ Anthropic /\ open # {} /\ said[i].kind = "thinking" /\ Grow(i, piece)
      /\ events' = events \o <<d>> /\ piece' = piece + 1 /\ vendor' = vendor /\ open' = open
  BY DEF ThinkingDelta, Yield, Tick
<1>2. /\ StreamTyped /\ Serial /\ Parallel /\ HeardText /\ HeardThoughts /\ HeardCalls /\ Identified
  BY DEF Stream
<1>3. i \in DOMAIN said /\ i \in open /\ said[i] \in Blocks
  BY <1>1, <1>2, SerialFacts
<1>4. piece \in Nat
  BY PieceTyped
<1>5. Becomes(i, b) /\ DOMAIN buffer' = DOMAIN buffer
  BY <1>1, <1>2, <1>3, <1>4, GrowBecomes
<1>6. d \in Blocks /\ d.kind = "thinking_delta" /\ Passed(d)
  BY ChunkTyped
<1>7. PassedOn
  BY <1>1, <1>6 DEF PassedOn
<1>8. b.kind = "thinking"
  BY <1>1, <1>3 DEF Blocks
<1> HIDE DEF i, b, d
<1>9. StreamTyped' /\ Identified'
  BY <1>1, <1>2, <1>3, <1>5, <1>7, BecomesTyped, BecomesIdentified
<1>10. Serial' /\ Parallel'
  BY <1>1, <1>2, <1>3, <1>5, BecomesSerial
<1>11. Of(events', {"text_delta"}) = Of(events, {"text_delta"})
  <2>1. events \in Seq(Blocks)
    BY <1>2 DEF StreamTyped
  <2> QED BY <1>1, <1>6, <2>1, OfYield
<1>12. HeardText' /\ HeardThoughts' /\ HeardCalls'
  BY <1>1, <1>2, <1>3, <1>5, <1>7, <1>8, <1>11, BecomesHeard
<1> QED BY <1>9, <1>10, <1>12 DEF Stream

LEMMA SignatureDeltaStream ==
  ASSUME Control, Stream, SignatureDelta
  PROVE  Stream'
<1> DEFINE i == Current
           b == [said[i] EXCEPT !.signature = <<piece>>]
<1>1. /\ Anthropic /\ open # {} /\ said[i].kind = "thinking"
      /\ said' = [said EXCEPT ![i].signature = <<piece>>]
      /\ buffer' = [buffer EXCEPT ![i].signature = <<piece>>]
      /\ events' = events /\ piece' = piece + 1 /\ vendor' = vendor /\ open' = open
  BY DEF SignatureDelta, Tick
<1>2. /\ StreamTyped /\ Serial /\ Parallel /\ HeardText /\ HeardThoughts /\ HeardCalls /\ Identified
  BY DEF Stream
<1>3. i \in DOMAIN said /\ i \in open /\ said[i] \in Blocks /\ i \in Nat
  BY <1>1, <1>2, SerialFacts
<1>4. <<piece>> \in Seq(Nat)
  BY PieceTyped
<1>5. Becomes(i, b) /\ DOMAIN buffer' = DOMAIN buffer
  <2>1. b \in Blocks /\ b.kind = said[i].kind /\ b.id = said[i].id /\ b.kind \in Kinds
    <3> DEFINE s == <<piece>>
    <3>1. s \in Seq(Nat) /\ b = [said[i] EXCEPT !.signature = s]
      BY <1>4
    <3> HIDE DEF s, b
    <3> QED BY <1>1, <1>3, <3>1 DEF Blocks, Kinds
  <2>2. /\ said \in [DOMAIN said -> Blocks] /\ DOMAIN buffer \subseteq DOMAIN said
        /\ buffer = [j \in DOMAIN buffer |-> said[j]]
    BY <1>2 DEF StreamTyped
  <2>3. said' = [said EXCEPT ![i] = b]
    BY <1>1
  <2>4. /\ DOMAIN said' = DOMAIN said /\ said'[i] = b
        /\ \A j \in DOMAIN said \ {i} : said'[j] = said[j]
    <3> HIDE DEF b
    <3> QED BY <1>3, <2>2, <2>3
  <2>5. said' = [j \in DOMAIN said' |-> said'[j]]
    BY <2>2, <2>3
  <2>6. DOMAIN buffer' = DOMAIN buffer /\ i \in DOMAIN buffer
    BY <1>1, <1>2, <1>3 DEF Serial
  <2>7. \A j \in DOMAIN buffer : buffer[j] = said[j]
    BY <2>2
  <2>8. buffer'[i] = b
    BY <1>1, <2>6, <2>7
  <2>9. \A j \in DOMAIN buffer \ {i} : buffer'[j] = buffer[j]
    BY <1>1
  <2>10. \A j \in DOMAIN buffer' : buffer'[j] = said'[j]
    BY <2>2, <2>4, <2>6, <2>7, <2>8, <2>9
  <2>11. buffer' = [j \in DOMAIN buffer' |-> buffer'[j]]
    BY <1>1
  <2>12. buffer' = [j \in DOMAIN buffer' |-> said'[j]]
    BY <2>10, <2>11
  <2> HIDE DEF b
  <2>13. i \in Nat /\ i \in DOMAIN said /\ vendor' = vendor /\ open' = open /\ piece' = piece + 1
    BY <1>1, <1>3
  <2> QED BY ONLY <2>1, <2>2, <2>4, <2>5, <2>6, <2>12, <2>13 DEF Becomes
<1>6. PassedOn
  BY <1>1 DEF PassedOn
<1>7. b.kind = "thinking"
  BY <1>1, <1>3 DEF Blocks
<1> HIDE DEF i, b
<1>8. StreamTyped' /\ Identified'
  BY <1>1, <1>2, <1>3, <1>5, <1>6, BecomesTyped, BecomesIdentified
<1>9. Serial' /\ Parallel'
  BY <1>1, <1>2, <1>3, <1>5, BecomesSerial
<1>10. HeardText' /\ HeardThoughts' /\ HeardCalls'
  BY <1>1, <1>2, <1>3, <1>5, <1>6, <1>7, BecomesHeard
<1> QED BY <1>8, <1>9, <1>10 DEF Stream

LEMMA InputJsonDeltaStream ==
  ASSUME Control, Stream, InputJsonDelta
  PROVE  Stream'
<1> DEFINE i == Current
<1>1. /\ Anthropic /\ open # {} /\ said[i].kind = "call"
      /\ events' = events /\ piece' = piece + 1 /\ vendor' = vendor /\ open' = open
  BY DEF InputJsonDelta, Tick, ArgsPiece
<1>2. PICK p \in {piece, Brace, Odd} : Grow(i, p)
  BY DEF InputJsonDelta, ArgsPiece
<1> DEFINE b == [said[i] EXCEPT !.text = Append(@, p)]
<1>3. /\ StreamTyped /\ Serial /\ Parallel /\ HeardText /\ HeardThoughts /\ HeardCalls /\ Identified
  BY DEF Stream
<1>4. i \in DOMAIN said /\ i \in open /\ said[i] \in Blocks
  BY <1>1, <1>3, SerialFacts
<1>5. p \in Nat
  BY PieceTyped DEF Brace, Odd
<1>6. Becomes(i, b) /\ DOMAIN buffer' = DOMAIN buffer
  BY <1>1, <1>2, <1>3, <1>4, <1>5, GrowBecomes
<1>7. PassedOn
  BY <1>1 DEF PassedOn
<1>8. b.kind = "call"
  BY <1>1, <1>4 DEF Blocks
<1> HIDE DEF i, b
<1>9. StreamTyped' /\ Identified'
  BY <1>1, <1>3, <1>4, <1>6, <1>7, BecomesTyped, BecomesIdentified
<1>10. Serial' /\ Parallel'
  BY <1>1, <1>3, <1>4, <1>6, BecomesSerial
<1>11. HeardText' /\ HeardThoughts' /\ HeardCalls'
  BY <1>1, <1>3, <1>4, <1>6, <1>7, <1>8, BecomesHeard
<1> QED BY <1>9, <1>10, <1>11 DEF Stream

LEMMA BlockStopStream ==
  ASSUME Control, Stream, BlockStop, UNCHANGED <<vendor, said, piece>>
  PROVE  Stream' \/ Fail
<1> DEFINE n == Current
           b == said[n]
           kept == b.kind \in {"thinking", "call"}
<1> SUFFICES ASSUME ~Fail PROVE Stream'
  OBVIOUS
<1>1. /\ StreamTyped /\ Serial /\ Parallel /\ HeardText /\ HeardThoughts /\ HeardCalls /\ Identified
      /\ Anthropic /\ open # {} /\ vendor' = vendor /\ said' = said /\ piece' = piece
      /\ b.kind = "thinking" => b.signature # <<>>
      /\ open' = {} /\ buffer' = Drop(buffer, n)
      /\ events' = events \o (IF n \in DOMAIN buffer THEN <<Finished(buffer[n])>> ELSE <<>>)
  BY DEF BlockStop, Stream, Yield
<1>2. /\ n \in Nat /\ n \in 1..n /\ DOMAIN said = 1..n /\ open = {n} /\ b \in Blocks /\ n \in DOMAIN said
      /\ DOMAIN buffer = {i \in open : said[i].kind \in {"thinking", "call"}}
      /\ b.kind \in Kinds
  BY <1>1, SerialFacts DEF StreamTyped
<1>3. (n \in DOMAIN buffer <=> kept) /\ (kept => buffer[n] = b)
  BY <1>1, <1>2 DEF StreamTyped
<1>4. DOMAIN buffer' = {} /\ buffer' = [j \in {} |-> said'[j]]
  <2>1. DOMAIN buffer \ {n} = {}
    BY <1>2
  <2> QED BY <1>1, <2>1 DEF Drop
<1>5. events \in Seq(Blocks)
  BY <1>1 DEF StreamTyped
<1> DEFINE f == Finished(b)
<1>6. f \in Blocks /\ f.kind = b.kind /\ (b.kind # "call" => f = b)
  BY <1>2, FinishedProperties
<1>7. (kept => events' = events \o <<f>>) /\ (~kept => events' = events)
  <2>1. CASE kept
    BY <1>1, <1>3, <2>1
  <2>2. CASE ~kept
    BY <1>1, <1>3, <1>5, <2>2, ConcatEmptySeq
  <2> QED BY <2>1, <2>2
<1> HIDE DEF f, n, b
<1>8. events' \in Seq(Blocks) /\ \A k \in 1..Len(events') : events'[k].kind \in EventKinds
  <2>1. \A k \in 1..Len(events) : events[k].kind \in EventKinds
    BY <1>1 DEF StreamTyped
  <2>2. CASE kept
    <3>1. f.kind \in EventKinds
      BY <1>6, <2>2 DEF EventKinds
    <3>2. /\ events' \in Seq(Blocks) /\ Len(events') = Len(events) + 1
          /\ \A k \in 1..Len(events) : events'[k] = events[k]
          /\ events'[Len(events) + 1] = f
      BY ONLY <1>5, <1>6, <1>7, <2>2, OfYield, SMTT(20)
    <3>3. \A k \in 1..(Len(events) + 1) : k = Len(events) + 1 \/ k \in 1..Len(events)
      BY <1>5
    <3> QED BY <2>1, <3>1, <3>2, <3>3
  <2> QED BY <1>5, <1>7, <2>1, <2>2
<1>9. StreamTyped'
  BY <1>1, <1>4, <1>8 DEF StreamTyped
<1>10. Serial'
  <2>1. Current' = Current /\ Anthropic' = Anthropic
    BY <1>1 DEF Current, Anthropic
  <2>2. \A j \in DOMAIN said : said[j].kind = "thinking" => said[j].signature # <<>>
    BY <1>1, <1>2 DEF Serial, b
  <2> QED BY <1>1, <1>4, <2>1, <2>2 DEF Serial
<1>11. Parallel' /\ Identified'
  BY <1>1 DEF Parallel, Identified, Anthropic
<1>12. ASSUME NEW K
       PROVE  /\ \A j \in DoneOf(K) : said'[j] = said[j] /\ j \in 1..n
              /\ kept /\ b.kind \in K => DoneOf(K)' = DoneOf(K) \cup {n} /\ n \notin DoneOf(K)
              /\ ~(kept /\ b.kind \in K) => DoneOf(K)' = DoneOf(K)
  <2>1. Done' = DOMAIN said
    BY <1>1 DEF Done
  <2>2. DoneOf(K)' = {j \in DOMAIN said : said[j].kind \in K}
    BY <1>1, <2>1 DEF DoneOf
  <2>3. \A j \in DOMAIN said : j # n => j \in Done
    BY <1>2 DEF Done
  <2>4. n \in Done <=> ~kept
    BY <1>2 DEF Done, b, Kinds
  <2>5. DoneOf(K) = {j \in DOMAIN said : j \in Done /\ said[j].kind \in K}
    BY DEF DoneOf, Done
  <2>6. said[n].kind = b.kind
    BY DEF b
  <2>7. \A j \in DoneOf(K) : said'[j] = said[j] /\ j \in 1..n
    BY <1>1, <1>2, <2>5
  <2>8. ASSUME kept, b.kind \in K PROVE DoneOf(K)' = DoneOf(K) \cup {n} /\ n \notin DoneOf(K)
    <3>1. \A j \in DOMAIN said : said[j].kind \in K <=> ((j \in Done /\ said[j].kind \in K) \/ j = n)
      BY <2>3, <2>6, <2>8
    <3>2. n \notin Done
      BY <2>4, <2>8
    <3> QED BY <1>2, <2>2, <2>5, <3>1, <3>2
  <2>9. ASSUME ~(kept /\ b.kind \in K) PROVE DoneOf(K)' = DoneOf(K)
    <3>1. \A j \in DOMAIN said : said[j].kind \in K => j \in Done
      <4>1. n \in Done \/ said[n].kind \notin K
        BY <2>4, <2>6, <2>9
      <4> QED BY <2>3, <4>1
    <3> QED BY <2>2, <2>5, <3>1
  <2> QED BY <2>7, <2>8, <2>9
<1>13. ASSUME NEW K
       PROVE  /\ kept /\ b.kind \in K => Of(events', K) = Append(Of(events, K), f)
              /\ ~(kept /\ b.kind \in K) => Of(events', K) = Of(events, K)
  <2>1. /\ f.kind \in K => Of(events \o <<f>>, K) = Append(Of(events, K), f)
        /\ f.kind \notin K => Of(events \o <<f>>, K) = Of(events, K)
    BY <1>5, <1>6, OfYield
  <2>2. CASE kept
    BY <1>6, <1>7, <2>1, <2>2
  <2>3. CASE ~kept
    BY <1>7, <2>3
  <2> QED BY <2>2, <2>3
<1>14. ASSUME NEW K, kept, b.kind \in K PROVE DoneMore(K, n)
  <2>1. \A j \in DoneOf(K) : said'[j] = said[j] /\ j \in 1..n /\ j # n
    BY <1>12, <1>14
  <2>2. \A j \in DoneOf(K) : j < n
    BY <1>2, <2>1
  <2> QED BY <1>12, <1>14, <2>1, <2>2 DEF DoneMore
<1>15. HeardText'
  <2>1. ~(kept /\ b.kind \in {"text"}) /\ ~(kept /\ b.kind \in {"text_delta"})
    OBVIOUS
  <2>2. DoneSame({"text"}) /\ Of(events', {"text_delta"}) = Of(events, {"text_delta"})
    BY <1>12, <1>13, <2>1 DEF DoneSame
  <2> QED BY <1>1, <2>2, DoneSameText
<1>16. HeardThoughts'
  <2>1. CASE b.kind = "thinking"
    <3>1. kept /\ b.kind \in Thoughts /\ f = b /\ said'[n] = b
      BY <1>1, <1>6, <2>1 DEF Thoughts, b
    <3>2. InOrder(said', DoneOf(Thoughts)') = Append(InOrder(said, DoneOf(Thoughts)), b)
      BY <1>1, <1>2, <1>14, <3>1, DoneMoreInOrder
    <3>3. Of(events', Thoughts) = Append(Of(events, Thoughts), b)
      BY <1>13, <3>1
    <3>4. Thoughts' = Thoughts
      BY DEF Thoughts
    <3> QED BY <1>1, <3>2, <3>3, <3>4 DEF HeardThoughts
  <2>2. CASE b.kind # "thinking"
    <3>1. ~(kept /\ b.kind \in Thoughts)
      BY <2>2 DEF Thoughts
    <3>2. DoneSame(Thoughts) /\ Of(events', Thoughts) = Of(events, Thoughts)
      BY <1>12, <1>13, <3>1 DEF DoneSame
    <3> QED BY <1>1, <3>2, DoneSameThoughts
  <2> QED BY <2>1, <2>2
<1>17. HeardCalls'
  <2>1. CASE b.kind = "call"
    <3>1. kept /\ b.kind \in {"call"} /\ said'[n] = b /\ n \in DOMAIN said'
      BY <1>1, <1>2, <2>1 DEF b
    <3>2. InOrder(Sent', DoneOf({"call"})') = Append(InOrder(Sent, DoneOf({"call"})), f)
      <4>1. DoneMore({"call"}, n) /\ said'[n] \in Blocks /\ DOMAIN said \subseteq DOMAIN said'
        BY <1>1, <1>2, <1>14, <3>1
      <4>2. InOrder(Sent', DoneOf({"call"})') = Append(InOrder(Sent, DoneOf({"call"})), Finished(said'[n]))
        BY <1>1, <1>2, <3>1, <4>1, DoneMoreSent
      <4> QED BY <3>1, <4>2 DEF f
    <3>3. Of(events', {"call"}) = Append(Of(events, {"call"}), f)
      BY <1>13, <3>1
    <3> QED BY <1>1, <3>2, <3>3 DEF HeardCalls
  <2>2. CASE b.kind # "call"
    <3>1. ~(kept /\ b.kind \in {"call"})
      BY <2>2
    <3>2. DoneSame({"call"}) /\ Of(events', {"call"}) = Of(events, {"call"})
      BY <1>12, <1>13, <3>1 DEF DoneSame
    <3> QED BY <1>1, <3>2, DoneSameCalls
  <2> QED BY <2>1, <2>2
<1> QED BY <1>9, <1>10, <1>11, <1>15, <1>16, <1>17 DEF Stream

(***************************************************************************)
(* Each chunk of the other vendors keeps it.                               *)
(***************************************************************************)
LEMMA ContentDeltaStream ==
  ASSUME Control, Stream, ContentDelta
  PROVE  Stream'
<1> DEFINE i == TextIndex
           old == IF i \in DOMAIN said THEN said[i].text ELSE <<>>
           d == Block("text_delta", NoId, <<piece>>, <<>>)
           b == Text(Append(old, piece))
<1>1. /\ ~Anthropic /\ said' = Put(said, i, b) /\ events' = events \o <<d>>
      /\ piece' = piece + 1 /\ vendor' = vendor /\ open' = open /\ buffer' = buffer
  BY DEF ContentDelta, Yield, Tick
<1>2. /\ StreamTyped /\ Serial /\ Parallel /\ HeardText /\ HeardThoughts /\ HeardCalls /\ Identified
  BY DEF Stream
<1>3. piece \in Nat /\ NoId \in Identifiers /\ i \in Nat /\ i = 0
  BY PieceTyped DEF TextIndex
<1>4. i \in DOMAIN said => said[i] \in Blocks /\ said[i].kind = "text" /\ said[i].signature = <<>>
  BY <1>1, <1>2 DEF StreamTyped, Parallel
<1>5. old \in Seq(Nat) /\ Append(old, piece) \in Seq(Nat)
  BY <1>3, <1>4 DEF Blocks
<1>6. /\ b \in Blocks /\ b.kind = "text" /\ b.id = NoId /\ b.signature = <<>>
      /\ b.text = Append(old, piece)
  <2> DEFINE t == Append(old, piece)
  <2>1. t \in Seq(Nat) /\ b = [kind |-> "text", id |-> NoId, text |-> t, signature |-> <<>>]
    BY <1>5 DEF Text, Block
  <2>2. "text" \in Kinds /\ <<>> \in Seq(Nat)
    BY DEF Kinds
  <2> HIDE DEF t, b
  <2>3. b \in Blocks /\ b.kind = "text" /\ b.id = NoId /\ b.signature = <<>> /\ b.text = t
    BY <1>3, <2>1, <2>2 DEF Blocks
  <2> QED BY <2>3 DEF t
<1>7. i \in DOMAIN said => said[i].id = NoId
  BY <1>1, <1>2 DEF Parallel, TextIndex
<1>8. d \in Blocks /\ d.kind = "text_delta" /\ d.text = <<piece>> /\ Passed(d)
  BY ChunkTyped
<1>9. PassedOn
  BY <1>1, <1>8 DEF PassedOn
<1> HIDE DEF b, d
<1>10. Becomes(i, b)
  <2>1. DOMAIN said' = DOMAIN said \cup {i} /\ said' = [j \in DOMAIN said' |-> said'[j]]
    BY <1>1 DEF Put
  <2>2. said'[i] = b /\ \A j \in DOMAIN said \ {i} : said'[j] = said[j]
    BY <1>1 DEF Put
  <2>3. /\ i \notin DOMAIN buffer /\ DOMAIN buffer \subseteq DOMAIN said
        /\ buffer = [j \in DOMAIN buffer |-> said[j]]
    BY <1>1, <1>2 DEF Parallel, StreamTyped
  <2>4. buffer' = [j \in DOMAIN buffer' |-> said'[j]]
    BY <1>1, <2>2, <2>3
  <2> QED BY <1>1, <1>3, <1>4, <1>6, <1>7, <2>1, <2>2, <2>3, <2>4 DEF Becomes, Kinds
<1>11. StreamTyped' /\ Identified'
  BY <1>1, <1>2, <1>9, <1>10, BecomesTyped, BecomesIdentified
<1>12. Serial' /\ Parallel'
  <2>1. DOMAIN buffer' = DOMAIN said' \ {TextIndex}
    BY <1>1, <1>2, <1>10 DEF Parallel, Becomes
  <2> QED BY <1>1, <1>2, <1>6, <1>9, <1>10, <2>1, BecomesParallel
<1>13. HeardThoughts' /\ HeardCalls'
  BY <1>1, <1>2, <1>9, <1>10, BecomesHeard
<1>14. HeardText'
  <2>1. \A j \in DOMAIN said : said[j].kind = "text" => j <= i
    <3>1. \A j \in DOMAIN said : said[j].kind = "text" => j = i
      BY <1>1, <1>2 DEF Parallel, ThoughtIndex
    <3> QED BY <1>3, <3>1
  <2>2. i \in DOMAIN said => b.text = Append(said[i].text, piece)
    BY <1>6
  <2>3. i \notin DOMAIN said => b.text = <<piece>>
    BY <1>6
  <2> HIDE DEF i
  <2> QED BY <1>1, <1>2, <1>3, <1>6, <1>8, <1>10, <2>1, <2>2, <2>3, TextGrows
<1> QED BY <1>11, <1>12, <1>13, <1>14 DEF Stream

LEMMA ReasoningDeltaStream ==
  ASSUME Control, Stream, ReasoningDelta
  PROVE  Stream'
<1> DEFINE i == ThoughtIndex
           old == IF i \in DOMAIN buffer THEN buffer[i].text ELSE <<>>
           d == Block("thinking_delta", NoId, <<piece>>, <<>>)
           b == Block("thinking", NoId, Append(old, piece), <<>>)
<1>1. /\ ~Anthropic /\ said' = Put(said, i, b) /\ buffer' = Put(buffer, i, b) /\ events' = events \o <<d>>
      /\ piece' = piece + 1 /\ vendor' = vendor /\ open' = open
  BY DEF ReasoningDelta, Yield, Tick
<1>2. /\ StreamTyped /\ Serial /\ Parallel /\ HeardText /\ HeardThoughts /\ HeardCalls /\ Identified
  BY DEF Stream
<1>3. piece \in Nat /\ NoId \in Identifiers /\ i \in Nat /\ i # TextIndex
  BY PieceTyped DEF TextIndex, ThoughtIndex
<1>4. i \in DOMAIN said => /\ i \in DOMAIN buffer /\ buffer[i] = said[i] /\ said[i] \in Blocks
                           /\ said[i].kind = "thinking" /\ said[i].id = NoId
  BY <1>1, <1>2, <1>3 DEF StreamTyped, Parallel
<1>5. i \in DOMAIN buffer => i \in DOMAIN said
  BY <1>2 DEF StreamTyped
<1>6. /\ b \in Blocks /\ b.kind = "thinking" /\ b.id = NoId /\ b.signature = <<>>
  <2> DEFINE t == Append(old, piece)
  <2>1. t \in Seq(Nat) /\ b = [kind |-> "thinking", id |-> NoId, text |-> t, signature |-> <<>>]
    BY <1>3, <1>4, <1>5 DEF Block, Blocks
  <2>2. "thinking" \in Kinds /\ <<>> \in Seq(Nat)
    BY DEF Kinds
  <2> HIDE DEF t, b
  <2> QED BY <1>3, <2>1, <2>2 DEF Blocks
<1>7. d \in Blocks /\ d.kind = "thinking_delta" /\ Passed(d)
  BY ChunkTyped
<1>8. PassedOn
  BY <1>1, <1>7 DEF PassedOn
<1> HIDE DEF b, d
<1>9. Becomes(i, b)
  <2>1. DOMAIN said' = DOMAIN said \cup {i} /\ said' = [j \in DOMAIN said' |-> said'[j]]
    BY <1>1 DEF Put
  <2>2. said'[i] = b /\ \A j \in DOMAIN said \ {i} : said'[j] = said[j]
    BY <1>1 DEF Put
  <2>3. DOMAIN buffer \subseteq DOMAIN said /\ \A j \in DOMAIN buffer : buffer[j] = said[j]
    BY <1>2 DEF StreamTyped
  <2>4. DOMAIN buffer' = DOMAIN buffer \cup {i} /\ buffer' = [j \in DOMAIN buffer' |-> buffer'[j]]
    BY <1>1 DEF Put
  <2>5. buffer'[i] = b /\ \A j \in DOMAIN buffer \ {i} : buffer'[j] = buffer[j]
    BY <1>1 DEF Put
  <2>6. \A j \in DOMAIN buffer' : buffer'[j] = said'[j]
    BY <2>2, <2>3, <2>4, <2>5
  <2>7. buffer' = [j \in DOMAIN buffer' |-> said'[j]]
    BY <2>4, <2>6
  <2> QED BY <1>1, <1>3, <1>4, <1>6, <2>1, <2>2, <2>3, <2>4, <2>7 DEF Becomes, Kinds
<1>10. StreamTyped' /\ Identified'
  BY <1>1, <1>2, <1>8, <1>9, BecomesTyped, BecomesIdentified
<1>11. Serial' /\ Parallel'
  <2>1. DOMAIN buffer' = DOMAIN said' \ {TextIndex}
    <3>1. DOMAIN buffer' = DOMAIN buffer \cup {i}
      BY <1>1 DEF Put
    <3> QED BY <1>1, <1>2, <1>3, <1>9, <3>1 DEF Parallel, Becomes
  <2> QED BY <1>1, <1>2, <1>3, <1>6, <1>8, <1>9, <2>1, BecomesParallel
<1>12. Of(events', {"text_delta"}) = Of(events, {"text_delta"})
  <2>1. events \in Seq(Blocks)
    BY <1>2 DEF StreamTyped
  <2> QED BY <1>1, <1>7, <2>1, OfYield
<1>13. HeardText' /\ HeardThoughts' /\ HeardCalls'
  BY <1>1, <1>2, <1>6, <1>8, <1>9, <1>12, BecomesHeard
<1> QED BY <1>10, <1>11, <1>13 DEF Stream

LEMMA CallDeltaStream ==
  ASSUME Control, Stream, NEW i \in FirstCall..(FirstCall + MaxBlocks - 1),
         NEW id, id \in {NoId, <<"api", piece>>}, CallDelta(i, id)
  PROVE  Stream'
<1> DEFINE b == Block("call", id, <<>>, <<>>)
<1>1. /\ ~Anthropic /\ said' = Put(said, i, b) /\ buffer' = Put(buffer, i, b) /\ events' = events
      /\ piece' = piece + 1 /\ vendor' = vendor /\ open' = open /\ i \notin DOMAIN said
  BY DEF CallDelta, Tick
<1>2. /\ StreamTyped /\ Serial /\ Parallel /\ HeardText /\ HeardThoughts /\ HeardCalls /\ Identified
  BY DEF Stream
<1>3. piece \in Nat /\ id \in Identifiers /\ i \in Nat /\ i # TextIndex /\ i # ThoughtIndex
  BY PieceTyped, ProviderCallAssumption DEF TextIndex, ThoughtIndex, FirstCall
<1>4. b \in Blocks /\ b.kind = "call" /\ b.id = id /\ b.signature = <<>>
  <2>1. "call" \in Kinds /\ <<>> \in Seq(Nat)
    BY DEF Kinds
  <2> QED BY <1>3, <2>1 DEF Block, Blocks
<1>5. PassedOn
  BY <1>1 DEF PassedOn
<1> HIDE DEF b
<1>6. Becomes(i, b)
  <2>1. DOMAIN said' = DOMAIN said \cup {i} /\ said' = [j \in DOMAIN said' |-> said'[j]]
    BY <1>1 DEF Put
  <2>2. said'[i] = b /\ \A j \in DOMAIN said \ {i} : said'[j] = said[j]
    BY <1>1 DEF Put
  <2>3. DOMAIN buffer \subseteq DOMAIN said /\ \A j \in DOMAIN buffer : buffer[j] = said[j]
    BY <1>2 DEF StreamTyped
  <2>4. DOMAIN buffer' = DOMAIN buffer \cup {i} /\ buffer' = [j \in DOMAIN buffer' |-> buffer'[j]]
    BY <1>1 DEF Put
  <2>5. buffer'[i] = b /\ \A j \in DOMAIN buffer \ {i} : buffer'[j] = buffer[j]
    BY <1>1 DEF Put
  <2>6. \A j \in DOMAIN buffer' : buffer'[j] = said'[j]
    BY <2>2, <2>3, <2>4, <2>5
  <2>7. buffer' = [j \in DOMAIN buffer' |-> said'[j]]
    BY <2>4, <2>6
  <2> QED BY <1>1, <1>3, <1>4, <2>1, <2>2, <2>3, <2>4, <2>7 DEF Becomes, Kinds
<1>7. StreamTyped' /\ Identified'
  BY <1>1, <1>2, <1>5, <1>6, BecomesTyped, BecomesIdentified
<1>8. Serial' /\ Parallel'
  <2>1. DOMAIN buffer' = DOMAIN said' \ {TextIndex}
    <3>1. DOMAIN buffer' = DOMAIN buffer \cup {i}
      BY <1>1 DEF Put
    <3> QED BY <1>1, <1>2, <1>3, <1>6, <3>1 DEF Parallel, Becomes
  <2> QED BY <1>1, <1>2, <1>3, <1>4, <1>5, <1>6, <2>1, BecomesParallel
<1>9. Of(events', {"text_delta"}) = Of(events, {"text_delta"})
  BY <1>1
<1>10. HeardText' /\ HeardThoughts' /\ HeardCalls'
  BY <1>1, <1>2, <1>4, <1>5, <1>6, <1>9, BecomesHeard
<1> QED BY <1>7, <1>8, <1>10 DEF Stream

LEMMA ArgumentsDeltaStream ==
  ASSUME Control, Stream, NEW i \in FirstCall..(FirstCall + MaxBlocks - 1), ArgumentsDelta(i)
  PROVE  Stream'
<1>1. /\ ~Anthropic /\ i \in DOMAIN said /\ said[i].kind = "call"
      /\ events' = events /\ piece' = piece + 1 /\ vendor' = vendor /\ open' = open
  BY DEF ArgumentsDelta, Tick, ArgsPiece
<1>2. PICK p \in {piece, Brace, Odd} : Grow(i, p)
  BY DEF ArgumentsDelta, ArgsPiece
<1> DEFINE b == [said[i] EXCEPT !.text = Append(@, p)]
<1>3. /\ StreamTyped /\ Serial /\ Parallel /\ HeardText /\ HeardThoughts /\ HeardCalls /\ Identified
  BY DEF Stream
<1>4. said[i] \in Blocks /\ said[i].signature = <<>> /\ i # TextIndex /\ i # ThoughtIndex
  BY <1>1, <1>3, ProviderCallAssumption DEF StreamTyped, Parallel, TextIndex, ThoughtIndex,
    FirstCall
<1>5. p \in Nat
  BY PieceTyped DEF Brace, Odd
<1>6. Becomes(i, b) /\ DOMAIN buffer' = DOMAIN buffer /\ DOMAIN said' = DOMAIN said
  BY <1>1, <1>2, <1>3, <1>5, GrowBecomes
<1>7. PassedOn
  BY <1>1 DEF PassedOn
<1>8. b.kind = "call" /\ b.signature = <<>>
  BY <1>1, <1>4 DEF Blocks
<1> HIDE DEF b
<1>9. StreamTyped' /\ Identified'
  BY <1>1, <1>3, <1>6, <1>7, BecomesTyped, BecomesIdentified
<1>10. Serial' /\ Parallel'
  <2>1. DOMAIN buffer' = DOMAIN said' \ {TextIndex}
    BY <1>1, <1>3, <1>6 DEF Parallel
  <2> QED BY <1>1, <1>3, <1>4, <1>6, <1>7, <1>8, <2>1, BecomesParallel
<1>11. Of(events', {"text_delta"}) = Of(events, {"text_delta"})
  BY <1>1
<1>12. HeardText' /\ HeardThoughts' /\ HeardCalls'
  BY <1>1, <1>3, <1>6, <1>7, <1>8, <1>11, BecomesHeard
<1> QED BY <1>9, <1>10, <1>12 DEF Stream

LEMMA IdDeltaStream ==
  ASSUME Control, Stream, NEW i \in FirstCall..(FirstCall + MaxBlocks - 1), IdDelta(i)
  PROVE  Stream'
<1> DEFINE id == <<"api", piece>>
           b == [said[i] EXCEPT !.id = id]
<1>1. /\ ~Anthropic /\ i \in DOMAIN said /\ said' = [said EXCEPT ![i] = b]
      /\ buffer' = [buffer EXCEPT ![i].id = id]
      /\ events' = events /\ piece' = piece + 1 /\ vendor' = vendor /\ open' = open
  BY DEF IdDelta, Tick
<1>2. /\ StreamTyped /\ Serial /\ Parallel /\ HeardText /\ HeardThoughts /\ HeardCalls /\ Identified
  BY DEF Stream
<1>3. i # TextIndex /\ i # ThoughtIndex /\ i \in Nat /\ id \in Identifiers
  BY PieceTyped, ProviderCallAssumption DEF TextIndex, ThoughtIndex, FirstCall, Identifiers
<1>4. /\ said[i] \in Blocks /\ said[i].signature = <<>> /\ said[i].kind = "call"
      /\ said \in [DOMAIN said -> Blocks]
  BY <1>1, <1>2, <1>3 DEF StreamTyped, Parallel
<1>5. b \in Blocks /\ b.kind = "call" /\ b.signature = <<>> /\ b.id = id
  <2> HIDE DEF id
  <2> QED BY <1>3, <1>4 DEF Blocks
<1>6. PassedOn
  BY <1>1 DEF PassedOn
<1>7. DOMAIN buffer' = DOMAIN buffer /\ DOMAIN said' = DOMAIN said /\ i \in DOMAIN buffer
  BY <1>1, <1>2, <1>3, <1>4 DEF Parallel
<1>8. said'[i] = b /\ \A j \in DOMAIN said \ {i} : said'[j] = said[j]
  <2> HIDE DEF b
  <2> QED BY <1>1, <1>4
<1>9. ASSUME NEW j \in DOMAIN buffer PROVE buffer'[j] = said'[j]
  <2>1. buffer[j] = said[j] /\ j \in DOMAIN said
    BY <1>2, <1>9 DEF StreamTyped
  <2>2. CASE j = i
    <3>1. buffer'[i] = [buffer[i] EXCEPT !.id = id]
      <4> HIDE DEF id
      <4> QED BY <1>1, <1>7
    <3> QED BY <1>8, <2>1, <2>2, <3>1
  <2>3. CASE j # i
    <3>1. buffer'[j] = buffer[j]
      BY <1>1, <1>9, <2>3
    <3> QED BY <1>8, <2>1, <2>3, <3>1
  <2> QED BY <2>2, <2>3
<1>10. buffer' = [j \in DOMAIN buffer' |-> said'[j]]
  <2>1. buffer' = [j \in DOMAIN buffer |-> buffer'[j]]
    BY <1>1, <1>2 DEF StreamTyped
  <2> QED BY <1>7, <1>9, <2>1
<1>11. said' = [j \in DOMAIN said' |-> said'[j]] /\ DOMAIN buffer' \subseteq DOMAIN said'
  BY <1>1, <1>2, <1>4, <1>7 DEF StreamTyped
<1>12. PICK c : c = b
  OBVIOUS
<1>13. Becomes(i, c)
  <2> HIDE DEF b
  <2>1. c.id = <<"api", piece>> /\ c.kind = said[i].kind /\ c \in Blocks /\ c.kind \in Kinds
    BY <1>4, <1>5, <1>12 DEF Kinds, id
  <2>2. /\ DOMAIN said' = DOMAIN said \cup {i} /\ said'[i] = c
        /\ \A j \in DOMAIN said \ {i} : said'[j] = said[j]
    BY <1>1, <1>7, <1>8, <1>12
  <2>3. piece' = piece + 1 /\ piece' \in {piece, piece + 1} /\ vendor' = vendor /\ open' = open
    BY <1>1
  <2> QED BY <1>3, <1>10, <1>11, <2>1, <2>2, <2>3 DEF Becomes
<1> HIDE DEF b, id
<1>14. StreamTyped' /\ Identified'
  BY <1>1, <1>2, <1>6, <1>13, BecomesTyped, BecomesIdentified
<1>15. Serial' /\ Parallel'
  <2>1. DOMAIN buffer' = DOMAIN said' \ {TextIndex}
    BY <1>1, <1>2, <1>7 DEF Parallel
  <2> QED BY <1>1, <1>2, <1>3, <1>5, <1>6, <1>12, <1>13, <2>1, BecomesParallel
<1>16. Of(events', {"text_delta"}) = Of(events, {"text_delta"})
  BY <1>1
<1>17. HeardText' /\ HeardThoughts' /\ HeardCalls'
  BY <1>1, <1>2, <1>5, <1>6, <1>12, <1>13, <1>16, BecomesHeard
<1> QED BY <1>14, <1>15, <1>17 DEF Stream

(***************************************************************************)
(* What a single message is on the wire to Anthropic.                      *)
(***************************************************************************)
LEMMA ToAnthropicOne ==
  ASSUME NEW m, m.role # "system"
  PROVE  Request("anthropic", <<m>>)[1].blocks = ConvertBlocks(m.blocks)
<1> DEFINE ms == <<m>>
           S == {k \in DOMAIN ms : ms[k].role # "system"}
           spoken == InOrder(ms, S)
<1>1. S = {1} /\ ms[1] = m
  OBVIOUS
<1>2. spoken = <<m>>
  BY <1>1, InOrderOne
<1>3. DOMAIN spoken = {1} /\ spoken[1] = m
  BY <1>2
<1>4. Request("anthropic", ms) = [k \in DOMAIN spoken |->
         [role |-> IF spoken[k].role = "tool" THEN "user" ELSE spoken[k].role,
          blocks |-> ConvertBlocks(spoken[k].blocks)]]
  BY DEF Request, ToAnthropic
<1> HIDE DEF spoken, ms
<1>5. Request("anthropic", ms)[1].blocks = ConvertBlocks(m.blocks)
  BY <1>3, <1>4
<1> QED BY <1>5 DEF ms

(***************************************************************************)
(* What vendor v is sent for the message m alone, and how its only entry   *)
(* for OpenAI's wire depends on the message's blocks.                      *)
(***************************************************************************)
Alone(v, m) == Request(v, <<m>>)

Answer(v, calls, thoughts, text, wire) ==
  /\ wire.reasoned <=> thoughts # <<>> \/ (calls # <<>> /\ RequiresReplay(v))
  /\ thoughts # <<>> => wire.reasoning = Joined(thoughts)
  /\ thoughts = <<>> => wire.reasoning \in {<<>>, Joined(thoughts)}
  /\ wire.content = Joined(text)
  /\ wire.calls = calls

(***************************************************************************)
(* The entry of an assistant message is that answer.                       *)
(***************************************************************************)
LEMMA ToOpenAIOne ==
  ASSUME NEW v, v # "anthropic", NEW m, m.role = "assistant"
  PROVE  Answer(v, Of(m.blocks, {"call"}), Of(m.blocks, {"thinking"}), Of(m.blocks, {"text"}), Alone(v, m)[1])
<1> DEFINE calls == Of(m.blocks, {"call"})
           thoughts == Of(m.blocks, {"thinking"})
           text == Of(m.blocks, {"text"})
           wire == Alone(v, m)[1]
           replay == RequiresReplay(v)
           reasoned == m.role = "assistant" /\ (thoughts # <<>> \/ (calls # <<>> /\ replay))
           e == Entry(m.role, NoId, Joined(Of(m.blocks, {"text"})), calls, reasoned,
                      IF reasoned THEN Joined(thoughts) ELSE <<>>)
           s == Entries(m, replay)
<1>1. s = <<e>>
  BY DEF Entries
<1>2. s \in Seq({e}) /\ s[1] = e
  BY <1>1
<1>3. Request(v, <<m>>) = FlattenSeq(<<s>>)
  <2>1. [k \in DOMAIN <<m>> |-> Entries(<<m>>[k], replay)] = <<s>>
    OBVIOUS
  <2> QED BY <2>1 DEF Request, ToOpenAI
<1>4. wire = e
  <2> HIDE DEF s, e, calls, thoughts
  <2> QED BY <1>2, <1>3, FlattenOne DEF Alone
<1>5. /\ e.reasoned = (m.role = "assistant" /\ (thoughts # <<>> \/ (calls # <<>> /\ replay)))
      /\ e.reasoning = IF reasoned THEN Joined(thoughts) ELSE <<>>
      /\ e.content = Joined(Of(m.blocks, {"text"}))
      /\ e.calls = calls
  BY DEF Entry
<1> HIDE DEF e
<1>6. Answer(v, calls, thoughts, text, wire)
  <2> HIDE DEF wire, calls, thoughts
  <2> QED BY <1>4, <1>5 DEF Answer
<1> QED BY <1>6

(***************************************************************************)
(* The assembled message is in three parts of different kinds, so what is  *)
(* picked of it is what is picked of one part.                             *)
(***************************************************************************)
LEMMA TextTyped ==
  ASSUME NEW pieces \in Seq(Nat)
  PROVE  Text(pieces) \in Blocks /\ Text(pieces).kind = "text" /\ Text(pieces).text = pieces
<1>1. NoId \in Identifiers /\ <<>> \in Seq(Nat) /\ "text" \in Kinds
  BY DEF NoId, Identifiers, Kinds
<1> QED BY <1>1 DEF Text, Block, Blocks

Kind(s, K) == \A k \in 1..Len(s) : s[k].kind \in K
Parts(x, y, z) == (x \o y) \o z

LEMMA OfParts ==
  ASSUME NEW T, NEW x \in Seq(T), NEW y \in Seq(T), NEW z \in Seq(T), NEW K
  PROVE  /\ Parts(x, y, z) \in Seq(T)
         /\ Of(Parts(x, y, z), K) = (Of(x, K) \o Of(y, K)) \o Of(z, K)
<1>1. x \o y \in Seq(T)
  OBVIOUS
<1>2. PICK w : w = x \o y
  OBVIOUS
<1>3. w \in Seq(T)
  BY <1>1, <1>2
<1>4. Of(w, K) = Of(x, K) \o Of(y, K)
  BY <1>2, OfConcat
<1>5. w \o z \in Seq(T)
  BY ONLY <1>3, z \in Seq(T)
<1>6. Of(w \o z, K) = Of(w, K) \o Of(z, K)
  BY ONLY <1>3, z \in Seq(T), OfConcat, SMTT(30)
<1> QED BY <1>2, <1>4, <1>5, <1>6 DEF Parts

LEMMA Outer ==
  ASSUME NEW T, NEW x \in Seq(T)
  PROVE  /\ (x \o <<>>) \o <<>> = x
         /\ (<<>> \o x) \o <<>> = x
         /\ (<<>> \o <<>>) \o x = x
<1>1. <<>> \in Seq(T) /\ <<>> \o <<>> = <<>> /\ x \o <<>> = x /\ <<>> \o x = x
  BY ConcatEmptySeq
<1> QED BY <1>1

(***************************************************************************)
(* _assemble_assistant_message loses none of the events' text, thoughts or *)
(* calls, puts the thoughts first, and adds nothing.                       *)
(***************************************************************************)
LEMMA AssembledProperties ==
  ASSUME NEW evs \in Seq(Blocks)
  PROVE  LET blocks == Assembled(evs)
             thoughts == Of(evs, Thoughts)
         IN /\ blocks \in Seq(Blocks)
            /\ \A k \in 1..Len(blocks) : blocks[k].kind \in Kinds
            /\ Of(blocks, Thoughts) = thoughts
            /\ Len(thoughts) <= Len(blocks)
            /\ \A k \in 1..Len(thoughts) : blocks[k] = thoughts[k]
            /\ Joined(Of(blocks, {"text"})) = Joined(Of(evs, {"text_delta"}))
            /\ Of(blocks, {"call"}) = Of(evs, {"call"})
            /\ Of(blocks, {"thinking"}) = Of(thoughts, {"thinking"})
            /\ Of(blocks, {"result"}) = <<>>
<1> DEFINE texts == Of(evs, {"text_delta"})
           x == Of(evs, Thoughts)
           y == IF texts = <<>> THEN <<>> ELSE <<Text(Joined(texts))>>
           z == Of(evs, {"call"})
           blocks == (x \o y) \o z
<1>1. Assembled(evs) = blocks
  BY DEF Assembled, Thoughts
<1>2. /\ x \in Seq(Blocks) /\ Kind(x, Thoughts) /\ z \in Seq(Blocks)
      /\ Kind(z, {"call"}) /\ texts \in Seq(Blocks)
  BY OfProperties DEF Kind
<1>3. Joined(texts) \in Seq(Nat)
  BY <1>2, BlocksText, JoinedTyped
<1>4. y \in Seq(Blocks) /\ Kind(y, {"text"}) /\ Joined(y) = Joined(texts)
  <2>1. CASE texts = <<>>
    BY <2>1 DEF Kind
  <2>2. CASE texts # <<>>
    <3> DEFINE b == Text(Joined(texts))
    <3>1. b \in Blocks /\ b.kind = "text" /\ b.text = Joined(texts)
      BY <1>3, TextTyped
    <3>2. y = <<b>>
      BY <2>2
    <3> HIDE DEF b, y
    <3>3. Joined(<<b>>) = b.text
      BY <1>3, <3>1, JoinedOne
    <3> QED BY <3>1, <3>2, <3>3 DEF Kind
  <2> QED BY <2>1, <2>2
<1> HIDE DEF x, y, z
<1>5. blocks \in Seq(Blocks) /\ \A K : Of(blocks, K) = (Of(x, K) \o Of(y, K)) \o Of(z, K)
  <2>1. ASSUME NEW K
        PROVE  /\ Parts(x, y, z) \in Seq(Blocks)
               /\ Of(Parts(x, y, z), K) = (Of(x, K) \o Of(y, K)) \o Of(z, K)
    BY <1>2, <1>4, OfParts, SMTT(20)
  <2> QED BY <2>1, Zenon DEF Parts
<1>6. \A k \in 1..Len(blocks) : blocks[k].kind \in Kinds
  <2>1. x \o y \in Seq(Blocks) /\ Kind(x \o y, Kinds)
    BY <1>2, <1>4 DEF Kind, Thoughts, Kinds
  <2> DEFINE w == x \o y
  <2>2. /\ Len(w \o z) = Len(w) + Len(z)
        /\ \A k \in 1..Len(w \o z) : (w \o z)[k] = IF k <= Len(w) THEN w[k] ELSE z[k - Len(w)]
    BY <1>2, <2>1, ConcatProperties
  <2> SUFFICES ASSUME NEW k \in 1..Len(w \o z) PROVE (w \o z)[k].kind \in Kinds
    OBVIOUS
  <2>3. Len(w) \in Nat /\ Len(z) \in Nat
    BY <1>2, <2>1
  <2> HIDE DEF w
  <2>4. CASE k <= Len(w)
    BY <2>1, <2>2, <2>3, <2>4 DEF Kind, w
  <2>5. CASE ~(k <= Len(w))
    <3>1. k - Len(w) \in 1..Len(z)
      BY <2>2, <2>3, <2>5
    <3> QED BY <1>2, <2>2, <2>5, <3>1 DEF Kind, Kinds
  <2> QED BY <2>4, <2>5
<1>7. Of(blocks, Thoughts) = x
  <2>1. Of(x, Thoughts) = x /\ Of(y, Thoughts) = <<>> /\ Of(z, Thoughts) = <<>>
    BY <1>2, <1>4, OfAll, OfNone DEF Kind, Thoughts
  <2> QED BY <1>2, <1>5, <2>1, Outer
<1>8. Of(blocks, {"text"}) = y
  <2>1. Of(x, {"text"}) = <<>> /\ Of(y, {"text"}) = y /\ Of(z, {"text"}) = <<>>
    BY <1>2, <1>4, OfAll, OfNone DEF Kind, Thoughts
  <2> QED BY <1>4, <1>5, <2>1, Outer
<1>9. Of(blocks, {"call"}) = z
  <2>1. Of(x, {"call"}) = <<>> /\ Of(y, {"call"}) = <<>> /\ Of(z, {"call"}) = z
    BY <1>2, <1>4, OfAll, OfNone DEF Kind, Thoughts
  <2> QED BY <1>2, <1>5, <2>1, Outer
<1>10. Of(blocks, {"thinking"}) = Of(x, {"thinking"})
  <2>1. Of(y, {"thinking"}) = <<>> /\ Of(z, {"thinking"}) = <<>>
    BY <1>2, <1>4, OfNone DEF Kind
  <2>3. Of(x, {"thinking"}) \in Seq(Blocks)
    BY <1>2, OfProperties
  <2> QED BY <1>5, <2>1, <2>3, Outer
<1>11. Of(blocks, {"result"}) = <<>>
  BY <1>5, <1>6, OfNone DEF Kinds
<1>12. Len(x) <= Len(blocks) /\ \A k \in 1..Len(x) : blocks[k] = x[k]
  BY <1>2, <1>4
<1> HIDE DEF blocks
<1> QED BY <1>1, <1>4, <1>5, <1>6, <1>7, <1>8, <1>9, <1>10, <1>11, <1>12 DEF x, z

(***************************************************************************)
(* What ReplayedAsSaid says of one message...                              *)
(***************************************************************************)
Faithful(m) == IF m.from = "anthropic" THEN AnthropicHearsItself(m) ELSE OpenAIHearsItself(m)

(***************************************************************************)
(* ...what OnlySignedThoughts says of it...                                *)
(***************************************************************************)
Genuine(m) ==
  \A b \in ToSet(Of(Request("anthropic", <<m>>)[1].blocks, {"thinking"})) :
    /\ m.from = "anthropic" /\ b \in ToSet(m.said)
    /\ b.signature # <<>>

(***************************************************************************)
(* ...and what SilentOnlyIfNothingSaid says of it.                         *)
(***************************************************************************)
Eloquent(m) ==
  Request("anthropic", <<m>>)[1].blocks = <<>> =>
    /\ Joined(Of(m.said, {"text"})) = <<>>
    /\ Of(m.said, {"call", "redacted"}) = <<>>
    /\ m.from = "anthropic" => m.said = <<>> \/ Of(m.said, {"text"}) # <<>>

(***************************************************************************)
(* What is recorded as said is typed, and each thing of it is found among  *)
(* the blocks of its kind.                                                 *)
(***************************************************************************)
LEMMA OfKeeps ==
  ASSUME NEW T, NEW s \in Seq(T), NEW K, NEW i \in 1..Len(s), s[i].kind \in K
  PROVE  \E k \in 1..Len(Of(s, K)) : Of(s, K)[k] = s[i]
BY OfProperties

LEMMA FinishedFacts ==
  ASSUME StreamTyped, NEW finished, finished = InOrder(said, Done)
  PROVE  /\ finished \in Seq(Blocks)
         /\ \A K : Of(finished, K) = InOrder(said, DoneOf(K))
         /\ \A i \in Done : said[i] \in ToSet(finished)
<1>1. Numbers(Done) /\ \A i \in Done : said[i] \in Blocks
  BY SubNumbers DEF StreamTyped, Done
<1>2. finished \in Seq(Blocks)
  BY <1>1, InOrderTyped
<1>3. ASSUME NEW K PROVE Of(finished, K) = InOrder(said, DoneOf(K))
  BY <1>1, OfInOrder DEF DoneOf
<1>4. ASSUME NEW i \in Done PROVE said[i] \in ToSet(finished)
  <2>1. /\ DOMAIN finished = 1..Cardinality(Done)
        /\ Rank(Done, i) \in 1..Cardinality(Done) /\ finished[Rank(Done, i)] = said[i]
    BY <1>1, InOrderProperties
  <2> QED BY <2>1 DEF ToSet
<1> QED BY <1>2, <1>3, <1>4

(***************************************************************************)
(* Ids that differ in a set of blocks differ in what is picked of it.      *)
(***************************************************************************)
LEMMA IdsInjective ==
  ASSUME NEW f, NEW S, Numbers(S), \A i, j \in S : f[i].id = f[j].id => i = j
  PROVE  IsInjective(Ids(InOrder(f, S)))
<1> DEFINE s == InOrder(f, S)
<1>1. /\ DOMAIN s = 1..Cardinality(S)
      /\ \A k \in 1..Cardinality(S) : s[k] = f[Nth(S, k)]
  BY InOrderProperties
<1>2. \A k \in 1..Cardinality(S) : Nth(S, k) \in S /\ Rank(S, Nth(S, k)) = k
  BY NthProperties
<1> HIDE DEF s
<1>3. DOMAIN Ids(s) = DOMAIN s /\ \A k \in DOMAIN s : Ids(s)[k] = s[k].id
  BY DEF Ids
<1>4. ASSUME NEW a \in DOMAIN s, NEW b \in DOMAIN s, Ids(s)[a] = Ids(s)[b] PROVE a = b
  <2>1. Nth(S, a) = Nth(S, b)
    BY <1>1, <1>2, <1>3, <1>4
  <2> QED BY <1>1, <1>2, <2>1
<1>5. IsInjective(Ids(s))
  BY <1>3, <1>4 DEF IsInjective
<1> QED BY <1>5 DEF s

(***************************************************************************)
(* What is sent of f at the numbers S says what was said there.            *)
(***************************************************************************)
LEMMA SaidBackInOrder ==
  ASSUME NEW f, NEW g, NEW S, Numbers(S),
         \A i \in S : /\ g[i].id = NoId \/ f[i].id = g[i].id
                      /\ Whole(g[i].text) => f[i].text = g[i].text
  PROVE  SaidBack(InOrder(f, S), InOrder(g, S))
<1>1. /\ Len(InOrder(f, S)) = Cardinality(S) /\ Len(InOrder(g, S)) = Cardinality(S)
      /\ DOMAIN InOrder(g, S) = 1..Cardinality(S)
      /\ \A k \in 1..Cardinality(S) : InOrder(f, S)[k] = f[Nth(S, k)] /\ InOrder(g, S)[k] = g[Nth(S, k)]
  BY InOrderProperties
<1>2. \A k \in 1..Cardinality(S) : Nth(S, k) \in S
  BY NthProperties
<1> QED BY <1>1, <1>2 DEF SaidBack

(***************************************************************************)
(* The fields of a message.                                                *)
(***************************************************************************)
LEMMA MessageTyped ==
  ASSUME NEW role \in {"user", "assistant", "tool", "system"}, NEW v \in Vendors,
         NEW blocks \in Seq(Blocks), NEW was \in Seq(Blocks),
         NEW m, m = Message(role, v, blocks, was)
  PROVE  m \in Messages /\ m.role = role /\ m.from = v /\ m.blocks = blocks /\ m.said = was
BY DEF Message, Messages

(***************************************************************************)
(* The thoughts Anthropic finished are signed.                             *)
(***************************************************************************)
LEMMA DoneThoughtsSigned ==
  ASSUME StreamTyped, Serial, Anthropic, NEW i \in DoneOf(Thoughts)
  PROVE  /\ i \in Done /\ said[i].kind = "thinking" => said[i].signature # <<>>
         /\ i \in Done
BY DEF Serial, DoneOf, Done, Thoughts

(***************************************************************************)
(* The message recorded when a stream of Anthropic ends or is cut:         *)
(* faithful, genuine, eloquent, its calls with distinct ids.               *)
(***************************************************************************)
LEMMA RecordedAnthropic ==
  ASSUME Control, Stream, Anthropic, NEW blocks, blocks = Assembled(events),
         NEW was, was = InOrder(said, Done),
         NEW m, m = Message("assistant", vendor, blocks, was)
  PROVE  /\ m \in Messages /\ m.role = "assistant" /\ m.blocks = blocks
         /\ Faithful(m) /\ Genuine(m) /\ Eloquent(m)
         /\ IsInjective(Ids(Of(m.blocks, {"call"})))
<1> DEFINE thoughts == InOrder(said, DoneOf(Thoughts))
           calls == InOrder(Sent, DoneOf({"call"}))
<1>1. /\ StreamTyped /\ Serial /\ HeardText /\ HeardThoughts
      /\ HeardCalls /\ Identified /\ vendor = "anthropic"
  BY DEF Stream, Anthropic
<1>2. events \in Seq(Blocks)
  BY <1>1 DEF StreamTyped
<1>3. Of(events, Thoughts) = thoughts /\ Of(events, {"call"}) = calls
  BY <1>1 DEF HeardThoughts, HeardCalls
<1>4. /\ blocks \in Seq(Blocks) /\ \A k \in 1..Len(blocks) : blocks[k].kind \in Kinds
      /\ Of(blocks, Thoughts) = thoughts
      /\ Len(thoughts) <= Len(blocks) /\ \A k \in 1..Len(thoughts) : blocks[k] = thoughts[k]
      /\ Joined(Of(blocks, {"text"})) = Joined(Of(events, {"text_delta"}))
      /\ Of(blocks, {"call"}) = calls
  BY <1>2, <1>3, AssembledProperties
<1>5. /\ was \in Seq(Blocks) /\ \A K : Of(was, K) = InOrder(said, DoneOf(K))
      /\ \A i \in Done : said[i] \in ToSet(was)
  BY <1>1, FinishedFacts
<1>6. /\ m \in Messages /\ m.role = "assistant" /\ m.from = "anthropic"
      /\ m.blocks = blocks /\ m.said = was
  BY <1>1, <1>4, <1>5, MessageTyped DEF Control
<1>7. \A K : Numbers(DoneOf(K)) /\ DoneOf(K) \subseteq DOMAIN said
  BY <1>1, DoneNumbers
<1>8. ASSUME NEW k \in 1..Len(blocks), blocks[k].kind = "thinking"
      PROVE  blocks[k].signature # <<>> /\ blocks[k] \in ToSet(was)
  <2>1. PICK j \in 1..Len(thoughts) : thoughts[j] = blocks[k]
    <3>1. \E j \in 1..Len(Of(blocks, Thoughts)) : Of(blocks, Thoughts)[j] = blocks[k]
      <4>1. blocks[k].kind \in Thoughts
        BY <1>8 DEF Thoughts
      <4> QED BY <1>4, <4>1, OfKeeps
    <3> QED BY <1>4, <3>1
  <2>2. PICK i \in DoneOf(Thoughts) : thoughts[j] = said[i]
    <3>1. /\ Len(thoughts) = Cardinality(DoneOf(Thoughts))
          /\ thoughts[j] = said[Nth(DoneOf(Thoughts), j)]
      BY <1>7, InOrderProperties
    <3>2. Nth(DoneOf(Thoughts), j) \in DoneOf(Thoughts)
      BY <1>7, <3>1, NthProperties
    <3> QED BY <3>1, <3>2
  <2>3. i \in Done /\ (said[i].kind = "thinking" => said[i].signature # <<>>)
    BY <1>1, DoneThoughtsSigned
  <2> QED BY <1>5, <1>8, <2>1, <2>2, <2>3
<1>9. Request("anthropic", <<m>>)[1].blocks = blocks
  <2>1. Request("anthropic", <<m>>)[1].blocks = ConvertBlocks(m.blocks)
    BY <1>6, ToAnthropicOne
  <2>2. \A k \in 1..Len(blocks) : Signed(blocks[k])
    BY <1>8 DEF Signed
  <2> QED BY <1>4, <1>6, <2>1, <2>2, ConvertAll
<1>10. Faithful(m)
  <2>1. Of(was, Thoughts) = thoughts
    BY <1>5
  <2>2. DOMAIN thoughts = 1..Len(thoughts)
    BY <1>7, InOrderProperties
  <2>3. Joined(Of(blocks, {"text"})) = Joined(Of(was, {"text"}))
    BY <1>1, <1>4, <1>5 DEF HeardText
  <2>4. SaidBack(calls, Of(was, {"call"}))
    <3>1. \A i \in DoneOf({"call"}) :
             /\ said[i].id = NoId \/ Sent[i].id = said[i].id
             /\ Whole(said[i].text) => Sent[i].text = said[i].text
      BY <1>1, <1>7, FinishedProperties DEF Sent, StreamTyped
    <3> QED BY <1>5, <1>7, <3>1, SaidBackInOrder
  <2> HIDE DEF thoughts, calls
  <2>5. AnthropicHearsItself(m)
    BY <1>4, <1>6, <1>9, <2>1, <2>2, <2>3, <2>4 DEF AnthropicHearsItself, Thoughts
  <2> QED BY <1>6, <2>5 DEF Faithful
<1>11. Genuine(m)
  <2>1. Of(blocks, {"thinking"}) \in Seq(Blocks)
    BY <1>4, OfProperties
  <2>2. ASSUME NEW k \in DOMAIN Of(blocks, {"thinking"})
        PROVE  Of(blocks, {"thinking"})[k].signature # <<>> /\ Of(blocks, {"thinking"})[k] \in ToSet(was)
    <3>1. k \in 1..Len(Of(blocks, {"thinking"}))
      BY <2>1
    <3>2. /\ Of(blocks, {"thinking"})[k].kind \in {"thinking"}
          /\ \E i \in 1..Len(blocks) : Of(blocks, {"thinking"})[k] = blocks[i]
      BY <1>4, <3>1, OfProperties
    <3> QED BY <1>8, <3>2
  <2> QED BY <1>6, <1>9, <2>2 DEF Genuine, ToSet
<1>12. Eloquent(m)
  <2> SUFFICES ASSUME blocks = <<>>
               PROVE  /\ Joined(Of(was, {"text"})) = <<>>
                      /\ Of(was, {"call", "redacted"}) = <<>>
                      /\ was = <<>> \/ Of(was, {"text"}) # <<>>
    BY <1>6, <1>9 DEF Eloquent
  <2>1. \A K : Of(blocks, K) = <<>>
    BY OfEmpty
  <2>2. Joined(Of(was, {"text"})) = <<>>
    BY <1>1, <1>4, <1>5, <2>1, JoinedEmpty DEF HeardText
  <2>3. DoneOf(Thoughts) = {} /\ DoneOf({"call"}) = {}
    BY <1>4, <1>7, <2>1, InOrderEmptyOnly
  <2>4. Of(was, {"call", "redacted"}) = <<>>
    <3>1. DoneOf({"call", "redacted"}) = {}
      BY <2>3 DEF DoneOf, Thoughts
    <3> QED BY <1>5, <3>1, InOrderEmpty
  <2>5. ASSUME Of(was, {"text"}) = <<>> PROVE was = <<>>
    <3>1. DoneOf({"text"}) = {}
      BY <1>5, <1>7, <2>5, InOrderEmptyOnly
    <3>2. Done = {}
      BY <1>1, <2>3, <3>1 DEF DoneOf, Done, Thoughts, StreamTyped, Kinds
    <3> QED BY <3>2, InOrderEmpty
  <2> QED BY <2>2, <2>4, <2>5
<1>13. IsInjective(Ids(Of(m.blocks, {"call"})))
  <2>1. ASSUME NEW i \in DoneOf({"call"}), NEW j \in DoneOf({"call"}), Sent[i].id = Sent[j].id
        PROVE  i = j
    <3>1. i \in DOMAIN said /\ j \in DOMAIN said /\ said[i].kind = "call" /\ said[j].kind = "call"
      BY <1>7 DEF DoneOf
    <3>2. Sent[i].id = said[i].id /\ Sent[j].id = said[j].id
      BY <1>1, <3>1, FinishedProperties DEF Sent, StreamTyped
    <3> QED BY <1>1, <2>1, <3>1, <3>2 DEF Identified, Anthropic
  <2> QED BY <1>4, <1>6, <1>7, <2>1, IdsInjective
<1> QED BY <1>6, <1>10, <1>11, <1>12, <1>13

(***************************************************************************)
(* The parts of StreamEnd: the calls' indexes, the thought, the calls with *)
(* their ids, and all events of the stream.                                *)
(***************************************************************************)
Indexes == DOMAIN buffer \ {ThoughtIndex}
Thought == IF ThoughtIndex \in DOMAIN buffer THEN <<buffer[ThoughtIndex]>> ELSE <<>>
ToolCall == [i \in Indexes |-> [buffer[i] EXCEPT !.id = IdOf(i), !.text = Args(@)]]
Everything == events \o (Thought \o InOrder(ToolCall, Indexes))

(***************************************************************************)
(* What the adapter for OpenAI has collected when the stream ends:         *)
(* everything the vendor said is done.                                     *)
(***************************************************************************)
LEMMA Collected ==
  ASSUME Stream, ~Anthropic
  PROVE  /\ open = {} /\ Done = DOMAIN said
         /\ Indexes = DoneOf({"call"}) /\ Numbers(Indexes)
         /\ Thought = InOrder(said, DoneOf({"thinking"}))
         /\ Thought \in Seq(Blocks)
         /\ \A k \in 1..Len(Thought) : Thought[k].kind = "thinking" /\ Thought[k].signature = <<>>
         /\ DoneOf({"redacted"}) = {}
<1>1. StreamTyped /\ Parallel
  BY DEF Stream
<1>2. /\ open = {} /\ DOMAIN buffer = DOMAIN said \ {TextIndex}
      /\ \A i \in DOMAIN said :
           /\ said[i].kind = (IF i = TextIndex THEN "text" ELSE IF i = ThoughtIndex THEN "thinking" ELSE "call")
           /\ said[i].signature = <<>> /\ said[i] \in Blocks
      /\ \A i \in DOMAIN buffer : buffer[i] = said[i]
  BY <1>1 DEF StreamTyped, Parallel
<1>3. Done = DOMAIN said
  BY <1>2 DEF Done
<1>4. Indexes = DoneOf({"call"}) /\ DoneOf({"redacted"}) = {}
  BY <1>2, <1>3 DEF DoneOf, Indexes, TextIndex, ThoughtIndex
<1>5. Numbers(Indexes)
  BY <1>1, <1>4, DoneNumbers
<1>6. /\ Thought = InOrder(said, DoneOf({"thinking"})) /\ Thought \in Seq(Blocks)
      /\ \A k \in 1..Len(Thought) : Thought[k].kind = "thinking" /\ Thought[k].signature = <<>>
  <2>1. CASE ThoughtIndex \in DOMAIN said
    <3>1. DoneOf({"thinking"}) = {ThoughtIndex} /\ Thought = <<said[ThoughtIndex]>>
      BY <1>2, <1>3, <2>1 DEF DoneOf, Thought, TextIndex, ThoughtIndex
    <3>2. InOrder(said, {ThoughtIndex}) = <<said[ThoughtIndex]>>
      BY InOrderOne DEF ThoughtIndex
    <3>3. /\ said[ThoughtIndex] \in Blocks /\ said[ThoughtIndex].kind = "thinking"
          /\ said[ThoughtIndex].signature = <<>>
      BY <1>2, <2>1 DEF TextIndex, ThoughtIndex
    <3> QED BY <3>1, <3>2, <3>3
  <2>2. CASE ThoughtIndex \notin DOMAIN said
    <3>1. DoneOf({"thinking"}) = {} /\ Thought = <<>>
      BY <1>2, <1>3, <2>2 DEF DoneOf, Thought
    <3> QED BY <3>1, InOrderEmpty
  <2> QED BY <2>1, <2>2
<1> QED BY <1>2, <1>3, <1>4, <1>5, <1>6

(***************************************************************************)
(* The calls it yields: ids that differ, given by the vendor or made from  *)
(* the index, and the arguments as they were streamed if they were whole.  *)
(***************************************************************************)
LEMMA ToolCallTyped ==
  ASSUME Stream, ~Anthropic
  PROVE  /\ \A i \in Indexes :
              /\ ToolCall[i] \in Blocks /\ ToolCall[i].kind = "call"
              /\ said[i].id = NoId \/ ToolCall[i].id = said[i].id
              /\ Whole(said[i].text) => ToolCall[i].text = said[i].text
         /\ \A i, j \in Indexes : ToolCall[i].id = ToolCall[j].id => i = j
<1>1. StreamTyped /\ Identified
  BY DEF Stream
<1>2. Indexes = DoneOf({"call"}) /\ Numbers(Indexes)
  BY Collected
<1>3. ASSUME NEW i \in Indexes
      PROVE  /\ i \in Nat /\ i \in DOMAIN said /\ said[i] \in Blocks /\ said[i].kind = "call" /\ buffer[i] = said[i]
  BY <1>1, <1>2 DEF StreamTyped, DoneOf, Done, Indexes, Numbers
<1>4. ASSUME NEW i \in Indexes
      PROVE  /\ IdOf(i) \in Identifiers /\ (said[i].id # NoId => IdOf(i) = said[i].id)
             /\ (said[i].id = NoId => IdOf(i) = <<"openai-tc", i>>)
  BY <1>3 DEF IdOf, Blocks, Identifiers
<1>5. ASSUME NEW i \in Indexes
      PROVE  /\ ToolCall[i] \in Blocks /\ ToolCall[i].kind = "call" /\ ToolCall[i].id = IdOf(i)
             /\ ToolCall[i].text = Args(said[i].text)
  <2>1. Args(said[i].text) \in Seq(Nat)
    BY <1>3, ArgsTyped DEF Blocks
  <2>2. ToolCall[i] = [said[i] EXCEPT !.id = IdOf(i), !.text = Args(@)]
    BY <1>3 DEF ToolCall
  <2> QED BY <1>3, <1>4, <2>1, <2>2 DEF Blocks
<1>6. ASSUME NEW i \in Indexes, NEW j \in Indexes, ToolCall[i].id = ToolCall[j].id PROVE i = j
  <2>1. IdOf(i) = IdOf(j)
    BY <1>5, <1>6
  <2>2. CASE said[i].id = NoId /\ said[j].id = NoId
    BY <1>4, <2>1, <2>2
  <2>3. CASE said[i].id # NoId /\ said[j].id # NoId
    BY <1>1, <1>3, <1>4, <2>1, <2>3 DEF Identified
  <2>4. CASE said[i].id = NoId /\ said[j].id # NoId
    <3>1. PICK p : said[j].id = <<"api", p>>
      BY <1>1, <1>3, <2>4 DEF Identified
    <3> QED BY <1>4, <2>1, <2>4, <3>1
  <2>5. CASE said[i].id # NoId /\ said[j].id = NoId
    <3>1. PICK p : said[i].id = <<"api", p>>
      BY <1>1, <1>3, <2>5 DEF Identified
    <3> QED BY <1>4, <2>1, <2>5, <3>1
  <2> QED BY <2>2, <2>3, <2>4, <2>5
<1> QED BY <1>4, <1>5, <1>6 DEF Args

(***************************************************************************)
(* All events of a stream that has ended: text, thought and calls.         *)
(***************************************************************************)
LEMMA PartsAssociate ==
  ASSUME NEW T, NEW x \in Seq(T), NEW y \in Seq(T), NEW z \in Seq(T)
  PROVE  x \o (y \o z) = Parts(x, y, z)
BY DEF Parts

LEMMA AllEvents ==
  ASSUME Stream, ~Anthropic, NEW all, all = Everything
  PROVE  /\ all \in Seq(Blocks)
         /\ Of(all, {"text_delta"}) = Of(events, {"text_delta"})
         /\ Of(all, Thoughts) = Thought
         /\ Of(all, {"call"}) = InOrder(ToolCall, Indexes)
<1> DEFINE c == InOrder(ToolCall, Indexes)
           y == Thought
<1>1. /\ y \in Seq(Blocks) /\ Kind(y, {"thinking"}) /\ Numbers(Indexes)
  BY Collected DEF Kind
<1>2. c \in Seq(Blocks) /\ Kind(c, {"call"})
  <2>1. c \in Seq(Blocks)
    BY <1>1, ToolCallTyped, InOrderTyped
  <2>2. ASSUME NEW k \in 1..Len(c) PROVE c[k].kind = "call"
    <3>1. /\ Len(c) = Cardinality(Indexes)
          /\ (k \in 1..Cardinality(Indexes) => c[k] = ToolCall[Nth(Indexes, k)])
      BY <1>1, InOrderProperties
    <3>2. k \in 1..Cardinality(Indexes) => Nth(Indexes, k) \in Indexes
      BY <1>1, NthProperties
    <3> QED BY <3>1, <3>2, ToolCallTyped
  <2> QED BY <2>1, <2>2 DEF Kind
<1>3. events \in Seq(Blocks) /\ Kind(events, {"text_delta", "thinking_delta"})
  BY DEF Stream, StreamTyped, Parallel, Kind
<1> HIDE DEF c, y
<1>4. \A x \in Seq(Blocks) : Of(x, {"text_delta"}) \in Seq(Blocks)
  BY OfProperties
<1>5. ASSUME NEW K
      PROVE  /\ Parts(events, y, c) \in Seq(Blocks)
             /\ Of(Parts(events, y, c), K) = (Of(events, K) \o Of(y, K)) \o Of(c, K)
  BY <1>1, <1>2, <1>3, OfParts
<1>6. all = Parts(events, y, c)
  <2>1. all = events \o (y \o c)
    BY DEF c, y, Everything
  <2> QED BY <1>1, <1>2, <1>3, <2>1, PartsAssociate
<1>7. Of(all, {"text_delta"}) = Of(events, {"text_delta"})
  <2>1. Of(y, {"text_delta"}) = <<>> /\ Of(c, {"text_delta"}) = <<>>
    BY <1>1, <1>2, OfNone DEF Kind
  <2> QED BY <1>3, <1>4, <1>5, <1>6, <2>1, Outer
<1>8. Of(all, Thoughts) = y
  <2>1. Of(events, Thoughts) = <<>> /\ Of(y, Thoughts) = y /\ Of(c, Thoughts) = <<>>
    BY <1>1, <1>2, <1>3, OfNone, OfAll DEF Kind, Thoughts
  <2> QED BY <1>1, <1>5, <1>6, <2>1, Outer
<1>9. Of(all, {"call"}) = c
  <2>1. Of(events, {"call"}) = <<>> /\ Of(y, {"call"}) = <<>> /\ Of(c, {"call"}) = c
    BY <1>1, <1>2, <1>3, OfNone, OfAll DEF Kind
  <2> QED BY <1>2, <1>5, <1>6, <2>1, Outer
<1> QED BY <1>5, <1>6, <1>7, <1>8, <1>9 DEF y, c

(***************************************************************************)
(* The message recorded when a stream of the other vendors ends.           *)
(***************************************************************************)
LEMMA RecordedOpenAI ==
  ASSUME Control, Stream, ~Anthropic,
         NEW all, all = Everything,
         NEW blocks, blocks = Assembled(all),
         NEW was, was = InOrder(said, Done),
         NEW m, m = Message("assistant", vendor, blocks, was)
  PROVE  /\ m \in Messages /\ m.role = "assistant" /\ m.blocks = blocks
         /\ Faithful(m) /\ Genuine(m) /\ Eloquent(m)
         /\ IsInjective(Ids(Of(m.blocks, {"call"})))
<1> DEFINE calls == InOrder(ToolCall, Indexes)
           thought == Thought
<1>1. StreamTyped /\ HeardText /\ vendor # "anthropic" /\ vendor \in Vendors
  BY DEF Stream, Anthropic, Control
<1>2. /\ Done = DOMAIN said /\ Indexes = DoneOf({"call"}) /\ Numbers(Indexes)
      /\ thought = InOrder(said, DoneOf({"thinking"})) /\ thought \in Seq(Blocks)
      /\ \A k \in 1..Len(thought) : thought[k].kind = "thinking" /\ thought[k].signature = <<>>
      /\ DoneOf({"redacted"}) = {}
  BY Collected
<1>3. /\ all \in Seq(Blocks)
      /\ Of(all, {"text_delta"}) = Of(events, {"text_delta"})
      /\ Of(all, Thoughts) = thought /\ Of(all, {"call"}) = calls
  BY AllEvents
<1> HIDE DEF thought, calls
<1>4. /\ blocks \in Seq(Blocks) /\ \A k \in 1..Len(blocks) : blocks[k].kind \in Kinds
      /\ Of(blocks, Thoughts) = thought
      /\ Joined(Of(blocks, {"text"})) = Joined(Of(events, {"text_delta"}))
      /\ Of(blocks, {"call"}) = calls
      /\ Of(blocks, {"thinking"}) = Of(thought, {"thinking"})
  BY <1>3, AssembledProperties
<1>5. /\ was \in Seq(Blocks) /\ \A K : Of(was, K) = InOrder(said, DoneOf(K))
  BY <1>1, FinishedFacts
<1>6. m \in Messages /\ m.role = "assistant" /\ m.from = vendor /\ m.blocks = blocks /\ m.said = was
  BY <1>1, <1>4, <1>5, MessageTyped
<1>7. Of(thought, {"thinking"}) = thought
  BY <1>2, OfAll
<1>8. Joined(Of(blocks, {"text"})) = Joined(Of(was, {"text"}))
  BY <1>1, <1>4, <1>5 DEF HeardText
<1>9. SaidBack(calls, Of(was, {"call"}))
  <2>1. \A i \in Indexes :
          /\ said[i].id = NoId \/ ToolCall[i].id = said[i].id
          /\ Whole(said[i].text) => ToolCall[i].text = said[i].text
    BY ToolCallTyped
  <2>2. SaidBack(InOrder(ToolCall, Indexes), InOrder(said, Indexes))
    BY <1>2, <2>1, SaidBackInOrder
  <2> QED BY <1>2, <1>5, <2>2 DEF calls
<1>10. Faithful(m)
  <2> DEFINE wire == Request(m.from, <<m>>)[1]
  <2>1. /\ wire.reasoned <=> thought # <<>> \/ (calls # <<>> /\ RequiresReplay(m.from))
        /\ thought # <<>> => wire.reasoning = Joined(thought)
        /\ thought = <<>> => wire.reasoning \in {<<>>, Joined(thought)}
        /\ wire.content = Joined(Of(m.blocks, {"text"}))
        /\ wire.calls = calls
    <3>1. m.role = "assistant" /\ m.from # "anthropic"
      BY <1>1, <1>6
    <3>2. Answer(m.from, Of(m.blocks, {"call"}), Of(m.blocks, {"thinking"}), Of(m.blocks, {"text"}), Alone(m.from, m)[1])
      BY <3>1, ToOpenAIOne
    <3>3. /\ calls = Of(m.blocks, {"call"}) /\ thought = Of(m.blocks, {"thinking"})
          /\ wire = Alone(m.from, m)[1]
      BY <1>4, <1>6, <1>7 DEF Alone
    <3> HIDE DEF wire
    <3>4. Answer(m.from, calls, thought, Of(m.blocks, {"text"}), wire)
      BY <3>2, <3>3
    <3> QED BY <3>4 DEF Answer
  <2> HIDE DEF wire
  <2>2. wire.reasoning = Joined(Of(was, {"thinking"}))
    <3>1. Of(was, {"thinking"}) = thought
      BY <1>2, <1>5
    <3> QED BY <2>1, <3>1, JoinedEmpty
  <2>3. wire.reasoned \/ (wire.reasoning = <<>> /\ (wire.calls = <<>> \/ m.from # "deepseek"))
    <3>1. m.from = "deepseek" => RequiresReplay(m.from)
      BY DEF RequiresReplay, IsDeepseekReasoner, DeepseekEndpoint, DeepseekModel
    <3>2. CASE wire.reasoned
      BY <3>2
    <3>3. CASE ~wire.reasoned
      BY <2>1, <3>1, <3>3, JoinedEmpty
    <3> QED BY <3>2, <3>3
  <2>4. OpenAIHearsItself(m)
    BY <1>6, <1>8, <1>9, <2>1, <2>2, <2>3 DEF OpenAIHearsItself, wire
  <2> QED BY <1>1, <1>6, <2>4 DEF Faithful
<1>11. Request("anthropic", <<m>>)[1].blocks = ConvertBlocks(blocks)
  BY <1>6, ToAnthropicOne
<1>12. \A k \in 1..Len(blocks) : blocks[k].kind = "thinking" => blocks[k].signature = <<>>
  <2> SUFFICES ASSUME NEW k \in 1..Len(blocks), blocks[k].kind = "thinking"
               PROVE  blocks[k].signature = <<>>
    OBVIOUS
  <2>1. \E j \in 1..Len(Of(blocks, Thoughts)) : Of(blocks, Thoughts)[j] = blocks[k]
    <3>1. blocks[k].kind \in Thoughts
      BY DEF Thoughts
    <3> QED BY <1>4, <3>1, OfKeeps
  <2> QED BY <1>2, <1>4, <2>1
<1>13. /\ ConvertBlocks(blocks) \in Seq(Blocks)
       /\ \A k \in 1..Len(ConvertBlocks(blocks)) : ConvertBlocks(blocks)[k].kind # "thinking"
  <2>1. /\ ConvertBlocks(blocks) \in Seq(Blocks)
        /\ \A k \in 1..Len(ConvertBlocks(blocks)) :
             Signed(ConvertBlocks(blocks)[k]) /\ \E i \in 1..Len(blocks) : ConvertBlocks(blocks)[k] = blocks[i]
    BY <1>4, ConvertProperties
  <2>2. ASSUME NEW k \in 1..Len(ConvertBlocks(blocks))
        PROVE  ConvertBlocks(blocks)[k].kind # "thinking"
    <3>1. PICK i \in 1..Len(blocks) : ConvertBlocks(blocks)[k] = blocks[i]
      BY <2>1
    <3>2. Signed(blocks[i])
      BY <2>1, <3>1
    <3> QED BY <1>12, <3>1, <3>2 DEF Signed
  <2> QED BY <2>1, <2>2
<1>14. Genuine(m)
  <2>1. Of(ConvertBlocks(blocks), {"thinking"}) = <<>>
    BY <1>13, OfNone
  <2> QED BY <1>11, <2>1 DEF Genuine, ToSet
<1>15. Eloquent(m)
  <2> SUFFICES ASSUME ConvertBlocks(blocks) = <<>>
               PROVE  /\ Joined(Of(was, {"text"})) = <<>>
                      /\ Of(was, {"call", "redacted"}) = <<>>
    BY <1>1, <1>6, <1>11 DEF Eloquent
  <2>1. \A k \in 1..Len(blocks) : blocks[k].kind = "thinking"
    <3>1. \A k \in 1..Len(blocks) : ~Signed(blocks[k])
      BY <1>4, ConvertProperties
    <3> QED BY <3>1 DEF Signed
  <2>2. Of(blocks, {"text"}) = <<>> /\ Of(blocks, {"call"}) = <<>>
    BY <1>4, <2>1, OfNone
  <2>3. Joined(Of(was, {"text"})) = <<>>
    BY <1>8, <2>2, JoinedEmpty
  <2>4. Indexes = {}
    BY <1>2, <1>4, <2>2, InOrderEmptyOnly DEF calls
  <2>5. DoneOf({"call", "redacted"}) = {}
    BY <1>2, <2>4 DEF DoneOf
  <2> QED BY <1>5, <2>3, <2>5, InOrderEmpty
<1>16. IsInjective(Ids(Of(m.blocks, {"call"})))
  BY <1>2, <1>4, <1>6, ToolCallTyped, IdsInjective DEF calls
<1> QED BY <1>6, <1>10, <1>14, <1>15, <1>16

(***************************************************************************)
(* The ids of a message's calls and results.                               *)
(***************************************************************************)
CallIds(m) == Ids(Of(m.blocks, {"call"}))
ResultIds(m) == Ids(Of(m.blocks, {"result"}))

(***************************************************************************)
(* A recorded message, for as long as it is in the history: only an        *)
(* assistant calls, only a tool message answers, and what an assistant     *)
(* said is sent back faithfully.                                           *)
(***************************************************************************)
Kept(m) ==
  /\ m.role # "assistant" => CallIds(m) = <<>>
  /\ m.role # "tool" => ResultIds(m) = <<>>
  /\ IsInjective(CallIds(m))
  /\ m.role = "tool" => \A i \in 1..Len(m.blocks) : m.blocks[i].kind = "result"
  /\ m.role = "assistant" => Faithful(m) /\ Genuine(m) /\ Eloquent(m)

(***************************************************************************)
(* What the phase says of the last message.                                *)
(***************************************************************************)
Ends ==
  /\ phase = "acting" => history # <<>> /\ Last(history).role = "assistant"
  /\ phase = "streaming" => history # <<>> /\ Last(history).role \in {"user", "tool"}

(***************************************************************************)
(* The invariant of the history.                                           *)
(***************************************************************************)
Recorded ==
  /\ history \in Seq(Messages)
  /\ \A k \in 1..Len(history) : Kept(history[k])
  /\ Ends

(***************************************************************************)
(* The messages the engine makes itself: a user's, a summary, and a tool   *)
(* message that answers each of the calls.                                 *)
(***************************************************************************)
LEMMA IdsEmpty == Ids(<<>>) = <<>> /\ IsInjective(<<>>)
BY DEF Ids, IsInjective

LEMMA PlainMessage ==
  ASSUME NEW role \in {"user", "system"}, NEW v \in Vendors,
         NEW m, m = Message(role, v, <<Text(<< 0 >>)>>, <<>>)
  PROVE  /\ m \in Messages /\ m.role = role /\ Kept(m)
         /\ CallIds(m) = <<>> /\ ResultIds(m) = <<>>
<1> DEFINE b == Text(<< 0 >>)
           blocks == <<b>>
           none == <<>>
<1>1. b \in Blocks /\ b.kind = "text"
  <2>1. << 0 >> \in Seq(Nat)
    OBVIOUS
  <2> QED BY <2>1, TextTyped
<1>2. blocks \in Seq(Blocks) /\ \A k \in 1..Len(blocks) : blocks[k].kind = "text"
  <2> HIDE DEF b
  <2> QED BY <1>1
<1>3. m = Message(role, v, blocks, none) /\ none \in Seq(Blocks)
  OBVIOUS
<1> HIDE DEF blocks, none
<1>4. m \in Messages /\ m.role = role /\ m.blocks = blocks
  <2>1. role \in {"user", "assistant", "tool", "system"}
    OBVIOUS
  <2> QED BY <1>2, <1>3, <2>1, MessageTyped
<1>5. Of(blocks, {"call"}) = <<>> /\ Of(blocks, {"result"}) = <<>>
  BY <1>2, OfNone
<1>6. CallIds(m) = <<>> /\ ResultIds(m) = <<>>
  BY <1>4, <1>5, IdsEmpty DEF CallIds, ResultIds
<1> QED BY <1>4, <1>6, IdsEmpty DEF Kept

LEMMA ToolMessage ==
  ASSUME NEW calls \in Seq(Blocks), NEW v \in Vendors,
         NEW m, m = Message("tool", v, [k \in DOMAIN calls |-> Block("result", calls[k].id, << 0 >>, <<>>)], <<>>)
  PROVE  /\ m \in Messages /\ m.role = "tool" /\ Kept(m)
         /\ CallIds(m) = <<>> /\ ResultIds(m) = Ids(calls)
<1> DEFINE blocks == [k \in DOMAIN calls |-> Block("result", calls[k].id, << 0 >>, <<>>)]
<1>1. ASSUME NEW k \in 1..Len(calls)
      PROVE  blocks[k] \in Blocks /\ blocks[k].kind = "result" /\ blocks[k].id = calls[k].id
  <2>1. calls[k].id \in Identifiers /\ << 0 >> \in Seq(Nat) /\ <<>> \in Seq(Nat)
    <3>1. calls[k] \in Blocks
      OBVIOUS
    <3> QED BY <3>1 DEF Blocks
  <2> DEFINE b == Block("result", calls[k].id, << 0 >>, <<>>)
  <2>2. b \in Blocks /\ b.kind = "result" /\ b.id = calls[k].id
    <3> DEFINE zero == << 0 >>
               none == <<>>
    <3>1. /\ "result" \in Kinds \cup EventKinds \cup {"result"} /\ zero \in Seq(Nat)
          /\ none \in Seq(Nat)
      OBVIOUS
    <3>2. b = [kind |-> "result", id |-> calls[k].id, text |-> zero, signature |-> none]
      BY DEF Block
    <3> HIDE DEF zero, none, b
    <3> QED BY <2>1, <3>1, <3>2 DEF Blocks
  <2>3. blocks[k] = b
    OBVIOUS
  <2> QED BY <2>2, <2>3
<1>2. DOMAIN blocks = 1..Len(calls) /\ Len(blocks) = Len(calls)
  OBVIOUS
<1>3. blocks \in Seq(Blocks)
  <2> blocks = [k \in 1..Len(calls) |-> blocks[k]]
    OBVIOUS
  <2> HIDE DEF blocks
  <2> QED BY <1>1, <1>2
<1> DEFINE none == <<>>
<1>4. m = Message("tool", v, blocks, none) /\ none \in Seq(Blocks)
  OBVIOUS
<1> HIDE DEF blocks, none
<1>5. m \in Messages /\ m.role = "tool" /\ m.blocks = blocks
  <2>1. "tool" \in {"user", "assistant", "tool", "system"}
    OBVIOUS
  <2> QED BY <1>3, <1>4, <2>1, MessageTyped
<1>6. Of(blocks, {"call"}) = <<>> /\ Of(blocks, {"result"}) = blocks
  BY <1>1, <1>2, <1>3, OfNone, OfAll
<1>7. Ids(blocks) = Ids(calls)
  BY <1>1, <1>2 DEF Ids
<1>8. CallIds(m) = <<>> /\ ResultIds(m) = Ids(calls)
  BY <1>5, <1>6, <1>7, IdsEmpty DEF CallIds, ResultIds
<1> QED BY <1>1, <1>2, <1>5, <1>8, IdsEmpty DEF Kept

(***************************************************************************)
(* A message is appended.                                                  *)
(***************************************************************************)
LEMMA AppendKept ==
  ASSUME NEW ms \in Seq(Messages), \A k \in 1..Len(ms) : Kept(ms[k]), NEW m \in Messages,
         Kept(m)
  PROVE  /\ Append(ms, m) \in Seq(Messages) /\ Append(ms, m) # <<>>
         /\ \A k \in 1..Len(Append(ms, m)) : Kept(Append(ms, m)[k])
         /\ Last(Append(ms, m)) = m
<1>1. /\ Append(ms, m) \in Seq(Messages) /\ Len(Append(ms, m)) = Len(ms) + 1
      /\ \A k \in 1..Len(ms) : Append(ms, m)[k] = ms[k]
      /\ Append(ms, m)[Len(ms) + 1] = m
  OBVIOUS
<1>2. Append(ms, m) # <<>> /\ Last(Append(ms, m)) = m
  BY <1>1 DEF Last
<1> QED BY <1>1, <1>2

(***************************************************************************)
(* A failure and a new turn keep the invariant of the history.             *)
(***************************************************************************)
LEMMA NewCallFresh == ASSUME NewCall PROVE Fresh'
BY DEF NewCall, Fresh

LEMMA FailRecorded ==
  ASSUME Control, Recorded, Fail
  PROVE  Control' /\ Fresh' /\ Recorded'
<1>1. Fresh' /\ attempt' = 1
  BY NewCallFresh DEF Fail, NewCall
<1>2. Control'
  BY <1>1, ProviderCallAssumption DEF Fail, Control
<1>3. Recorded'
  BY DEF Fail, Recorded, Ends
<1> QED BY <1>1, <1>2, <1>3

LEMMA NewTurnRecorded ==
  ASSUME Control, Recorded, NEW v \in Vendors, NewTurn(v)
  PROVE  Control' /\ Fresh' /\ Recorded'
<1> DEFINE m == Message("user", v, <<Text(<< 0 >>)>>, <<>>)
<1>1. Fresh' /\ attempt' = 1
  BY NewCallFresh DEF NewTurn, NewCall
<1>2. Control'
  BY <1>1, ProviderCallAssumption DEF NewTurn, Control
<1>3. m \in Messages /\ m.role = "user" /\ Kept(m)
  BY PlainMessage
<1>4. history' = Append(history, m) /\ phase' = "streaming"
  BY DEF NewTurn
<1> HIDE DEF m
<1>5. /\ history' \in Seq(Messages) /\ history' # <<>> /\ Last(history') = m
      /\ \A k \in 1..Len(history') : Kept(history'[k])
  BY <1>3, <1>4, AppendKept DEF Recorded
<1>6. Recorded'
  BY <1>3, <1>4, <1>5 DEF Recorded, Ends, Kept, CallIds, ResultIds
<1> QED BY <1>1, <1>2, <1>6

(***************************************************************************)
(* Recording a message that is to be kept.                                 *)
(***************************************************************************)
LEMMA RecordRecorded ==
  ASSUME Control, Recorded, NEW evs, Record(evs),
         NEW m, m = Message("assistant", vendor, Assembled(events \o evs), InOrder(said, Done)),
         m \in Messages, m.role = "assistant", Kept(m)
  PROVE  /\ Control' /\ Fresh' /\ Recorded' /\ history' = Append(history, m)
         /\ phase' = IF Of(m.blocks, {"call"}) = <<>> THEN "idle" ELSE "acting"
<1>1. Fresh' /\ attempt' = 1
  BY NewCallFresh DEF Record, NewCall
<1>2. history' = Append(history, m)
  BY DEF Record, Done
<1>3. phase' = IF Of(m.blocks, {"call"}) = <<>> THEN "idle" ELSE "acting"
  BY DEF Record, Message
<1>4. Control'
  BY <1>1, <1>3, ProviderCallAssumption DEF Record, Control
<1>5. /\ history' \in Seq(Messages) /\ history' # <<>> /\ Last(history') = m
      /\ \A k \in 1..Len(history') : Kept(history'[k])
  BY <1>2, AppendKept DEF Recorded
<1>6. Recorded'
  BY <1>3, <1>5 DEF Recorded, Ends, Kept, CallIds, ResultIds
<1> QED BY <1>1, <1>2, <1>3, <1>4, <1>6

LEMMA AssistantKept ==
  ASSUME NEW evs \in Seq(Blocks), NEW m, m.role = "assistant", m.blocks = Assembled(evs),
         Faithful(m), Genuine(m), Eloquent(m), IsInjective(Ids(Of(m.blocks, {"call"})))
  PROVE  Kept(m)
<1>1. Of(m.blocks, {"result"}) = <<>>
  BY AssembledProperties
<1> QED BY <1>1, IdsEmpty DEF Kept, CallIds, ResultIds

(***************************************************************************)
(* The assistant message m ends the stream.                                *)
(***************************************************************************)
Said(m) ==
  /\ m \in Messages /\ m.role = "assistant" /\ Kept(m)
  /\ history' = Append(history, m)
  /\ phase' = IF Of(m.blocks, {"call"}) = <<>> THEN "idle" ELSE "acting"

(***************************************************************************)
(* The ends of a stream record a message that is to be kept, or fail.      *)
(***************************************************************************)
LEMMA EndAnthropic ==
  ASSUME Control, Stream, Recorded, MessageStop \/ StreamCut
  PROVE  Control' /\ Fresh' /\ Recorded' /\ \E m : Said(m)
<1> DEFINE none == <<>>
<1>1. Anthropic /\ Record(none) /\ events \in Seq(Blocks)
  BY DEF MessageStop, StreamCut, Stream, StreamTyped
<1>2. PICK blocks : blocks = Assembled(events)
  OBVIOUS
<1>3. PICK was : was = InOrder(said, Done)
  OBVIOUS
<1>4. PICK m : m = Message("assistant", vendor, blocks, was)
  OBVIOUS
<1>5. events \o none = events
  BY <1>1
<1> HIDE DEF none
<1>6. /\ m \in Messages /\ m.role = "assistant" /\ m.blocks = blocks
      /\ Faithful(m) /\ Genuine(m) /\ Eloquent(m)
      /\ IsInjective(Ids(Of(m.blocks, {"call"})))
  BY <1>1, <1>2, <1>3, <1>4, RecordedAnthropic
<1>7. Kept(m)
  BY <1>1, <1>2, <1>6, AssistantKept
<1>8. m = Message("assistant", vendor, Assembled(events \o none), InOrder(said, Done))
  BY <1>2, <1>3, <1>4, <1>5
<1> QED BY <1>1, <1>6, <1>7, <1>8, RecordRecorded DEF Said

LEMMA EndOpenAI ==
  ASSUME Control, Stream, Recorded, StreamEnd
  PROVE  Control' /\ Fresh' /\ Recorded' /\ (Fail \/ \E m : Said(m))
<1> DEFINE evs == Thought \o InOrder(ToolCall, Indexes)
<1>1. ~Anthropic /\ (Record(evs) \/ Fail)
  BY DEF StreamEnd, Thought, ToolCall, Indexes
<1>2. CASE Fail
  BY <1>2, FailRecorded
<1>3. CASE Record(evs)
  <2>1. PICK all : all = Everything
    OBVIOUS
  <2>2. PICK blocks : blocks = Assembled(all)
    OBVIOUS
  <2>3. PICK was : was = InOrder(said, Done)
    OBVIOUS
  <2>4. PICK m : m = Message("assistant", vendor, blocks, was)
    OBVIOUS
  <2>5. all \in Seq(Blocks)
    BY <1>1, <2>1, AllEvents
  <2>6. /\ m \in Messages /\ m.role = "assistant" /\ m.blocks = blocks
        /\ Faithful(m) /\ Genuine(m) /\ Eloquent(m)
        /\ IsInjective(Ids(Of(m.blocks, {"call"})))
    BY <1>1, <2>1, <2>2, <2>3, <2>4, RecordedOpenAI
  <2>7. Kept(m)
    BY <2>2, <2>5, <2>6, AssistantKept
  <2>8. m = Message("assistant", vendor, Assembled(events \o evs), InOrder(said, Done))
    BY <2>1, <2>2, <2>3, <2>4 DEF Everything
  <2> HIDE DEF evs
  <2> QED BY <1>3, <2>6, <2>7, <2>8, RecordRecorded DEF Said
<1> QED BY <1>1, <1>2, <1>3

(***************************************************************************)
(* A stream that fails is opened again with nothing in its buffers, or     *)
(* ends the turn.                                                          *)
(***************************************************************************)
LEMMA RetryRecorded ==
  ASSUME Control, Stream, Recorded, NEW retryable \in BOOLEAN, StreamFails(retryable)
  PROVE  Control' /\ Fresh' /\ Recorded' /\ (Fail \/ UNCHANGED <<history, phase, ragged, compacted, brokenOff>>)
<1>1. CASE Fail
  BY <1>1, FailRecorded
<1>2. CASE /\ events = <<>> /\ attempt < MaxAttempts /\ attempt' = attempt + 1
           /\ buffer' = Nothing /\ said' = Nothing /\ open' = {}
           /\ UNCHANGED <<vendor, history, phase, events, piece, ragged, compacted, brokenOff>>
  <2>1. Fresh'
    BY <1>2 DEF Fresh
  <2>2. Control'
    BY <1>2, ProviderCallAssumption DEF Control
  <2>3. Recorded'
    BY <1>2 DEF Recorded, Ends
  <2> QED BY <1>2, <2>1, <2>2, <2>3
<1> QED BY <1>1, <1>2 DEF StreamFails

(***************************************************************************)
(* The chunks of all vendors.                                              *)
(***************************************************************************)
Chunk ==
  \/ \E kind \in {"text", "thinking", "redacted", "call"} : BlockStart(kind)
  \/ TextDelta \/ ThinkingDelta \/ SignatureDelta \/ InputJsonDelta
  \/ ContentDelta \/ ReasoningDelta
  \/ \E i \in FirstCall..(FirstCall + MaxBlocks - 1) :
       CallDelta(i, <<"api", piece>>) \/ CallDelta(i, NoId) \/ ArgumentsDelta(i) \/ IdDelta(i)
  \/ BlockStop /\ UNCHANGED <<vendor, said, history, phase, attempt, piece, ragged, compacted, brokenOff>>

(***************************************************************************)
(* A chunk changes neither the history nor the phase, and keeps the        *)
(* invariant of the stream, or fails.                                      *)
(***************************************************************************)
LEMMA ChunkFrame ==
  ASSUME Control, Chunk
  PROVE  Control' /\ UNCHANGED <<vendor, history, phase, ragged, compacted, brokenOff>>
<1>1. UNCHANGED <<vendor, history, phase, attempt, ragged, compacted, brokenOff>>
  BY DEF Chunk, BlockStart, TextDelta, ThinkingDelta, SignatureDelta, InputJsonDelta,
    ContentDelta,
         ReasoningDelta, CallDelta, ArgumentsDelta, IdDelta
<1>2. piece' = piece \/ (piece' = piece + 1 /\ piece < FirstPiece + MaxPieces)
  BY DEF Chunk, BlockStart, TextDelta, ThinkingDelta, SignatureDelta, InputJsonDelta,
    ContentDelta,
         ReasoningDelta, CallDelta, ArgumentsDelta, IdDelta, Tick, Streaming
<1>3. piece' \in FirstPiece..(FirstPiece + MaxPieces)
  BY <1>2, ProviderCallAssumption DEF Control, FirstPiece
<1> QED BY <1>1, <1>3 DEF Control

LEMMA ChunkStream ==
  ASSUME Control, Stream, Chunk
  PROVE  Stream' \/ Fail
<1>1. ASSUME NEW kind \in {"text", "thinking", "redacted", "call"}, BlockStart(kind)
      PROVE  Stream'
  BY <1>1, BlockStartStream DEF Kinds
<1>2. CASE TextDelta \/ ThinkingDelta \/ SignatureDelta \/ InputJsonDelta \/ ContentDelta \/ ReasoningDelta
  BY <1>2, TextDeltaStream, ThinkingDeltaStream, SignatureDeltaStream, InputJsonDeltaStream,
     ContentDeltaStream, ReasoningDeltaStream
<1>3. ASSUME NEW i \in FirstCall..(FirstCall + MaxBlocks - 1),
             CallDelta(i, <<"api", piece>>) \/ CallDelta(i, NoId) \/ ArgumentsDelta(i) \/ IdDelta(i)
      PROVE  Stream'
  <2> DEFINE id == <<"api", piece>>
  <2>1. CallDelta(i, id) \/ CallDelta(i, NoId) \/ ArgumentsDelta(i) \/ IdDelta(i)
    BY <1>3
  <2>2. id \in {NoId, <<"api", piece>>}
    OBVIOUS
  <2> HIDE DEF id
  <2> QED BY <2>1, <2>2, CallDeltaStream, ArgumentsDeltaStream, IdDeltaStream
<1>4. CASE BlockStop /\ UNCHANGED <<vendor, said, history, phase, attempt, piece, ragged, compacted, brokenOff>>
  BY <1>4, BlockStopStream
<1> QED BY <1>1, <1>2, <1>3, <1>4 DEF Chunk

(***************************************************************************)
(* Every message is to be kept.                                            *)
(***************************************************************************)
AllKept(ms) == \A k \in 1..Len(ms) : Kept(ms[k])

(***************************************************************************)
(* Appending and compacting keep what is said of the messages of a history *)
(* one by one, the systems first, and the last message.                    *)
(***************************************************************************)
LEMMA AppendFirst ==
  ASSUME NEW T, NEW ms \in Seq(T), NEW m \in T, SystemsFirst(ms), m.role # "system"
  PROVE  SystemsFirst(Append(ms, m))
BY DEF SystemsFirst

LEMMA CompactedKept ==
  ASSUME NEW ms \in Seq(Messages), AllKept(ms), SystemsFirst(ms), ms # <<>>,
         NEW keep \in Nat, NEW s \in Messages, Kept(s), s.role = "system",
         NEW new, new = Compacted(ms, keep, s)
  PROVE  new \in Seq(Messages) /\ AllKept(new) /\ SystemsFirst(new) /\ new # <<>> /\ Last(new) = Last(ms)
<1>1. PICK L : L = Leading(ms)
  OBVIOUS
<1>2. /\ L \in 0..Len(ms)
      /\ \A k \in 1..L : ms[k].role = "system"
      /\ \A k \in (L + 1)..Len(ms) : ms[k].role # "system"
  BY <1>1, SystemsPrefix
<1>3. CASE Len(ms) - L <= keep
  <2>1. new = ms
    BY <1>1, <1>3 DEF Compacted
  <2> QED BY <2>1
<1>4. CASE ~(Len(ms) - L <= keep)
  <2>1. PICK from : from = IF keep = 0 THEN L + 1 ELSE Len(ms) - keep + 1
    OBVIOUS
  <2>2. /\ from \in (L + 1)..Len(ms)
        /\ new \in Seq(Messages) /\ Len(new) = L + 2 + Len(ms) - from
        /\ \A k \in 1..L : new[k] = ms[k]
        /\ new[L + 1] = s
        /\ \A k \in (L + 2)..Len(new) : k + from - L - 2 \in from..Len(ms) /\ new[k] = ms[k + from - L - 2]
    <3>1. new \in Seq(Messages) /\ Cut(new, ms, L, from, s)
      BY <1>1, <1>2, <1>4, <2>1, CompactedShape
    <3> QED BY <3>1 DEF Cut
  <2>3. ASSUME NEW k \in 1..Len(new) PROVE Kept(new[k])
    <3>1. CASE k \in 1..L
      <4>1. k \in 1..Len(ms) /\ new[k] = ms[k]
        BY <1>2, <2>2, <3>1
      <4> QED BY <4>1 DEF AllKept
    <3>2. CASE k = L + 1
      BY <2>2, <3>2
    <3>3. CASE k \in (L + 2)..Len(new)
      <4>1. k + from - L - 2 \in 1..Len(ms) /\ new[k] = ms[k + from - L - 2]
        BY <1>2, <2>2, <3>3
      <4> QED BY <4>1 DEF AllKept
    <3> QED BY <1>2, <2>2, <3>1, <3>2, <3>3
  <2>4. ASSUME NEW k \in 1..Len(new), new[k].role = "system"
        PROVE  k = 1 \/ new[k - 1].role = "system"
    <3>1. k \notin (L + 2)..Len(new)
      <4> SUFFICES ASSUME k \in (L + 2)..Len(new) PROVE FALSE
        OBVIOUS
      <4>1. k + from - L - 2 \in (L + 1)..Len(ms) /\ new[k] = ms[k + from - L - 2]
        BY <1>2, <2>2
      <4> QED BY <1>2, <2>4, <4>1
    <3>2. k \in 1..(L + 1)
      BY <1>2, <2>2, <3>1
    <3>3. k = 1 \/ k - 1 \in 1..L
      BY <1>2, <3>2
    <3> QED BY <1>2, <2>2, <3>3
  <2>5. new # <<>> /\ Last(new) = Last(ms)
    <3>1. Len(new) \in (L + 2)..Len(new) /\ Len(new) + from - L - 2 = Len(ms)
      BY <1>2, <2>2
    <3>3. new[Len(new)] = ms[Len(new) + from - L - 2]
      BY <2>2, <3>1
    <3>2. new[Len(new)] = ms[Len(ms)] /\ Len(new) # 0
      BY <1>2, <3>1, <3>3
    <3> QED BY <2>2, <3>2 DEF Last
  <2> QED BY <2>2, <2>3, <2>4, <2>5 DEF AllKept, SystemsFirst
<1> QED BY <1>3, <1>4

(***************************************************************************)
(* The message the tools' results make, and the summary of a compaction.   *)
(***************************************************************************)
Answers(t) ==
  /\ t \in Messages /\ t.role = "tool" /\ Kept(t)
  /\ CallIds(t) = <<>> /\ ResultIds(t) = CallIds(Last(history))

Summary(s) ==
  /\ s \in Messages /\ s.role = "system" /\ Kept(s) /\ CallIds(s) = <<>> /\ ResultIds(s) = <<>>

(***************************************************************************)
(* What Act does to the history, and that it keeps the invariant of the    *)
(* history.                                                                *)
(***************************************************************************)
LEMMA ActShape ==
  ASSUME Control, Recorded, NEW compact \in BOOLEAN, NEW last \in BOOLEAN, Act(compact, last)
  PROVE  \E t, s : /\ Answers(t) /\ Summary(s)
                   /\ \/ history' = Append(history, t)
                      \/ compacted' /\ history' = Compacted(Append(history, t), KeepRecent, s)
<1>1. history # <<>> /\ Last(history) \in Messages
  <2>1. history \in Seq(Messages) /\ history # <<>>
    BY DEF Recorded, Ends, Act
  <2>2. history[Len(history)] \in Messages
    BY <2>1
  <2> QED BY <2>1, <2>2 DEF Last
<1>2. PICK calls : calls = Of(Last(history).blocks, {"call"})
  OBVIOUS
<1>3. calls \in Seq(Blocks)
  <2>1. Last(history).blocks \in Seq(Blocks)
    BY <1>1 DEF Messages
  <2> QED BY <1>2, <2>1, OfProperties
<1>4. PICK t : t = Message("tool", vendor, [k \in DOMAIN calls |-> Block("result", calls[k].id, << 0 >>, <<>>)], <<>>)
  OBVIOUS
<1>5. PICK s : s = Message("system", vendor, <<Text(<< 0 >>)>>, <<>>)
  OBVIOUS
<1>6. vendor \in Vendors
  BY DEF Control
<1>7. Answers(t)
  <2>1. /\ t \in Messages /\ t.role = "tool" /\ Kept(t)
        /\ CallIds(t) = <<>> /\ ResultIds(t) = Ids(calls)
    BY <1>3, <1>4, <1>6, ToolMessage
  <2> QED BY <1>2, <2>1 DEF Answers, CallIds
<1>8. Summary(s)
  BY <1>5, <1>6, PlainMessage DEF Summary
<1>9. history' = IF compact THEN Compacted(Append(history, t), KeepRecent, s) ELSE Append(history, t)
  BY <1>2, <1>4, <1>5 DEF Act
<1>10. compact => compacted'
  BY DEF Act
<1> QED BY <1>7, <1>8, <1>9, <1>10

LEMMA ActRecorded ==
  ASSUME Control, Recorded, SystemsFirst(history), NEW compact \in BOOLEAN,
         NEW last \in BOOLEAN, Act(compact, last)
  PROVE  Control' /\ Fresh' /\ Recorded' /\ SystemsFirst(history)'
<1>1. Fresh' /\ attempt' = 1
  BY NewCallFresh DEF Act, NewCall
<1>2. Control'
  BY <1>1, ProviderCallAssumption DEF Act, Control
<1>3. PICK t, s : /\ Answers(t) /\ Summary(s)
                  /\ \/ history' = Append(history, t)
                     \/ compacted' /\ history' = Compacted(Append(history, t), KeepRecent, s)
  BY ActShape
<1>4. /\ t \in Messages /\ t.role = "tool" /\ Kept(t)
      /\ s \in Messages /\ s.role = "system" /\ Kept(s)
  BY <1>3 DEF Answers, Summary
<1>5. PICK ms : ms = Append(history, t)
  OBVIOUS
<1>6. ms \in Seq(Messages) /\ ms # <<>> /\ AllKept(ms) /\ Last(ms) = t
  BY <1>4, <1>5, AppendKept DEF Recorded, AllKept
<1>7. SystemsFirst(ms)
  BY <1>4, <1>5, AppendFirst DEF Recorded
<1>8. KeepRecent \in Nat
  BY ProviderCallAssumption
<1>9. /\ history' \in Seq(Messages) /\ AllKept(history')
      /\ SystemsFirst(history') /\ history' # <<>> /\ Last(history') = t
  <2>1. CASE history' = ms
    BY <1>6, <1>7, <2>1
  <2>2. CASE history' = Compacted(ms, KeepRecent, s)
    BY <1>4, <1>6, <1>7, <1>8, <2>2, CompactedKept
  <2> QED BY <1>3, <1>5, <2>1, <2>2
<1>10. phase' \in {"idle", "streaming"}
  BY DEF Act
<1>11. Recorded'
  BY <1>4, <1>9, <1>10 DEF Recorded, Ends, AllKept, Kept, CallIds, ResultIds
<1> QED BY <1>1, <1>2, <1>9, <1>11 DEF SystemsFirst

(***************************************************************************)
(* The inductive invariant of model calls: what a stream has said and what *)
(* its adapter holds, and what every recorded message is.                  *)
(***************************************************************************)
Inv == Control /\ Stream /\ Recorded /\ SystemsFirst(history)

(***************************************************************************)
(* It holds initially, and a step that leaves no stream behind keeps it.   *)
(***************************************************************************)
LEMMA FreshStreamNext == Fresh' => Stream'
BY FreshStream, PTL

LEMMA InitInv == Init => Inv
<1> SUFFICES ASSUME Init PROVE Inv
  OBVIOUS
<1>1. Control
  <2>1. FirstPiece \in FirstPiece..(FirstPiece + MaxPieces) /\ 1 \in 1..MaxAttempts
    BY ProviderCallAssumption DEF FirstPiece
  <2> HIDE DEF FirstPiece
  <2> QED BY <2>1 DEF Init, Control
<1>2. Stream
  BY FreshStream DEF Init, Fresh
<1>3. Recorded /\ SystemsFirst(history)
  BY DEF Init, Recorded, Ends, SystemsFirst
<1> QED BY <1>1, <1>2, <1>3 DEF Inv

LEMMA StutterInv ==
  ASSUME Inv, UNCHANGED vars
  PROVE  Inv'
<1>1. /\ vendor' = vendor /\ history' = history /\ phase' = phase /\ attempt' = attempt /\ buffer' = buffer
      /\ events' = events /\ said' = said /\ open' = open /\ piece' = piece /\ ragged' = ragged
      /\ compacted' = compacted /\ brokenOff' = brokenOff
  BY DEF vars, call
<1>2. Control'
  BY <1>1 DEF Inv, Control
<1>3. Stream'
  BY <1>1 DEF Inv, Stream, StreamTyped, Serial, Parallel, HeardText, HeardThoughts, HeardCalls,
    Identified,
              Done, DoneOf, Sent, Current, Anthropic
<1>4. Recorded' /\ SystemsFirst(history)'
  BY <1>1 DEF Inv, Recorded, Ends, SystemsFirst
<1> QED BY <1>2, <1>3, <1>4 DEF Inv

(***************************************************************************)
(* The cases of a step.                                                    *)
(***************************************************************************)
LEMMA NextCases ==
  ASSUME Next
  PROVE  \/ \E v \in Vendors : NewTurn(v)
         \/ \E retryable \in BOOLEAN : StreamFails(retryable)
         \/ \E compact, last \in BOOLEAN : Act(compact, last)
         \/ BreakOff
         \/ MessageStop \/ StreamCut \/ StreamEnd
         \/ Chunk \/ (Fail /\ phase = "streaming")
<1>1. BlockStop => (Fail /\ phase = "streaming") \/ Chunk
  BY DEF BlockStop, Chunk
<1> QED BY <1>1 DEF Next, Chunk

(***************************************************************************)
(* Every case keeps the invariant.                                         *)
(***************************************************************************)
LEMMA ChunkInv ==
  ASSUME Inv, Chunk, ~Fail
  PROVE  Inv'
<1>1. Control' /\ UNCHANGED <<vendor, history, phase, ragged, compacted, brokenOff>>
  BY ChunkFrame DEF Inv
<1>2. Stream'
  BY ChunkStream DEF Inv
<1>3. Recorded' /\ SystemsFirst(history)'
  BY <1>1 DEF Inv, Recorded, Ends, SystemsFirst
<1> QED BY <1>1, <1>2, <1>3 DEF Inv

LEMMA FailInv ==
  ASSUME Inv, Fail
  PROVE  Inv'
<1>1. Control' /\ Fresh' /\ Recorded'
  BY FailRecorded DEF Inv
<1>2. SystemsFirst(history)'
  BY DEF Inv, Fail, SystemsFirst
<1> QED BY <1>1, <1>2, FreshStreamNext DEF Inv

LEMMA BreakOffInv ==
  ASSUME Inv, BreakOff
  PROVE  Inv'
<1>1. Fresh' /\ attempt' = 1
  BY NewCallFresh DEF BreakOff, NewCall
<1>2. Control'
  BY <1>1, ProviderCallAssumption DEF Inv, BreakOff, Control
<1>3. Recorded' /\ SystemsFirst(history)'
  BY DEF Inv, BreakOff, Recorded, Ends, SystemsFirst
<1> QED BY <1>1, <1>2, <1>3, FreshStreamNext DEF Inv

LEMMA SaidFirst ==
  ASSUME Inv, NEW m, Said(m)
  PROVE  SystemsFirst(history)'
<1>1. /\ history \in Seq(Messages) /\ SystemsFirst(history)
      /\ m \in Messages /\ m.role # "system" /\ history' = Append(history, m)
  BY DEF Inv, Recorded, Said
<1>2. SystemsFirst(Append(history, m))
  BY <1>1, AppendFirst
<1> QED BY <1>1, <1>2 DEF SystemsFirst

LEMMA NextInv ==
  ASSUME Inv, Next
  PROVE  Inv'
<1>1. ASSUME NEW v \in Vendors, NewTurn(v) PROVE Inv'
  <2>1. Control' /\ Fresh' /\ Recorded'
    BY <1>1, NewTurnRecorded DEF Inv
  <2>2. PICK m : m = Message("user", v, <<Text(<< 0 >>)>>, <<>>)
    OBVIOUS
  <2>3. m \in Messages /\ m.role = "user"
    BY <2>2, PlainMessage
  <2>4. history \in Seq(Messages) /\ SystemsFirst(history) /\ history' = Append(history, m)
    BY <1>1, <2>2 DEF Inv, Recorded, NewTurn
  <2>5. SystemsFirst(Append(history, m))
    BY <2>3, <2>4, AppendFirst
  <2>6. SystemsFirst(history)'
    BY <2>4, <2>5 DEF SystemsFirst
  <2> QED BY <2>1, <2>6, FreshStreamNext DEF Inv
<1>2. ASSUME NEW retryable \in BOOLEAN, StreamFails(retryable) PROVE Inv'
  <2>1. Control' /\ Fresh' /\ Recorded'
    BY <1>2, RetryRecorded DEF Inv
  <2>2. SystemsFirst(history)'
    BY <1>2 DEF Inv, StreamFails, Fail, SystemsFirst
  <2> QED BY <2>1, <2>2, FreshStreamNext DEF Inv
<1>3. ASSUME NEW compact \in BOOLEAN, NEW last \in BOOLEAN, Act(compact, last) PROVE Inv'
  <2>1. Control' /\ Fresh' /\ Recorded' /\ SystemsFirst(history)'
    BY <1>3, ActRecorded DEF Inv
  <2> QED BY <2>1, FreshStreamNext DEF Inv
<1>4. CASE MessageStop \/ StreamCut
  <2>1. Control' /\ Fresh' /\ Recorded' /\ \E m : Said(m)
    BY <1>4, EndAnthropic DEF Inv
  <2>2. SystemsFirst(history)'
    BY <2>1, SaidFirst
  <2> QED BY <2>1, <2>2, FreshStreamNext DEF Inv
<1>5. CASE StreamEnd /\ ~Fail
  <2>1. Control' /\ Fresh' /\ Recorded' /\ \E m : Said(m)
    BY <1>5, EndOpenAI DEF Inv
  <2>2. SystemsFirst(history)'
    BY <2>1, SaidFirst
  <2> QED BY <2>1, <2>2, FreshStreamNext DEF Inv
<1>6. CASE Chunk /\ ~Fail
  BY <1>6, ChunkInv
<1>7. CASE Fail
  BY <1>7, FailInv
<1>8. CASE BreakOff
  BY <1>8, BreakOffInv
<1> QED BY <1>1, <1>2, <1>3, <1>4, <1>5, <1>6, <1>7, <1>8, NextCases

(***************************************************************************)
(* The inductive invariant holds in every reachable state, for every set   *)
(* of vendors, number of attempts, size of the compaction window and       *)
(* bound.                                                                  *)
(***************************************************************************)
THEOREM Invariance == Spec => []Inv
<1>1. Inv /\ [Next]_vars => Inv'
  BY NextInv, StutterInv
<1> QED BY <1>1, InitInv, PTL DEF Spec

(***************************************************************************)
(* The variables of model calls keep their types: the buffers hold         *)
(* thoughts and calls only, Anthropic's only unfinished ones, and while    *)
(* the engine streams or acts the history ends as its loop expects.        *)
(***************************************************************************)
THEOREM TypeCorrect == Spec => []TypeOK
<1>1. Inv => TypeOK
  <2> SUFFICES ASSUME Inv PROVE TypeOK
    OBVIOUS
  <2>1. Control /\ StreamTyped /\ Serial /\ Parallel /\ Recorded
    BY DEF Inv, Stream
  <2>2. \A i \in DOMAIN buffer : buffer[i].kind \in {"thinking", "call"}
    BY <2>1 DEF StreamTyped, Serial, Parallel
  <2>3. \A k \in DOMAIN events : events[k].kind \in {"text_delta", "thinking_delta", "thinking", "redacted", "call"}
    <3>1. events \in Seq(Blocks) /\ \A k \in 1..Len(events) : events[k].kind \in EventKinds
      BY <2>1 DEF StreamTyped
    <3> QED BY <3>1 DEF EventKinds
  <2>4. \A k \in DOMAIN history : history[k].role \in {"user", "assistant", "tool", "system"}
    <3>1. \A m \in Messages : m.role \in {"user", "assistant", "tool", "system"}
      BY DEF Messages
    <3>2. history \in Seq(Messages)
      BY <2>1 DEF Recorded
    <3> QED BY <3>1, <3>2
  <2>5. open \subseteq DOMAIN said /\ (Anthropic => DOMAIN buffer \subseteq open)
    BY <2>1 DEF StreamTyped, Serial
  <2>6. /\ phase = "acting" => Last(history).role = "assistant"
        /\ phase = "streaming" => Last(history).role \in {"user", "tool", "system"}
    BY <2>1 DEF Recorded, Ends
  <2> QED BY <2>1, <2>2, <2>3, <2>4, <2>5, <2>6 DEF TypeOK, Control
<1> QED BY <1>1, Invariance, PTL

(***************************************************************************)
(* What the invariant says of an assistant message.                        *)
(***************************************************************************)
LEMMA AssistantsKept ==
  ASSUME Inv, NEW k \in Assistant
  PROVE  Faithful(history[k]) /\ Genuine(history[k]) /\ Eloquent(history[k])
<1>1. history \in Seq(Messages) /\ \A j \in 1..Len(history) : Kept(history[j])
  BY DEF Inv, Recorded
<1>2. k \in 1..Len(history) /\ history[k].role = "assistant"
  BY <1>1 DEF Assistant
<1> QED BY <1>1, <1>2 DEF Kept

(***************************************************************************)
(* What a vendor said comes back to it as it said it: through the          *)
(* adapter's buffers, _assemble_assistant_message, any later compaction    *)
(* and the conversion of the next request, for any number of blocks, calls *)
(* and turns.                                                              *)
(***************************************************************************)
THEOREM Replay == Spec => []ReplayedAsSaid
<1>1. Inv => ReplayedAsSaid
  BY AssistantsKept DEF ReplayedAsSaid, Faithful
<1> QED BY <1>1, Invariance, PTL

(***************************************************************************)
(* Every thought on the wire to Anthropic is one it has signed, whoever    *)
(* made the history and after any change of provider:                      *)
(* _convert_content_blocks_to_anthropic drops what OpenAI's adapter        *)
(* recorded without a signature.                                           *)
(***************************************************************************)
THEOREM Signatures == Spec => []OnlySignedThoughts
<1>1. Inv => OnlySignedThoughts
  BY AssistantsKept DEF OnlySignedThoughts, Genuine
<1> QED BY <1>1, Invariance, PTL

(***************************************************************************)
(* A message that is empty on the wire to Anthropic comes about only if    *)
(* nothing was said but reasoning that was not finished or not signed.     *)
(***************************************************************************)
THEOREM Silence == Spec => []SilentOnlyIfNothingSaid
<1>1. Inv => SilentOnlyIfNothingSaid
  BY AssistantsKept DEF SilentOnlyIfNothingSaid, Eloquent
<1> QED BY <1>1, Invariance, PTL

(***************************************************************************)
(* A tool message stands behind the assistant message whose calls it       *)
(* answers, and nothing else stands behind calls; where turns have broken  *)
(* off, the next turn's user message does.                                 *)
(***************************************************************************)
Answered(ms, broken) ==
  \A k \in 1..Len(ms) :
    /\ ms[k].role = "tool" =>
         k > 1 /\ ms[k - 1].role = "assistant" /\ CallIds(ms[k - 1]) = ResultIds(ms[k])
    /\ CallIds(ms[k]) # <<>> /\ k < Len(ms) =>
         ms[k + 1].role = "tool" \/ (broken /\ ms[k + 1].role = "user")

(***************************************************************************)
(* The last message awaits no result.                                      *)
(***************************************************************************)
Settled(ms) == ms # <<>> => CallIds(Last(ms)) = <<>>

(***************************************************************************)
(* Behind the system messages, the assistant's messages and the others     *)
(* alternate.                                                              *)
(***************************************************************************)
Alternating(ms) ==
  \A k \in 1..(Len(ms) - 1) :
    ms[k].role # "system" /\ ms[k + 1].role # "system" =>
      (ms[k].role = "assistant" <=> ms[k + 1].role # "assistant")

(***************************************************************************)
(* The condition under which CallsPaired promises anything: there was no   *)
(* compaction, or it keeps an even number of messages and no turn ended    *)
(* without a last answer.                                                  *)
(***************************************************************************)
Orderly == compacted => KeepRecent % 2 = 0 /\ ~ragged

(***************************************************************************)
(* Then the history is paired; and as long as no turn has failed it        *)
(* alternates.  The second is why an even number is enough: compaction     *)
(* counts back from the tool message at the end, so an even number of      *)
(* messages begins with a message that is the assistant's.                 *)
(***************************************************************************)
Pairs == Orderly => Answered(history, brokenOff) /\ (phase = "idle" /\ ~brokenOff => Settled(history))

Alternates ==
  ~ragged => Alternating(history) /\ (phase = "idle" => history = <<>> \/ Last(history).role = "assistant")

(***************************************************************************)
(* A turn that broke off leaves its calls in the history: in front of a    *)
(* user message, or at the end until the next turn begins.                 *)
(***************************************************************************)
Breaks ==
  brokenOff /\ ~compacted =>
    \E i \in 1..Len(history) :
      /\ CallIds(history[i]) # <<>>
      /\ i = Len(history) => phase = "idle"
      /\ i < Len(history) => history[i + 1].role = "user"

(***************************************************************************)
(* The engine acts on calls; a turn that broke off has no last answer.     *)
(***************************************************************************)
Due == phase = "acting" => CallIds(Last(history)) # <<>>
Rough == brokenOff => ragged

(***************************************************************************)
(* What a message more does to both.                                       *)
(***************************************************************************)
LEMMA Appended ==
  ASSUME NEW T, NEW ms \in Seq(T), NEW m \in T
  PROVE  /\ Append(ms, m) \in Seq(T) /\ Len(Append(ms, m)) = Len(ms) + 1 /\ Len(ms) \in Nat
         /\ \A k \in 1..Len(ms) : Append(ms, m)[k] = ms[k]
         /\ Append(ms, m)[Len(ms) + 1] = m
OBVIOUS

LEMMA AppendAnswered ==
  ASSUME NEW ms \in Seq(Messages), NEW m \in Messages, NEW broken \in BOOLEAN,
         Answered(ms, broken), m.role # "tool", Settled(ms) \/ (broken /\ m.role = "user")
  PROVE  Answered(Append(ms, m), broken)
<1> DEFINE new == Append(ms, m)
           n == Len(ms)
<1>1. /\ Len(new) = n + 1 /\ n \in Nat /\ \A k \in 1..n : new[k] = ms[k]
      /\ new[n + 1] = m
  BY Appended
<1>2. n > 0 => CallIds(ms[n]) = <<>> \/ (broken /\ m.role = "user")
  BY DEF Settled, Last
<1> SUFFICES ASSUME NEW k \in 1..Len(new)
             PROVE  /\ new[k].role = "tool" =>
                         k > 1 /\ new[k - 1].role = "assistant" /\ CallIds(new[k - 1]) = ResultIds(new[k])
                    /\ CallIds(new[k]) # <<>> /\ k < Len(new) =>
                         new[k + 1].role = "tool" \/ (broken /\ new[k + 1].role = "user")
  BY DEF Answered
<1> HIDE DEF new
<1>3. CASE k = n + 1
  BY <1>1, <1>3
<1>4. CASE k = n
  <2>1. /\ new[k] = ms[k] /\ new[k + 1] = m /\ k \in 1..n /\ (k > 1 => new[k - 1] = ms[k - 1])
        /\ CallIds(ms[k]) = <<>> \/ (broken /\ m.role = "user")
    BY <1>1, <1>2, <1>4
  <2> QED BY <1>1, <2>1 DEF Answered
<1>5. CASE k < n
  <2>1. new[k] = ms[k] /\ new[k + 1] = ms[k + 1] /\ k \in 1..n /\ (k > 1 => new[k - 1] = ms[k - 1])
    BY <1>1, <1>5
  <2> QED BY <1>1, <1>5, <2>1 DEF Answered
<1> QED BY <1>1, <1>3, <1>4, <1>5

LEMMA AppendTool ==
  ASSUME NEW ms \in Seq(Messages), NEW m \in Messages, NEW broken \in BOOLEAN,
         Answered(ms, broken), m.role = "tool",
         ms # <<>>, Last(ms).role = "assistant", ResultIds(m) = CallIds(Last(ms))
  PROVE  Answered(Append(ms, m), broken)
<1> DEFINE new == Append(ms, m)
           n == Len(ms)
<1>1. /\ Len(new) = n + 1 /\ n \in Nat /\ n > 0 /\ \A k \in 1..n : new[k] = ms[k]
      /\ new[n + 1] = m
  BY Appended
<1>2. ms[n].role = "assistant" /\ ResultIds(m) = CallIds(ms[n])
  BY DEF Last
<1> SUFFICES ASSUME NEW k \in 1..Len(new)
             PROVE  /\ new[k].role = "tool" =>
                         k > 1 /\ new[k - 1].role = "assistant" /\ CallIds(new[k - 1]) = ResultIds(new[k])
                    /\ CallIds(new[k]) # <<>> /\ k < Len(new) =>
                         new[k + 1].role = "tool" \/ (broken /\ new[k + 1].role = "user")
  BY DEF Answered
<1> HIDE DEF new
<1>3. CASE k = n + 1
  BY <1>1, <1>2, <1>3
<1>4. CASE k = n
  <2>1. new[k] = ms[k] /\ k \in 1..n /\ (k > 1 => new[k - 1] = ms[k - 1]) /\ new[k + 1] = m
    BY <1>1, <1>4
  <2>2. new[k].role = "tool" =>
          k > 1 /\ new[k - 1].role = "assistant" /\ CallIds(new[k - 1]) = ResultIds(new[k])
    BY <2>1 DEF Answered
  <2>3. new[k + 1].role = "tool"
    BY <2>1
  <2> QED BY <2>2, <2>3
<1>5. CASE k < n
  <2>2. k \in 1..n /\ k + 1 \in 1..n /\ (k > 1 => k - 1 \in 1..n)
    BY <1>1, <1>5
  <2>1. new[k] = ms[k] /\ new[k + 1] = ms[k + 1] /\ k \in 1..n /\ (k > 1 => new[k - 1] = ms[k - 1])
    BY <1>1, <2>2
  <2> QED BY <1>1, <1>5, <2>1 DEF Answered
<1> QED BY <1>1, <1>3, <1>4, <1>5

LEMMA AppendAlternating ==
  ASSUME NEW ms \in Seq(Messages), NEW m \in Messages, Alternating(ms),
         ms # <<>> => (Last(ms).role = "assistant" <=> m.role # "assistant")
  PROVE  Alternating(Append(ms, m))
<1> DEFINE new == Append(ms, m)
           n == Len(ms)
<1>1. /\ Len(new) = n + 1 /\ n \in Nat /\ \A k \in 1..n : new[k] = ms[k]
      /\ new[n + 1] = m
  BY Appended
<1> SUFFICES ASSUME NEW k \in 1..(Len(new) - 1), new[k].role # "system",
  new[k + 1].role # "system"
             PROVE  new[k].role = "assistant" <=> new[k + 1].role # "assistant"
  BY DEF Alternating
<1> HIDE DEF new
<1>2. CASE k = n
  <2>1. new[k] = Last(ms) /\ new[k + 1] = m /\ ms # <<>>
    BY <1>1, <1>2 DEF Last
  <2> QED BY <2>1
<1>3. CASE k < n
  BY <1>1, <1>3 DEF Alternating
<1> QED BY <1>1, <1>2, <1>3

(***************************************************************************)
(* Counted from a last message that is not the assistant's, every other    *)
(* one is.                                                                 *)
(***************************************************************************)
LEMMA Backwards ==
  ASSUME NEW ms \in Seq(Messages), Alternating(ms), ms # <<>>, Last(ms).role # "assistant",
         NEW L \in 0..Len(ms), \A k \in (L + 1)..Len(ms) : ms[k].role # "system"
  PROVE  \A d \in 0..(Len(ms) - L - 1) : ms[Len(ms) - d].role = "assistant" <=> d % 2 = 1
<1> DEFINE n == Len(ms)
           B == {d \in 0..(n - L - 1) : ~(ms[n - d].role = "assistant" <=> d % 2 = 1)}
<1> SUFFICES ASSUME B # {} PROVE FALSE
  OBVIOUS
<1>1. B \subseteq Nat
  OBVIOUS
<1>2. PICK b \in B : \A k \in B : b <= k
  <2> HIDE DEF B
  <2> QED BY <1>1, Least
<1>3. n \in Nat /\ b \in 0..(n - L - 1) /\ ~(ms[n - b].role = "assistant" <=> b % 2 = 1)
  BY <1>2
<1>4. b # 0
  <2>1. ms[n].role # "assistant"
    BY DEF Last
  <2> QED BY <1>3, <2>1
<1>5. b - 1 \in 0..(n - L - 1) /\ b - 1 \notin B
  <2>1. b - 1 \in 0..(n - L - 1) /\ ~(b <= b - 1)
    BY <1>3, <1>4
  <2> HIDE DEF B
  <2> QED BY <1>2, <2>1
<1>6. ms[n - (b - 1)].role = "assistant" <=> (b - 1) % 2 = 1
  BY <1>5
<1>7. /\ n - b \in 1..(n - 1) /\ n - (b - 1) = (n - b) + 1
      /\ n - b \in (L + 1)..n /\ (n - b) + 1 \in (L + 1)..n
  BY <1>3, <1>4
<1>8. ms[n - b].role = "assistant" <=> ms[(n - b) + 1].role # "assistant"
  BY <1>7 DEF Alternating
<1>9. (b - 1) % 2 = 1 <=> ~(b % 2 = 1)
  <2>1. b \in Nat /\ b # 0
    BY <1>3, <1>4
  <2> QED BY ONLY <2>1
<1> QED BY <1>3, <1>6, <1>7, <1>8, <1>9

(***************************************************************************)
(* Compaction keeps both.                                                  *)
(***************************************************************************)
LEMMA CompactedAlternating ==
  ASSUME NEW ms \in Seq(Messages), SystemsFirst(ms), Alternating(ms), NEW keep \in Nat,
         NEW s \in Messages, s.role = "system", NEW new, new = Compacted(ms, keep, s)
  PROVE  Alternating(new)
<1>1. PICK L : L = Leading(ms)
  OBVIOUS
<1>2. L \in 0..Len(ms) /\ \A k \in 1..L : ms[k].role = "system"
  BY <1>1, SystemsPrefix
<1>3. CASE Len(ms) - L <= keep
  <2>1. new = ms
    BY <1>1, <1>3 DEF Compacted
  <2> QED BY <2>1
<1>4. CASE ~(Len(ms) - L <= keep)
  <2>1. PICK from : from = IF keep = 0 THEN L + 1 ELSE Len(ms) - keep + 1
    OBVIOUS
  <2>2. new \in Seq(Messages) /\ Cut(new, ms, L, from, s)
    BY <1>1, <1>2, <1>4, <2>1, CompactedShape
  <2> SUFFICES ASSUME NEW k \in 1..(Len(new) - 1), new[k].role # "system",
    new[k + 1].role # "system"
               PROVE  new[k].role = "assistant" <=> new[k + 1].role # "assistant"
    BY DEF Alternating
  <2>3. k \in (L + 2)..Len(new) /\ k + 1 \in (L + 2)..Len(new)
    BY <1>2, <2>2 DEF Cut
  <2>4. /\ new[k] = ms[k + from - L - 2] /\ new[k + 1] = ms[k + 1 + from - L - 2]
        /\ k + from - L - 2 \in from..Len(ms) /\ k + 1 + from - L - 2 \in from..Len(ms)
    BY <2>2, <2>3 DEF Cut
  <2>5. /\ k + from - L - 2 \in 1..(Len(ms) - 1) /\ k + 1 + from - L - 2 = (k + from - L - 2) + 1
    BY <1>2, <2>2, <2>4 DEF Cut
  <2> QED BY <2>4, <2>5 DEF Alternating
<1> QED BY <1>3, <1>4

LEMMA CompactedAnswered ==
  ASSUME NEW ms \in Seq(Messages), AllKept(ms), SystemsFirst(ms),
         NEW broken \in BOOLEAN, Answered(ms, broken), Alternating(ms), ms # <<>>, Last(ms).role = "tool", NEW keep \in Nat, keep % 2 = 0,
         NEW s, Summary(s), NEW new, new = Compacted(ms, keep, s)
  PROVE  Answered(new, broken)
<1>1. PICK L : L = Leading(ms)
  OBVIOUS
<1>2. /\ L \in 0..Len(ms)
      /\ \A k \in 1..L : ms[k].role = "system"
      /\ \A k \in (L + 1)..Len(ms) : ms[k].role # "system"
  BY <1>1, SystemsPrefix
<1>3. CASE Len(ms) - L <= keep
  <2>1. new = ms
    BY <1>1, <1>3 DEF Compacted
  <2> QED BY <2>1
<1>4. CASE ~(Len(ms) - L <= keep)
  <2>1. PICK from : from = IF keep = 0 THEN L + 1 ELSE Len(ms) - keep + 1
    OBVIOUS
  <2>2. s \in Messages /\ s.role = "system" /\ CallIds(s) = <<>>
    BY DEF Summary
  <2>3. new \in Seq(Messages) /\ Cut(new, ms, L, from, s)
    BY <1>1, <1>2, <1>4, <2>1, <2>2, CompactedShape
  <2>4. /\ from \in (L + 1)..Len(ms) /\ Len(new) = L + 2 + Len(ms) - from
        /\ \A k \in 1..L : new[k] = ms[k]
        /\ new[L + 1] = s
        /\ \A k \in (L + 2)..Len(new) : k + from - L - 2 \in from..Len(ms) /\ new[k] = ms[k + from - L - 2]
    BY <2>3 DEF Cut
  <2>5. ms[from].role # "tool"
    <3>1. CASE keep = 0
      <4>1. from = L + 1
        BY <2>1, <3>1
      <4>2. ms[from].role = "tool" => L >= 1 /\ ms[L].role = "assistant"
        BY <1>2, <2>4, <4>1 DEF Answered
      <4> QED BY <1>2, <4>2
    <3>2. CASE keep # 0
      <4>1. from = Len(ms) - (keep - 1) /\ keep - 1 \in 0..(Len(ms) - L - 1)
        BY <1>2, <1>4, <2>1, <3>2
      <4>2. (keep - 1) % 2 = 1
        BY <3>2
      <4>3. ms[Len(ms) - (keep - 1)].role = "assistant"
        BY <1>2, <4>1, <4>2, Backwards
      <4> QED BY <4>1, <4>3
    <3> QED BY <3>1, <3>2
  <2> SUFFICES ASSUME NEW k \in 1..Len(new)
               PROVE  /\ new[k].role = "tool" =>
                           k > 1 /\ new[k - 1].role = "assistant" /\ CallIds(new[k - 1]) = ResultIds(new[k])
                      /\ CallIds(new[k]) # <<>> /\ k < Len(new) =>
                           new[k + 1].role = "tool" \/ (broken /\ new[k + 1].role = "user")
    BY DEF Answered
  <2>6. CASE k \in 1..L
    <3>1. new[k].role = "system" /\ CallIds(new[k]) = <<>>
      <4>1. k \in 1..Len(ms) /\ new[k] = ms[k] /\ ms[k].role = "system"
        BY <1>2, <2>4, <2>6
      <4>2. Kept(ms[k])
        BY <4>1 DEF AllKept
      <4> QED BY <4>1, <4>2 DEF Kept
    <3> QED BY <3>1
  <2>7. CASE k = L + 1
    BY <2>2, <2>4, <2>7
  <2>8. CASE k \in (L + 2)..Len(new)
    <3>1. PICK j : j = k + from - L - 2
      OBVIOUS
    <3>2. j \in from..Len(ms) /\ new[k] = ms[j] /\ j \in 1..Len(ms)
      BY <1>2, <2>4, <2>8, <3>1
    <3>3. ASSUME new[k].role = "tool"
          PROVE  k > 1 /\ new[k - 1].role = "assistant" /\ CallIds(new[k - 1]) = ResultIds(new[k])
      <4>1. j # from
        BY <2>5, <3>2, <3>3
      <4>2. k - 1 \in (L + 2)..Len(new) /\ (k - 1) + from - L - 2 = j - 1
        BY <1>2, <2>4, <2>8, <3>1, <3>2, <4>1
      <4>3. new[k - 1] = ms[j - 1]
        BY <2>4, <4>2
      <4> QED BY <1>2, <2>8, <3>2, <3>3, <4>3 DEF Answered
    <3>4. ASSUME CallIds(new[k]) # <<>>, k < Len(new)
          PROVE  new[k + 1].role = "tool" \/ (broken /\ new[k + 1].role = "user")
      <4>1. k + 1 \in (L + 2)..Len(new) /\ (k + 1) + from - L - 2 = j + 1 /\ j < Len(ms)
        BY <1>2, <2>4, <2>8, <3>1, <3>2, <3>4
      <4>2. new[k + 1] = ms[j + 1]
        BY <2>4, <4>1
      <4> QED BY <3>2, <3>4, <4>1, <4>2 DEF Answered
    <3> QED BY <3>3, <3>4
  <2> QED BY <1>2, <2>4, <2>6, <2>7, <2>8
<1> QED BY <1>3, <1>4

(***************************************************************************)
(* The order of a history: what CallsPaired needs besides Inv.             *)
(***************************************************************************)
Order == Pairs /\ Alternates /\ Breaks /\ Due /\ Rough

(***************************************************************************)
(* Every step keeps the order.                                             *)
(***************************************************************************)
LEMMA SameOrder ==
  ASSUME Order, UNCHANGED <<history, phase, ragged, compacted, brokenOff>>
  PROVE  Order'
BY DEF Order, Pairs, Alternates, Breaks, Due, Rough, Orderly, Answered, Settled, Alternating,
       CallIds, ResultIds

LEMMA StreamingSettled ==
  ASSUME Inv, phase = "streaming"
  PROVE  Settled(history)
<1>1. /\ history \in Seq(Messages) /\ history # <<>> /\ Last(history).role \in {"user", "tool"}
      /\ \A k \in 1..Len(history) : Kept(history[k])
  BY DEF Inv, Recorded, Ends
<1>2. Len(history) \in 1..Len(history) /\ Last(history) = history[Len(history)]
  BY <1>1 DEF Last
<1> QED BY <1>1, <1>2 DEF Settled, Kept

LEMMA FailOrder ==
  ASSUME Inv, Order, Fail, phase = "streaming"
  PROVE  Order'
<1>1. /\ history' = history /\ compacted' = compacted /\ ragged' = TRUE /\ phase' = "idle"
      /\ brokenOff' = brokenOff
  BY DEF Fail
<1>2. Alternates' /\ Due' /\ Rough'
  BY <1>1 DEF Alternates, Due, Rough
<1>3. Orderly' => Orderly
  BY <1>1 DEF Orderly
<1>4. Settled(history)
  BY StreamingSettled
<1>5. Pairs'
  BY <1>1, <1>3, <1>4 DEF Order, Pairs, Answered, Settled, CallIds, ResultIds
<1>6. Breaks'
  BY <1>1 DEF Order, Breaks, CallIds
<1> QED BY <1>2, <1>5, <1>6 DEF Order

LEMMA BreakOffOrder ==
  ASSUME Inv, Order, BreakOff
  PROVE  Order'
<1>1. /\ history' = history /\ compacted' = compacted /\ ragged' = TRUE /\ phase' = "idle"
      /\ brokenOff' = TRUE /\ phase = "acting"
  BY DEF BreakOff
<1>2. Alternates' /\ Due' /\ Rough'
  BY <1>1 DEF Alternates, Due, Rough
<1>3. Orderly' => Answered(history, TRUE)
  <2>1. Orderly' => Orderly
    BY <1>1 DEF Orderly
  <2>2. Answered(history, brokenOff) => Answered(history, TRUE)
    BY DEF Answered
  <2> QED BY <2>1, <2>2 DEF Order, Pairs
<1>4. Pairs'
  BY <1>1, <1>3 DEF Pairs, Answered, CallIds, ResultIds
<1>5. Breaks'
  <2>1. history \in Seq(Messages) /\ history # <<>>
    BY <1>1 DEF Inv, Recorded, Ends
  <2>2. CallIds(Last(history)) # <<>>
    BY <1>1 DEF Order, Due
  <2>3. Len(history) \in 1..Len(history) /\ CallIds(history[Len(history)]) # <<>>
    BY <2>1, <2>2 DEF Last
  <2> QED BY <1>1, <2>3 DEF Breaks, CallIds
<1> QED BY <1>2, <1>4, <1>5 DEF Order

LEMMA AppendOrder ==
  ASSUME Inv, Order, NEW m \in Messages, history' = Append(history, m), m.role # "tool",
         phase # "acting", phase = "idle" => m.role = "user",
         UNCHANGED <<ragged, compacted, brokenOff>>,
         phase' # "acting" <=> CallIds(m) = <<>>,
         phase' = "idle" => m.role = "assistant",
         ~ragged /\ history # <<>> => (Last(history).role = "assistant" <=> m.role # "assistant")
  PROVE  Order'
<1>1. history \in Seq(Messages) /\ brokenOff \in BOOLEAN /\ phase \in {"idle", "streaming"}
  BY DEF Inv, Recorded, Control
<1>2. PICK new : new = Append(history, m)
  OBVIOUS
<1>3. /\ history' = new /\ new # <<>> /\ Last(new) = m
      /\ Len(new) = Len(history) + 1 /\ Len(history) \in Nat /\ new[Len(history) + 1] = m
      /\ \A k \in 1..Len(history) : new[k] = history[k]
  BY <1>1, <1>2, Appended DEF Last
<1>4. Orderly' => Orderly
  BY DEF Orderly
<1>5. Orderly' => Answered(new, brokenOff) /\ (phase' = "idle" => Settled(new))
  <2> SUFFICES ASSUME Orderly PROVE Answered(new, brokenOff) /\ (phase' = "idle" => Settled(new))
    BY <1>4
  <2>1. Settled(history) \/ (brokenOff /\ m.role = "user")
    BY <1>1, StreamingSettled DEF Order, Pairs
  <2>2. Answered(new, brokenOff)
    BY <1>1, <1>2, <2>1, AppendAnswered DEF Order, Pairs
  <2> QED BY <1>3, <2>2 DEF Settled
<1>6. Pairs'
  BY <1>3, <1>5 DEF Pairs, Answered, Settled, CallIds, ResultIds
<1>7. ~ragged => Alternating(new)
  BY <1>1, <1>2, AppendAlternating DEF Order, Alternates
<1>8. Alternates'
  BY <1>3, <1>7 DEF Alternates, Alternating
<1>9. Breaks'
  <2> SUFFICES ASSUME brokenOff, ~compacted
               PROVE  \E i \in 1..Len(new) : /\ CallIds(new[i]) # <<>> /\ i < Len(new)
                                             /\ new[i + 1].role = "user"
    BY <1>3 DEF Breaks, CallIds
  <2>1. PICK i \in 1..Len(history) : /\ CallIds(history[i]) # <<>>
                                     /\ i = Len(history) => phase = "idle"
                                     /\ i < Len(history) => history[i + 1].role = "user"
    BY DEF Order, Breaks
  <2>2. i \in 1..Len(new) /\ i < Len(new) /\ new[i] = history[i]
    BY <1>3
  <2>3. new[i + 1].role = "user"
    BY <1>3, <2>1
  <2> QED BY <2>1, <2>2, <2>3
<1>10. Due' /\ Rough'
  BY <1>3 DEF Order, Due, Rough, CallIds
<1> QED BY <1>6, <1>8, <1>9, <1>10 DEF Order

LEMMA NewTurnOrder ==
  ASSUME Inv, Order, NEW v \in Vendors, NewTurn(v)
  PROVE  Order'
<1>1. PICK m : m = Message("user", v, <<Text(<< 0 >>)>>, <<>>)
  OBVIOUS
<1>2. m \in Messages /\ m.role = "user" /\ CallIds(m) = <<>>
  BY <1>1, PlainMessage
<1>3. /\ history' = Append(history, m) /\ phase = "idle" /\ phase' = "streaming"
      /\ UNCHANGED <<ragged, compacted, brokenOff>>
  BY <1>1 DEF NewTurn
<1>4. ~ragged /\ history # <<>> => Last(history).role = "assistant"
  BY <1>3 DEF Order, Alternates
<1> QED BY <1>2, <1>3, <1>4, AppendOrder

LEMMA SaidOrder ==
  ASSUME Inv, Order, NEW m, Said(m), phase = "streaming", UNCHANGED <<ragged, compacted, brokenOff>>
  PROVE  Order'
<1>1. m \in Messages /\ m.role = "assistant" /\ history' = Append(history, m)
  BY DEF Said
<1>2. phase' = IF Of(m.blocks, {"call"}) = <<>> THEN "idle" ELSE "acting"
  BY DEF Said
<1>3. phase' # "acting" <=> CallIds(m) = <<>>
  <2>1. m.blocks \in Seq(Blocks)
    BY <1>1 DEF Messages
  <2>2. Of(m.blocks, {"call"}) \in Seq(Blocks)
    BY <2>1, OfProperties
  <2>3. Len(Ids(Of(m.blocks, {"call"}))) = Len(Of(m.blocks, {"call"}))
    BY <2>2 DEF Ids
  <2>4. Of(m.blocks, {"call"}) # <<>> => Ids(Of(m.blocks, {"call"})) # <<>>
    BY <2>2, <2>3
  <2> QED BY <1>2, <2>4, IdsEmpty DEF CallIds
<1>4. Last(history).role \in {"user", "tool"}
  BY DEF Inv, Recorded, Ends
<1> QED BY <1>1, <1>3, <1>4, AppendOrder

LEMMA ActOrder ==
  ASSUME Inv, Order, NEW compact \in BOOLEAN, NEW last \in BOOLEAN, Act(compact, last)
  PROVE  Order'
<1>1. PICK t, s : /\ Answers(t) /\ Summary(s)
                  /\ \/ history' = Append(history, t)
                     \/ compacted' /\ history' = Compacted(Append(history, t), KeepRecent, s)
  BY ActShape DEF Inv
<1>2. /\ t \in Messages /\ t.role = "tool" /\ Kept(t) /\ CallIds(t) = <<>> /\ ResultIds(t) = CallIds(Last(history))
      /\ s \in Messages /\ s.role = "system" /\ Kept(s)
  BY <1>1 DEF Answers, Summary
<1>3. /\ history \in Seq(Messages) /\ AllKept(history) /\ SystemsFirst(history)
      /\ history # <<>> /\ Last(history).role = "assistant" /\ brokenOff \in BOOLEAN
  BY DEF Inv, Control, Recorded, Ends, Act, AllKept
<1>4. /\ compacted => compacted'
      /\ ragged' = (ragged \/ last) /\ phase' = IF last THEN "idle" ELSE "streaming"
      /\ brokenOff' = brokenOff /\ phase = "acting"
  BY DEF Act
<1>5. PICK ms : ms = Append(history, t)
  OBVIOUS
<1>6. ms \in Seq(Messages) /\ ms # <<>> /\ AllKept(ms) /\ Last(ms) = t
  BY <1>2, <1>3, <1>5, AppendKept DEF AllKept
<1>7. SystemsFirst(ms)
  BY <1>2, <1>3, <1>5, AppendFirst
<1>8. KeepRecent \in Nat
  BY ProviderCallAssumption
<1>9. Orderly => Answered(ms, brokenOff)
  BY <1>2, <1>3, <1>5, AppendTool DEF Order, Pairs
<1>10. ~ragged => Alternating(ms)
  BY <1>2, <1>3, <1>5, AppendAlternating DEF Order, Alternates
<1>11. PICK new : new = history'
  OBVIOUS
<1>12. Orderly' => Answered(new, brokenOff)
  <2> SUFFICES ASSUME Orderly' PROVE Answered(new, brokenOff)
    OBVIOUS
  <2>1. Orderly
    BY <1>4 DEF Orderly
  <2>2. CASE new = ms
    BY <1>9, <2>1, <2>2
  <2>3. CASE compacted' /\ new = Compacted(ms, KeepRecent, s)
    <3>1. ~ragged /\ KeepRecent % 2 = 0
      BY <1>4, <2>3 DEF Orderly
    <3> QED BY <1>1, <1>2, <1>3, <1>6, <1>7, <1>8, <1>9, <1>10, <2>1, <2>3, <3>1, CompactedAnswered
  <2> QED BY <1>1, <1>5, <1>11, <2>2, <2>3
<1>13. new # <<>> /\ Last(new) = t
  <2>1. CASE new = ms
    BY <1>6, <2>1
  <2>2. CASE new = Compacted(ms, KeepRecent, s)
    BY <1>2, <1>6, <1>7, <1>8, <2>2, CompactedKept
  <2> QED BY <1>1, <1>5, <1>11, <2>1, <2>2
<1>14. ~ragged' => Alternating(new)
  <2> SUFFICES ASSUME ~ragged PROVE Alternating(new)
    BY <1>4
  <2>1. CASE new = ms
    BY <1>10, <2>1
  <2>2. CASE new = Compacted(ms, KeepRecent, s)
    BY <1>2, <1>6, <1>7, <1>8, <1>10, <2>2, CompactedAlternating
  <2> QED BY <1>1, <1>5, <1>11, <2>1, <2>2
<1>15. Settled(new)
  BY <1>2, <1>13 DEF Settled
<1>16. Pairs'
  BY <1>4, <1>11, <1>12, <1>15 DEF Pairs, Answered, Settled, CallIds, ResultIds
<1>17. Alternates'
  BY <1>4, <1>11, <1>14 DEF Alternates, Alternating
<1>18. Breaks'
  <2> SUFFICES ASSUME brokenOff, ~compacted'
               PROVE  \E i \in 1..Len(new) : /\ CallIds(new[i]) # <<>> /\ i < Len(new)
                                             /\ new[i + 1].role = "user"
    BY <1>4, <1>11 DEF Breaks, CallIds
  <2>1. PICK i \in 1..Len(history) : /\ CallIds(history[i]) # <<>>
                                     /\ i = Len(history) => phase = "idle"
                                     /\ i < Len(history) => history[i + 1].role = "user"
    BY <1>4 DEF Order, Breaks
  <2>2. new = Append(history, t)
    BY <1>1, <1>11
  <2>3. /\ Len(new) = Len(history) + 1 /\ Len(history) \in Nat
        /\ \A k \in 1..Len(history) : new[k] = history[k]
    BY <1>2, <1>3, <2>2, Appended
  <2>4. i < Len(history) /\ i + 1 \in 1..Len(history) /\ i \in 1..Len(new) /\ i < Len(new)
    BY <1>4, <2>1, <2>3
  <2> QED BY <2>1, <2>3, <2>4
<1>19. Due' /\ Rough'
  BY <1>4 DEF Order, Due, Rough
<1> QED BY <1>16, <1>17, <1>18, <1>19 DEF Order

LEMMA NextOrder ==
  ASSUME Inv, Order, Next
  PROVE  Order'
<1>1. ASSUME NEW v \in Vendors, NewTurn(v) PROVE Order'
  BY <1>1, NewTurnOrder
<1>2. ASSUME NEW retryable \in BOOLEAN, StreamFails(retryable) PROVE Order'
  <2>1. phase = "streaming" /\ (Fail \/ UNCHANGED <<history, phase, ragged, compacted, brokenOff>>)
    BY <1>2 DEF StreamFails
  <2> QED BY <2>1, FailOrder, SameOrder
<1>3. ASSUME NEW compact \in BOOLEAN, NEW last \in BOOLEAN, Act(compact, last) PROVE Order'
  BY <1>3, ActOrder
<1>4. CASE MessageStop \/ StreamCut
  <2>1. \E m : Said(m)
    BY <1>4, EndAnthropic DEF Inv
  <2>2. phase = "streaming" /\ UNCHANGED <<ragged, compacted, brokenOff>>
    BY <1>4 DEF MessageStop, StreamCut, Record
  <2> QED BY <2>1, <2>2, SaidOrder
<1>5. CASE StreamEnd
  <2>1. Fail \/ \E m : Said(m)
    BY <1>5, EndOpenAI DEF Inv
  <2>2. phase = "streaming" /\ (Fail \/ UNCHANGED <<ragged, compacted, brokenOff>>)
    BY <1>5 DEF StreamEnd, Record
  <2> QED BY <2>1, <2>2, FailOrder, SaidOrder
<1>6. CASE Chunk
  <2>1. UNCHANGED <<history, phase, ragged, compacted, brokenOff>>
    BY <1>6, ChunkFrame DEF Inv
  <2> QED BY <2>1, SameOrder
<1>7. CASE Fail /\ phase = "streaming"
  BY <1>7, FailOrder
<1>8. CASE BreakOff
  BY <1>8, BreakOffOrder
<1> QED BY <1>1, <1>2, <1>3, <1>4, <1>5, <1>6, <1>7, <1>8, NextCases

LEMMA InitOrder == Init => Order
BY DEF Init, Order, Pairs, Alternates, Breaks, Due, Rough, Answered, Settled, Alternating

(***************************************************************************)
(* The order of the history is kept in every reachable state, with         *)
(* failures, turns that break off and compaction: as long as nothing is    *)
(* compacted, every tool message stands behind the calls it answers and    *)
(* only a turn that broke off leaves calls in front of anything else, the  *)
(* next user message; and so it is after compaction that keeps an even     *)
(* number of messages, if no turn ended without a last answer.             *)
(***************************************************************************)
THEOREM OrderInvariance == Spec => [](Inv /\ Order)
<1>1. Init => Inv /\ Order
  BY InitInv, InitOrder
<1>2. Inv /\ Order /\ [Next]_vars => (Inv /\ Order)'
  <2>1. ASSUME Inv, Order, Next PROVE (Inv /\ Order)'
    BY <2>1, NextInv, NextOrder
  <2>2. ASSUME Inv, Order, UNCHANGED vars PROVE (Inv /\ Order)'
    <3>1. UNCHANGED <<history, phase, ragged, compacted, brokenOff>>
      BY <2>2 DEF vars
    <3> QED BY <2>2, <3>1, StutterInv, SameOrder
  <2> QED BY <2>1, <2>2
<1> QED BY <1>1, <1>2, PTL DEF Spec

(***************************************************************************)
(* Anthropic's wire: calls and results survive the conversion.             *)
(***************************************************************************)
LEMMA ConvertKeeps ==
  ASSUME NEW T, NEW s \in Seq(T), NEW K, "thinking" \notin K
  PROVE  Of(ConvertBlocks(s), K) = Of(s, K)
<1> DEFINE S == {k \in DOMAIN s : Signed(s[k])}
           P == {k \in DOMAIN s : s[k].kind \in K}
<1>1. Numbers(S)
  <2>1. Numbers(1..Len(s)) /\ S \subseteq 1..Len(s)
    BY IntervalNumbers
  <2> QED BY <2>1, SubNumbers
<1>2. {k \in S : s[k].kind \in K} = P
  BY DEF Signed
<1>3. ConvertBlocks(s) = InOrder(s, S) /\ Of(s, K) = InOrder(s, P)
  BY DEF ConvertBlocks, Of
<1> HIDE DEF S, P
<1>4. Of(InOrder(s, S), K) = InOrder(s, {k \in S : s[k].kind \in K})
  BY <1>1, OfInOrder
<1> QED BY <1>2, <1>3, <1>4

(***************************************************************************)
(* The messages that are no system messages are the end of the history.    *)
(***************************************************************************)
Spoken(ms) == InOrder(ms, {k \in DOMAIN ms : ms[k].role # "system"})

LEMMA SpokenIs ==
  ASSUME NEW ms \in Seq(Messages), SystemsFirst(ms), NEW L, L = Leading(ms),
         NEW spoken, spoken = Spoken(ms)
  PROVE  /\ L \in 0..Len(ms) /\ DOMAIN spoken = 1..(Len(ms) - L) /\ Len(spoken) = Len(ms) - L
         /\ \A k \in 1..(Len(ms) - L) : spoken[k] = ms[L + k] /\ L + k \in 1..Len(ms)
<1>1. /\ L \in 0..Len(ms)
      /\ \A k \in 1..L : ms[k].role = "system"
      /\ \A k \in (L + 1)..Len(ms) : ms[k].role # "system"
  BY SystemsPrefix
<1> DEFINE n == Len(ms)
           P == 1..(n - L)
           g == [p \in P |-> L + p]
           h == [p \in P |-> ms[L + p]]
           Q == {k \in DOMAIN ms : ms[k].role # "system"}
<1>2. n - L \in Nat /\ L \in Nat /\ n \in Nat
  BY <1>1
<1>3. Numbers(P)
  BY <1>2, IntervalNumbers
<1>4. Q = {g[p] : p \in P}
  <2>3. Q \subseteq (L + 1)..n
    BY <1>1, <1>2
  <2>1. \A k \in Q : k - L \in P /\ g[k - L] = k
    <3> HIDE DEF Q, n
    <3> QED BY <1>2, <2>3
  <2>2. \A p \in P : g[p] \in Q
    <3>1. \A p \in P : g[p] \in (L + 1)..n
      BY <1>2
    <3>2. \A k \in (L + 1)..n : k \in Q
      BY <1>1, <1>2
    <3> HIDE DEF P, Q, g
    <3> QED BY <3>1, <3>2
  <2> HIDE DEF Q, P, g
  <2> QED BY <2>1, <2>2
<1>5. /\ \A p \in P : g[p] \in Nat /\ h[p] = ms[g[p]] /\ L + p \in 1..n /\ h[p] = ms[L + p]
      /\ \A p, q \in P : p < q => g[p] < g[q]
  BY <1>2
<1>6. h \in Seq(Messages) /\ Len(h) = n - L /\ DOMAIN h = P
  <2>1. \A p \in P : h[p] \in Messages
    BY <1>5
  <2>2. h = [p \in 1..(n - L) |-> h[p]] /\ DOMAIN h = P
    OBVIOUS
  <2>3. PICK l : l = n - L
    OBVIOUS
  <2> HIDE DEF h, n
  <2> QED BY <1>2, <2>1, <2>2, <2>3
<1> HIDE DEF P, g, h, Q
<1>7. InOrder(ms, Q) = InOrder(h, P)
  <2>1. \A p \in P : g[p] \in Nat
    BY <1>5
  <2>2. \A p \in P : h[p] = ms[g[p]]
    BY <1>5
  <2>3. \A p, q \in P : p < q => g[p] < g[q]
    BY <1>5
  <2>4. Moves(g, P, Q) /\ Along(h, ms, g, P)
    BY <1>4, <2>1, <2>2, <2>3 DEF Moves, Along
  <2> QED BY <1>3, <2>4, InOrderMoved
<1>8. InOrder(h, 1..Len(h)) = h
  BY <1>6, InOrderAll
<1>9. P = 1..(n - L) /\ spoken = InOrder(ms, Q)
  BY DEF P, Q, Spoken
<1>10. spoken = h
  BY <1>6, <1>7, <1>8, <1>9
<1> QED BY <1>1, <1>5, <1>6, <1>9, <1>10

(***************************************************************************)
(* Among the first j messages a turn broke off: its calls are in front of  *)
(* a user message.                                                         *)
(***************************************************************************)
Broken(ms, j) == \E i \in 1..(j - 1) : CallIds(ms[i]) # <<>> /\ ms[i + 1].role = "user"

(***************************************************************************)
(* A paired history is paired on Anthropic's wire.                         *)
(***************************************************************************)
LEMMA AnthropicPaired ==
  ASSUME NEW ms \in Seq(Messages), AllKept(ms), SystemsFirst(ms),
         NEW broken \in BOOLEAN, Answered(ms, broken), Settled(ms)
  PROVE  /\ PairedForAnthropic(Request("anthropic", ms))
         /\ DanglingForAnthropic(Request("anthropic", ms)) # {} <=> Broken(ms, Len(ms))
<1>1. PICK spoken : spoken = Spoken(ms)
  OBVIOUS
<1>2. PICK L : L = Leading(ms)
  OBVIOUS
<1>3. /\ L \in 0..Len(ms) /\ DOMAIN spoken = 1..(Len(ms) - L) /\ Len(spoken) = Len(ms) - L
      /\ \A k \in 1..(Len(ms) - L) : spoken[k] = ms[L + k] /\ L + k \in 1..Len(ms)
  BY <1>1, <1>2, SpokenIs
<1>4. \A k \in 1..L : ms[k].role = "system"
  BY <1>2, SystemsPrefix
<1>5. PICK sent : sent = Request("anthropic", ms)
  OBVIOUS
<1>6. sent = [k \in DOMAIN spoken |->
         [role |-> IF spoken[k].role = "tool" THEN "user" ELSE spoken[k].role,
          blocks |-> ConvertBlocks(spoken[k].blocks)]]
  BY <1>1, <1>5 DEF Request, ToAnthropic, Spoken
<1> DEFINE n == Len(ms) - L
           calls(k) == IdsAt(sent, k, "call")
           answers(k) == IdsAt(sent, k, "result")
<1>7. DOMAIN sent = 1..n /\ n \in Nat /\ L \in Nat
  BY <1>3, <1>6
<1>8. ASSUME NEW k \in 1..n
      PROVE  calls(k) = CallIds(ms[L + k]) /\ answers(k) = ResultIds(ms[L + k])
  <2>1. PICK b : b = ms[L + k].blocks
    OBVIOUS
  <2>2. b \in Seq(Blocks)
    <3>1. ms[L + k] \in Messages
      BY <1>3, <1>8
    <3> QED BY <2>1, <3>1 DEF Messages
  <2>3. /\ Of(ConvertBlocks(b), {"call"}) = Of(b, {"call"})
        /\ Of(ConvertBlocks(b), {"result"}) = Of(b, {"result"})
    BY <2>2, ConvertKeeps
  <2>4. sent[k].blocks = ConvertBlocks(b)
    BY <1>3, <1>6, <1>7, <2>1
  <2> QED BY <1>7, <2>1, <2>3, <2>4 DEF CallIds, ResultIds, IdsAt
<1>9. Len(sent) = n
  <2>1. sent \in Seq({sent[k] : k \in 1..n})
    BY <1>6, <1>7
  <2> QED BY <1>7, <2>1
<1>10. calls(0) = <<>> /\ answers(n + 1) = <<>> /\ n + 1 \notin DOMAIN sent
  BY <1>7 DEF IdsAt
<1>20. \A k \in 1..n : sent[k].role = (IF ms[L + k].role = "tool" THEN "user" ELSE ms[L + k].role)
  BY <1>3, <1>6
<1> DEFINE D == DanglingForAnthropic(sent)
<1>21. \A k : k \in D <=> /\ k \in 1..n /\ calls(k) # <<>> /\ k < n
                          /\ sent[k + 1].role = "user" /\ answers(k + 1) = <<>>
  BY <1>7, <1>9 DEF DanglingForAnthropic
<1>22. (\A k \in 0..n : IsInjective(calls(k)) /\ (k \notin D => calls(k) = answers(k + 1)))
          => PairedForAnthropic(sent)
  BY <1>9 DEF PairedForAnthropic
<1> HIDE DEF calls, answers, n, D
<1>23. \A k \in 1..n : k < n => /\ k + 1 \in 1..n /\ L + k \in 1..Len(ms) /\ L + (k + 1) \in 1..Len(ms)
                               /\ L + (k + 1) = (L + k) + 1 /\ L + k < Len(ms)
                               /\ (L + (k + 1)) - 1 = L + k /\ L + k \in 1..(Len(ms) - 1)
  BY <1>3, <1>7 DEF n
<1>24. ASSUME NEW k \in 1..n
       PROVE  k \in D <=> k < n /\ CallIds(ms[L + k]) # <<>> /\ ms[L + (k + 1)].role = "user"
  <2>1. ASSUME k < n, CallIds(ms[L + k]) # <<>>
        PROVE  sent[k + 1].role = "user" /\ answers(k + 1) = <<>> <=> ms[L + (k + 1)].role = "user"
    <3>1. /\ k + 1 \in 1..n /\ L + (k + 1) \in 1..Len(ms) /\ (L + (k + 1)) - 1 = L + k
      BY <1>23, <2>1
    <3>2. answers(k + 1) = ResultIds(ms[L + (k + 1)])
      BY <1>8, <3>1
    <3>3. sent[k + 1].role = (IF ms[L + (k + 1)].role = "tool" THEN "user" ELSE ms[L + (k + 1)].role)
      BY <1>20, <3>1
    <3>4. ms[L + (k + 1)].role = "tool" => ResultIds(ms[L + (k + 1)]) # <<>>
      <4>1. ms[L + (k + 1)].role = "tool" =>
               CallIds(ms[(L + (k + 1)) - 1]) = ResultIds(ms[L + (k + 1)])
        BY <3>1 DEF Answered
      <4> QED BY <2>1, <3>1, <4>1
    <3>5. ms[L + (k + 1)].role # "tool" => ResultIds(ms[L + (k + 1)]) = <<>>
      BY <3>1 DEF AllKept, Kept
    <3> QED BY <3>2, <3>3, <3>4, <3>5
  <2> QED BY <1>8, <1>21, <2>1
<1>25. D # {} <=> Broken(ms, Len(ms))
  <2>1. ASSUME NEW k \in D PROVE Broken(ms, Len(ms))
    <3>1. /\ k \in 1..n /\ k < n /\ CallIds(ms[L + k]) # <<>> /\ ms[L + (k + 1)].role = "user"
      BY <1>21, <1>24, <2>1
    <3>2. L + k \in 1..(Len(ms) - 1) /\ ms[(L + k) + 1].role = "user"
      BY <1>23, <3>1
    <3> QED BY <3>1, <3>2 DEF Broken
  <2>2. ASSUME NEW i \in 1..(Len(ms) - 1), CallIds(ms[i]) # <<>>, ms[i + 1].role = "user"
        PROVE  D # {}
    <3>1. ms[i].role # "system"
      <4>1. Kept(ms[i]) /\ i \in 1..Len(ms)
        BY DEF AllKept
      <4> QED BY <2>2, <4>1 DEF Kept
    <3>2. i > L
      BY <1>4, <1>7, <3>1
    <3>3. i - L \in 1..n /\ L + (i - L) = i /\ i - L < n /\ L + ((i - L) + 1) = i + 1
      BY <1>3, <1>7, <3>2 DEF n
    <3> QED BY <1>24, <2>2, <3>3
  <2> QED BY <2>1, <2>2 DEF Broken
<1> SUFFICES ASSUME NEW k \in 0..n
             PROVE  IsInjective(calls(k)) /\ (k \notin D => calls(k) = answers(k + 1))
  BY <1>5, <1>22, <1>25 DEF D
<1>11. IsInjective(calls(k))
  <2>1. CASE k = 0
    BY <1>10, <2>1, IdsEmpty
  <2>2. CASE k \in 1..n
    <3>1. Kept(ms[L + k])
      BY <1>3, <2>2 DEF AllKept, n
    <3> QED BY <1>8, <2>2, <3>1 DEF Kept
  <2> QED BY <1>7, <2>1, <2>2
<1>12. \A j \in 1..n : Kept(ms[L + j])
  BY <1>3 DEF AllKept, n
<1>13. \A j \in 1..n : L + j \in 1..Len(ms)
  BY <1>3 DEF n
<1>14. CASE k = 0 /\ n = 0
  BY <1>10, <1>11, <1>14
<1>15. CASE k = 0 /\ n > 0
  <2>1. 1 \in 1..n /\ L + 1 \in 1..Len(ms)
    BY <1>7, <1>13, <1>15
  <2>2. ms[L + 1].role # "tool"
    <3> SUFFICES ASSUME ms[L + 1].role = "tool" PROVE FALSE
      OBVIOUS
    <3>1. L + 1 > 1 /\ ms[(L + 1) - 1].role = "assistant"
      BY <2>1 DEF Answered
    <3>2. L \in 1..L /\ (L + 1) - 1 = L
      BY <1>7, <3>1
    <3> QED BY <1>4, <3>1, <3>2
  <2>3. answers(1) = <<>>
    BY <1>8, <1>12, <2>1, <2>2 DEF Kept
  <2> QED BY <1>10, <1>11, <1>15, <2>3
<1>16. CASE k = n /\ n > 0
  <2>1. n \in 1..n /\ L + n = Len(ms) /\ ms # <<>>
    BY <1>3, <1>7, <1>16 DEF n
  <2>2. CallIds(ms[Len(ms)]) = <<>>
    BY <2>1 DEF Settled, Last
  <2> QED BY <1>8, <1>10, <1>11, <1>16, <2>1, <2>2
<1>17. CASE k \in 1..(n - 1)
  <2>1. /\ k \in 1..n /\ k + 1 \in 1..n /\ L + k \in 1..Len(ms) /\ L + (k + 1) \in 1..Len(ms)
        /\ L + (k + 1) = (L + k) + 1 /\ L + k < Len(ms) /\ (L + (k + 1)) - 1 = L + k
    BY <1>7, <1>13, <1>17
  <2>2. calls(k) = CallIds(ms[L + k]) /\ answers(k + 1) = ResultIds(ms[L + (k + 1)])
    BY <1>8, <2>1
  <2>3. CASE ms[L + (k + 1)].role = "tool"
    <3>1. CallIds(ms[(L + (k + 1)) - 1]) = ResultIds(ms[L + (k + 1)])
      BY <2>1, <2>3 DEF Answered
    <3> QED BY <1>11, <2>1, <2>2, <3>1
  <2>4. CASE ms[L + (k + 1)].role # "tool"
    <3>1. ResultIds(ms[L + (k + 1)]) = <<>>
      BY <1>12, <2>1, <2>4 DEF Kept
    <3>2. CallIds(ms[L + k]) # <<>> => ms[L + (k + 1)].role = "user"
      BY <2>1, <2>4 DEF Answered
    <3>3. CallIds(ms[L + k]) # <<>> => k \in D
      <4>1. k < n
        BY <1>7, <1>17
      <4> QED BY <1>24, <2>1, <3>2, <4>1
    <3> QED BY <1>11, <2>2, <3>1, <3>3
  <2> QED BY <2>3, <2>4
<1> QED BY <1>7, <1>14, <1>15, <1>16, <1>17

(***************************************************************************)
(* OpenAI's wire: an entry per message, and one per result.                *)
(***************************************************************************)
EntryRecords ==
  [role : {"user", "assistant", "tool", "system"}, id : Identifiers, content : Seq(Nat),
   calls : Seq(Blocks), reasoned : BOOLEAN, reasoning : Seq(Nat)]

(***************************************************************************)
(* A message that is no tool's becomes one entry with the message's calls; *)
(* a tool message becomes an entry for each of its results.                *)
(***************************************************************************)
LEMMA PlainEntries ==
  ASSUME NEW m \in Messages, m.role # "tool", NEW replay \in BOOLEAN
  PROVE  \E e \in EntryRecords : Entries(m, replay) = <<e>> /\ e.role = m.role /\ Ids(e.calls) = CallIds(m)
<1>1. PICK calls : calls = Of(m.blocks, {"call"})
  OBVIOUS
<1>2. PICK thoughts : thoughts = Of(m.blocks, {"thinking"})
  OBVIOUS
<1>3. PICK text : text = Joined(Of(m.blocks, {"text"}))
  OBVIOUS
<1>4. PICK reasoned : reasoned = (m.role = "assistant" /\ (thoughts # <<>> \/ (calls # <<>> /\ replay)))
  OBVIOUS
<1>5. PICK reasoning : reasoning = IF reasoned THEN Joined(thoughts) ELSE <<>>
  OBVIOUS
<1>6. m.blocks \in Seq(Blocks) /\ m.role \in {"user", "assistant", "tool", "system"}
  BY DEF Messages
<1>7. calls \in Seq(Blocks)
  BY <1>1, <1>6, OfProperties
<1>8. text \in Seq(Nat)
  <2>1. Of(m.blocks, {"text"}) \in Seq(Blocks)
    BY <1>6, OfProperties
  <2> QED BY <1>3, <2>1, BlocksText, JoinedTyped
<1>9. reasoning \in Seq(Nat)
  <2>1. thoughts \in Seq(Blocks)
    BY <1>2, <1>6, OfProperties
  <2>2. Joined(thoughts) \in Seq(Nat)
    BY <2>1, BlocksText, JoinedTyped
  <2>3. <<>> \in Seq(Nat)
    OBVIOUS
  <2> QED BY <1>5, <2>2, <2>3
<1>10. NoId \in Identifiers /\ reasoned \in BOOLEAN
  BY <1>4 DEF NoId, Identifiers
<1>11. PICK e : e = Entry(m.role, NoId, text, calls, reasoned, reasoning)
  OBVIOUS
<1>12. Entries(m, replay) = <<e>>
  BY <1>1, <1>2, <1>3, <1>4, <1>5, <1>11 DEF Entries
<1>13. e \in EntryRecords /\ e.role = m.role /\ e.calls = calls
  BY <1>6, <1>7, <1>8, <1>9, <1>10, <1>11 DEF Entry, EntryRecords
<1> QED BY <1>1, <1>12, <1>13 DEF CallIds

LEMMA ToolEntries ==
  ASSUME NEW m \in Messages, m.role = "tool", Kept(m), NEW replay \in BOOLEAN
  PROVE  /\ Entries(m, replay) \in Seq(EntryRecords) /\ Len(Entries(m, replay)) = Len(ResultIds(m))
         /\ \A k \in 1..Len(Entries(m, replay)) :
              /\ Entries(m, replay)[k].role = "tool" /\ Entries(m, replay)[k].calls = <<>>
              /\ Entries(m, replay)[k].id = ResultIds(m)[k]
<1>1. PICK b : b = m.blocks
  OBVIOUS
<1>2. b \in Seq(Blocks) /\ \A k \in 1..Len(b) : b[k].kind \in {"result"}
  BY <1>1 DEF Messages, Kept
<1>3. ResultIds(m) = Ids(b)
  <2>1. Of(b, {"result"}) = b
    BY <1>2, OfAll
  <2> QED BY <1>1, <2>1 DEF ResultIds
<1>4. PICK es : es = [k \in DOMAIN b |-> Entry("tool", b[k].id, b[k].text, <<>>, FALSE, <<>>)]
  OBVIOUS
<1>5. Entries(m, replay) = es
  BY <1>1, <1>4 DEF Entries
<1>6. DOMAIN b = 1..Len(b) /\ Len(b) \in Nat
  BY <1>2
<1>7. ASSUME NEW k \in 1..Len(b)
      PROVE  es[k] \in EntryRecords /\ es[k].role = "tool" /\ es[k].calls = <<>> /\ es[k].id = b[k].id
  <2>1. b[k] \in Blocks
    BY <1>2
  <2>2. /\ b[k].id \in Identifiers /\ b[k].text \in Seq(Nat)
        /\ <<>> \in Seq(Nat) /\ <<>> \in Seq(Blocks)
    BY <2>1 DEF Blocks
  <2>3. es[k] = Entry("tool", b[k].id, b[k].text, <<>>, FALSE, <<>>)
    BY <1>4, <1>6
  <2> QED BY <2>2, <2>3 DEF Entry, EntryRecords
<1>8. es \in Seq(EntryRecords) /\ Len(es) = Len(b)
  <2>1. es = [k \in 1..Len(b) |-> es[k]]
    BY <1>4, <1>6
  <2> QED BY <1>6, <1>7, <2>1
<1>9. Len(Ids(b)) = Len(b) /\ \A k \in 1..Len(b) : Ids(b)[k] = b[k].id
  BY <1>6 DEF Ids
<1> QED BY <1>3, <1>5, <1>7, <1>8, <1>9

(***************************************************************************)
(* What PairedForOpenAI says of one entry.  Behind entries that are paired *)
(* anything may come: none of them waits for a result.                     *)
(***************************************************************************)
PairedAt(es, k) ==
  /\ k \notin DanglingForOpenAI(es) =>
       /\ k + Len(es[k].calls) <= Len(es)
       /\ \A j \in 1..Len(es[k].calls) : es[k + j].role = "tool" /\ es[k + j].id = es[k].calls[j].id
  /\ IsInjective(Ids(es[k].calls))
  /\ es[k].role = "tool" =>
       \E j \in 1..(k - 1) : /\ es[j].role = "assistant" /\ j + Len(es[j].calls) >= k
                             /\ j \notin DanglingForOpenAI(es)

LEMMA PairedExtended ==
  ASSUME NEW es \in Seq(EntryRecords), PairedForOpenAI(es),
         NEW new \in Seq(EntryRecords), NEW l, l = Len(es), l < Len(new),
         \A k \in 1..l : new[k] = es[k]
  PROVE  \A k \in 1..l : (k \in DanglingForOpenAI(new) <=> k \in DanglingForOpenAI(es)) /\ PairedAt(new, k)
<1>1. /\ l \in Nat /\ Len(new) \in Nat /\ DOMAIN es = 1..l /\ DOMAIN new = 1..Len(new)
      /\ \A k \in 1..l : es[k] \in EntryRecords
  OBVIOUS
<1>2. \A x \in EntryRecords : Len(x.calls) \in Nat /\ (Len(x.calls) = 0 => x.calls = <<>>)
  BY ONLY EntryRecords = EntryRecords DEF EntryRecords
<1>3. \A k \in 1..l : PairedAt(es, k)
  BY ONLY <1>1, PairedForOpenAI(es) DEF PairedForOpenAI, PairedAt
<1> DEFINE D == DanglingForOpenAI(es)
           E == DanglingForOpenAI(new)
<1>4. /\ \A k \in 1..l : k \in D <=> es[k].calls # <<>> /\ k < l /\ es[k + 1].role = "user"
      /\ \A k \in 1..l : k \in E <=> new[k].calls # <<>> /\ k < Len(new) /\ new[k + 1].role = "user"
  BY ONLY <1>1, l = Len(es) DEF DanglingForOpenAI
<1>5. \A k \in 1..l : k \notin D => k + Len(es[k].calls) <= l
  BY <1>3 DEF PairedAt
<1> HIDE DEF D, E
<1>6. ASSUME NEW k \in 1..l PROVE k \in E <=> k \in D
  <2>1. CASE k < l
    BY <1>1, <1>4, <2>1
  <2>2. CASE k = l
    <3>1. k \notin D
      BY <1>1, <1>4, <2>2
    <3>2. Len(es[k].calls) \in Nat /\ k + Len(es[k].calls) <= l
      BY <1>1, <1>2, <1>5, <3>1
    <3>3. Len(es[k].calls) = 0
      BY ONLY <1>1, <2>2, <3>2
    <3>4. es[k].calls = <<>>
      BY <1>1, <1>2, <3>3
    <3> QED BY <1>4, <3>1, <3>4
  <2> QED BY <1>1, <2>1, <2>2
<1>7. ASSUME NEW k \in 1..l PROVE PairedAt(new, k)
  <2>1. PICK c : c = Len(es[k].calls)
    OBVIOUS
  <2>2. c \in Nat /\ new[k] = es[k]
    BY <1>1, <1>2, <2>1
  <2>3. ASSUME k \notin E
        PROVE  k + c <= Len(new) /\ \A j \in 1..c : new[k + j].role = "tool" /\ new[k + j].id = new[k].calls[j].id
    <3>1. k \notin D
      BY <1>6, <2>3
    <3>2. k + c <= l /\ \A j \in 1..c : es[k + j].role = "tool" /\ es[k + j].id = es[k].calls[j].id
      BY <1>3, <2>1, <3>1 DEF PairedAt, D
    <3>3. \A j \in 1..c : k + j \in 1..l
      BY ONLY <1>1, <2>2, <3>2, k \in 1..l
    <3>4. k + c <= Len(new)
      BY ONLY <1>1, <2>2, <3>2, k \in 1..l, l < Len(new)
    <3> QED BY <2>2, <3>2, <3>3, <3>4
  <2>4. ASSUME new[k].role = "tool"
        PROVE  \E j \in 1..(k - 1) : /\ new[j].role = "assistant" /\ j + Len(new[j].calls) >= k
                                     /\ j \notin E
    <3>1. PICK j \in 1..(k - 1) : /\ es[j].role = "assistant" /\ j + Len(es[j].calls) >= k
                                  /\ j \notin D
      BY <1>3, <2>2, <2>4 DEF PairedAt, D
    <3>2. j \in 1..l
      BY ONLY <1>1, k \in 1..l, j \in 1..(k - 1)
    <3>3. new[j] = es[j] /\ j \notin E
      BY <1>6, <3>1, <3>2
    <3> QED BY <3>1, <3>3
  <2>5. IsInjective(Ids(new[k].calls))
    BY <1>3, <2>2 DEF PairedAt
  <2> QED BY <2>1, <2>2, <2>3, <2>4, <2>5 DEF PairedAt, E
<1> QED BY <1>6, <1>7 DEF D, E

(***************************************************************************)
(* Behind entries that are paired come an entry and the results of its     *)
(* calls; nothing dangles that did not before.                             *)
(***************************************************************************)
LEMMA PairAdded ==
  ASSUME NEW es \in Seq(EntryRecords), PairedForOpenAI(es),
         NEW e \in EntryRecords, e.role # "tool", NEW ts \in Seq(EntryRecords),
           Len(ts) = Len(e.calls), IsInjective(Ids(e.calls)),
         \A j \in 1..Len(ts) : ts[j].role = "tool" /\ ts[j].calls = <<>> /\ ts[j].id = e.calls[j].id,
         Len(ts) > 0 => e.role = "assistant",
         NEW new, new = Splice(es, e, ts)
  PROVE  PairedForOpenAI(new) /\ DanglingForOpenAI(new) = DanglingForOpenAI(es)
<1>8. PICK l : l = Len(es)
  OBVIOUS
<1>9. PICK q : q = Len(ts)
  OBVIOUS
<1>10. l \in Nat /\ q \in Nat
  BY <1>8, <1>9
<1>1. new \in Seq(EntryRecords) /\ Joins(new, es, e, ts)
  BY Spliced
<1>2. /\ l \in Nat /\ q \in Nat /\ Len(new) = l + 1 + q
      /\ \A k \in 1..l : new[k] = es[k]
      /\ new[l + 1] = e
      /\ \A k \in 1..q : new[l + 1 + k] = ts[k]
  BY ONLY <1>1, <1>8, <1>9, <1>10 DEF Joins
<1>3. DOMAIN new = 1..(l + 1 + q) /\ DOMAIN es = 1..l
  BY <1>1, <1>2, <1>8
<1>4. l < Len(new)
  BY ONLY <1>2
<1>5. \A k \in 1..l : (k \in DanglingForOpenAI(new) <=> k \in DanglingForOpenAI(es)) /\ PairedAt(new, k)
  BY <1>1, <1>2, <1>4, <1>8, PairedExtended
<1>6. ASSUME NEW k \in (l + 2)..(l + 1 + q)
      PROVE  \E i \in 1..q : k = l + 1 + i /\ new[k] = ts[i] /\ q > 0
  <2>1. PICK i : i = k - l - 1
    OBVIOUS
  <2>2. i \in 1..q /\ k = l + 1 + i /\ q > 0
    BY ONLY <1>10, <1>6, <2>1, SMTT(20)
  <2> QED BY <1>2, <2>2
<1>7. ASSUME NEW k \in (l + 1)..(l + 1 + q) PROVE k \notin DanglingForOpenAI(new)
  <2>1. CASE k = l + 1 /\ q > 0
    <3>1. 1 \in 1..q /\ (l + 1) + 1 = l + 1 + 1
      BY ONLY <1>10, <2>1
    <3>2. new[k + 1].role = "tool"
      BY <1>2, <1>9, <2>1, <3>1
    <3> QED BY <3>2 DEF DanglingForOpenAI
  <2>2. CASE k = l + 1 /\ ~(q > 0)
    <3>1. ~(k < Len(new))
      BY ONLY <1>2, <2>2
    <3> QED BY <3>1 DEF DanglingForOpenAI
  <2>3. CASE k \in (l + 2)..(l + 1 + q)
    <3>1. new[k].calls = <<>>
      BY <1>6, <1>9, <2>3
    <3> QED BY <3>1 DEF DanglingForOpenAI
  <2>4. k = l + 1 \/ k \in (l + 2)..(l + 1 + q)
    BY ONLY <1>10, <1>7
  <2> QED BY <2>1, <2>2, <2>3, <2>4
<1>11. ASSUME NEW k \in DOMAIN new PROVE PairedAt(new, k)
  <2>1. CASE k \in 1..l
    BY <1>5, <2>1
  <2>2. CASE k = l + 1
    <3>1. new[k] = e /\ Len(new[k].calls) = q /\ \A j \in 1..q : new[k + j] = ts[j]
      BY <1>2, <2>2, <1>9
    <3>2. k + q <= Len(new)
      BY ONLY <1>2, <2>2
    <3>3. \A j \in 1..q : ts[j].role = "tool" /\ ts[j].id = e.calls[j].id
      BY <1>9
    <3> QED BY <3>1, <3>2, <3>3 DEF PairedAt
  <2>3. CASE k \in (l + 2)..(l + 1 + q)
    <3>1. PICK i \in 1..q : k = l + 1 + i /\ new[k] = ts[i] /\ q > 0
      BY <1>6, <2>3
    <3>2. new[k].calls = <<>> /\ Len(new[k].calls) = 0
      BY <1>9, <3>1
    <3>3. new[l + 1].role = "assistant" /\ Len(new[l + 1].calls) = q
      BY <1>2, <1>9, <3>1
    <3>4. l + 1 \in 1..(k - 1) /\ l + 1 + q >= k /\ l + 1 \in (l + 1)..(l + 1 + q)
      BY ONLY <1>2, <2>3, <3>1
    <3>5. k + 0 <= Len(new) /\ 1..0 = {}
      BY ONLY <1>2, <2>3
    <3>6. IsInjective(Ids(new[k].calls))
      BY <3>2, IdsEmpty
    <3>7. l + 1 \notin DanglingForOpenAI(new)
      BY <1>7, <3>4
    <3> QED BY <3>2, <3>3, <3>4, <3>5, <3>6, <3>7 DEF PairedAt
  <2>4. k \in 1..l \/ k = l + 1 \/ k \in (l + 2)..(l + 1 + q)
    BY ONLY <1>3, <1>10, <1>11
  <2> QED BY <2>1, <2>2, <2>3, <2>4
<1>12. PairedForOpenAI(new)
  BY <1>11 DEF PairedForOpenAI, PairedAt
<1>13. DanglingForOpenAI(new) = DanglingForOpenAI(es)
  <2>1. DanglingForOpenAI(new) \subseteq 1..(l + 1 + q) /\ DanglingForOpenAI(es) \subseteq 1..l
    BY <1>3 DEF DanglingForOpenAI
  <2>2. \A k \in 1..(l + 1 + q) : k \in 1..l \/ k \in (l + 1)..(l + 1 + q)
    BY ONLY <1>10
  <2>3. \A k \in DanglingForOpenAI(new) : k \in 1..l
    BY <1>7, <2>1, <2>2
  <2> QED BY <1>5, <2>1, <2>3
<1> QED BY <1>12, <1>13

(***************************************************************************)
(* Behind entries that are paired come an entry with calls and a user      *)
(* message: the calls dangle.                                              *)
(***************************************************************************)
LEMMA BrokenAdded ==
  ASSUME NEW es \in Seq(EntryRecords), PairedForOpenAI(es),
         NEW e \in EntryRecords, e.role # "tool", e.calls # <<>>, IsInjective(Ids(e.calls)),
         NEW u \in EntryRecords, u.role = "user", u.calls = <<>>,
         NEW new, new = Splice(es, e, <<u>>)
  PROVE  PairedForOpenAI(new) /\ DanglingForOpenAI(new) # {}
<1>1. PICK l : l = Len(es)
  OBVIOUS
<1>2. PICK ts : ts = <<u>>
  OBVIOUS
<1>3. ts \in Seq(EntryRecords) /\ Len(ts) = 1 /\ ts[1] = u /\ l \in Nat
  BY <1>1, <1>2
<1>4. new \in Seq(EntryRecords) /\ Joins(new, es, e, ts)
  BY <1>2, <1>3, Spliced
<1>5. /\ Len(new) = l + 2 /\ new[l + 1] = e /\ new[l + 2] = u
      /\ \A k \in 1..l : new[k] = es[k]
  <2>1. /\ Len(new) = l + 1 + 1 /\ new[l + 1] = e /\ \A k \in 1..1 : new[l + 1 + k] = ts[k]
        /\ \A k \in 1..l : new[k] = es[k]
    BY ONLY <1>1, <1>3, <1>4 DEF Joins
  <2>2. 1 \in 1..1 /\ l + 1 + 1 = l + 2
    BY ONLY <1>3
  <2> QED BY <1>3, <2>1, <2>2
<1>6. DOMAIN new = 1..(l + 2) /\ l < Len(new) /\ l + 1 < Len(new) /\ (l + 1) + 1 = l + 2
  BY <1>3, <1>4, <1>5
<1>7. \A k \in 1..l : PairedAt(new, k)
  BY <1>1, <1>4, <1>5, <1>6, PairedExtended
<1>8. l + 1 \in DanglingForOpenAI(new)
  <2>1. l + 1 \in 1..(l + 2)
    BY ONLY <1>3
  <2> QED BY <1>5, <1>6, <2>1 DEF DanglingForOpenAI
<1>9. PairedAt(new, l + 1)
  BY <1>5, <1>8 DEF PairedAt
<1>10. PairedAt(new, l + 2)
  <2>1. new[l + 2].calls = <<>> /\ Len(new[l + 2].calls) = 0 /\ new[l + 2].role # "tool"
    BY <1>5
  <2>2. l + 2 + 0 <= Len(new) /\ 1..0 = {}
    BY ONLY <1>3, <1>5
  <2>3. IsInjective(Ids(new[l + 2].calls))
    BY <2>1, IdsEmpty
  <2> QED BY <2>1, <2>2, <2>3 DEF PairedAt
<1>11. \A k \in 1..(l + 2) : k \in 1..l \/ k = l + 1 \/ k = l + 2
  BY ONLY <1>3
<1>12. \A k \in DOMAIN new : PairedAt(new, k)
  BY <1>6, <1>7, <1>9, <1>10, <1>11
<1> QED BY <1>8, <1>12 DEF PairedForOpenAI, PairedAt

(***************************************************************************)
(* The entries of each message, and the wire of the first j messages.      *)
(***************************************************************************)
EntriesOf(ms, replay) == [k \in DOMAIN ms |-> Entries(ms[k], replay)]
Wire1(ms, replay, j) == FlattenSeq(SubSeq(EntriesOf(ms, replay), 1, j))

(***************************************************************************)
(* The wire grows by the entries of one message after the other.           *)
(***************************************************************************)
LEMMA PrefixGrows ==
  ASSUME NEW T, NEW ss \in Seq(T), NEW j \in 1..Len(ss)
  PROVE  /\ SubSeq(ss, 1, j - 1) \in Seq(T)
         /\ SubSeq(ss, 1, j) = Append(SubSeq(ss, 1, j - 1), ss[j])
OBVIOUS

LEMMA WireFacts ==
  ASSUME NEW ms \in Seq(Messages), AllKept(ms), NEW replay \in BOOLEAN
  PROVE  /\ EntriesOf(ms, replay) \in Seq(Seq(EntryRecords))
         /\ Wire1(ms, replay, 0) = <<>>
         /\ \A j \in 1..Len(ms) :
              /\ Wire1(ms, replay, j - 1) \in Seq(EntryRecords)
              /\ Wire1(ms, replay, j) = Wire1(ms, replay, j - 1) \o Entries(ms[j], replay)
              /\ Entries(ms[j], replay) \in Seq(EntryRecords)
         /\ Wire1(ms, replay, Len(ms)) = ToOpenAI(ms, replay)
<1>1. PICK ss : ss = EntriesOf(ms, replay)
  OBVIOUS
<1>2. /\ DOMAIN ss = 1..Len(ms) /\ Len(ms) \in Nat
      /\ \A j \in 1..Len(ms) : ss[j] = Entries(ms[j], replay)
  BY <1>1 DEF EntriesOf
<1>3. ASSUME NEW j \in 1..Len(ms) PROVE ss[j] \in Seq(EntryRecords)
  <2>1. ms[j] \in Messages /\ Kept(ms[j])
    BY DEF AllKept
  <2>2. CASE ms[j].role = "tool"
    BY <1>2, <2>1, <2>2, ToolEntries
  <2>3. CASE ms[j].role # "tool"
    <3>1. PICK e \in EntryRecords : Entries(ms[j], replay) = <<e>>
      BY <2>1, <2>3, PlainEntries
    <3>2. <<e>> \in Seq(EntryRecords)
      OBVIOUS
    <3> QED BY <1>2, <3>1, <3>2
  <2> QED BY <2>2, <2>3
<1>4. ss \in Seq(Seq(EntryRecords)) /\ Len(ss) = Len(ms)
  <2>1. ss = [j \in 1..Len(ms) |-> ss[j]]
    BY <1>1, <1>2 DEF EntriesOf
  <2> QED BY <1>2, <1>3, <2>1
<1>5. Wire1(ms, replay, 0) = <<>>
  <2>1. SubSeq(ss, 1, 0) = <<>>
    BY <1>4
  <2> QED BY <1>1, <2>1, FlattenEmpty DEF Wire1
<1>6. ASSUME NEW j \in 1..Len(ms)
      PROVE  /\ Wire1(ms, replay, j - 1) \in Seq(EntryRecords)
             /\ Wire1(ms, replay, j) = Wire1(ms, replay, j - 1) \o Entries(ms[j], replay)
  <2>1. PICK p : p = SubSeq(ss, 1, j - 1)
    OBVIOUS
  <2>2. p \in Seq(Seq(EntryRecords)) /\ SubSeq(ss, 1, j) = Append(p, ss[j])
    BY <1>4, <2>1, PrefixGrows
  <2>3. FlattenSeq(Append(p, ss[j])) = FlattenSeq(p) \o ss[j]
    BY <1>3, <2>2, FlattenAppend
  <2>4. FlattenSeq(p) \in Seq(EntryRecords)
    BY <2>2, FlattenTyped
  <2> QED BY <1>1, <1>2, <2>1, <2>2, <2>3, <2>4 DEF Wire1
<1>7. Wire1(ms, replay, Len(ms)) = ToOpenAI(ms, replay)
  <2>1. SubSeq(ss, 1, Len(ss)) = ss
    BY <1>4
  <2> QED BY <1>1, <1>4, <2>1 DEF Wire1, ToOpenAI, EntriesOf
<1> QED BY <1>1, <1>2, <1>3, <1>4, <1>5, <1>6, <1>7

LEMMA IdsLength ==
  ASSUME NEW T, NEW s \in Seq(T)
  PROVE  /\ Len(Ids(s)) = Len(s) /\ \A k \in 1..Len(s) : Ids(s)[k] = s[k].id
BY DEF Ids

(***************************************************************************)
(* A paired history is paired on OpenAI's wire: by induction on its        *)
(* length, the calls of a message and the results or the user message      *)
(* behind it in one step.                                                  *)
(***************************************************************************)
LEMMA OpenAIPaired ==
  ASSUME NEW ms \in Seq(Messages), AllKept(ms), NEW broken \in BOOLEAN,
         Answered(ms, broken), Settled(ms), NEW replay \in BOOLEAN
  PROVE  /\ PairedForOpenAI(ToOpenAI(ms, replay))
         /\ DanglingForOpenAI(ToOpenAI(ms, replay)) # {} <=> Broken(ms, Len(ms))
<1> DEFINE F(j) == Wire1(ms, replay, j)
           whole(j) == j = 0 \/ CallIds(ms[j]) = <<>>
           good(j) == /\ PairedForOpenAI(F(j))
                      /\ DanglingForOpenAI(F(j)) # {} <=> Broken(ms, j)
           Bad == {j \in 0..Len(ms) : whole(j) /\ ~good(j)}
<1>1. /\ F(0) = <<>>
      /\ \A j \in 1..Len(ms) :
           /\ F(j - 1) \in Seq(EntryRecords)
           /\ F(j) = F(j - 1) \o Entries(ms[j], replay)
           /\ Entries(ms[j], replay) \in Seq(EntryRecords)
      /\ F(Len(ms)) = ToOpenAI(ms, replay)
  BY WireFacts
<1>2. \A j \in 1..Len(ms) : ms[j] \in Messages /\ Kept(ms[j])
  BY DEF AllKept
<1>3. whole(Len(ms)) /\ Len(ms) \in Nat
  BY DEF Settled, Last
<1>4. Bad = {}
  <2> SUFFICES ASSUME Bad # {} PROVE FALSE
    OBVIOUS
  <2>1. Bad \subseteq Nat
    OBVIOUS
  <2>2. PICK b \in Bad : \A k \in Bad : b <= k
    <3> HIDE DEF Bad
    <3> QED BY <2>1, Least
  <2>3. b \in 0..Len(ms) /\ whole(b) /\ ~good(b)
    OBVIOUS
  <2>4. \A k \in 0..(b - 1) : whole(k) => good(k)
    <3> SUFFICES ASSUME NEW k \in 0..(b - 1), whole(k), ~good(k) PROVE FALSE
      OBVIOUS
    <3>1. k \in 0..Len(ms) /\ ~(b <= k)
      BY <1>3, <2>3
    <3>2. k \in Bad
      BY <3>1
    <3> HIDE DEF Bad
    <3> QED BY <2>2, <3>1, <3>2
  <2> HIDE DEF F, Bad
  <2>5. CASE b = 0
    <3>1. DanglingForOpenAI(F(b)) = {} /\ PairedForOpenAI(F(b)) /\ ~Broken(ms, b)
      BY <1>1, <2>5 DEF PairedForOpenAI, DanglingForOpenAI, Broken
    <3> QED BY <2>3, <3>1
  <2>8. ASSUME NEW k \in 1..Len(ms) PROVE IsInjective(CallIds(ms[k]))
    BY <1>2 DEF Kept
  <2>6. CASE b # 0 /\ ms[b].role # "tool" /\ whole(b - 1)
    <3>1. b \in 1..Len(ms) /\ b - 1 \in 0..(b - 1) /\ CallIds(ms[b]) = <<>>
      BY <1>3, <2>3, <2>6
    <3>3. good(b - 1)
      BY <2>4, <2>6, <3>1
    <3>4. PICK e \in EntryRecords : Entries(ms[b], replay) = <<e>> /\ e.role = ms[b].role /\ Ids(e.calls) = CallIds(ms[b])
      BY <1>2, <2>6, <3>1, PlainEntries
    <3>5. PICK none : none = <<>>
      OBVIOUS
    <3>6. e.calls = <<>>
      <4>1. e.calls \in Seq(Blocks)
        BY DEF EntryRecords
      <4>2. Len(Ids(e.calls)) = Len(e.calls)
        BY <4>1, IdsLength
      <4> QED BY <3>1, <3>4, <4>1, <4>2
    <3>7. F(b) = Splice(F(b - 1), e, none)
      <4>1. F(b) = F(b - 1) \o <<e>> /\ F(b - 1) \in Seq(EntryRecords)
        BY <1>1, <3>1, <3>4
      <4> QED BY <3>5, <4>1 DEF Splice
    <3>8. none \in Seq(EntryRecords) /\ Len(none) = Len(e.calls) /\ Len(none) = 0
      BY <3>5, <3>6
    <3>9. F(b - 1) \in Seq(EntryRecords) /\ e.role # "tool"
      BY <1>1, <2>6, <3>1, <3>4
    <3>10. PairedForOpenAI(F(b)) /\ DanglingForOpenAI(F(b)) = DanglingForOpenAI(F(b - 1))
      <4>1. 1..Len(none) = {} /\ ~(Len(none) > 0)
        BY <3>8
      <4>2. \A j \in 1..Len(none) : none[j].role = "tool" /\ none[j].calls = <<>> /\ none[j].id = e.calls[j].id
        BY <4>1
      <4>3. IsInjective(Ids(e.calls))
        BY <3>6, IdsEmpty
      <4>4. PICK es : es = F(b - 1)
        OBVIOUS
      <4>5. es \in Seq(EntryRecords) /\ PairedForOpenAI(es) /\ F(b) = Splice(es, e, none)
        BY <3>3, <3>7, <3>9, <4>4
      <4>7. PICK new : new = F(b)
        OBVIOUS
      <4>8. new = Splice(es, e, none) /\ (Len(none) > 0 => e.role = "assistant")
        BY <4>1, <4>5, <4>7
      <4>9. Len(none) = Len(e.calls) /\ none \in Seq(EntryRecords) /\ e.role # "tool"
        BY <3>8, <3>9
      <4> HIDE DEF whole, good
      <4>6. PairedForOpenAI(new) /\ DanglingForOpenAI(new) = DanglingForOpenAI(es)
        BY ONLY <4>2, <4>3, <4>5, <4>8, <4>9, PairAdded
      <4> QED BY <4>4, <4>6, <4>7
    <3>11. Broken(ms, b) <=> Broken(ms, b - 1)
      <4>1. \A i \in 1..(b - 1) : i \in 1..((b - 1) - 1) \/ (i = b - 1 /\ CallIds(ms[i]) = <<>>)
        BY <2>6, <3>1
      <4>2. \A i \in 1..((b - 1) - 1) : i \in 1..(b - 1)
        BY <3>1
      <4> QED BY <4>1, <4>2 DEF Broken
    <3> QED BY <2>3, <3>3, <3>10, <3>11
  <2>9. CASE b # 0 /\ ms[b].role # "tool" /\ ~whole(b - 1)
    <3>1. /\ b \in 1..Len(ms) /\ b - 1 \in 1..Len(ms) /\ b - 1 < Len(ms) /\ (b - 1) + 1 = b
          /\ CallIds(ms[b]) = <<>> /\ CallIds(ms[b - 1]) # <<>>
      BY <1>3, <2>3, <2>9
    <3>2. ms[b].role = "user"
      BY <2>9, <3>1 DEF Answered
    <3>3. b - 2 \in 0..(b - 1) /\ (b - 1) - 1 = b - 2
      BY <3>1
    <3>4. whole(b - 2)
      <4> SUFFICES ASSUME b - 2 # 0, CallIds(ms[b - 2]) # <<>> PROVE FALSE
        OBVIOUS
      <4>1. b - 2 \in 1..Len(ms) /\ b - 2 < Len(ms) /\ (b - 2) + 1 = b - 1
        BY <1>3, <3>1, <3>3
      <4>2. ms[b - 1].role \in {"tool", "user"}
        BY <4>1 DEF Answered
      <4> QED BY <1>2, <3>1, <4>2 DEF Kept
    <3>5. good(b - 2)
      BY <2>4, <3>3, <3>4
    <3>6. ms[b - 1].role # "tool"
      BY <1>2, <3>1 DEF Kept
    <3>7. PICK e \in EntryRecords : /\ Entries(ms[b - 1], replay) = <<e>> /\ e.role = ms[b - 1].role
                                    /\ Ids(e.calls) = CallIds(ms[b - 1])
      BY <1>2, <3>1, <3>6, PlainEntries
    <3>8. PICK u \in EntryRecords : /\ Entries(ms[b], replay) = <<u>> /\ u.role = ms[b].role
                                    /\ Ids(u.calls) = CallIds(ms[b])
      BY <1>2, <2>9, <3>1, PlainEntries
    <3>9. e.calls # <<>> /\ u.calls = <<>>
      <4>1. e.calls \in Seq(Blocks) /\ u.calls \in Seq(Blocks)
        BY DEF EntryRecords
      <4>2. Len(Ids(u.calls)) = Len(u.calls)
        BY <4>1, IdsLength
      <4> QED BY <3>1, <3>7, <3>8, <4>1, <4>2, IdsEmpty
    <3>10. F(b) = Splice(F(b - 2), e, <<u>>) /\ F(b - 2) \in Seq(EntryRecords)
      <4>1. /\ F(b - 1) = F(b - 2) \o <<e>> /\ F(b) = F(b - 1) \o <<u>>
            /\ F(b - 2) \in Seq(EntryRecords)
        BY <1>1, <3>1, <3>3, <3>7, <3>8
      <4> QED BY <4>1 DEF Splice
    <3>11. PairedForOpenAI(F(b)) /\ DanglingForOpenAI(F(b)) # {}
      <4>1. IsInjective(Ids(e.calls))
        BY <2>8, <3>1, <3>7
      <4> QED BY <3>2, <3>5, <3>6, <3>7, <3>8, <3>9, <3>10, <4>1, BrokenAdded
    <3>12. Broken(ms, b)
      <4>1. b - 1 \in 1..(b - 1)
        BY <3>1
      <4> QED BY <3>1, <3>2, <4>1 DEF Broken
    <3> QED BY <2>3, <3>11, <3>12
  <2>7. CASE b # 0 /\ ms[b].role = "tool"
    <3>1. /\ b \in 1..Len(ms) /\ b > 1 /\ ms[b - 1].role = "assistant"
          /\ CallIds(ms[b - 1]) = ResultIds(ms[b])
      BY <1>3, <2>3, <2>7 DEF Answered
    <3>2. b - 1 \in 1..Len(ms) /\ b - 2 \in 0..(b - 1) /\ (b - 1) - 1 = b - 2
      BY <1>3, <3>1
    <3>3. whole(b - 2)
      <4> SUFFICES ASSUME b - 2 # 0, CallIds(ms[b - 2]) # <<>> PROVE FALSE
        OBVIOUS
      <4>1. b - 2 \in 1..Len(ms) /\ b - 2 < Len(ms) /\ (b - 2) + 1 = b - 1
        BY <1>3, <3>1, <3>2
      <4>2. ms[b - 1].role \in {"tool", "user"}
        BY <4>1 DEF Answered
      <4> QED BY <3>1, <4>2
    <3>4. good(b - 2)
      BY <2>4, <3>2, <3>3
    <3>5. PICK e \in EntryRecords : /\ Entries(ms[b - 1], replay) = <<e>> /\ e.role = ms[b - 1].role
                                    /\ Ids(e.calls) = CallIds(ms[b - 1])
      BY <1>2, <3>1, <3>2, PlainEntries
    <3>6. PICK ts : ts = Entries(ms[b], replay)
      OBVIOUS
    <3>7. /\ ts \in Seq(EntryRecords) /\ Len(ts) = Len(ResultIds(ms[b]))
          /\ \A k \in 1..Len(ts) : ts[k].role = "tool" /\ ts[k].calls = <<>> /\ ts[k].id = ResultIds(ms[b])[k]
      BY <1>2, <2>7, <3>1, <3>6, ToolEntries
    <3>8. Len(ts) = Len(e.calls) /\ \A k \in 1..Len(ts) : ts[k].id = e.calls[k].id
      <4>1. e.calls \in Seq(Blocks)
        BY DEF EntryRecords
      <4>2. /\ Len(Ids(e.calls)) = Len(e.calls)
            /\ \A k \in 1..Len(e.calls) : Ids(e.calls)[k] = e.calls[k].id
        BY <4>1, IdsLength
      <4> QED BY <3>1, <3>5, <3>7, <4>2
    <3>9. F(b) = Splice(F(b - 2), e, ts)
      <4>1. F(b - 1) = F(b - 2) \o <<e>> /\ F(b) = F(b - 1) \o ts
        BY <1>1, <3>1, <3>2, <3>5, <3>6
      <4> QED BY <4>1 DEF Splice
    <3>10. F(b - 2) \in Seq(EntryRecords) /\ e.role = "assistant"
      BY <1>1, <3>1, <3>2, <3>5
    <3>11. PairedForOpenAI(F(b)) /\ DanglingForOpenAI(F(b)) = DanglingForOpenAI(F(b - 2))
      <4>1. IsInjective(Ids(e.calls))
        BY <2>8, <3>2, <3>5
      <4> QED BY <3>4, <3>7, <3>8, <3>9, <3>10, <4>1, PairAdded
    <3>12. Broken(ms, b) <=> Broken(ms, b - 2)
      <4>1. \A i \in 1..(b - 1) : \/ i \in 1..((b - 2) - 1)
                                  \/ i = b - 2 /\ CallIds(ms[i]) = <<>>
                                  \/ i = b - 1 /\ ms[i + 1].role = "tool"
        BY <2>7, <3>1, <3>3
      <4>2. \A i \in 1..((b - 2) - 1) : i \in 1..(b - 1)
        BY <3>1
      <4> QED BY <4>1, <4>2 DEF Broken
    <3> QED BY <2>3, <3>4, <3>11, <3>12
  <2> QED BY <2>5, <2>6, <2>7, <2>9
<1>5. good(Len(ms))
  BY <1>3, <1>4
<1> QED BY <1>1, <1>5

(***************************************************************************)
(* When a request is sent, each assistant message with calls is followed   *)
(* by the results of exactly these calls, in order and with distinct ids,  *)
(* and there is no other result, on either wire, but for the calls of      *)
(* turns that broke off, which dangle in front of a user message: for      *)
(* histories of any length, not compacted, or compacted with any even      *)
(* window as long as no turn has ended without a last answer.              *)
(***************************************************************************)
THEOREM Pairing == Spec => []CallsPaired
<1>1. Inv /\ Order => CallsPaired
  <2> SUFFICES ASSUME Inv, Order, phase = "streaming",
                      compacted => KeepRecent % 2 = 0 /\ ~ragged, NEW v \in Vendors
               PROVE  LET sent == Request(v, history) IN
                        IF v = "anthropic"
                          THEN PairedForAnthropic(sent) /\ (DanglingForAnthropic(sent) # {} <=> brokenOff)
                          ELSE PairedForOpenAI(sent) /\ (DanglingForOpenAI(sent) # {} <=> brokenOff)
    BY DEF CallsPaired
  <2>1. /\ history \in Seq(Messages) /\ AllKept(history) /\ SystemsFirst(history)
        /\ brokenOff \in BOOLEAN
    BY DEF Inv, Control, Recorded, AllKept
  <2>2. Answered(history, brokenOff) /\ Settled(history)
    BY StreamingSettled DEF Order, Pairs, Orderly
  <2>3. Broken(history, Len(history)) <=> brokenOff
    <3>1. ASSUME NEW i \in 1..(Len(history) - 1), CallIds(history[i]) # <<>>,
                 history[i + 1].role = "user"
          PROVE  brokenOff
      <4>1. i \in 1..Len(history) /\ i < Len(history)
        BY <2>1
      <4> QED BY <2>2, <3>1, <4>1 DEF Answered
    <3>2. ASSUME brokenOff PROVE Broken(history, Len(history))
      <4>1. ~compacted
        BY <3>2 DEF Order, Rough
      <4>2. PICK i \in 1..Len(history) : /\ CallIds(history[i]) # <<>>
                                         /\ i = Len(history) => phase = "idle"
                                         /\ i < Len(history) => history[i + 1].role = "user"
        BY <3>2, <4>1 DEF Order, Breaks
      <4>3. i \in 1..(Len(history) - 1) /\ i < Len(history)
        BY <2>1, <4>2
      <4> QED BY <4>2, <4>3 DEF Broken
    <3> QED BY <3>1, <3>2 DEF Broken
  <2>4. CASE v = "anthropic"
    <3>1. /\ PairedForAnthropic(Request("anthropic", history))
          /\ DanglingForAnthropic(Request("anthropic", history)) # {} <=> Broken(history, Len(history))
      BY <2>1, <2>2, AnthropicPaired
    <3> QED BY <2>3, <2>4, <3>1
  <2>5. CASE v # "anthropic"
    <3>1. RequiresReplay(v) \in BOOLEAN
      BY DEF RequiresReplay, IsDeepseekReasoner
    <3>2. /\ PairedForOpenAI(ToOpenAI(history, RequiresReplay(v)))
          /\ DanglingForOpenAI(ToOpenAI(history, RequiresReplay(v))) # {} <=> Broken(history, Len(history))
      BY <2>1, <2>2, <3>1, OpenAIPaired
    <3> QED BY <2>3, <2>5, <3>2 DEF Request
  <2> QED BY <2>4, <2>5
<1> QED BY <1>1, OrderInvariance, PTL

=============================================================================
