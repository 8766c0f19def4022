----------------------------- MODULE TurnProofs -----------------------------
(***************************************************************************)
(* Turn for any number of turns, iterations, attempts and tool calls.      *)
(* Proved: the types, that no turn's copy is ever ahead of the store and   *)
(* that a copy level with it contains what the store contains, and the two *)
(* action properties that follow: attributes are never lost, and messages  *)
(* are overwritten only by turns that saw them or took a version over.     *)
(* Then the histories: every executed tool's result is recorded, calls and *)
(* results are paired, ended turns are stored, and no message is lost.     *)
(***************************************************************************)
EXTENDS Turn, TLAPS, FiniteSetTheorems, SequenceTheorems

LEMMA SaidTyped ==
  ASSUME NEW role \in {"user", "assistant", "tool", "system"}, NEW t \in Turns,
         NEW ids \in SUBSET Call
  PROVE  Said(role, t, ids) \in Message
BY DEF Said, Message

LEMMA MessagesTyped ==
  ASSUME NEW s \in Stored, NEW ms \in Seq(Message)
  PROVE  /\ [s EXCEPT !.messages = ms] \in Stored
         /\ [s EXCEPT !.messages = ms].version = s.version
         /\ [s EXCEPT !.messages = ms].attributes = s.attributes
BY DEF Stored

LEMMA AppendTyped ==
  ASSUME NEW s \in Stored, NEW m \in Message
  PROVE  /\ [s EXCEPT !.messages = Append(@, m)] \in Stored
         /\ [s EXCEPT !.messages = Append(@, m)].version = s.version
         /\ [s EXCEPT !.messages = Append(@, m)].attributes = s.attributes
<1>1. s.messages \in Seq(Message)
  BY DEF Stored
<1>2. Append(s.messages, m) \in Seq(Message)
  BY <1>1
<1> QED BY <1>2, MessagesTyped

LEMMA BumpedTyped ==
  ASSUME NEW s \in Stored
  PROVE  /\ Bumped(s) \in Stored
         /\ Bumped(s) = [version |-> s.version + 1, messages |-> s.messages,
                         attributes |-> s.attributes]
BY DEF Bumped, Stored

(***************************************************************************)
(* The number of leading system messages is the length of a prefix.        *)
(***************************************************************************)
LEMMA LeadingBound ==
  ASSUME NEW ms \in Seq(Message)
  PROVE  Leading(ms) \in 0..Len(ms)
<1> DEFINE K == {k \in 1..Len(ms) : \A j \in 1..k : ms[j].role = "system"}
<1>1. Len(ms) \in Nat
  OBVIOUS
<1>2. IsFiniteSet(1..Len(ms)) /\ Cardinality(1..Len(ms)) = Len(ms)
  BY <1>1, FS_Interval
<1>3. K \in SUBSET (1..Len(ms))
  OBVIOUS
<1>4. IsFiniteSet(K) /\ Cardinality(K) <= Len(ms)
  BY <1>2, <1>3, FS_Subset
<1>5. Cardinality(K) \in Nat
  BY <1>4, FS_CardinalityType
<1>6. Leading(ms) = Cardinality(K)
  BY DEF Leading
<1> QED BY <1>1, <1>4, <1>5, <1>6

(***************************************************************************)
(* Compaction returns a sequence of messages.                              *)
(***************************************************************************)
LEMMA SummarizedTyped ==
  ASSUME NEW ms \in Seq(Message), NEW t \in Turns
  PROVE  Summarized(ms, t) \in Seq(Message)
<1> DEFINE keep == IF KeepRecent = 0 THEN Leading(ms) + 1 ELSE Len(ms) - KeepRecent + 1
<1>1. CASE Len(ms) - Leading(ms) <= KeepRecent
  BY <1>1 DEF Summarized, Compacted
<1>2. CASE ~(Len(ms) - Leading(ms) <= KeepRecent)
  <2>1. Leading(ms) \in 0..Len(ms) /\ KeepRecent \in Nat /\ Len(ms) \in Nat
    BY LeadingBound, TurnAssumption
  <2>2. Leading(ms) \in Int /\ keep \in 1..Len(ms)
    BY <1>2, <2>1
  <2>3. SubSeq(ms, 1, Leading(ms)) \in Seq(Message)
    <3>1. \A i \in 1..Leading(ms) : ms[i] \in Message
      BY <2>1
    <3> QED BY <2>2, <3>1, SubSeqProperties
  <2>4. SubSeq(ms, keep, Len(ms)) \in Seq(Message)
    <3>1. \A i \in keep..Len(ms) : ms[i] \in Message
      BY <2>1, <2>2
    <3> QED BY <2>1, <2>2, <3>1, SubSeqProperties
  <2>5. <<Said("system", t, {})>> \in Seq(Message)
    BY SaidTyped
  <2>6. SubSeq(ms, 1, Leading(ms)) \o <<Said("system", t, {})>> \in Seq(Message)
    BY <2>3, <2>5, ConcatProperties
  <2>7. SubSeq(ms, 1, Leading(ms)) \o <<Said("system", t, {})>> \o SubSeq(ms, keep, Len(ms))
           \in Seq(Message)
    BY <2>4, <2>6, ConcatProperties
  <2> QED BY <1>2, <2>7 DEF Summarized, Compacted
<1> QED BY <1>1, <1>2

(***************************************************************************)
(* The types, named one by one for the steps that change few of them.      *)
(***************************************************************************)
ControlTyped ==
  /\ pc \in [Turns -> Places]
  /\ atYield \in [Turns -> BOOLEAN]

DataTyped ==
  /\ store \in Stored \cup {Absent}
  /\ session \in [Turns -> Stored \cup {Absent}]
  /\ iteration \in [Turns -> 0..MaxIterations]
  /\ attempt \in [Turns -> 0..MaxAttempts]
  /\ calls \in [Turns -> Seq(Call)]
  /\ results \in [Turns -> SUBSET Call]
  /\ saved \in [Turns -> BOOLEAN]
  /\ outcome \in [Turns -> {"none", "completed", "raised", "cancelled"}]
  /\ ran \in [Turns -> SUBSET Call]
  /\ seen \in [Turns -> Seq(Message)]
  /\ rebased \in SUBSET Turns

PlaceOK(t) ==
  /\ pc[t] \notin {"idle", "done"} => session[t] # Absent
  /\ pc[t] \in {"idle", "done"} => ~atYield[t]
  /\ pc[t] \in InLoop => iteration[t] < MaxIterations
  /\ pc[t] \in Dispatching => calls[t] # <<>>

LEMMA TypeSplit == TypeOK <=> ControlTyped /\ DataTyped /\ \A t \in Turns : PlaceOK(t)
BY DEF TypeOK, ControlTyped, DataTyped, PlaceOK

(***************************************************************************)
(* Only the turn that takes a step can break its own PlaceOK.              *)
(***************************************************************************)
OthersUntouched(t) ==
  \A u \in Turns \ {t} : /\ pc'[u] = pc[u]
                         /\ atYield'[u] = atYield[u]
                         /\ session'[u] = session[u]
                         /\ iteration'[u] = iteration[u]
                         /\ calls'[u] = calls[u]

LEMMA OnePlace ==
  ASSUME TypeOK, NEW t \in Turns, OthersUntouched(t), PlaceOK(t)', ControlTyped', DataTyped'
  PROVE  TypeOK'
<1>1. \A u \in Turns \ {t} : PlaceOK(u)'
  BY DEF OthersUntouched, PlaceOK, TypeOK
<1> QED BY <1>1, TypeSplit DEF TypeOK, ControlTyped, DataTyped, PlaceOK

(***************************************************************************)
(* A turn that leaves through its finally block keeps the types.           *)
(***************************************************************************)
LEMMA LeaveTyped ==
  ASSUME TypeOK, NEW t \in Turns, NEW how \in {"completed", "raised", "cancelled"},
         pc[t] \notin {"idle", "done"}, Leave(t, how)
  PROVE  TypeOK'
<1>1. session[t] \in Stored
  BY DEF TypeOK
<1>2. store' \in Stored \cup {Absent}
  BY <1>1, BumpedTyped DEF Leave, Finally, TypeOK
<1>3. ControlTyped' /\ DataTyped'
  BY <1>2 DEF Leave, TypeOK, ControlTyped, DataTyped, work, ghost, Places
<1>4. OthersUntouched(t) /\ PlaceOK(t)'
  BY DEF Leave, TypeOK, OthersUntouched, PlaceOK, work, InLoop, Dispatching
<1> QED BY <1>3, <1>4, OnePlace

(***************************************************************************)
(* A step that only moves a turn's program counter keeps the types, if     *)
(* the turn may be where it goes.                                          *)
(***************************************************************************)
LEMMA MoveTyped ==
  ASSUME TypeOK, NEW t \in Turns, NEW place \in Places \ {"idle", "done"},
         GoTo(t, place) \/ YieldThen(t, place),
         UNCHANGED <<store, work, outcome, ghost>>,
         session[t] # Absent,
         place \in InLoop => iteration[t] < MaxIterations,
         place \in Dispatching => calls[t] # <<>>
  PROVE  TypeOK'
<1>1. ControlTyped' /\ DataTyped'
  BY DEF GoTo, YieldThen, TypeOK, ControlTyped, DataTyped, work, ghost
<1>2. OthersUntouched(t) /\ PlaceOK(t)'
  BY DEF GoTo, YieldThen, TypeOK, OthersUntouched, PlaceOK, work
<1> QED BY <1>1, <1>2, OnePlace

(***************************************************************************)
(* A tool call that gets its result keeps the types.                       *)
(***************************************************************************)
LEMMA CompleteTyped ==
  ASSUME TypeOK, NEW t \in Turns, pc[t] \in Dispatching, Complete(t), UNCHANGED ran
  PROVE  TypeOK'
<1>1. /\ session[t] # Absent
      /\ iteration[t] < MaxIterations
      /\ calls[t] # <<>>
      /\ calls[t] \in Seq(Call)
  BY DEF TypeOK, Dispatching, InLoop
<1>2. /\ Head(calls[t]) \in Call
      /\ Tail(calls[t]) \in Seq(Call)
      /\ Len(Tail(calls[t])) = Len(calls[t]) - 1
      /\ Len(calls[t]) \in Nat
  BY <1>1, HeadTailProperties
<1>3. NextCall(t) \in Call /\ (Len(calls[t]) # 1 => Tail(calls[t]) # <<>>)
  <2>1. NextCall(t) \in Call
    BY <1>2 DEF NextCall
  <2>2. ASSUME Tail(calls[t]) = <<>> PROVE Len(calls[t]) = 1
    <3>1. Len(Tail(calls[t])) = Len(<<>>) /\ Len(<<>>) = 0
      BY <2>2
    <3> QED BY <1>2, <3>1
  <2> QED BY <2>1, <2>2
<1>4. ControlTyped' /\ DataTyped'
  BY <1>2, <1>3 DEF Complete, YieldThen, TypeOK, ControlTyped, DataTyped, Places, Awaits
<1>5. OthersUntouched(t) /\ PlaceOK(t)'
  BY <1>1, <1>3 DEF Complete, YieldThen, TypeOK, OthersUntouched, PlaceOK, Dispatching, InLoop
<1> QED BY <1>4, <1>5, OnePlace

(***************************************************************************)
(* Every step of a turn keeps the types.                                   *)
(***************************************************************************)
LEMMA StartTyped ==
  ASSUME TypeOK, NEW t \in Turns, Start(t)
  PROVE  TypeOK'
<1>1. CASE store = Absent
  <2>1. ControlTyped' /\ DataTyped'
    BY <1>1 DEF Start, GoTo, TypeOK, ControlTyped, DataTyped, Places
  <2>2. OthersUntouched(t) /\ PlaceOK(t)'
    BY <1>1 DEF Start, GoTo, TypeOK, OthersUntouched, PlaceOK, InLoop, Dispatching
  <2> QED BY <2>1, <2>2, OnePlace
<1>2. CASE store # Absent
  <2>1. Said("user", t, {}) \in Message
    BY SaidTyped
  <2>2. store \in Stored /\ store.messages \in Seq(Message)
    BY <1>2 DEF TypeOK, Stored
  <2>3. [store EXCEPT !.messages = Append(@, Said("user", t, {}))] \in Stored
    BY <2>1, <2>2, AppendTyped
  <2> DEFINE own == [store EXCEPT !.messages = Append(@, Said("user", t, {}))]
  <2>4. /\ session' = [session EXCEPT ![t] = own]
        /\ seen' = [seen EXCEPT ![t] = store.messages]
        /\ GoTo(t, "session_start")
        /\ UNCHANGED <<store, iteration, attempt, calls, results, saved, outcome, ran, rebased>>
    BY <1>2 DEF Start
  <2>5. own \in Stored /\ own # Absent
    BY <2>3, TurnAssumption
  <2> HIDE DEF own
  <2>7. ControlTyped' /\ DataTyped'
    BY <2>2, <2>4, <2>5 DEF GoTo, TypeOK, ControlTyped, DataTyped, Places, Awaits
  <2>6. OthersUntouched(t) /\ PlaceOK(t)'
    BY <2>4, <2>5 DEF GoTo, TypeOK, OthersUntouched, PlaceOK, InLoop, Dispatching
  <2> QED BY <2>6, <2>7, OnePlace
<1> QED BY <1>1, <1>2

LEMMA LoopHeadPlace ==
  ASSUME NEW i \in 0..MaxIterations
  PROVE  /\ LoopHead(i) \in Places
         /\ LoopHead(i) \in InLoop => i < MaxIterations
         /\ LoopHead(i) \notin Dispatching
         /\ LoopHead(i) \notin {"idle", "done"}
BY TurnAssumption DEF LoopHead, Places, Awaits, InLoop, Dispatching

LEMMA ModelTyped ==
  ASSUME TypeOK, NEW t \in Turns,
         \/ SessionStarted(t) \/ CallModel(t) \/ FirstEvent(t) \/ ModelDone(t)
         \/ \E retryable \in BOOLEAN : OpenFails(t, retryable)
  PROVE  TypeOK'
<1>a. iteration[t] \in 0..MaxIterations /\ attempt[t] \in 0..MaxAttempts
  BY DEF TypeOK
<1>1. CASE SessionStarted(t)
  <2>1. session[t] # Absent
    BY <1>1 DEF SessionStarted, Awaiting, TypeOK
  <2> QED BY <1>1, <1>a, <2>1, LoopHeadPlace, MoveTyped DEF SessionStarted
<1>2. CASE CallModel(t)
  <2>1. ControlTyped' /\ DataTyped'
    BY <1>2, TurnAssumption DEF CallModel, GoTo, TypeOK, ControlTyped, DataTyped, Places,
      Awaits, ghost
  <2>2. OthersUntouched(t) /\ PlaceOK(t)'
    BY <1>2 DEF CallModel, Awaiting, GoTo, TypeOK, OthersUntouched, PlaceOK, InLoop, Dispatching
  <2> QED BY <2>1, <2>2, OnePlace
<1>3. CASE FirstEvent(t)
  <2>1. session[t] # Absent /\ iteration[t] < MaxIterations
    BY <1>3 DEF FirstEvent, Awaiting, TypeOK, InLoop
  <2>2. "stream" \in Places /\ "stream" \notin Dispatching
    BY DEF Places, Awaits, Dispatching
  <2> QED BY <1>3, <2>1, <2>2, MoveTyped DEF FirstEvent
<1>4. CASE ModelDone(t)
  <2>1. session[t] # Absent /\ iteration[t] < MaxIterations
    BY <1>4 DEF ModelDone, Awaiting, TypeOK, InLoop
  <2>2. iteration[t] + 1 \in 0..MaxIterations
    BY <1>a, <2>1, TurnAssumption
  <2>3. ControlTyped' /\ DataTyped'
    <3>1. ControlTyped'
      BY <1>4, <2>2 DEF ModelDone, GoTo, YieldThen, TypeOK, ControlTyped, Places, Awaits, ghost
    <3>2. DataTyped'
      BY <1>4, <2>2 DEF ModelDone, GoTo, YieldThen, TypeOK, DataTyped, ghost
    <3> QED BY <3>1, <3>2
  <2>4. OthersUntouched(t) /\ PlaceOK(t)'
    BY <1>4, <2>1
    DEF ModelDone, GoTo, YieldThen, TypeOK, OthersUntouched, PlaceOK, InLoop, Dispatching
  <2> QED BY <2>3, <2>4, OnePlace
<1>5. ASSUME NEW retryable \in BOOLEAN, OpenFails(t, retryable)
      PROVE  TypeOK'
  <2>1. CASE retryable /\ attempt[t] < MaxAttempts
    <3>1. attempt[t] + 1 \in 0..MaxAttempts
      BY <1>a, <2>1, TurnAssumption
    <3>2. ControlTyped' /\ DataTyped'
      BY <1>5, <2>1, <3>1 DEF OpenFails, TypeOK, ControlTyped, DataTyped, control, ghost
    <3>3. OthersUntouched(t) /\ PlaceOK(t)'
      BY <1>5, <2>1 DEF OpenFails, TypeOK, OthersUntouched, PlaceOK, control
    <3> QED BY <3>2, <3>3, OnePlace
  <2>2. CASE ~(retryable /\ attempt[t] < MaxAttempts)
    BY <1>5, <2>2, LeaveTyped DEF OpenFails, Awaiting
  <2> QED BY <2>1, <2>2
<1> QED BY <1>1, <1>2, <1>3, <1>4, <1>5

LEMMA RespondTyped ==
  ASSUME TypeOK, NEW t \in Turns, NEW n \in 0..MaxCalls, Respond(t, n)
  PROVE  TypeOK'
<1> DEFINE id(k) == <<t, iteration[t], k>>
<1>1. session[t] \in Stored /\ iteration[t] \in Nat /\ iteration[t] < MaxIterations
  <2>1. pc[t] \in {"stream", "open"}
    BY DEF Respond, Awaiting
  <2>2. session[t] # Absent /\ iteration[t] < MaxIterations
    BY <2>1 DEF TypeOK, InLoop
  <2>3. session[t] \in Stored \cup {Absent} /\ iteration[t] \in 0..MaxIterations
    BY DEF TypeOK
  <2> QED BY <2>2, <2>3, TurnAssumption
<1>2. n \in Nat /\ \A k \in 1..n : id(k) \in Call
  BY <1>1, TurnAssumption DEF Call
<1>3. Said("assistant", t, {id(k) : k \in 1..n}) \in Message
  BY <1>2, SaidTyped
<1>4. [session[t] EXCEPT !.messages = Append(@, Said("assistant", t, {id(k) : k \in 1..n}))]
         \in Stored
  BY <1>1, <1>3, AppendTyped
<1>5. [k \in 1..n |-> id(k)] \in Seq(Call)
  <2> HIDE DEF id
  <2> QED BY <1>2
<1> DEFINE own == [session[t] EXCEPT !.messages =
                     Append(@, Said("assistant", t, {id(k) : k \in 1..n}))]
           todo == [k \in 1..n |-> id(k)]
<1>6. /\ session' = [session EXCEPT ![t] = own]
      /\ calls' = [calls EXCEPT ![t] = todo]
      /\ GoTo(t, "post_llm")
      /\ UNCHANGED <<store, iteration, attempt, results, saved, outcome, ghost>>
  BY DEF Respond
<1>7. own \in Stored /\ own # Absent /\ todo \in Seq(Call)
  BY <1>4, <1>5, TurnAssumption
<1> HIDE DEF id, own, todo
<1>8. ControlTyped' /\ DataTyped'
  BY <1>6, <1>7 DEF GoTo, TypeOK, ControlTyped, DataTyped, Places, Awaits, ghost
<1>9. OthersUntouched(t) /\ PlaceOK(t)'
  BY <1>1, <1>6, <1>7 DEF GoTo, TypeOK, OthersUntouched, PlaceOK, InLoop, Dispatching
<1> QED BY <1>8, <1>9, OnePlace

LEMMA ToolTyped ==
  ASSUME TypeOK, NEW t \in Turns,
         \/ Refuse(t) \/ Allow(t) \/ HookRefuses(t) \/ Execute(t) \/ ToolSaves(t)
         \/ ToolFails(t) \/ ToolReturns(t) \/ ToolDone(t)
  PROVE  TypeOK'
<1>1. /\ pc[t] \in Dispatching
      /\ session[t] # Absent /\ iteration[t] < MaxIterations /\ calls[t] # <<>>
      /\ calls[t] \in Seq(Call)
  BY DEF Refuse, Allow, HookRefuses, Execute, ToolSaves, ToolFails, ToolReturns, ToolDone,
         Awaiting, TypeOK, Dispatching, InLoop
<1>2. CASE Refuse(t) \/ HookRefuses(t) \/ ToolFails(t) \/ ToolDone(t)
  BY <1>1, <1>2, CompleteTyped DEF Refuse, HookRefuses, ToolFails, ToolDone
<1>3. CASE Allow(t) \/ ToolReturns(t)
  <2>1. {"pre_tool", "post_tool"} \subseteq Places
    BY DEF Places, Awaits
  <2> QED BY <1>1, <1>3, <2>1, MoveTyped DEF Allow, ToolReturns
<1>4. CASE Execute(t)
  <2>1. NextCall(t) \in Call
    BY <1>1, HeadTailProperties DEF NextCall
  <2>2. ControlTyped' /\ DataTyped'
    BY <1>4, <2>1 DEF Execute, GoTo, TypeOK, ControlTyped, DataTyped, Places, Awaits, work
  <2>3. OthersUntouched(t) /\ PlaceOK(t)'
    BY <1>1, <1>4 DEF Execute, GoTo, TypeOK, OthersUntouched, PlaceOK, work, InLoop, Dispatching
  <2> QED BY <2>2, <2>3, OnePlace
<1>5. CASE ToolSaves(t)
  <2>1. store \in Stored
    BY <1>5 DEF ToolSaves, TypeOK
  <2>2. [store EXCEPT !.attributes = @ \cup {t}] \in Stored
    BY <2>1 DEF Stored
  <2>3. store' \in Stored
    BY <1>5, <2>2, BumpedTyped DEF ToolSaves
  <2> QED BY <1>5, <2>3 DEF ToolSaves, TypeOK, control, work, ghost
<1> QED BY <1>2, <1>3, <1>4, <1>5

LEMMA FinishToolsTyped ==
  ASSUME TypeOK, NEW t \in Turns, FinishTools(t), store # Absent
  PROVE  TypeOK'
<1> DEFINE own == [session[t] EXCEPT !.messages = Append(@, Said("tool", t, results[t]))]
           next == IF Compacting THEN "compaction" ELSE LoopHead(iteration[t] + 1)
<1>1. /\ session[t] \in Stored /\ store \in Stored /\ results[t] \in SUBSET Call
      /\ iteration[t] < MaxIterations /\ iteration[t] \in 0..MaxIterations
  BY DEF FinishTools, TypeOK, InLoop
<1>2. own \in Stored
  BY <1>1, SaidTyped, AppendTyped
<1>3. TakenOver(own) \in Stored
  <2> HIDE DEF own
  <2> QED BY <1>1, <1>2 DEF TakenOver, Stored
<1>4. iteration[t] + 1 \in 0..MaxIterations
  BY <1>1, TurnAssumption
<1>5. /\ next \in Places
      /\ next \in InLoop => iteration[t] + 1 < MaxIterations
      /\ next \notin Dispatching \cup {"idle", "done"}
  BY <1>4, LoopHeadPlace DEF Places, Awaits, InLoop, Dispatching
<1>6. /\ session' = [session EXCEPT ![t] = TakenOver(own)]
      /\ iteration' = [iteration EXCEPT ![t] = @ + 1]
      /\ rebased' = rebased \/ rebased' = rebased \cup {t}
      /\ YieldThen(t, next)
      /\ UNCHANGED <<store, attempt, calls, results, saved, outcome, ran, seen>>
  BY DEF FinishTools
<1>7. TakenOver(own) # Absent
  BY <1>3, TurnAssumption
<1> HIDE DEF own, next
<1>8. ControlTyped' /\ DataTyped'
  BY <1>3, <1>4, <1>5, <1>6 DEF YieldThen, TypeOK, ControlTyped, DataTyped
<1>9. OthersUntouched(t) /\ PlaceOK(t)'
  BY <1>4, <1>5, <1>6, <1>7 DEF YieldThen, TypeOK, OthersUntouched, PlaceOK
<1> QED BY <1>8, <1>9, OnePlace

(***************************************************************************)
(* A step in which a turn saves its copy and goes on.                      *)
(***************************************************************************)
LEMMA SaveTyped ==
  ASSUME TypeOK, NEW t \in Turns, session[t] \in Stored, NEW place \in {"compact", "saved"},
         store' = Bumped(session[t]),
         session' = [session EXCEPT ![t] = store'],
         seen' = [seen EXCEPT ![t] = session[t].messages],
         GoTo(t, place),
         saved' = saved \/ saved' = [saved EXCEPT ![t] = TRUE],
         UNCHANGED <<iteration, attempt, calls, results, outcome, ran, rebased>>
  PROVE  TypeOK'
<1>1. store' \in Stored /\ store' # Absent /\ session[t].messages \in Seq(Message)
  BY BumpedTyped, TurnAssumption DEF Stored
<1>2. ControlTyped' /\ DataTyped'
  BY <1>1 DEF GoTo, TypeOK, ControlTyped, DataTyped, Places, Awaits
<1>3. OthersUntouched(t) /\ PlaceOK(t)'
  BY <1>1 DEF GoTo, TypeOK, OthersUntouched, PlaceOK, InLoop, Dispatching
<1> QED BY <1>2, <1>3, OnePlace

LEMMA ClosingTyped ==
  ASSUME TypeOK, NEW t \in Turns, store # Absent,
         \/ KeepHistory(t) \/ SaveForCompaction(t) \/ Compact(t) \/ CompactFails(t)
         \/ TurnCompleteHooksDone(t) \/ SaveTurn(t) \/ Announce(t)
  PROVE  TypeOK'
<1>1. /\ session[t] \in Stored /\ session[t] # Absent /\ store \in Stored
      /\ iteration[t] \in 0..MaxIterations
      /\ pc[t] \notin {"idle", "done"}
  BY DEF KeepHistory, SaveForCompaction, Compact, CompactFails, TurnCompleteHooksDone, SaveTurn,
         Announce, Awaiting, TypeOK
<1>2. CASE KeepHistory(t) \/ CompactFails(t)
  BY <1>1, <1>2, LoopHeadPlace, MoveTyped DEF KeepHistory, CompactFails
<1>3. CASE TurnCompleteHooksDone(t) \/ Announce(t)
  <2>1. /\ {"session_end", "end"} \subseteq Places
        /\ "session_end" \notin InLoop /\ "session_end" \notin Dispatching
        /\ "end" \notin InLoop /\ "end" \notin Dispatching
    BY DEF Places, Awaits, InLoop, Dispatching
  <2> QED BY <1>1, <1>3, <2>1, MoveTyped DEF TurnCompleteHooksDone, Announce
<1>4. CASE SaveForCompaction(t)
  BY <1>1, <1>4, SaveTyped, LeaveTyped DEF SaveForCompaction
<1>5. CASE SaveTurn(t)
  BY <1>1, <1>5, SaveTyped, LeaveTyped DEF SaveTurn
<1>6. CASE Compact(t)
  <2> DEFINE new == [session[t] EXCEPT !.messages = Summarized(session[t].messages, t)]
  <2>1. Summarized(session[t].messages, t) \in Seq(Message)
    BY <1>1, SummarizedTyped DEF Stored
  <2>2. new \in Stored /\ new # Absent
    BY <1>1, <2>1, TurnAssumption DEF Stored
  <2>3. /\ session' = [session EXCEPT ![t] = new]
        /\ GoTo(t, LoopHead(iteration[t]))
        /\ UNCHANGED <<store, iteration, attempt, calls, results, saved, outcome, ghost>>
    BY <1>6 DEF Compact
  <2> HIDE DEF new
  <2>4. ControlTyped' /\ DataTyped'
    BY <1>1, <2>2, <2>3, LoopHeadPlace DEF GoTo, TypeOK, ControlTyped, DataTyped, ghost
  <2>5. OthersUntouched(t) /\ PlaceOK(t)'
    BY <1>1, <2>2, <2>3, LoopHeadPlace DEF GoTo, TypeOK, OthersUntouched, PlaceOK
  <2> QED BY <2>4, <2>5, OnePlace
<1> QED BY <1>2, <1>3, <1>4, <1>5, <1>6

LEMMA EndTyped ==
  ASSUME TypeOK, NEW t \in Turns,
         \/ Raise(t) \/ Cancel(t) \/ Abandon(t) \/ Finalize(t) \/ Return(t) \/ Resume(t)
  PROVE  TypeOK'
<1>1. CASE Raise(t) \/ Cancel(t)
  <2>1. pc[t] \notin {"idle", "done"}
    BY <1>1 DEF Raise, Cancel, Awaiting, Awaits
  <2> QED BY <1>1, <2>1, LeaveTyped DEF Raise, Cancel
<1>2. CASE Finalize(t) \/ Return(t)
  <2>1. pc[t] \notin {"idle", "done"}
    BY <1>2 DEF Finalize, Return
  <2> QED BY <1>2, <2>1, LeaveTyped DEF Finalize, Return
<1>3. CASE Abandon(t)
  <2>1. ControlTyped' /\ DataTyped'
    BY <1>3 DEF Abandon, GoTo, TypeOK, ControlTyped, DataTyped, Places, work, ghost
  <2>2. session[t] # Absent
    BY <1>3 DEF Abandon, TypeOK
  <2>3. OthersUntouched(t) /\ PlaceOK(t)'
    BY <1>3, <2>2 DEF Abandon, GoTo, TypeOK, OthersUntouched, PlaceOK, work, InLoop, Dispatching
  <2> QED BY <2>1, <2>3, OnePlace
<1>4. CASE Resume(t)
  BY <1>4 DEF Resume, TypeOK, work, ghost
<1> QED BY <1>1, <1>2, <1>3, <1>4

Inv == TypeOK /\ CopiesLevelOrStale

LEMMA TypeStep == Inv /\ [Next]_vars => TypeOK'
<1> SUFFICES ASSUME Inv, [Next]_vars PROVE TypeOK'
  OBVIOUS
<1>1. CASE UNCHANGED vars
  BY <1>1 DEF vars, control, work, ghost, Inv, TypeOK
<1>2. ASSUME NEW t \in Turns, Start(t) PROVE TypeOK'
  BY <1>2, StartTyped DEF Inv
<1>3. ASSUME NEW t \in Turns, Proceed(t) \/ Disturb(t) PROVE TypeOK'
  <2>1. pc[t] \notin {"idle", "done"} => store # Absent
    BY DEF Inv, TypeOK, CopiesLevelOrStale, CopyLevelOrStale
  <2>2. FinishTools(t) => store # Absent
    BY <2>1 DEF FinishTools
  <2>3. \/ KeepHistory(t) \/ SaveForCompaction(t) \/ Compact(t) \/ CompactFails(t)
        \/ TurnCompleteHooksDone(t) \/ SaveTurn(t) \/ Announce(t)
        => store # Absent
    BY <2>1 DEF KeepHistory, SaveForCompaction, Compact, CompactFails, TurnCompleteHooksDone,
                SaveTurn, Announce, Awaiting
  <2> QED
    BY <1>3, <2>2, <2>3, ModelTyped, RespondTyped, ToolTyped, FinishToolsTyped, ClosingTyped,
       EndTyped
    DEF Proceed, Disturb, CancelDropped, Inv
<1> QED BY <1>1, <1>2, <1>3 DEF Next, AllDone

-----------------------------------------------------------------------------
(***************************************************************************)
(* What a step does to the store and to the copies.  Either the store is   *)
(* as before and at most one copy is changed, in a way that keeps it level *)
(* or stale; or a copy that the store accepts is saved; or a tool adds an  *)
(* attribute.                                                              *)
(***************************************************************************)
SameBasis(t) ==
  /\ session'[t].version = session[t].version
  /\ session'[t].attributes = session[t].attributes
  /\ seen'[t] = seen[t]
  /\ session[t] # Absent

OnlyCopyOf(t) ==
  /\ store' = store
  /\ rebased \subseteq rebased'
  /\ \A u \in Turns \ {t} : session'[u] = session[u] /\ seen'[u] = seen[u]
  /\ session'[t] # Absent => CopyLevelOrStale(t)' \/ SameBasis(t)

Saves(t) ==
  /\ session[t] \in Stored
  /\ CanSave(store, session[t])
  /\ store' = Bumped(session[t])
  /\ rebased' = rebased
  /\ \A u \in Turns \ {t} : session'[u] = session[u] /\ seen'[u] = seen[u]
  /\ \/ session'[t] = session[t] /\ seen'[t] = seen[t]
     \/ session'[t] = store' /\ seen'[t] = session[t].messages

ToolAdds(t) ==
  /\ store \in Stored
  /\ store' = Bumped([store EXCEPT !.attributes = @ \cup {t}])
  /\ UNCHANGED <<session, seen, rebased>>

StepKind(t) == OnlyCopyOf(t) \/ Saves(t) \/ ToolAdds(t)

LEMMA LeaveKind ==
  ASSUME Inv, NEW t \in Turns, NEW how, session[t] # Absent, Leave(t, how)
  PROVE  StepKind(t)
<1>1. session[t] \in Stored
  BY DEF Inv, TypeOK
<1>2. UNCHANGED <<session, seen, rebased>>
  BY DEF Leave, work, ghost
<1>3. CASE ~saved[t] /\ CanSave(store, session[t])
  BY <1>1, <1>2, <1>3 DEF Leave, Finally, StepKind, Saves
<1>4. CASE ~(~saved[t] /\ CanSave(store, session[t]))
  BY <1>2, <1>4 DEF Leave, Finally, StepKind, OnlyCopyOf, SameBasis
<1> QED BY <1>3, <1>4

LEMMA StillKind ==
  ASSUME NEW t \in Turns, UNCHANGED <<store, session, seen, rebased>>
  PROVE  StepKind(t)
BY DEF StepKind, OnlyCopyOf, SameBasis

LEMMA StartKind ==
  ASSUME Inv, NEW t \in Turns, Start(t)
  PROVE  StepKind(t)
<1>1. CASE store = Absent
  BY <1>1, StillKind DEF Start
<1>2. CASE store # Absent
  <2> DEFINE own == [store EXCEPT !.messages = Append(@, Said("user", t, {}))]
  <2>1. store \in Stored
    BY <1>2 DEF Inv, TypeOK
  <2>2. own.version = store.version /\ own.attributes = store.attributes
    BY <2>1, SaidTyped, AppendTyped
  <2>3. /\ session' = [session EXCEPT ![t] = own]
        /\ seen' = [seen EXCEPT ![t] = store.messages]
        /\ UNCHANGED <<store, rebased>>
    BY <1>2 DEF Start
  <2> HIDE DEF own
  <2>4. session'[t] = own /\ seen'[t] = store.messages
    BY <2>3 DEF Inv, TypeOK
  <2>5. store.version <= store.version
    BY <2>1 DEF Stored
  <2>6. CopyLevelOrStale(t)'
    BY <1>2, <2>2, <2>3, <2>4, <2>5 DEF CopyLevelOrStale
  <2> QED BY <2>3, <2>6 DEF StepKind, OnlyCopyOf, Inv, TypeOK
<1> QED BY <1>1, <1>2

LEMMA RespondKind ==
  ASSUME Inv, NEW t \in Turns, NEW n \in 0..MaxCalls, Respond(t, n)
  PROVE  StepKind(t)
<1>1. session[t] # Absent /\ session[t] \in Stored
  <2>1. pc[t] \in {"stream", "open"}
    BY DEF Respond, Awaiting
  <2> QED BY <2>1 DEF Inv, TypeOK
<1>2. PICK m : session' = [session EXCEPT ![t] = [session[t] EXCEPT !.messages = Append(@, m)]]
  BY DEF Respond
<1>3. UNCHANGED <<store, seen, rebased>>
  BY DEF Respond, ghost
<1>4. /\ session'[t].version = session[t].version
      /\ session'[t].attributes = session[t].attributes
  BY <1>1, <1>2 DEF Inv, TypeOK, Stored
<1> QED BY <1>1, <1>2, <1>3, <1>4 DEF StepKind, OnlyCopyOf, SameBasis, Inv, TypeOK

LEMMA FinishToolsKind ==
  ASSUME Inv, NEW t \in Turns, FinishTools(t)
  PROVE  StepKind(t)
<1> DEFINE own == [session[t] EXCEPT !.messages = Append(@, Said("tool", t, results[t]))]
<1>1. /\ session[t] # Absent /\ session[t] \in Stored /\ results[t] \in SUBSET Call
      /\ store # Absent /\ store \in Stored /\ CopyLevelOrStale(t)
  BY DEF FinishTools, Inv, TypeOK, CopiesLevelOrStale, CopyLevelOrStale
<1>2. /\ own \in Stored
      /\ own.version = session[t].version /\ own.attributes = session[t].attributes
  BY <1>1, SaidTyped, AppendTyped
<1>3. /\ session' = [session EXCEPT ![t] = TakenOver(own)]
      /\ rebased' = IF store.version > session[t].version /\ store.messages # seen[t]
                      THEN rebased \cup {t} ELSE rebased
      /\ UNCHANGED <<store, seen>>
  BY DEF FinishTools
<1> HIDE DEF own
<1>4. session'[t] = TakenOver(own) /\ \A u \in Turns \ {t} : session'[u] = session[u]
  BY <1>3 DEF Inv, TypeOK
<1>5. CASE store.version > own.version
  <2>1. /\ session'[t].version = store.version
        /\ session'[t].attributes = store.attributes
    BY <1>2, <1>4, <1>5 DEF TakenOver, Stored
  <2>2. store.messages = seen[t] \/ t \in rebased'
    BY <1>2, <1>3, <1>5
  <2>3. store.version <= store.version
    BY <1>1 DEF Stored
  <2>4. CopyLevelOrStale(t)'
    BY <1>1, <1>3, <2>1, <2>2, <2>3 DEF CopyLevelOrStale
  <2> QED BY <1>3, <1>4, <2>4 DEF StepKind, OnlyCopyOf
<1>6. CASE ~(store.version > own.version)
  <2>1. SameBasis(t)
    BY <1>1, <1>2, <1>3, <1>4, <1>6 DEF TakenOver, SameBasis
  <2> QED BY <1>3, <1>4, <2>1 DEF StepKind, OnlyCopyOf
<1> QED BY <1>5, <1>6

LEMMA ClosingKind ==
  ASSUME Inv, NEW t \in Turns, SaveForCompaction(t) \/ SaveTurn(t) \/ Compact(t)
  PROVE  StepKind(t)
<1>1. session[t] # Absent /\ session[t] \in Stored
  BY DEF SaveForCompaction, SaveTurn, Compact, Awaiting, Inv, TypeOK
<1>2. CASE Compact(t)
  <2>1. PICK ms : session' = [session EXCEPT ![t] = [session[t] EXCEPT !.messages = ms]]
    BY <1>2 DEF Compact
  <2>2. UNCHANGED <<store, seen, rebased>>
    BY <1>2 DEF Compact, ghost
  <2>3. /\ session'[t].version = session[t].version
        /\ session'[t].attributes = session[t].attributes
    BY <1>1, <2>1 DEF Inv, TypeOK, Stored
  <2> QED BY <1>1, <2>1, <2>2, <2>3 DEF StepKind, OnlyCopyOf, SameBasis, Inv, TypeOK
<1>3. CASE (SaveForCompaction(t) \/ SaveTurn(t)) /\ CanSave(store, session[t])
  BY <1>1, <1>3 DEF SaveForCompaction, SaveTurn, StepKind, Saves, Inv, TypeOK
<1>4. CASE (SaveForCompaction(t) \/ SaveTurn(t)) /\ ~CanSave(store, session[t])
  BY <1>1, <1>4, LeaveKind DEF SaveForCompaction, SaveTurn
<1> QED BY <1>2, <1>3, <1>4

LEMMA TurnStepKind ==
  ASSUME Inv, NEW t \in Turns, Start(t) \/ Proceed(t) \/ Disturb(t)
  PROVE  StepKind(t)
<1>1. pc[t] \notin {"idle", "done"} => session[t] # Absent
  BY DEF Inv, TypeOK
<1>2. CASE Raise(t) \/ Cancel(t) \/ Finalize(t) \/ Return(t)
  <2>1. pc[t] \notin {"idle", "done"}
    BY <1>2 DEF Raise, Cancel, Finalize, Return, Awaiting, Awaits
  <2> QED BY <1>1, <1>2, <2>1, LeaveKind DEF Raise, Cancel, Finalize, Return
<1>3. ASSUME NEW retryable \in BOOLEAN, OpenFails(t, retryable) PROVE StepKind(t)
  <2>1. CASE retryable /\ attempt[t] < MaxAttempts
    BY <1>3, <2>1, StillKind DEF OpenFails, ghost
  <2>2. CASE ~(retryable /\ attempt[t] < MaxAttempts)
    BY <1>1, <1>3, <2>2, LeaveKind DEF OpenFails, Awaiting
  <2> QED BY <2>1, <2>2
<1>4. CASE \/ Resume(t) \/ SessionStarted(t) \/ CallModel(t) \/ FirstEvent(t) \/ ModelDone(t)
           \/ Refuse(t) \/ Allow(t) \/ HookRefuses(t) \/ Execute(t)
           \/ ToolFails(t) \/ ToolReturns(t) \/ ToolDone(t)
           \/ KeepHistory(t) \/ CompactFails(t)
           \/ TurnCompleteHooksDone(t) \/ Announce(t) \/ Abandon(t)
  <2>1. UNCHANGED <<store, session, seen, rebased>>
    BY <1>4 DEF Resume, SessionStarted, CallModel, FirstEvent, ModelDone, Refuse, Allow,
      HookRefuses, Execute, ToolFails, ToolReturns, ToolDone, Complete, KeepHistory,
      CompactFails, TurnCompleteHooksDone, Announce, Abandon, work, ghost
  <2> QED BY <2>1, StillKind
<1>5. CASE ToolSaves(t)
  BY <1>5 DEF ToolSaves, StepKind, ToolAdds, Inv, TypeOK, work, ghost
<1> QED
  BY <1>2, <1>3, <1>4, <1>5, StartKind, RespondKind, FinishToolsKind, ClosingKind
  DEF Proceed, Disturb, CancelDropped

(***************************************************************************)
(* Each kind of step leaves every copy level with the store or stale.      *)
(***************************************************************************)
LEMMA LevelStep ==
  ASSUME Inv, TypeOK', NEW t \in Turns, StepKind(t)
  PROVE  CopiesLevelOrStale'
<1> SUFFICES ASSUME NEW u \in Turns, session'[u] # Absent
             PROVE  CopyLevelOrStale(u)'
  BY DEF CopiesLevelOrStale
<1> USE DEF Inv
<1>1. CASE OnlyCopyOf(t)
  <2>1. CASE u # t
    BY <1>1, <2>1 DEF OnlyCopyOf, CopiesLevelOrStale, CopyLevelOrStale
  <2>2. CASE u = t
    BY <1>1, <2>2 DEF OnlyCopyOf, SameBasis, CopiesLevelOrStale, CopyLevelOrStale
  <2> QED BY <2>1, <2>2
<1>2. CASE Saves(t)
  <2>1. /\ session[t] # Absent /\ store # Absent /\ store \in Stored
        /\ store.version = session[t].version
    BY <1>2, TurnAssumption DEF Saves, CanSave, TypeOK, CopiesLevelOrStale, CopyLevelOrStale
  <2>2. /\ store' \in Stored /\ store' # Absent
        /\ store'.version = store.version + 1
        /\ store'.messages = session[t].messages
        /\ store'.attributes = session[t].attributes
    BY <1>2, <2>1, BumpedTyped, TurnAssumption DEF Saves
  <2>3. ASSUME session'[u] = session[u], seen'[u] = seen[u]
        PROVE  CopyLevelOrStale(u)'
    <3>1. session[u].version <= store.version /\ session[u] \in Stored
      BY <2>3 DEF CopiesLevelOrStale, CopyLevelOrStale, TypeOK
    <3>2. session'[u].version < store'.version
      BY <2>1, <2>2, <2>3, <3>1 DEF Stored
    <3>3. session'[u].version <= store'.version /\ session'[u].version # store'.version
      BY <2>2, <2>3, <3>1, <3>2 DEF Stored
    <3> QED BY <2>2, <3>3 DEF CopyLevelOrStale
  <2>4. ASSUME u = t, session'[t] = store', seen'[t] = session[t].messages
        PROVE  CopyLevelOrStale(u)'
    <3>1. store'.version <= store'.version
      BY <2>2 DEF Stored
    <3> QED BY <2>2, <2>4, <3>1 DEF CopyLevelOrStale
  <2> QED BY <1>2, <2>3, <2>4 DEF Saves
<1>3. CASE ToolAdds(t)
  <2>1. store \in Stored /\ session'[u] = session[u] /\ session[u] \in Stored
    BY <1>3 DEF ToolAdds, TypeOK
  <2>2. [store EXCEPT !.attributes = @ \cup {t}] \in Stored
    BY <2>1 DEF Stored
  <2>3. store' \in Stored /\ store' # Absent /\ store'.version = store.version + 1
    <3> DEFINE s == [store EXCEPT !.attributes = @ \cup {t}]
    <3>1. s \in Stored /\ store' = Bumped(s) /\ s.version = store.version
      BY <1>3, <2>1, <2>2 DEF ToolAdds, Stored
    <3> HIDE DEF s
    <3>2. store' \in Stored /\ store'.version = store.version + 1
      BY <3>1, BumpedTyped
    <3> QED BY <3>2, TurnAssumption DEF Stored
  <2>4. session[u].version <= store.version
    BY <2>1 DEF CopiesLevelOrStale, CopyLevelOrStale
  <2>5. session'[u].version <= store'.version /\ session'[u].version # store'.version
    BY <2>1, <2>3, <2>4 DEF Stored
  <2> QED BY <2>3, <2>5 DEF CopyLevelOrStale
<1> QED BY <1>1, <1>2, <1>3 DEF StepKind

LEMMA InvInit == Init => Inv
<1> SUFFICES ASSUME Init PROVE Inv
  OBVIOUS
<1>1. store \in Stored \cup {Absent}
  <2>1. ASSUME NEW m \in Seq(Message)
        PROVE  [version |-> 1, messages |-> m, attributes |-> {}] \in Stored
    BY DEF Stored
  <2>2. <<>> \in Seq(Message)
    OBVIOUS
  <2>3. [version |-> 1, messages |-> <<>>, attributes |-> {}] \in Stored
    BY <2>1, <2>2
  <2> QED BY <2>3 DEF Init
<1>2. TypeOK
  BY <1>1, TurnAssumption DEF Init, TypeOK, Places, InLoop, Dispatching
<1>3. CopiesLevelOrStale
  BY DEF Init, CopiesLevelOrStale
<1> QED BY <1>2, <1>3 DEF Inv

LEMMA InvStep == Inv /\ [Next]_vars => Inv'
<1> SUFFICES ASSUME Inv, [Next]_vars PROVE Inv'
  OBVIOUS
<1>1. TypeOK'
  BY TypeStep
<1>2. ASSUME UNCHANGED vars PROVE CopiesLevelOrStale'
  <2>1. CopiesLevelOrStale
    BY DEF Inv
  <2>2. UNCHANGED <<store, session, seen, rebased>>
    BY <1>2 DEF vars, work, ghost
  <2> QED BY <2>1, <2>2 DEF CopiesLevelOrStale, CopyLevelOrStale
<1>3. ASSUME NEW t \in Turns, Start(t) \/ Proceed(t) \/ Disturb(t)
      PROVE  CopiesLevelOrStale'
  BY <1>1, <1>3, TurnStepKind, LevelStep
<1> QED BY <1>1, <1>2, <1>3 DEF Next, AllDone, Inv

-----------------------------------------------------------------------------
(***************************************************************************)
(* Every reachable state is well typed, in particular: the iteration count *)
(* never exceeds max_iterations, a call is dispatched only while there is  *)
(* one, and no generator stands at a yield before its start or after its   *)
(* end.                                                                    *)
(***************************************************************************)
THEOREM TypeCorrect == Spec => []TypeOK
<1>1. Inv => TypeOK
  BY DEF Inv
<1> QED BY <1>1, InvInit, InvStep, PTL DEF Spec

(***************************************************************************)
(* However many turns run on a session, no copy is ahead of the store, and *)
(* a copy level with the store has its attributes and knows its messages   *)
(* unless its turn took the version over.                                  *)
(***************************************************************************)
THEOREM LockHolds == Spec => []CopiesLevelOrStale
<1>1. Inv => CopiesLevelOrStale
  BY DEF Inv
<1> QED BY <1>1, InvInit, InvStep, PTL DEF Spec

(***************************************************************************)
(* What a step does to a stored session.                                   *)
(***************************************************************************)
LEMMA StoreStep ==
  ASSUME Inv, [Next]_vars, store # Absent
  PROVE  \/ store' = store
         \/ \E t \in Turns : /\ session[t] # Absent
                             /\ store'.messages = session[t].messages
                             /\ store.messages = seen[t] \/ t \in rebased
                             /\ store.attributes \subseteq store'.attributes
         \/ /\ store'.messages = store.messages
            /\ store.attributes \subseteq store'.attributes
<1> USE DEF Inv
<1>1. CASE UNCHANGED vars
  BY <1>1 DEF vars
<1>2. ASSUME NEW t \in Turns, Saves(t)
      PROVE  /\ session[t] # Absent
             /\ store'.messages = session[t].messages
             /\ store.messages = seen[t] \/ t \in rebased
             /\ store.attributes \subseteq store'.attributes
  <2>1. session[t] # Absent /\ store.version = session[t].version
    BY <1>2, TurnAssumption DEF Saves, CanSave
  <2>2. CopyLevelOrStale(t)
    BY <2>1 DEF CopiesLevelOrStale
  <2> QED BY <1>2, <2>1, <2>2, BumpedTyped DEF Saves, CopyLevelOrStale
<1>3. ASSUME NEW t \in Turns, ToolAdds(t)
      PROVE  /\ store'.messages = store.messages
             /\ store.attributes \subseteq store'.attributes
  <2>1. [store EXCEPT !.attributes = @ \cup {t}] \in Stored
    BY <1>3 DEF ToolAdds, Stored
  <2>2. store' = Bumped([store EXCEPT !.attributes = @ \cup {t}]) /\ store \in Stored
    BY <1>3 DEF ToolAdds
  <2> QED BY <2>1, <2>2, BumpedTyped DEF Stored
<1>4. ASSUME NEW t \in Turns, OnlyCopyOf(t) PROVE store' = store
  BY <1>4 DEF OnlyCopyOf
<1> QED BY <1>1, <1>2, <1>3, <1>4, TurnStepKind DEF Next, AllDone, StepKind

(***************************************************************************)
(* No interleaving of turns, tool saves, failures and cancellations drops  *)
(* an attribute that was saved.                                            *)
(***************************************************************************)
THEOREM AttributesAreKept == Spec => AttributesKept
<1>1. Inv /\ [Next]_vars =>
        [store # Absent => store.attributes \subseteq store'.attributes]_vars
  BY StoreStep
<1> QED BY <1>1, InvInit, InvStep, PTL DEF Spec, AttributesKept

(***************************************************************************)
(* The reload after the tool calls is the only way around the optimistic   *)
(* lock: a turn that did not take a foreign version over never replaces    *)
(* messages it has not seen.                                               *)
(***************************************************************************)
THEOREM OnlyRebasedTurnsOverwrite == Spec => OverwritesOnlyWhatItSaw
<1>1. ASSUME Inv, [Next]_vars, store = Absent PROVE store' = store
  <2>1. \A t \in Turns : session[t] = Absent
    BY <1>1 DEF Inv, CopiesLevelOrStale, CopyLevelOrStale
  <2>2. ASSUME NEW t \in Turns, StepKind(t) PROVE store' = store
    BY <1>1, <2>1, <2>2, TurnAssumption DEF StepKind, OnlyCopyOf, Saves, ToolAdds
  <2> QED BY <1>1, <2>2, TurnStepKind DEF Next, AllDone, vars
<1> DEFINE BasedOnSeen ==
      store' # store /\ store'.messages # store.messages =>
        \E t \in Turns : /\ session[t] # Absent
                        /\ store'.messages = session[t].messages
                        /\ (store.messages = seen[t] \/ t \in rebased)
<1>2. Inv /\ [Next]_vars => [BasedOnSeen]_vars
  BY <1>1, StoreStep
<1>3. Spec => [][BasedOnSeen]_vars
  <2> HIDE DEF BasedOnSeen
  <2> QED BY <1>2, InvInit, InvStep, PTL DEF Spec
<1> QED BY <1>3 DEF OverwritesOnlyWhatItSaw

-----------------------------------------------------------------------------
(* The histories: every executed tool's result is recorded, calls and     *)
(* results are paired, ended turns are stored, and no message is lost.     *)

(***************************************************************************)
(* A response at place k whose calls are not answered by the message       *)
(* behind it.                                                              *)
(***************************************************************************)
Open(ms, k) ==
  /\ ms[k].role = "assistant" /\ ms[k].calls # {}
  /\ ~(k < Len(ms) /\ ms[k + 1] = Said("tool", ms[k].turn, ms[k].calls))

(***************************************************************************)
(* Paired without the turns' outcomes: results stand behind their calls,   *)
(* and an open response is the last message or followed by a user's.       *)
(***************************************************************************)
Well(ms) ==
  \A k \in 1..Len(ms) :
    /\ ms[k].role = "tool" => k > 1 /\ ms[k - 1] = Said("assistant", ms[k].turn, ms[k].calls)
    /\ Open(ms, k) /\ k < Len(ms) => ms[k + 1].role = "user"

(***************************************************************************)
(* A turn that has saved its copy and goes on to complete, or has done so; *)
(* and the other half of Paired: no such turn leaves a response open.      *)
(***************************************************************************)
Closing(t) == pc[t] \in {"saved", "end"} \/ outcome[t] = "completed"

Unended(ms) == \A k \in 1..Len(ms) : Open(ms, k) => ~Closing(ms[k].turn)

(***************************************************************************)
(* What a turn's copy does to the history it was made from.                *)
(***************************************************************************)
Extends(ms, base) ==
  Len(base) <= Len(ms) /\ \A k \in 1..Len(base) : ms[k] = base[k]

(***************************************************************************)
(* What Append does, place by place: the only fact about it used below.    *)
(***************************************************************************)
LEMMA Appended ==
  ASSUME NEW ms \in Seq(Message), NEW m \in Message
  PROVE  /\ Append(ms, m) \in Seq(Message) /\ Len(Append(ms, m)) = Len(ms) + 1 /\ Len(ms) \in Nat
         /\ \A k \in 1..Len(ms) : Append(ms, m)[k] = ms[k]
         /\ Append(ms, m)[Len(ms) + 1] = m
BY AppendProperties

LEMMA PairedIs ==
  ASSUME NEW ms \in Seq(Message)
  PROVE  Well(ms) /\ Unended(ms) => Paired(ms)
BY DEF Well, Unended, Closing, Open, Paired

LEMMA ExtendsAppend ==
  ASSUME NEW ms \in Seq(Message), NEW base \in Seq(Message), NEW m \in Message, Extends(ms, base)
  PROVE  Extends(Append(ms, m), base)
<1>1. Len(base) \in Nat
  OBVIOUS
<1> QED BY <1>1, Appended DEF Extends

LEMMA HasAppend ==
  ASSUME NEW ms \in Seq(Message), NEW m \in Message, NEW role, NEW t
  PROVE  /\ Has(ms, role, t) => Has(Append(ms, m), role, t)
         /\ m.role = role /\ m.turn = t => Has(Append(ms, m), role, t)
<1>1. ASSUME Has(ms, role, t) PROVE Has(Append(ms, m), role, t)
  <2>1. PICK k \in 1..Len(ms) : ms[k].role = role /\ ms[k].turn = t
    BY <1>1 DEF Has
  <2>2. k \in 1..Len(Append(ms, m)) /\ Append(ms, m)[k] = ms[k]
    BY <2>1, Appended
  <2> QED BY <2>1, <2>2 DEF Has
<1>2. ASSUME m.role = role, m.turn = t PROVE Has(Append(ms, m), role, t)
  <2>1. Len(ms) + 1 \in 1..Len(Append(ms, m)) /\ Append(ms, m)[Len(ms) + 1] = m
    BY Appended
  <2> QED BY <1>2, <2>1 DEF Has
<1> QED BY <1>1, <1>2

LEMMA HasExtends ==
  ASSUME NEW ms \in Seq(Message), NEW base \in Seq(Message), Extends(ms, base), NEW role,
         NEW t, Has(base, role, t)
  PROVE  Has(ms, role, t)
<1>1. PICK k \in 1..Len(base) : base[k].role = role /\ base[k].turn = t
  BY DEF Has
<1>2. k \in 1..Len(ms) /\ ms[k] = base[k]
  BY DEF Extends
<1> QED BY <1>1, <1>2 DEF Has

(***************************************************************************)
(* Appending opens nothing that was closed, except the message appended;   *)
(* and the results of an open response close it.                           *)
(***************************************************************************)
LEMMA OpenAppend ==
  ASSUME NEW ms \in Seq(Message), NEW m \in Message
  PROVE  /\ \A k \in 1..Len(ms) : Open(Append(ms, m), k) => Open(ms, k)
         /\ Open(Append(ms, m), Len(ms) + 1) => m.role = "assistant" /\ m.calls # {}
         /\ \A k \in 1..Len(ms) : k = Len(ms) /\ m = Said("tool", ms[k].turn, ms[k].calls) => ~Open(Append(ms, m), k)
<1> DEFINE q == Append(ms, m)
<1>1. /\ Len(q) = Len(ms) + 1 /\ Len(ms) \in Nat /\ q[Len(ms) + 1] = m
      /\ \A k \in 1..Len(ms) : q[k] = ms[k]
  BY Appended
<1> HIDE DEF q
<1>2. ASSUME NEW k \in 1..Len(ms), Open(q, k) PROVE Open(ms, k)
  <2>1. q[k] = ms[k] /\ (k < Len(ms) => k + 1 \in 1..Len(ms) /\ q[k + 1] = ms[k + 1]) /\ k < Len(q)
    BY <1>1
  <2> QED BY <1>2, <2>1 DEF Open
<1>3. Open(q, Len(ms) + 1) => m.role = "assistant" /\ m.calls # {}
  BY <1>1 DEF Open
<1>4. ASSUME NEW k \in 1..Len(ms), k = Len(ms), m = Said("tool", ms[k].turn, ms[k].calls)
      PROVE  ~Open(q, k)
  BY <1>1, <1>4 DEF Open
<1> QED BY <1>2, <1>3, <1>4 DEF q

(***************************************************************************)
(* When a message may be appended: not behind an open response unless it   *)
(* is a user's or its results, and results only behind their calls.        *)
(***************************************************************************)
LEMMA WellAppend ==
  ASSUME NEW ms \in Seq(Message), NEW m \in Message, Well(ms),
         Len(ms) > 0 /\ Open(ms, Len(ms)) => m.role \in {"user", "tool"},
         m.role = "tool" => Len(ms) > 0 /\ ms[Len(ms)] = Said("assistant", m.turn, m.calls)
  PROVE  Well(Append(ms, m))
<1> DEFINE q == Append(ms, m)
<1>1. /\ Len(q) = Len(ms) + 1 /\ Len(ms) \in Nat /\ q[Len(ms) + 1] = m
      /\ \A k \in 1..Len(ms) : q[k] = ms[k]
  BY Appended
<1>0. \A k \in 1..Len(ms) : Open(q, k) => Open(ms, k)
  BY OpenAppend
<1> HIDE DEF q
<1>2. ASSUME NEW k \in 1..Len(q), q[k].role = "tool"
      PROVE  k > 1 /\ q[k - 1] = Said("assistant", q[k].turn, q[k].calls)
  <2>1. CASE k = Len(ms) + 1
    BY <1>1, <1>2, <2>1
  <2>2. CASE k # Len(ms) + 1
    <3>1. k \in 1..Len(ms) /\ q[k] = ms[k]
      BY <1>1, <2>2
    <3>2. k > 1 /\ ms[k - 1] = Said("assistant", ms[k].turn, ms[k].calls)
      BY <1>2, <3>1 DEF Well
    <3>3. k - 1 \in 1..Len(ms)
      BY <3>1, <3>2
    <3> QED BY <1>1, <3>1, <3>2, <3>3
  <2> QED BY <2>1, <2>2
<1>3. ASSUME NEW k \in 1..Len(q), Open(q, k), k < Len(q)
      PROVE  q[k + 1].role = "user"
  <2>1. k \in 1..Len(ms) /\ q[k] = ms[k] /\ Open(ms, k)
    BY <1>0, <1>1, <1>3
  <2>2. CASE k < Len(ms)
    <3>1. k + 1 \in 1..Len(ms) /\ q[k + 1] = ms[k + 1]
      BY <1>1, <2>1, <2>2
    <3> QED BY <2>1, <2>2, <3>1 DEF Well
  <2>3. CASE ~(k < Len(ms))
    <3>1. k = Len(ms) /\ q[k + 1] = m /\ m.role \in {"user", "tool"}
      BY <1>1, <2>1, <2>3
    <3>2. m.role # "tool"
      <4>1. ASSUME m.role = "tool" PROVE FALSE
        <5>1. ms[k] = Said("assistant", m.turn, m.calls)
          BY <3>1, <4>1
        <5>2. m = Said("tool", ms[k].turn, ms[k].calls)
          BY <4>1, <5>1 DEF Said, Message
        <5> QED BY <1>3, <2>1, <3>1, <5>2, OpenAppend DEF q
      <4> QED BY <4>1
    <3> QED BY <3>1, <3>2
  <2> QED BY <2>2, <2>3
<1>4. Well(q)
  BY <1>2, <1>3 DEF Well
<1> QED BY <1>4 DEF q

(***************************************************************************)
(* A turn that has begun and not ended; the places at which its last       *)
(* message is a response still being answered; the places at which nothing *)
(* is open and nothing saved.                                              *)
(***************************************************************************)
Working(t) == pc[t] \notin {"idle", "done"}

Answering == Dispatching \cup {"post_llm", "results"}

Before == {"session_start", "pre_llm", "open", "stream", "turn_complete", "session_end"}

(***************************************************************************)
(* The calls of the response that are still to be dispatched.              *)
(***************************************************************************)
Left(t) == {calls[t][k] : k \in 1..Len(calls[t])}

Uncompacted == \A t \in Turns : pc[t] \notin {"compaction", "compact"}

(***************************************************************************)
(* What Start asks of a consumer.                                          *)
(***************************************************************************)
Waits(t) == Sequential => \A u \in Turns : pc[u] = "idle" \/ Replied(u)

\* What a step of turn t leaves alone.
Alone(t) ==
  \A u \in Turns \ {t} :
    /\ pc'[u] = pc[u] /\ session'[u] = session[u] /\ calls'[u] = calls[u] /\ results'[u] = results[u]
    /\ saved'[u] = saved[u] /\ outcome'[u] = outcome[u] /\ ran'[u] = ran[u]

(***************************************************************************)
(* The kinds of steps a turn takes without compaction, in terms of the     *)
(* store, its copy, and its calls and results.  The twenty-odd actions of  *)
(* the model fall into these (StepIs), and each invariant below is shown   *)
(* kind by kind.                                                           *)
(***************************************************************************)
Begins(t) ==
  /\ pc[t] = "idle" /\ pc'[t] = "session_start" /\ Waits(t)
  /\ store # Absent /\ store' = store
  /\ session'[t] \in Stored
  /\ session'[t].messages = Append(store.messages, Said("user", t, {}))
  /\ session'[t].version = store.version
  /\ saved'[t] = saved[t] /\ outcome'[t] = outcome[t] /\ ran'[t] = ran[t]

FailsToBegin(t) ==
  /\ pc[t] = "idle" /\ pc'[t] = "done" /\ Waits(t)
  /\ store = Absent /\ store' = store
  /\ session'[t] = session[t] /\ outcome'[t] = "raised"
  /\ ran'[t] = ran[t]

Kept(t) == store' = store /\ session'[t] = session[t] /\ saved'[t] = saved[t] /\ outcome'[t] = outcome[t]

Walks(t) ==
  /\ Kept(t) /\ calls'[t] = calls[t] /\ results'[t] = results[t]
  /\ \/ pc[t] \in Before /\ pc'[t] \in Before
     \/ pc[t] \in Dispatching /\ pc'[t] \in Dispatching
     \/ pc[t] \in {"saved", "end"} /\ pc'[t] \in {"saved", "end"}
     \/ pc'[t] = pc[t] /\ Working(t)
  /\ \/ ran'[t] = ran[t] /\ (pc'[t] \in {"tool", "post_tool"} <=> pc[t] \in {"tool", "post_tool"})
     \/ pc[t] = "pre_tool" /\ pc'[t] = "tool" /\ ran'[t] = ran[t] \cup {calls[t][1]}

Responds(t) ==
  \E n \in 0..MaxCalls :
    LET id == [k \in 1..n |-> <<t, iteration[t], k>>] IN
      /\ pc[t] \in {"open", "stream"} /\ pc'[t] = "post_llm"
      /\ session'[t] \in Stored
      /\ session'[t].messages = Append(session[t].messages, Said("assistant", t, {id[k] : k \in 1..n}))
      /\ session'[t].version = session[t].version
      /\ calls'[t] = id
      /\ store' = store /\ saved'[t] = saved[t] /\ outcome'[t] = outcome[t] /\ ran'[t] = ran[t]

Decides(t) ==
  /\ Kept(t) /\ calls'[t] = calls[t] /\ ran'[t] = ran[t]
  /\ pc[t] = "post_llm"
  /\ \/ pc'[t] = "turn_complete" /\ calls[t] = <<>>
     \/ pc'[t] = "permission" /\ calls[t] # <<>> /\ results'[t] = {}

Completes(t) ==
  /\ Kept(t) /\ ran'[t] = ran[t]
  /\ pc[t] \in Dispatching
  /\ pc'[t] = IF Len(calls[t]) = 1 THEN "results" ELSE "permission"
  /\ results'[t] = results[t] \cup {calls[t][1]}
  /\ calls'[t] = Tail(calls[t])

Finishes(t) ==
  /\ pc[t] = "results" /\ pc'[t] \in Before
  /\ store' = store /\ saved'[t] = saved[t] /\ outcome'[t] = outcome[t] /\ ran'[t] = ran[t]
  /\ session'[t] \in Stored
  /\ session'[t].messages = Append(session[t].messages, Said("tool", t, results[t]))
  /\ session'[t].version = session[t].version \/ session'[t].version = store.version

SavesTurn(t) ==
  /\ pc[t] = "session_end" /\ pc'[t] = "saved"
  /\ CanSave(store, session[t])
  /\ store' = Bumped(session[t])
  /\ session'[t] = store' /\ saved'[t] = TRUE /\ outcome'[t] = outcome[t] /\ ran'[t] = ran[t]

ToolWrites(t) ==
  /\ pc[t] = "tool" /\ pc'[t] = "tool"
  /\ store # Absent /\ store' = Bumped([store EXCEPT !.attributes = @ \cup {t}])
  /\ session'[t] = session[t] /\ saved'[t] = saved[t] /\ outcome'[t] = outcome[t]
  /\ calls'[t] = calls[t] /\ results'[t] = results[t] /\ ran'[t] = ran[t]

Leaves(t) ==
  /\ Working(t) /\ pc'[t] = "done"
  /\ store' = IF ~saved[t] /\ CanSave(store, session[t]) THEN Bumped(session[t]) ELSE store
  /\ session'[t] = session[t] /\ saved'[t] = saved[t] /\ ran'[t] = ran[t]
  /\ outcome'[t] \in {"completed", "raised", "cancelled"}
  /\ outcome'[t] = "completed" => pc[t] = "end"

Abandons(t) ==
  /\ CancelAtYield
  /\ Working(t) /\ pc'[t] = "orphaned"
  /\ store' = store /\ session'[t] = session[t] /\ saved'[t] = saved[t] /\ ran'[t] = ran[t]
  /\ outcome'[t] = "cancelled"

(***************************************************************************)
(* Which action is a step of which kind.                                   *)
(***************************************************************************)
LEMMA LeavesIs ==
  ASSUME TypeOK, NEW t \in Turns, NEW how \in {"completed", "raised", "cancelled"}, Leave(t, how), Working(t),
         how = "completed" => pc[t] = "end"
  PROVE  Leaves(t) /\ Alone(t)
<1>1. Alone(t)
  BY DEF Leave, work, ghost, Alone, TypeOK
<1>2. outcome'[t] = how /\ pc'[t] = "done"
  BY DEF Leave, TypeOK
<1>3. UNCHANGED <<session, saved, ran>> /\ Finally(t)
  BY DEF Leave, work, ghost
<1> QED BY <1>1, <1>2, <1>3 DEF Leaves, Finally

LEMMA GrownIs ==
  ASSUME NEW s \in Stored, NEW m \in Message
  PROVE  /\ [s EXCEPT !.messages = Append(@, m)] \in Stored
         /\ [s EXCEPT !.messages = Append(@, m)].messages = Append(s.messages, m)
         /\ [s EXCEPT !.messages = Append(@, m)].version = s.version
<1>1. [s EXCEPT !.messages = Append(@, m)].messages = Append(s.messages, m)
  BY DEF Stored
<1> QED BY <1>1, AppendTyped

LEMMA WalksIs ==
  ASSUME TypeOK, NEW t \in Turns,
         \/ Resume(t) \/ SessionStarted(t) \/ CallModel(t) \/ FirstEvent(t) \/ Allow(t) \/ Execute(t)
         \/ ToolReturns(t) \/ TurnCompleteHooksDone(t) \/ Announce(t)
  PROVE  Walks(t) /\ Alone(t)
<1> USE DEF TypeOK, Alone, Walks, Kept, Working, GoTo, YieldThen, Awaiting, work, ghost,
  Before, Dispatching
<1>0. calls[t] \in Seq(Call)
  OBVIOUS
<1>1. CASE Resume(t)
  BY <1>1 DEF Resume
<1>2. CASE SessionStarted(t)
  BY <1>2 DEF SessionStarted, LoopHead
<1>3. CASE CallModel(t)
  BY <1>3 DEF CallModel
<1>4. CASE FirstEvent(t)
  BY <1>4 DEF FirstEvent
<1>5. CASE Allow(t)
  BY <1>5 DEF Allow
<1>6. CASE Execute(t)
  <2>1. calls[t] # <<>>
    BY <1>6 DEF Execute
  <2>2. NextCall(t) = calls[t][1]
    BY <1>0, <2>1, HeadTailProperties DEF NextCall
  <2> QED BY <1>6, <2>2 DEF Execute
<1>7. CASE ToolReturns(t)
  BY <1>7 DEF ToolReturns
<1>8. CASE TurnCompleteHooksDone(t)
  BY <1>8 DEF TurnCompleteHooksDone
<1>9. CASE Announce(t)
  BY <1>9 DEF Announce
<1> QED BY <1>1, <1>2, <1>3, <1>4, <1>5, <1>6, <1>7, <1>8, <1>9

LEMMA CompletesIs ==
  ASSUME TypeOK, NEW t \in Turns, Refuse(t) \/ HookRefuses(t) \/ ToolFails(t) \/ ToolDone(t)
  PROVE  Completes(t) /\ Alone(t)
<1>1. pc[t] \in Dispatching /\ Complete(t) /\ UNCHANGED ran
  BY DEF Refuse, HookRefuses, ToolFails, ToolDone, Awaiting, Dispatching
<1>2. calls[t] \in Seq(Call) /\ calls[t] # <<>>
  BY <1>1 DEF TypeOK
<1>3. NextCall(t) = calls[t][1]
  BY <1>2, HeadTailProperties DEF NextCall
<1>4. /\ pc' = [pc EXCEPT ![t] = IF Len(calls[t]) = 1 THEN "results" ELSE "permission"]
      /\ results' = [results EXCEPT ![t] = @ \cup {calls[t][1]}]
      /\ calls' = [calls EXCEPT ![t] = Tail(@)]
      /\ UNCHANGED <<store, session, saved, outcome>>
  BY <1>1, <1>3 DEF Complete, YieldThen
<1> QED BY <1>1, <1>4 DEF Completes, Kept, Alone, TypeOK

LEMMA BeginsIs ==
  ASSUME TypeOK, NEW t \in Turns, Start(t)
  PROVE  (Begins(t) \/ FailsToBegin(t)) /\ Alone(t)
<1>w. Waits(t)
  BY DEF Start, Waits
<1>1. CASE store = Absent
  BY <1>w, <1>1 DEF Start, GoTo, TypeOK, FailsToBegin, Alone
<1>2. CASE store # Absent
  <2> DEFINE own == [store EXCEPT !.messages = Append(@, Said("user", t, {}))]
  <2>1. store \in Stored /\ Said("user", t, {}) \in Message
    BY <1>2, SaidTyped DEF TypeOK
  <2>2. own \in Stored /\ own.messages = Append(store.messages, Said("user", t, {})) /\ own.version = store.version
    BY <2>1, GrownIs
  <2>3. session' = [session EXCEPT ![t] = own] /\ pc[t] = "idle" /\ pc' = [pc EXCEPT ![t] = "session_start"]
        /\ UNCHANGED <<store, calls, results, saved, outcome, ran>>
    BY <1>2 DEF Start, GoTo
  <2> HIDE DEF own
  <2> QED BY <1>w, <1>2, <2>2, <2>3 DEF TypeOK, Begins, Alone
<1> QED BY <1>1, <1>2

LEMMA RespondsIs ==
  ASSUME TypeOK, NEW t \in Turns, NEW n \in 0..MaxCalls, Respond(t, n)
  PROVE  Responds(t) /\ Alone(t)
<1> DEFINE id == [k \in 1..n |-> <<t, iteration[t], k>>]
           m == Said("assistant", t, {id[k] : k \in 1..n})
           own == [session[t] EXCEPT !.messages = Append(@, m)]
<1>1. pc[t] \in {"open", "stream"}
  BY DEF Respond, Awaiting
<1>2. session[t] \in Stored /\ iteration[t] \in Nat
  <2>1. session[t] # Absent /\ iteration[t] < MaxIterations
    BY <1>1 DEF TypeOK, InLoop
  <2>2. session[t] \in Stored \cup {Absent} /\ iteration[t] \in 0..MaxIterations
    BY DEF TypeOK
  <2> QED BY <2>1, <2>2, TurnAssumption
<1>3. \A k \in 1..n : id[k] \in Call
  BY <1>2, TurnAssumption DEF Call
<1>4. m \in Message
  BY <1>3, SaidTyped
<1>5. own \in Stored /\ own.messages = Append(session[t].messages, m) /\ own.version = session[t].version
  BY <1>2, <1>4, GrownIs
<1>6. {id[k] : k \in 1..n} = {<<t, iteration[t], k>> : k \in 1..n}
  OBVIOUS
<1>7. session' = [session EXCEPT ![t].messages = Append(@, m)]
  BY <1>6 DEF Respond
<1>8. session' = [session EXCEPT ![t] = own]
  BY <1>7
<1>9. calls' = [calls EXCEPT ![t] = id] /\ pc' = [pc EXCEPT ![t] = "post_llm"]
      /\ UNCHANGED <<store, results, saved, outcome, ran>>
  BY DEF Respond, GoTo, ghost
<1>10. Alone(t)
  BY <1>8, <1>9 DEF Alone, TypeOK
<1>11. session'[t] = own /\ calls'[t] = id /\ pc'[t] = "post_llm"
  BY <1>8, <1>9 DEF TypeOK
<1> HIDE DEF own
<1> QED BY <1>1, <1>5, <1>9, <1>10, <1>11 DEF Responds

LEMMA FinishesIs ==
  ASSUME TypeOK, NEW t \in Turns, FinishTools(t), store # Absent, ~Compacting
  PROVE  Finishes(t) /\ Alone(t)
<1> DEFINE own == [session[t] EXCEPT !.messages = Append(@, Said("tool", t, results[t]))]
<1>1. pc[t] = "results" /\ session[t] \in Stored /\ store \in Stored /\ results[t] \in SUBSET Call
  BY DEF FinishTools, TypeOK
<1>2. own \in Stored /\ own.messages = Append(session[t].messages, Said("tool", t, results[t]))
      /\ own.version = session[t].version
  BY <1>1, SaidTyped, GrownIs
<1>3. session' = [session EXCEPT ![t] = TakenOver(own)]
      /\ pc' = [pc EXCEPT ![t] = LoopHead(iteration[t] + 1)]
      /\ UNCHANGED <<store, calls, results, saved, outcome, ran>>
  BY DEF FinishTools, YieldThen
<1> HIDE DEF own
<1>4. TakenOver(own) \in Stored /\ TakenOver(own).messages = own.messages
      /\ (TakenOver(own).version = own.version \/ TakenOver(own).version = store.version)
  BY <1>1, <1>2 DEF TakenOver, Stored
<1>5. Alone(t)
  BY <1>3 DEF Alone, TypeOK
<1>6. pc'[t] \in Before /\ session'[t] = TakenOver(own)
  BY <1>3 DEF TypeOK, LoopHead, Before
<1> QED BY <1>1, <1>2, <1>3, <1>4, <1>5, <1>6 DEF Finishes

LEMMA SavesTurnIs ==
  ASSUME TypeOK, NEW t \in Turns, SaveTurn(t)
  PROVE  (SavesTurn(t) \/ Leaves(t)) /\ Alone(t)
<1>0. pc[t] = "session_end" /\ Working(t)
  BY DEF SaveTurn, Awaiting, Working
<1>1. CASE CanSave(store, session[t])
  BY <1>0, <1>1 DEF SaveTurn, GoTo, SavesTurn, Alone, TypeOK
<1>2. CASE ~CanSave(store, session[t])
  BY <1>0, <1>2, LeavesIs DEF SaveTurn
<1> QED BY <1>1, <1>2

Kind(t) ==
  \/ Begins(t) \/ FailsToBegin(t) \/ Walks(t) \/ Responds(t) \/ Decides(t) \/ Completes(t)
  \/ Finishes(t) \/ SavesTurn(t) \/ ToolWrites(t) \/ Leaves(t) \/ Abandons(t)

(***************************************************************************)
(* Every step of a turn is of one of the kinds, and leaves the other turns *)
(* alone.                                                                  *)
(***************************************************************************)
LEMMA StepIs ==
  ASSUME Inv, Uncompacted, ~Compacting, NEW t \in Turns, Start(t) \/ Proceed(t) \/ Disturb(t)
  PROVE  Kind(t) /\ Alone(t)
<1> USE DEF Kind
<1>0. TypeOK
  BY DEF Inv
<1>1. CASE Start(t)
  BY <1>0, <1>1, BeginsIs
<1>2. CASE \/ Resume(t) \/ SessionStarted(t) \/ CallModel(t) \/ FirstEvent(t) \/ Allow(t) \/ Execute(t)
           \/ ToolReturns(t) \/ TurnCompleteHooksDone(t) \/ Announce(t)
  BY <1>0, <1>2, WalksIs
<1>3. CASE ModelDone(t)
  <2>1. pc[t] = "post_llm" /\ UNCHANGED <<store, session, calls, saved, outcome, ran>>
    BY <1>3 DEF ModelDone, Awaiting, ghost
  <2>2. CASE calls[t] = <<>>
    <3>1. pc' = [pc EXCEPT ![t] = "turn_complete"] /\ results' = results
      BY <1>3, <2>2 DEF ModelDone, YieldThen
    <3>2. pc'[t] = "turn_complete" /\ Alone(t)
      BY <1>0, <2>1, <3>1 DEF Alone, TypeOK
    <3> QED BY <2>1, <2>2, <3>2 DEF Decides, Kept
  <2>3. CASE calls[t] # <<>>
    <3>1. pc' = [pc EXCEPT ![t] = "permission"] /\ results' = [results EXCEPT ![t] = {}]
      BY <1>3, <2>3 DEF ModelDone, GoTo
    <3>2. pc'[t] = "permission" /\ results'[t] = {} /\ Alone(t)
      BY <1>0, <2>1, <3>1 DEF Alone, TypeOK
    <3> QED BY <2>1, <2>3, <3>2 DEF Decides, Kept
  <2> QED BY <2>2, <2>3
<1>4. ASSUME NEW retryable \in BOOLEAN, OpenFails(t, retryable) PROVE Kind(t) /\ Alone(t)
  <2>1. pc[t] = "open" /\ Working(t)
    BY <1>4 DEF OpenFails, Awaiting, Working
  <2>2. CASE retryable /\ attempt[t] < MaxAttempts
    BY <1>0, <1>4, <2>1, <2>2 DEF OpenFails, control, ghost, Walks, Kept, Alone
  <2>3. CASE ~(retryable /\ attempt[t] < MaxAttempts)
    <3>1. Leave(t, "raised")
      BY <1>4, <2>3 DEF OpenFails
    <3> QED BY <1>0, <2>1, <3>1, LeavesIs
  <2> QED BY <2>2, <2>3
<1>5. ASSUME NEW n \in 0..MaxCalls, Respond(t, n) PROVE Kind(t) /\ Alone(t)
  BY <1>0, <1>5, RespondsIs
<1>6. CASE Refuse(t) \/ HookRefuses(t) \/ ToolFails(t) \/ ToolDone(t)
  BY <1>0, <1>6, CompletesIs
<1>7. CASE FinishTools(t)
  <2>1. session[t] # Absent
    BY <1>0, <1>7 DEF FinishTools, TypeOK
  <2>2. store # Absent
    BY <2>1 DEF Inv, CopiesLevelOrStale, CopyLevelOrStale
  <2> QED BY <1>0, <1>7, <2>2, FinishesIs
<1>8. CASE SaveTurn(t)
  BY <1>0, <1>8, SavesTurnIs
<1>9. CASE Return(t) \/ Finalize(t)
  BY <1>0, <1>9, LeavesIs DEF Return, Finalize, Working
<1>10. CASE Raise(t) \/ Cancel(t)
  <2>1. Working(t)
    BY <1>10 DEF Raise, Cancel, Awaiting, Awaits, Working
  <2> QED BY <1>0, <1>10, <2>1, LeavesIs DEF Raise, Cancel
<1>11. CASE ToolSaves(t)
  BY <1>0, <1>11 DEF ToolSaves, Awaiting, control, work, ghost, ToolWrites, Alone
<1>12. CASE Abandon(t)
  <2>1. Working(t)
    BY <1>0, <1>12 DEF Abandon, TypeOK, Working
  <2> QED BY <1>0, <1>12, <2>1 DEF Abandon, GoTo, work, ghost, Abandons, Alone, TypeOK
<1>13. ~(KeepHistory(t) \/ SaveForCompaction(t) \/ Compact(t) \/ CompactFails(t))
  BY DEF Uncompacted, KeepHistory, SaveForCompaction, Compact, CompactFails, Awaiting
<1> QED
  BY <1>1, <1>2, <1>3, <1>4, <1>5, <1>6, <1>7, <1>8, <1>9, <1>10, <1>11, <1>12, <1>13
  DEF Proceed, Disturb, CancelDropped

(***************************************************************************)
(* The tool that is running or has just run, and has no result yet.        *)
(***************************************************************************)
InHand(t) == IF pc[t] \in {"tool", "post_tool"} THEN {calls[t][1]} ELSE {}

(***************************************************************************)
(* The calls a history has results for.                                    *)
(***************************************************************************)
Shown(ms) == UNION {ms[k].calls : k \in {j \in 1..Len(ms) : ms[j].role = "tool"}}

Past(t) == pc[t] \in Before \cup {"post_llm", "saved", "end"}

(***************************************************************************)
(* Where a turn's executed calls are: while it answers a response, in the  *)
(* history, in the results collected, or in hand; after that, in the       *)
(* history.                                                                *)
(***************************************************************************)
Recorded(t) ==
  /\ pc[t] \in Dispatching \cup {"results"} =>
       ran[t] \subseteq Shown(session[t].messages) \cup results[t] \cup InHand(t)
  /\ Past(t) => ran[t] \subseteq Shown(session[t].messages)
  /\ pc[t] = "idle" => ran[t] = {}
  /\ pc[t] # "orphaned" /\ pc[t] # "done" => outcome[t] = "none"
  /\ outcome[t] = "completed" => ran[t] \subseteq Shown(session[t].messages)

AllRecorded == \A t \in Turns : Recorded(t)

LEMMA ShownAppend ==
  ASSUME NEW ms \in Seq(Message), NEW m \in Message
  PROVE  /\ Shown(ms) \subseteq Shown(Append(ms, m))
         /\ m.role = "tool" => m.calls \subseteq Shown(Append(ms, m))
<1> DEFINE q == Append(ms, m)
<1>1. /\ Len(q) = Len(ms) + 1 /\ Len(ms) \in Nat /\ q[Len(ms) + 1] = m
      /\ \A k \in 1..Len(ms) : q[k] = ms[k]
  BY Appended
<1> HIDE DEF q
<1>2. ASSUME NEW c \in Shown(ms) PROVE c \in Shown(q)
  <2>1. PICK k \in 1..Len(ms) : ms[k].role = "tool" /\ c \in ms[k].calls
    BY DEF Shown
  <2>2. k \in 1..Len(q) /\ q[k] = ms[k]
    BY <1>1
  <2> QED BY <2>1, <2>2 DEF Shown
<1>3. ASSUME m.role = "tool" PROVE m.calls \subseteq Shown(q)
  <2>1. Len(ms) + 1 \in 1..Len(q)
    BY <1>1
  <2> QED BY <1>1, <1>3, <2>1 DEF Shown
<1> QED BY <1>2, <1>3 DEF q

LEMMA UncompactedStep ==
  ASSUME Uncompacted, NEW t \in Turns, Kind(t), Alone(t)
  PROVE  Uncompacted'
<1>1. pc'[t] \notin {"compaction", "compact"}
  BY DEF Uncompacted, Kind, Begins, FailsToBegin, Walks, Responds, Decides, Completes, Finishes,
         SavesTurn, ToolWrites, Leaves, Abandons, Before, Dispatching
<1> QED BY <1>1 DEF Uncompacted, Alone

LEMMA RecordedStep ==
  ASSUME TypeOK, AllRecorded, Uncompacted, NEW t \in Turns, Kind(t), Alone(t)
  PROVE  AllRecorded'
<1>1. ASSUME NEW u \in Turns \ {t} PROVE Recorded(u)'
  <2>1. /\ pc'[u] = pc[u] /\ session'[u] = session[u] /\ calls'[u] = calls[u] /\ results'[u] = results[u]
        /\ saved'[u] = saved[u] /\ outcome'[u] = outcome[u] /\ ran'[u] = ran[u]
    BY DEF Alone
  <2>2. Recorded(u)
    BY DEF AllRecorded
  <2> QED BY <2>1, <2>2 DEF Recorded, InHand, Past
<1>2. Recorded(t)
  BY DEF AllRecorded
<1>3. Recorded(t)'
  <2> USE DEF Before, Dispatching, Past
  <2>0. Working(t) => session[t] \in Stored /\ session[t].messages \in Seq(Message)
    BY DEF TypeOK, Working, Stored
  <2>1. CASE Begins(t)
    BY <1>2, <2>1 DEF Begins, Recorded
  <2>2. CASE FailsToBegin(t)
    BY <1>2, <2>2 DEF FailsToBegin, Recorded
  <2>3. CASE Walks(t)
    <3>1. pc[t] \in Dispatching => calls[t] # <<>>
      BY DEF TypeOK
    <3>2. Kept(t) /\ calls'[t] = calls[t] /\ results'[t] = results[t]
      BY <2>3 DEF Walks
    <3>3. CASE ran'[t] = ran[t] /\ (pc'[t] \in {"tool", "post_tool"} <=> pc[t] \in {"tool", "post_tool"})
      <4>1. InHand(t)' = InHand(t)
        BY <3>2, <3>3 DEF InHand
      <4> QED BY <1>2, <2>3, <3>2, <3>3, <4>1 DEF Walks, Kept, Recorded, Working
    <3>4. CASE pc[t] = "pre_tool" /\ pc'[t] = "tool" /\ ran'[t] = ran[t] \cup {calls[t][1]}
      <4>1. InHand(t)' = {calls[t][1]} /\ InHand(t) = {}
        BY <3>2, <3>4 DEF InHand
      <4> QED BY <1>2, <3>2, <3>4, <4>1 DEF Kept, Recorded
    <3> QED BY <2>3, <3>3, <3>4 DEF Walks
  <2>4. CASE Responds(t)
    <3>1. PICK n \in 0..MaxCalls :
             LET id == [k \in 1..n |-> <<t, iteration[t], k>>] IN
               /\ pc[t] \in {"open", "stream"} /\ pc'[t] = "post_llm"
               /\ session'[t] \in Stored
               /\ session'[t].messages = Append(session[t].messages, Said("assistant", t, {id[k] : k \in 1..n}))
               /\ outcome'[t] = outcome[t] /\ ran'[t] = ran[t]
      BY <2>4 DEF Responds
    <3> DEFINE m == Said("assistant", t, {<<t, iteration[t], k>> : k \in 1..n})
    <3>2. pc[t] \in {"open", "stream"} /\ pc'[t] = "post_llm" /\ outcome'[t] = outcome[t] /\ ran'[t] = ran[t]
          /\ session'[t].messages = Append(session[t].messages, m)
      BY <3>1
    <3>3. m \in Message
      <4>1. iteration[t] \in Nat
        BY TurnAssumption DEF TypeOK
      <4>2. \A k \in 1..n : <<t, iteration[t], k>> \in Call
        BY <4>1, TurnAssumption DEF Call
      <4> QED BY <4>2, SaidTyped
    <3> HIDE DEF m
    <3>4. Shown(session[t].messages) \subseteq Shown(session'[t].messages)
      BY <2>0, <3>2, <3>3, ShownAppend DEF Working
    <3> QED BY <1>2, <3>2, <3>4 DEF Recorded
  <2>5. CASE Decides(t)
    BY <1>2, <2>5 DEF Decides, Kept, Recorded, InHand
  <2>6. CASE Completes(t)
    <3>1. /\ pc[t] \in Dispatching /\ pc'[t] \in {"results", "permission"}
          /\ results'[t] = results[t] \cup {calls[t][1]}
          /\ ran'[t] = ran[t] /\ session'[t] = session[t] /\ outcome'[t] = outcome[t]
      BY <2>6 DEF Completes, Kept
    <3>2. InHand(t) \subseteq {calls[t][1]}
      BY DEF InHand
    <3> QED BY <1>2, <3>1, <3>2 DEF Recorded
  <2>7. CASE Finishes(t)
    <3>1. Shown(session[t].messages) \cup results[t] \subseteq Shown(session'[t].messages)
      <4>1. Said("tool", t, results[t]) \in Message /\ Said("tool", t, results[t]).role = "tool"
            /\ Said("tool", t, results[t]).calls = results[t]
        BY SaidTyped DEF TypeOK, Said
      <4> QED BY <2>0, <2>7, <4>1, ShownAppend DEF Finishes, Working
    <3>2. InHand(t) = {}
      BY <2>7 DEF InHand, Finishes
    <3> QED BY <1>2, <2>7, <3>1, <3>2 DEF Finishes, Recorded
  <2>8. CASE SavesTurn(t)
    <3>1. session'[t].messages = session[t].messages
      BY <2>0, <2>8, BumpedTyped DEF SavesTurn, Working, Stored
    <3> QED BY <1>2, <2>8, <3>1 DEF SavesTurn, Recorded
  <2>9. CASE ToolWrites(t)
    BY <1>2, <2>9 DEF ToolWrites, Recorded, InHand
  <2>10. CASE Leaves(t)
    BY <1>2, <2>10 DEF Leaves, Recorded
  <2>11. CASE Abandons(t)
    BY <1>2, <2>11 DEF Abandons, Recorded
  <2> QED BY <2>1, <2>2, <2>3, <2>4, <2>5, <2>6, <2>7, <2>8, <2>9, <2>10, <2>11 DEF Kind
<1> QED BY <1>1, <1>3 DEF AllRecorded

LEMMA RecordedInit == Init => Uncompacted /\ AllRecorded
BY DEF Init, Uncompacted, AllRecorded, Recorded, Dispatching, Past, Before

(***************************************************************************)
(* A step of the system that changes anything is a step of some turn.      *)
(***************************************************************************)
LEMMA NextIs ==
  ASSUME Inv, Uncompacted, ~Compacting, Next, ~UNCHANGED vars
  PROVE  \E t \in Turns : Kind(t) /\ Alone(t)
BY StepIs DEF Next, AllDone

(***************************************************************************)
(* Without compaction, and whatever other turns run, save or are dropped   *)
(* on the session, the history of a completed turn has a result for every  *)
(* tool it executed.                                                       *)
(***************************************************************************)
THEOREM ToolEffectsAreRecorded == ~Compacting => (Spec => []EffectsRecorded)
<1> SUFFICES ASSUME ~Compacting PROVE Spec => []EffectsRecorded
  OBVIOUS
<1>1. Inv /\ Uncompacted /\ AllRecorded /\ [Next]_vars => (Uncompacted /\ AllRecorded)'
  <2> SUFFICES ASSUME Inv, Uncompacted, AllRecorded,
    [Next]_vars PROVE (Uncompacted /\ AllRecorded)'
    OBVIOUS
  <2>1. CASE UNCHANGED vars
    BY <2>1 DEF vars, control, work, ghost, Uncompacted, AllRecorded, Recorded, Past, InHand
  <2>2. CASE ~UNCHANGED vars
    BY <2>2, NextIs, UncompactedStep, RecordedStep DEF Inv
  <2> QED BY <2>1, <2>2
<1>2. AllRecorded => EffectsRecorded
  BY DEF AllRecorded, Recorded, EffectsRecorded, Shown
<1> QED BY <1>1, <1>2, RecordedInit, InvInit, InvStep, PTL DEF Spec

-----------------------------------------------------------------------------
(***************************************************************************)
(* Paired histories.  A turn is active until it ends or its consumer drops *)
(* it; a turn that has ended in either way, or stored its copy, may have   *)
(* messages in other histories than its own.                               *)
(***************************************************************************)
Active(t) == Working(t) /\ pc[t] # "orphaned"

EndPlaces == {"saved", "end", "orphaned", "done"}

\* A turn not begun has nothing.
Fresh == \A t \in Turns : pc[t] = "idle" => ~saved[t] /\ outcome[t] = "none"

(***************************************************************************)
(* The copy of an active turn ends with a message of its own, holds its    *)
(* user message, and is stored when `saved` says so.                       *)
(***************************************************************************)
Shape(t) ==
  LET ms == session[t].messages IN
    /\ Len(ms) > 0 /\ ms[Len(ms)].turn = t
    /\ Has(ms, "user", t)
    /\ saved[t] <=> pc[t] \in {"saved", "end"}
    /\ outcome[t] = "none"

(***************************************************************************)
(* Its last message says how far it has come: a response is open only at   *)
(* the end of its copy and while its calls are answered, and then the      *)
(* results and the calls left are together the calls of the response.      *)
(***************************************************************************)
Answered(t) ==
  LET ms == session[t].messages IN
    /\ \A k \in 1..Len(ms) : Open(ms, k) /\ ms[k].turn = t => k = Len(ms) /\ pc[t] \in Answering
    /\ pc[t] = "post_llm" => ms[Len(ms)] = Said("assistant", t, Left(t))
    /\ pc[t] \in Answering \ {"post_llm"} => ms[Len(ms)] = Said("assistant", t, results[t] \cup Left(t))
    /\ pc[t] = "results" => calls[t] = <<>>

Shapely == \A t \in Turns : Active(t) => Shape(t) /\ Answered(t)

(***************************************************************************)
(* Whose messages the stored history and the copies hold.                  *)
(***************************************************************************)
StoreFromEnded == store # Absent => \A k \in 1..Len(store.messages) : pc[store.messages[k].turn] \in EndPlaces

CopiesFromEnded ==
  \A t \in Turns : session[t] # Absent =>
     \A k \in 1..Len(session[t].messages) :
        session[t].messages[k].turn = t \/ pc[session[t].messages[k].turn] \in EndPlaces

(***************************************************************************)
(* HistoriesPaired, split.                                                 *)
(***************************************************************************)
Wellness ==
  /\ store # Absent => Well(store.messages) /\ Unended(store.messages)
  /\ \A t \in Turns : session[t] # Absent => Well(session[t].messages) /\ Unended(session[t].messages)

Pairing == Uncompacted /\ Fresh /\ Shapely /\ StoreFromEnded /\ CopiesFromEnded /\ Wellness

LEMMA FreshStep ==
  ASSUME Fresh, NEW t \in Turns, Kind(t), Alone(t)
  PROVE  Fresh'
<1>1. pc'[t] # "idle"
  BY DEF Kind, Begins, FailsToBegin, Walks, Responds, Decides, Completes, Finishes,
         SavesTurn, ToolWrites, Leaves, Abandons, Before, Dispatching, Working
<1> QED BY <1>1 DEF Fresh, Alone

\* A step that appends what turn t says; what the appended message is.
Appends(t, m) ==
  /\ m \in Message /\ m.turn = t
  /\ session'[t].messages = Append(session[t].messages, m)

LEMMA RespondsAppends ==
  ASSUME TypeOK, NEW t \in Turns, Responds(t)
  PROVE  /\ pc[t] \in {"open", "stream"} /\ pc'[t] = "post_llm"
         /\ session'[t] \in Stored
         /\ Appends(t, Said("assistant", t, Left(t)'))
         /\ session'[t].version = session[t].version
         /\ store' = store /\ saved'[t] = saved[t] /\ outcome'[t] = outcome[t]
<1>1. PICK n \in 0..MaxCalls :
         LET id == [k \in 1..n |-> <<t, iteration[t], k>>] IN
           /\ pc[t] \in {"open", "stream"} /\ pc'[t] = "post_llm"
           /\ session'[t] \in Stored
           /\ session'[t].messages = Append(session[t].messages, Said("assistant", t, {id[k] : k \in 1..n}))
           /\ session'[t].version = session[t].version
           /\ calls'[t] = id
           /\ store' = store /\ saved'[t] = saved[t] /\ outcome'[t] = outcome[t]
  BY DEF Responds
<1> DEFINE id == [k \in 1..n |-> <<t, iteration[t], k>>]
<1>2. n \in Nat /\ iteration[t] \in Nat
  BY TurnAssumption DEF TypeOK
<1>3. \A k \in 1..n : id[k] \in Call
  BY <1>2, TurnAssumption DEF Call
<1>4. calls'[t] = id /\ Len(id) = n
  BY <1>1, <1>2
<1>5. {id[k] : k \in 1..n} = Left(t)'
  <2> HIDE DEF id
  <2> QED BY <1>4 DEF Left
<1>6. {id[k] : k \in 1..n} \in SUBSET Call
  <2> HIDE DEF id
  <2> QED BY <1>3
<1>7. Said("assistant", t, Left(t)') \in Message /\ Said("assistant", t, Left(t)').turn = t
  BY <1>5, <1>6, SaidTyped DEF Said
<1>8. session'[t].messages = Append(session[t].messages, Said("assistant", t, Left(t)'))
  BY <1>1, <1>5
<1> QED BY <1>1, <1>7, <1>8 DEF Appends

LEMMA FinishesAppends ==
  ASSUME TypeOK, NEW t \in Turns, Finishes(t)
  PROVE  Appends(t, Said("tool", t, results[t]))
BY SaidTyped DEF TypeOK, Finishes, Appends, Said

(***************************************************************************)
(* A working turn has a copy, and where there is a copy there is a stored  *)
(* session.                                                                *)
(***************************************************************************)

LEMMA InHandHere ==
  ASSUME Inv, NEW t \in Turns, Working(t)
  PROVE  /\ session[t] # Absent /\ session[t] \in Stored /\ session[t].messages \in Seq(Message)
         /\ store # Absent /\ store \in Stored /\ store.messages \in Seq(Message)
         /\ CopyLevelOrStale(t)
<1>1. session[t] # Absent /\ session[t] \in Stored
  BY DEF Inv, TypeOK, Working
<1>2. CopyLevelOrStale(t) /\ store # Absent
  BY <1>1 DEF Inv, CopiesLevelOrStale, CopyLevelOrStale
<1>3. store \in Stored
  BY <1>2 DEF Inv, TypeOK
<1> QED BY <1>1, <1>2, <1>3 DEF Stored

(***************************************************************************)
(* What a step does to the store: it writes the turn's copy, or a tool     *)
(* adds its attribute, or nothing.                                         *)
(***************************************************************************)
StoresCopy(t) ==
  /\ Working(t) /\ pc'[t] \in {"saved", "done"}
  /\ session[t].version = store.version /\ (saved[t] => pc[t] = "session_end")
  /\ store' = Bumped(session[t])
  /\ store' \in Stored /\ store' # Absent
  /\ store'.messages = session[t].messages /\ store'.attributes = session[t].attributes
  /\ store'.version > store.version

AddsAttribute(t) ==
  /\ pc[t] = "tool" /\ pc'[t] = "tool"
  /\ store # Absent /\ store' \in Stored /\ store' # Absent
  /\ store'.messages = store.messages /\ store'.attributes = store.attributes \cup {t}
  /\ store'.version > store.version

LEMMA StoreChanges ==
  ASSUME Inv, NEW t \in Turns, Kind(t)
  PROVE  store' = store \/ StoresCopy(t) \/ AddsAttribute(t)
<1>1. ASSUME Working(t), CanSave(store, session[t]), store' = Bumped(session[t]),
  pc'[t] \in {"saved", "done"},
             saved[t] => pc[t] = "session_end"
      PROVE  StoresCopy(t)
  <2>1. session[t] \in Stored /\ store # Absent
    BY <1>1, InHandHere
  <2>2. store \in Stored /\ session[t].version = store.version
    BY <1>1, <2>1, InHandHere DEF CanSave
  <2>3. /\ store' \in Stored /\ store'.messages = session[t].messages
        /\ store'.attributes = session[t].attributes /\ store'.version = session[t].version + 1
    BY <1>1, <2>1, BumpedTyped
  <2>4. store'.version > store.version /\ store' # Absent
    BY <2>2, <2>3, TurnAssumption DEF Stored
  <2> QED BY <1>1, <2>2, <2>3, <2>4 DEF StoresCopy
<1>2. CASE SavesTurn(t)
  BY <1>1, <1>2 DEF SavesTurn, Working
<1>3. CASE Leaves(t)
  BY <1>1, <1>3 DEF Leaves
<1>4. CASE ToolWrites(t)
  <2>1. store # Absent /\ store \in Stored
    BY <1>4 DEF ToolWrites, Inv, TypeOK
  <2>2. [store EXCEPT !.attributes = @ \cup {t}] \in Stored
    BY <2>1 DEF Stored
  <2>3. store' = Bumped([store EXCEPT !.attributes = @ \cup {t}])
    BY <1>4 DEF ToolWrites
  <2>4. store' \in Stored /\ store'.messages = store.messages /\ store'.attributes = store.attributes \cup {t}
    BY <2>1, <2>2, <2>3, BumpedTyped DEF Stored
  <2>5. store' # Absent
    BY <2>4, TurnAssumption
  <2>6. store'.version > store.version
    BY <2>1, <2>2, <2>3, BumpedTyped DEF Stored
  <2> QED BY <1>4, <2>1, <2>4, <2>5, <2>6 DEF ToolWrites, AddsAttribute
<1> QED
  BY <1>2, <1>3, <1>4
  DEF Kind, Begins, FailsToBegin, Walks, Responds, Decides, Completes, Finishes, Abandons, Kept

\* The copy of the turn that steps: begun, appended to, or as it was.
LEMMA CopyChanges ==
  ASSUME Inv, NEW t \in Turns, Kind(t)
  PROVE  \/ session'[t] = session[t]
         \/ Begins(t) \/ Responds(t) \/ Finishes(t)
         \/ SavesTurn(t) /\ session'[t].messages = session[t].messages
<1>1. CASE SavesTurn(t)
  <2>1. Working(t)
    BY <1>1 DEF SavesTurn, Working
  <2> QED BY <1>1, <2>1, InHandHere, BumpedTyped DEF SavesTurn
<1> QED
  BY <1>1 DEF Kind, FailsToBegin, Walks, Decides, Completes, Abandons, ToolWrites, Leaves, Kept

LEMMA BeginsAppends ==
  ASSUME Inv, NEW t \in Turns, Begins(t)
  PROVE  LET m == Said("user", t, {}) IN
           /\ m \in Message /\ m.turn = t /\ m.role = "user"
           /\ session'[t].messages = Append(store.messages, m)
           /\ store \in Stored /\ store.messages \in Seq(Message)
<1>1. store \in Stored
  BY DEF Begins, Inv, TypeOK
<1> QED BY <1>1, SaidTyped DEF Begins, Said, Stored

(***************************************************************************)
(* An active turn's copy keeps its shape.                                  *)
(***************************************************************************)
LEMMA ShapeStep ==
  ASSUME Inv, Fresh, NEW t \in Turns, Active(t) => Shape(t), Kind(t), Active(t)'
  PROVE  Shape(t)'
<1> USE DEF Active
<1>1. CASE Begins(t)
  <2> DEFINE m == Said("user", t, {})
  <2>1. /\ m \in Message /\ m.turn = t /\ m.role = "user"
        /\ session'[t].messages = Append(store.messages, m)
        /\ store \in Stored /\ store.messages \in Seq(Message)
    BY <1>1, BeginsAppends
  <2>2. pc[t] = "idle" /\ pc'[t] = "session_start" /\ saved'[t] = saved[t] /\ outcome'[t] = outcome[t]
    BY <1>1 DEF Begins
  <2> HIDE DEF m
  <2>3. Len(session'[t].messages) > 0 /\ session'[t].messages[Len(session'[t].messages)] = m
    BY <2>1, Appended
  <2>4. Has(session'[t].messages, "user", t)
    BY <2>1, HasAppend
  <2> QED BY <2>1, <2>2, <2>3, <2>4 DEF Shape, Fresh
<1>2. ASSUME NEW m, Appends(t, m), Active(t), saved'[t] = saved[t], outcome'[t] = outcome[t],
             pc[t] \notin {"saved", "end"}, pc'[t] \notin {"saved", "end"}
      PROVE  Shape(t)'
  <2>1. Shape(t) /\ session[t].messages \in Seq(Message)
    BY <1>2, InHandHere
  <2>2. m \in Message /\ m.turn = t /\ session'[t].messages = Append(session[t].messages, m)
    BY <1>2 DEF Appends
  <2>3. Len(session'[t].messages) > 0 /\ session'[t].messages[Len(session'[t].messages)] = m
    BY <2>1, <2>2, Appended
  <2>4. Has(session'[t].messages, "user", t)
    BY <2>1, <2>2, HasAppend DEF Shape
  <2>5. ~saved[t] /\ outcome[t] = "none"
    BY <1>2, <2>1 DEF Shape
  <2> QED BY <1>2, <2>2, <2>3, <2>4, <2>5 DEF Shape
<1>3. CASE Responds(t)
  <2>1. PICK m : Appends(t, m)
    BY <1>3, RespondsAppends DEF Inv
  <2>2. /\ pc[t] \in {"open", "stream"} /\ pc'[t] = "post_llm"
        /\ saved'[t] = saved[t] /\ outcome'[t] = outcome[t]
    BY <1>3, RespondsAppends DEF Inv
  <2>3. Active(t)
    BY <2>2 DEF Working
  <2> QED BY <1>2, <2>1, <2>2, <2>3
<1>4. CASE Finishes(t)
  <2>1. Appends(t, Said("tool", t, results[t]))
    BY <1>4, FinishesAppends DEF Inv
  <2>2. /\ pc[t] = "results" /\ pc'[t] \in Before
        /\ saved'[t] = saved[t] /\ outcome'[t] = outcome[t]
    BY <1>4 DEF Finishes
  <2>3. Active(t)
    BY <2>2 DEF Working
  <2> QED BY <1>2, <2>1, <2>2, <2>3 DEF Before
<1>5. CASE SavesTurn(t)
  <2>1. Active(t) /\ pc'[t] = "saved" /\ saved'[t] = TRUE /\ outcome'[t] = outcome[t]
    BY <1>5 DEF SavesTurn, Working
  <2>2. session'[t].messages = session[t].messages
    BY <1>5, <2>1, InHandHere, BumpedTyped DEF SavesTurn
  <2>3. Shape(t)
    BY <2>1
  <2> QED BY <2>1, <2>2, <2>3 DEF Shape
<1>6. CASE Walks(t) \/ Decides(t) \/ Completes(t) \/ ToolWrites(t)
  <2>1. /\ Active(t) /\ (pc'[t] \in {"saved", "end"} <=> pc[t] \in {"saved", "end"})
        /\ session'[t] = session[t] /\ saved'[t] = saved[t] /\ outcome'[t] = outcome[t]
    BY <1>6 DEF Walks, Decides, Completes, ToolWrites, Kept, Working, Before, Dispatching
  <2>2. Shape(t)
    BY <2>1
  <2>3. saved'[t] <=> pc'[t] \in {"saved", "end"}
    BY <2>1, <2>2 DEF Shape
  <2> QED BY <2>1, <2>2, <2>3 DEF Shape
<1> QED
  BY <1>1, <1>3, <1>4, <1>5, <1>6 DEF Kind, FailsToBegin, Leaves, Abandons, Working

(***************************************************************************)
(* Taking a call off the list moves it from the calls left to the results. *)
(***************************************************************************)

LEMMA LeftTail ==
  ASSUME NEW t \in Turns, calls[t] \in Seq(Call), calls[t] # <<>>, calls'[t] = Tail(calls[t])
  PROVE  /\ Left(t) = {calls[t][1]} \cup Left(t)'
         /\ Len(calls[t]) = 1 => calls'[t] = <<>>
<1>1. /\ Len(calls[t]) \in Nat /\ Len(calls[t]) # 0
      /\ calls'[t] \in Seq(Call) /\ Len(calls'[t]) = Len(calls[t]) - 1
      /\ \A k \in 1..Len(calls'[t]) : calls'[t][k] = calls[t][k + 1]
  BY HeadTailProperties
<1>2. ASSUME NEW c \in Left(t) PROVE c \in {calls[t][1]} \cup Left(t)'
  <2>1. PICK k \in 1..Len(calls[t]) : c = calls[t][k]
    BY DEF Left
  <2>2. CASE k = 1
    BY <2>1, <2>2
  <2>3. CASE k # 1
    <3>1. k - 1 \in 1..Len(calls'[t]) /\ calls'[t][k - 1] = calls[t][k]
      BY <1>1, <2>1, <2>3
    <3> QED BY <2>1, <3>1 DEF Left
  <2> QED BY <2>2, <2>3
<1>3. ASSUME NEW c \in {calls[t][1]} \cup Left(t)' PROVE c \in Left(t)
  <2>1. CASE c = calls[t][1]
    BY <1>1, <2>1 DEF Left
  <2>2. CASE c \in Left(t)'
    <3>1. PICK k \in 1..Len(calls'[t]) : c = calls'[t][k]
      BY <2>2 DEF Left
    <3>2. k + 1 \in 1..Len(calls[t]) /\ c = calls[t][k + 1]
      BY <1>1, <3>1
    <3> QED BY <3>2 DEF Left
  <2> QED BY <1>3, <2>1, <2>2
<1>4. ASSUME Len(calls[t]) = 1 PROVE calls'[t] = <<>>
  <2>1. Len(calls'[t]) = 0
    BY <1>1, <1>4
  <2> QED BY <1>1, <2>1, EmptySeq
<1> QED BY <1>2, <1>3, <1>4

LEMMA LeftNone ==
  ASSUME NEW t \in Turns, calls[t] = <<>>
  PROVE  Left(t) = {}
BY DEF Left

LEMMA OpenIs ==
  ASSUME NEW ms, NEW k, Open(ms, k)
  PROVE  ms[k].role = "assistant" /\ ms[k].calls # {}
BY DEF Open

\* Nothing of the turn's own is open unless it is answering.
NoneOpen(ms, t) == \A k \in 1..Len(ms) : Open(ms, k) => ms[k].turn # t

(***************************************************************************)
(* An active turn's last message keeps telling how far it has come.        *)
(***************************************************************************)

LEMMA AnsweredStep ==
  ASSUME Inv, StoreFromEnded, NEW t \in Turns, Active(t) => Answered(t), Kind(t),
         Active(t)'
  PROVE  Answered(t)'
<1> USE DEF Answering, Dispatching, Active
<1>0. ASSUME Active(t), pc[t] \notin Answering PROVE NoneOpen(session[t].messages, t)
  BY <1>0 DEF Answered, NoneOpen
<1>a. ASSUME NoneOpen(session'[t].messages, t), pc'[t] \notin Answering PROVE Answered(t)'
  BY <1>a DEF Answered, NoneOpen
<1>1. CASE Begins(t)
  <2> DEFINE m == Said("user", t, {})
  <2>1. /\ m \in Message /\ m.turn = t /\ m.role = "user"
        /\ session'[t].messages = Append(store.messages, m)
        /\ store \in Stored /\ store.messages \in Seq(Message)
    BY <1>1, BeginsAppends
  <2>2. pc[t] = "idle" /\ pc'[t] = "session_start" /\ store # Absent
    BY <1>1 DEF Begins
  <2> HIDE DEF m
  <2>3. ASSUME NEW k \in 1..Len(session'[t].messages), Open(session'[t].messages, k)
        PROVE  session'[t].messages[k].turn # t
    <3>1. CASE k \in 1..Len(store.messages)
      <4>1. session'[t].messages[k] = store.messages[k]
        BY <2>1, <3>1, Appended
      <4>2. pc[store.messages[k].turn] \in EndPlaces
        BY <2>2, <3>1 DEF StoreFromEnded
      <4> QED BY <2>2, <4>1, <4>2 DEF EndPlaces
    <3>2. CASE k \notin 1..Len(store.messages)
      <4>1. k = Len(store.messages) + 1
        BY <2>1, <3>2, Appended
      <4> QED BY <2>1, <2>3, <4>1, OpenAppend
    <3> QED BY <3>1, <3>2
  <2> QED BY <1>a, <2>2, <2>3 DEF NoneOpen
<1>2. CASE Responds(t)
  <2> DEFINE m == Said("assistant", t, Left(t)')
  <2>1. pc[t] \in {"open", "stream"} /\ pc'[t] = "post_llm" /\ Appends(t, m)
    BY <1>2, RespondsAppends DEF Inv
  <2>2. Working(t) /\ session[t].messages \in Seq(Message) /\ NoneOpen(session[t].messages, t)
    BY <1>0, <2>1, InHandHere DEF Working
  <2>3. m \in Message /\ session'[t].messages = Append(session[t].messages, m)
    BY <2>1 DEF Appends
  <2> HIDE DEF m
  <2>4. /\ Len(session'[t].messages) = Len(session[t].messages) + 1 /\ Len(session[t].messages) \in Nat
        /\ \A k \in 1..Len(session[t].messages) : session'[t].messages[k] = session[t].messages[k]
        /\ session'[t].messages[Len(session'[t].messages)] = m
    BY <2>2, <2>3, Appended
  <2>5. ASSUME NEW k \in 1..Len(session'[t].messages), Open(session'[t].messages, k),
               session'[t].messages[k].turn = t
        PROVE  k = Len(session'[t].messages)
    <3>1. CASE k \in 1..Len(session[t].messages)
      BY <2>2, <2>3, <2>4, <2>5, <3>1, OpenAppend DEF NoneOpen
    <3>2. CASE k \notin 1..Len(session[t].messages)
      BY <2>4, <3>2
    <3> QED BY <3>1, <3>2
  <2> QED BY <2>1, <2>4, <2>5 DEF Answered, m
<1>3. CASE Decides(t)
  <2>1. /\ pc[t] = "post_llm" /\ session'[t] = session[t] /\ calls'[t] = calls[t] /\ Working(t)
    BY <1>3 DEF Decides, Kept, Working
  <2>2. Left(t)' = Left(t)
    BY <2>1 DEF Left
  <2>3. /\ session[t].messages[Len(session[t].messages)] = Said("assistant", t, Left(t))
        /\ \A k \in 1..Len(session[t].messages) :
             Open(session[t].messages, k) /\ session[t].messages[k].turn = t => k = Len(session[t].messages)
    BY <2>1 DEF Answered
  <2>4. CASE pc'[t] = "turn_complete" /\ calls[t] = <<>>
    <3>1. session[t].messages[Len(session[t].messages)].calls = {}
      BY <2>3, <2>4, LeftNone DEF Said
    <3>2. NoneOpen(session[t].messages, t)
      BY <2>3, <3>1, OpenIs DEF NoneOpen
    <3> QED BY <1>a, <2>1, <2>4, <3>2
  <2>5. CASE pc'[t] = "permission" /\ results'[t] = {}
    <3>1. results'[t] \cup Left(t)' = Left(t)
      BY <2>2, <2>5
    <3>2. session'[t].messages[Len(session'[t].messages)] = Said("assistant", t, results'[t] \cup Left(t)')
      BY <2>1, <2>3, <3>1
    <3>3. \A k \in 1..Len(session'[t].messages) :
            Open(session'[t].messages, k) /\ session'[t].messages[k].turn = t => k = Len(session'[t].messages)
      BY <2>1, <2>3
    <3> QED BY <2>5, <3>2, <3>3 DEF Answered
  <2> QED BY <1>3, <2>4, <2>5 DEF Decides
<1>4. CASE Completes(t)
  <2>1. /\ pc[t] \in Dispatching /\ Working(t) /\ session'[t] = session[t]
        /\ pc'[t] = IF Len(calls[t]) = 1 THEN "results" ELSE "permission"
        /\ results'[t] = results[t] \cup {calls[t][1]}
        /\ calls'[t] = Tail(calls[t])
    BY <1>4 DEF Completes, Kept, Working
  <2>2. calls[t] \in Seq(Call) /\ calls[t] # <<>>
    BY <2>1 DEF Inv, TypeOK
  <2>3. Left(t) = {calls[t][1]} \cup Left(t)' /\ (Len(calls[t]) = 1 => calls'[t] = <<>>)
    BY <2>1, <2>2, LeftTail
  <2>4. results'[t] \cup Left(t)' = results[t] \cup Left(t)
    BY <2>1, <2>3
  <2>5. /\ session[t].messages[Len(session[t].messages)] = Said("assistant", t, results[t] \cup Left(t))
        /\ \A k \in 1..Len(session[t].messages) :
             Open(session[t].messages, k) /\ session[t].messages[k].turn = t => k = Len(session[t].messages)
    BY <2>1 DEF Answered
  <2> QED BY <2>1, <2>3, <2>4, <2>5 DEF Answered
<1>5. CASE Finishes(t)
  <2> DEFINE m == Said("tool", t, results[t])
  <2>1. pc[t] = "results" /\ pc'[t] \in Before /\ Appends(t, m) /\ Working(t)
    BY <1>5, FinishesAppends DEF Finishes, Inv, Working
  <2>2. /\ m \in Message /\ session'[t].messages = Append(session[t].messages, m)
        /\ session[t].messages \in Seq(Message)
    BY <2>1, InHandHere DEF Appends
  <2>3. /\ session[t].messages[Len(session[t].messages)] = Said("assistant", t, results[t])
        /\ \A k \in 1..Len(session[t].messages) :
             Open(session[t].messages, k) /\ session[t].messages[k].turn = t => k = Len(session[t].messages)
    <3>1. calls[t] = <<>>
      BY <2>1 DEF Answered
    <3>2. results[t] \cup Left(t) = results[t]
      BY <3>1, LeftNone
    <3> QED BY <2>1, <3>2 DEF Answered
  <2>4. m.role = "tool"
    BY DEF Said
  <2>5. ASSUME NEW k \in 1..Len(session[t].messages), k = Len(session[t].messages)
        PROVE  m = Said("tool", session[t].messages[k].turn, session[t].messages[k].calls)
    BY <2>3, <2>5 DEF Said
  <2> HIDE DEF m
  <2>6. ASSUME NEW k \in 1..Len(session'[t].messages), Open(session'[t].messages, k),
               session'[t].messages[k].turn = t
        PROVE  FALSE
    <3>1. CASE k \in 1..Len(session[t].messages)
      <4>1. session'[t].messages[k] = session[t].messages[k] /\ Open(session[t].messages, k)
        BY <2>2, <2>6, <3>1, Appended, OpenAppend
      <4>2. k = Len(session[t].messages)
        BY <2>3, <2>6, <3>1, <4>1
      <4> QED BY <2>2, <2>5, <2>6, <3>1, <4>2, OpenAppend
    <3>2. CASE k \notin 1..Len(session[t].messages)
      <4>1. k = Len(session[t].messages) + 1
        BY <2>2, <3>2, Appended
      <4> QED BY <2>2, <2>4, <2>6, <4>1, OpenAppend
    <3> QED BY <3>1, <3>2
  <2> QED BY <1>a, <2>1, <2>6 DEF NoneOpen, Before
<1>6. CASE Walks(t)
  <2>1. session'[t] = session[t] /\ calls'[t] = calls[t] /\ results'[t] = results[t]
    BY <1>6 DEF Walks, Kept
  <2>2. Left(t)' = Left(t)
    BY <2>1 DEF Left
  <2>3. CASE pc[t] \in Before \cup {"saved", "end"} /\ pc'[t] \in Before \cup {"saved", "end"}
    <3>1. NoneOpen(session[t].messages, t)
      BY <1>0, <2>3 DEF Before, Working
    <3> QED BY <1>a, <2>1, <2>3, <3>1 DEF Before
  <2>4. CASE pc[t] \in Dispatching /\ pc'[t] \in Dispatching
    <3>1. Answered(t)
      BY <2>4 DEF Working
    <3> QED BY <2>1, <2>2, <2>4, <3>1 DEF Answered
  <2>5. CASE pc'[t] = pc[t] /\ Working(t)
    <3>1. Answered(t)
      BY <2>5
    <3> QED BY <2>1, <2>2, <2>5, <3>1 DEF Answered
  <2> QED BY <1>6, <2>3, <2>4, <2>5 DEF Walks
<1>7. CASE SavesTurn(t)
  <2>1. pc[t] = "session_end" /\ pc'[t] = "saved" /\ Working(t)
    BY <1>7 DEF SavesTurn, Working
  <2>2. session'[t].messages = session[t].messages
    BY <1>7, <2>1, InHandHere, BumpedTyped DEF SavesTurn
  <2> QED BY <1>0, <1>a, <2>1, <2>2
<1>8. CASE ToolWrites(t)
  <2>1. /\ pc'[t] = pc[t] /\ Working(t) /\ session'[t] = session[t] /\ calls'[t] = calls[t]
        /\ results'[t] = results[t]
    BY <1>8 DEF ToolWrites, Working
  <2>2. Left(t)' = Left(t)
    BY <2>1 DEF Left
  <2>3. Answered(t)
    BY <2>1
  <2> QED BY <2>1, <2>2, <2>3 DEF Answered
<1>9. ~Abandons(t) /\ ~FailsToBegin(t) /\ ~Leaves(t)
  BY DEF Abandons, FailsToBegin, Leaves, Working
<1> QED
  BY <1>1, <1>2, <1>3, <1>4, <1>5, <1>6, <1>7, <1>8, <1>9 DEF Kind

(***************************************************************************)
(* A turn that has ended stays so.                                         *)
(***************************************************************************)
LEMMA EndedStays ==
  ASSUME NEW t \in Turns, NEW u \in Turns, Kind(t), Alone(t), pc[u] \in EndPlaces
  PROVE  pc'[u] \in EndPlaces
<1>1. CASE u = t
  BY <1>1 DEF EndPlaces, Kind, Begins, FailsToBegin, Walks, Responds, Decides, Completes, Finishes,
         SavesTurn, ToolWrites, Leaves, Abandons, Before, Dispatching, Working
<1>2. CASE u # t
  BY <1>2 DEF Alone
<1> QED BY <1>1, <1>2

LEMMA TurnOfMessage ==
  ASSUME NEW ms \in Seq(Message), NEW k \in 1..Len(ms)
  PROVE  ms[k] \in Message /\ ms[k].turn \in Turns
<1>1. ms[k] \in Message
  OBVIOUS
<1> QED BY <1>1 DEF Message

(***************************************************************************)
(* The authors of the stored history and of the copies.                    *)
(***************************************************************************)
LEMMA StoreFromEndedStep ==
  ASSUME Inv, Inv', StoreFromEnded, CopiesFromEnded, NEW t \in Turns, Kind(t), Alone(t)
  PROVE  StoreFromEnded'
<1> SUFFICES ASSUME store' # Absent, NEW k \in 1..Len(store'.messages)
             PROVE  pc'[store'.messages[k].turn] \in EndPlaces
  BY DEF StoreFromEnded
<1>1. store'.messages[k].turn \in Turns
  <2>1. store'.messages \in Seq(Message)
    BY DEF Inv, TypeOK, Stored
  <2> QED BY <2>1, TurnOfMessage
<1> DEFINE u == store'.messages[k].turn
<1>2. CASE store # Absent /\ store'.messages = store.messages
  <2>1. pc[u] \in EndPlaces
    BY <1>2 DEF StoreFromEnded
  <2> QED BY <1>1, <2>1, EndedStays
<1>3. CASE StoresCopy(t)
  <2>1. session[t] # Absent /\ store'.messages = session[t].messages /\ pc'[t] \in {"saved", "done"}
    BY <1>3, InHandHere DEF StoresCopy
  <2>2. u = t \/ pc[u] \in EndPlaces
    BY <2>1 DEF CopiesFromEnded
  <2> QED BY <1>1, <2>1, <2>2, EndedStays DEF EndPlaces
<1> QED BY <1>2, <1>3, StoreChanges DEF AddsAttribute

LEMMA CopiesFromEndedStep ==
  ASSUME Inv, Inv', StoreFromEnded, CopiesFromEnded, NEW t \in Turns, Kind(t),
         Alone(t)
  PROVE  CopiesFromEnded'
<1> SUFFICES ASSUME NEW u \in Turns, session'[u] # Absent,
  NEW k \in 1..Len(session'[u].messages)
             PROVE  \/ session'[u].messages[k].turn = u
                    \/ pc'[session'[u].messages[k].turn] \in EndPlaces
  BY DEF CopiesFromEnded
<1>1. session'[u].messages[k].turn \in Turns
  <2>1. session'[u].messages \in Seq(Message)
    BY DEF Inv, TypeOK, Stored
  <2> QED BY <2>1, TurnOfMessage
<1>2. CASE session[u] # Absent /\ session'[u].messages = session[u].messages
  <2>1. session'[u].messages[k].turn = u \/ pc[session'[u].messages[k].turn] \in EndPlaces
    BY <1>2 DEF CopiesFromEnded
  <2> QED BY <1>1, <2>1, EndedStays
<1>3. CASE u = t /\ Begins(t)
  <2> DEFINE m == Said("user", t, {})
  <2>1. /\ m \in Message /\ m.turn = t
        /\ session'[t].messages = Append(store.messages, m)
        /\ store.messages \in Seq(Message) /\ store # Absent /\ pc[t] = "idle"
    BY <1>3, BeginsAppends DEF Begins
  <2> HIDE DEF m
  <2>2. CASE k \in 1..Len(store.messages)
    <3>1. session'[u].messages[k] = store.messages[k]
      BY <1>3, <2>1, <2>2, Appended
    <3>2. pc[session'[u].messages[k].turn] \in EndPlaces
      BY <2>1, <2>2, <3>1 DEF StoreFromEnded
    <3> QED BY <1>1, <3>2, EndedStays
  <2>3. CASE k \notin 1..Len(store.messages)
    <3>1. session'[u].messages[k] = m
      BY <1>3, <2>1, <2>3, Appended
    <3> QED BY <1>3, <2>1, <3>1
  <2> QED BY <2>2, <2>3
<1>4. ASSUME u = t, NEW m, Appends(t, m), session[t] # Absent
      PROVE  \/ session'[u].messages[k].turn = u
             \/ pc'[session'[u].messages[k].turn] \in EndPlaces
  <2>1. /\ m \in Message /\ m.turn = t
        /\ session'[t].messages = Append(session[t].messages, m)
        /\ session[t].messages \in Seq(Message)
    BY <1>4 DEF Appends, Inv, TypeOK, Stored
  <2>2. CASE k \in 1..Len(session[t].messages)
    <3>1. session'[u].messages[k] = session[t].messages[k]
      BY <1>4, <2>1, <2>2, Appended
    <3>2. session'[u].messages[k].turn = t \/ pc[session'[u].messages[k].turn] \in EndPlaces
      BY <1>4, <2>2, <3>1 DEF CopiesFromEnded
    <3> QED BY <1>1, <1>4, <3>2, EndedStays
  <2>3. CASE k \notin 1..Len(session[t].messages)
    <3>1. session'[u].messages[k] = m
      BY <1>4, <2>1, <2>3, Appended
    <3> QED BY <1>4, <2>1, <3>1
  <2> QED BY <2>2, <2>3
<1>5. CASE u = t /\ Responds(t)
  <2>1. pc[t] \in {"open", "stream"} /\ \E m : Appends(t, m)
    BY <1>5, RespondsAppends DEF Inv
  <2>2. session[t] # Absent
    BY <2>1, InHandHere DEF Working
  <2> QED BY <1>4, <1>5, <2>1, <2>2
<1>6. CASE u = t /\ Finishes(t)
  <2>1. pc[t] = "results" /\ \E m : Appends(t, m)
    BY <1>6, FinishesAppends DEF Inv, Finishes
  <2>2. session[t] # Absent
    BY <2>1, InHandHere DEF Working
  <2> QED BY <1>4, <1>6, <2>1, <2>2
<1>7. CASE u = t /\ SavesTurn(t) /\ session'[t].messages = session[t].messages
  <2>1. session[t] # Absent
    BY <1>7, InHandHere DEF SavesTurn, Working
  <2> QED BY <1>2, <1>7, <2>1
<1>8. CASE u = t /\ session'[t] = session[t]
  BY <1>2, <1>8
<1>9. CASE u # t
  BY <1>2, <1>9 DEF Alone
<1> QED BY <1>3, <1>5, <1>6, <1>7, <1>8, <1>9, CopyChanges

(***************************************************************************)
(* Who closes its history: the turn that saves it.                         *)
(***************************************************************************)
ClosingNext(t) == pc'[t] \in {"saved", "end"} \/ outcome'[t] = "completed"

LEMMA Closers ==
  ASSUME Fresh, NEW t \in Turns, Kind(t), Alone(t), NEW u \in Turns, ClosingNext(u)
  PROVE  Closing(u) \/ (u = t /\ SavesTurn(t))
<1>1. CASE u # t
  BY <1>1 DEF Alone, Closing, ClosingNext
<1>2. CASE u = t
  BY <1>2 DEF ClosingNext, Closing, Fresh, Kind, Begins, FailsToBegin, Walks, Responds, Decides,
    Completes, Finishes, ToolWrites, Leaves, Abandons, Kept, Before, Dispatching, Working
<1> QED BY <1>1, <1>2

\* A history without an open response of the turn that saves stays good.
LEMMA UnendedStays ==
  ASSUME Fresh, NEW t \in Turns, Kind(t), Alone(t), NEW ms \in Seq(Message),
         Unended(ms), SavesTurn(t) => NoneOpen(ms, t)
  PROVE  \A k \in 1..Len(ms) : Open(ms, k) => ~ClosingNext(ms[k].turn)
<1> SUFFICES ASSUME NEW k \in 1..Len(ms), Open(ms, k), ClosingNext(ms[k].turn)
             PROVE  FALSE
  OBVIOUS
<1>1. ms[k].turn \in Turns
  BY TurnOfMessage
<1>2. ~Closing(ms[k].turn)
  BY DEF Unended
<1>3. ms[k].turn = t /\ SavesTurn(t)
  BY <1>1, <1>2, Closers
<1> QED BY <1>3 DEF NoneOpen

LEMMA NoneOpenAtSave ==
  ASSUME Inv, Shapely, StoreFromEnded, CopiesFromEnded, NEW t \in Turns, pc[t] = "session_end"
  PROVE  /\ store # Absent => NoneOpen(store.messages, t)
         /\ \A u \in Turns : session[u] # Absent => NoneOpen(session[u].messages, t)
<1>1. Answered(t) /\ pc[t] \notin EndPlaces
  BY DEF Active, Working, Shapely, EndPlaces
<1>2. NoneOpen(session[t].messages, t)
  BY <1>1 DEF Answered, Answering, Dispatching, NoneOpen
<1>3. ASSUME store # Absent PROVE NoneOpen(store.messages, t)
  BY <1>1, <1>3 DEF StoreFromEnded, NoneOpen
<1>4. ASSUME NEW u \in Turns \ {t}, session[u] # Absent PROVE NoneOpen(session[u].messages, t)
  BY <1>1, <1>4 DEF CopiesFromEnded, NoneOpen
<1> QED BY <1>2, <1>3, <1>4

LEMMA UnendedAppend ==
  ASSUME NEW ms \in Seq(Message), NEW m \in Message,
         \A k \in 1..Len(ms) : Open(ms, k) => ~ClosingNext(ms[k].turn),
         ~ClosingNext(m.turn)
  PROVE  \A k \in 1..Len(Append(ms, m)) : Open(Append(ms, m), k) => ~ClosingNext(Append(ms, m)[k].turn)
<1> DEFINE q == Append(ms, m)
<1>1. /\ Len(q) = Len(ms) + 1 /\ Len(ms) \in Nat /\ q[Len(ms) + 1] = m
      /\ \A k \in 1..Len(ms) : q[k] = ms[k]
  BY Appended
<1>2. \A k \in 1..Len(ms) : Open(q, k) => Open(ms, k)
  BY OpenAppend
<1> HIDE DEF q
<1>3. ASSUME NEW k \in 1..Len(q), Open(q, k) PROVE ~ClosingNext(q[k].turn)
  <2>1. CASE k \in 1..Len(ms)
    BY <1>1, <1>2, <1>3, <2>1
  <2>2. CASE k \notin 1..Len(ms)
    BY <1>1, <2>2
  <2> QED BY <2>1, <2>2
<1>4. \A k \in 1..Len(q) : Open(q, k) => ~ClosingNext(q[k].turn)
  BY <1>3
<1> QED BY <1>4 DEF q

(***************************************************************************)
(* A history that is paired in the next state.                             *)
(***************************************************************************)
GoodNext(ms) == Well(ms) /\ \A k \in 1..Len(ms) : Open(ms, k) => ~ClosingNext(ms[k].turn)

LEMMA GoodAppend ==
  ASSUME NEW ms \in Seq(Message), NEW m \in Message, GoodNext(ms),
         ~ClosingNext(m.turn),
         Len(ms) > 0 /\ Open(ms, Len(ms)) => m.role \in {"user", "tool"},
         m.role = "tool" => Len(ms) > 0 /\ ms[Len(ms)] = Said("assistant", m.turn, m.calls)
  PROVE  GoodNext(Append(ms, m))
BY WellAppend, UnendedAppend DEF GoodNext

LEMMA GoodBefore ==
  ASSUME Inv, Pairing, NEW t \in Turns, Kind(t), Alone(t)
  PROVE  /\ store # Absent => GoodNext(store.messages)
         /\ \A u \in Turns : session[u] # Absent => GoodNext(session[u].messages)
<1> USE DEF Pairing
<1>0. SavesTurn(t) => pc[t] = "session_end"
  BY DEF SavesTurn
<1>1. ASSUME store # Absent PROVE GoodNext(store.messages)
  <2>1. store.messages \in Seq(Message) /\ Well(store.messages) /\ Unended(store.messages)
    BY <1>1 DEF Inv, TypeOK, Stored, Wellness
  <2>2. SavesTurn(t) => NoneOpen(store.messages, t)
    BY <1>0, <1>1, NoneOpenAtSave
  <2> QED BY <2>1, <2>2, UnendedStays DEF GoodNext
<1>2. ASSUME NEW u \in Turns, session[u] # Absent PROVE GoodNext(session[u].messages)
  <2>1. session[u].messages \in Seq(Message) /\ Well(session[u].messages) /\ Unended(session[u].messages)
    BY <1>2 DEF Inv, TypeOK, Stored, Wellness
  <2>2. SavesTurn(t) => NoneOpen(session[u].messages, t)
    BY <1>0, <1>2, NoneOpenAtSave
  <2> QED BY <2>1, <2>2, UnendedStays DEF GoodNext
<1> QED BY <1>1, <1>2

LEMMA WellnessStep ==
  ASSUME Inv, Inv', Pairing, NEW t \in Turns, Kind(t), Alone(t)
  PROVE  Wellness'
<1>1. ASSUME store' # Absent PROVE GoodNext(store'.messages)
  <2>1. CASE store # Absent /\ store'.messages = store.messages
    BY <2>1, GoodBefore
  <2>2. CASE StoresCopy(t)
    <3>1. session[t] # Absent /\ store'.messages = session[t].messages
      BY <2>2, InHandHere DEF StoresCopy
    <3> QED BY <3>1, GoodBefore
  <2> QED BY <1>1, <2>1, <2>2, StoreChanges DEF AddsAttribute
<1>2. ASSUME NEW u \in Turns, session'[u] # Absent PROVE GoodNext(session'[u].messages)
  <2>1. CASE session[u] # Absent /\ session'[u].messages = session[u].messages
    BY <2>1, GoodBefore
  <2>2. CASE u = t /\ Begins(t)
    <3> DEFINE m == Said("user", t, {})
    <3>1. /\ m \in Message /\ m.turn = t /\ m.role = "user"
          /\ session'[t].messages = Append(store.messages, m)
          /\ store.messages \in Seq(Message) /\ store # Absent
      BY <2>2, BeginsAppends DEF Begins
    <3>2. ~ClosingNext(t)
      BY <2>2 DEF Begins, Pairing, Fresh, ClosingNext
    <3> HIDE DEF m
    <3>3. GoodNext(Append(store.messages, m))
      BY <3>1, <3>2, GoodBefore, GoodAppend
    <3> QED BY <2>2, <3>1, <3>3
  <2>3. CASE u = t /\ Responds(t)
    <3> DEFINE m == Said("assistant", t, Left(t)')
               ms == session[t].messages
    <3>1. pc[t] \in {"open", "stream"} /\ pc'[t] = "post_llm" /\ Appends(t, m) /\ outcome'[t] = outcome[t]
      BY <2>3, RespondsAppends DEF Inv
    <3>2. Active(t) /\ Working(t) /\ Shape(t) /\ Answered(t)
      BY <3>1 DEF Active, Working, Pairing, Shapely
    <3>3. ms \in Seq(Message) /\ session[t] # Absent
      BY <3>2, InHandHere
    <3>4. /\ m \in Message /\ m.turn = t /\ m.role = "assistant"
          /\ session'[t].messages = Append(ms, m)
      BY <3>1 DEF Appends, Said
    <3>5. ~ClosingNext(t)
      BY <3>1, <3>2 DEF Shape, ClosingNext, Before
    <3>6. ~Open(ms, Len(ms))
      <4>1. Len(ms) \in 1..Len(ms) /\ ms[Len(ms)].turn = t
        BY <3>2, <3>3 DEF Shape
      <4> QED BY <3>1, <3>2, <4>1 DEF Answered, Answering, Dispatching
    <3> HIDE DEF m, ms
    <3>7. GoodNext(Append(ms, m))
      <4>1. GoodNext(ms)
        BY <3>3, GoodBefore DEF ms
      <4> QED BY <3>3, <3>4, <3>5, <3>6, <4>1, GoodAppend
    <3> QED BY <2>3, <3>4, <3>7
  <2>4. CASE u = t /\ Finishes(t)
    <3> DEFINE m == Said("tool", t, results[t])
               ms == session[t].messages
    <3>1. pc[t] = "results" /\ pc'[t] \in Before /\ Appends(t, m) /\ outcome'[t] = outcome[t]
      BY <2>4, FinishesAppends DEF Inv, Finishes
    <3>2. Active(t) /\ Working(t) /\ Shape(t) /\ Answered(t)
      BY <3>1 DEF Active, Working, Pairing, Shapely
    <3>3. ms \in Seq(Message) /\ session[t] # Absent
      BY <3>2, InHandHere
    <3>4. /\ m \in Message /\ m.turn = t /\ m.role = "tool" /\ m.calls = results[t]
          /\ session'[t].messages = Append(ms, m)
      BY <3>1 DEF Appends, Said
    <3>5. ~ClosingNext(t)
      BY <3>1, <3>2 DEF Shape, ClosingNext, Before
    <3>6. Len(ms) > 0 /\ ms[Len(ms)] = Said("assistant", t, results[t])
      <4>1. calls[t] = <<>>
        BY <3>1, <3>2 DEF Answered
      <4>2. results[t] \cup Left(t) = results[t]
        BY <4>1, LeftNone
      <4> QED BY <3>1, <3>2, <4>2 DEF Answered, Shape, Answering
    <3> HIDE DEF m, ms
    <3>7. GoodNext(Append(ms, m))
      <4>1. GoodNext(ms)
        BY <3>3, GoodBefore DEF ms
      <4> QED BY <3>3, <3>4, <3>5, <3>6, <4>1, GoodAppend
    <3> QED BY <2>4, <3>4, <3>7
  <2>5. CASE u = t /\ SavesTurn(t) /\ session'[t].messages = session[t].messages
    <3>1. session[t] # Absent
      BY <2>5, InHandHere DEF SavesTurn, Working
    <3> QED BY <2>1, <2>5, <3>1
  <2>6. CASE u = t /\ session'[t] = session[t]
    BY <1>2, <2>1, <2>6
  <2>7. CASE u # t
    BY <1>2, <2>1, <2>7 DEF Alone
  <2> QED BY <2>2, <2>3, <2>4, <2>5, <2>6, <2>7, CopyChanges
<1> QED BY <1>1, <1>2 DEF Wellness, GoodNext, Well, Unended, Closing, ClosingNext, Open

LEMMA PairingInit == Init => Pairing
<1> SUFFICES ASSUME Init PROVE Pairing
  OBVIOUS
<1>1. Uncompacted /\ Fresh /\ Shapely /\ CopiesFromEnded
  BY DEF Init, Uncompacted, Fresh, Shapely, Active, Working, CopiesFromEnded
<1>2. store # Absent => store.messages = <<>>
  BY DEF Init
<1>3. StoreFromEnded /\ Wellness
  BY <1>2 DEF Init, StoreFromEnded, Wellness, Well, Unended
<1> QED BY <1>1, <1>3 DEF Pairing

LEMMA ShapelyStep ==
  ASSUME Inv, Pairing, NEW t \in Turns, Kind(t), Alone(t)
  PROVE  Shapely'
<1> SUFFICES ASSUME NEW u \in Turns, Active(u)' PROVE (Shape(u) /\ Answered(u))'
  BY DEF Shapely
<1>1. CASE u = t
  BY <1>1, ShapeStep, AnsweredStep DEF Pairing, Shapely
<1>2. CASE u # t
  <2>1. /\ pc'[u] = pc[u] /\ session'[u] = session[u] /\ calls'[u] = calls[u]
        /\ results'[u] = results[u] /\ saved'[u] = saved[u] /\ outcome'[u] = outcome[u]
    BY <1>2 DEF Alone
  <2>2. Shape(u) /\ Answered(u)
    BY <2>1 DEF Pairing, Shapely, Active, Working
  <2>3. Left(u)' = Left(u)
    BY <2>1 DEF Left
  <2>4. Shape(u)'
    BY <2>1, <2>2 DEF Shape, Has
  <2>5. Answered(u)'
    BY <2>1, <2>2, <2>3 DEF Answered, Open
  <2> QED BY <2>4, <2>5
<1> QED BY <1>1, <1>2

LEMMA PairingStep == ~Compacting /\ Inv /\ Pairing /\ [Next]_vars => Pairing'
<1> SUFFICES ASSUME ~Compacting, Inv, Pairing, [Next]_vars PROVE Pairing'
  OBVIOUS
<1>0. Inv'
  BY InvStep
<1>1. CASE UNCHANGED vars
  <2>1. UNCHANGED <<store, pc, session, calls, results, saved, outcome>>
    BY <1>1 DEF vars, control, work
  <2>2. Uncompacted' /\ Fresh'
    BY <2>1 DEF Pairing, Uncompacted, Fresh
  <2>3. ASSUME NEW t \in Turns, Active(t)' PROVE (Shape(t) /\ Answered(t))'
    <3>1. Shape(t) /\ Answered(t)
      BY <2>1, <2>3 DEF Pairing, Shapely, Active, Working
    <3>2. Left(t)' = Left(t)
      BY <2>1 DEF Left
    <3>3. Shape(t)'
      BY <2>1, <3>1 DEF Shape, Has
    <3>4. Answered(t)'
      BY <2>1, <3>1, <3>2 DEF Answered, Open
    <3> QED BY <3>3, <3>4
  <2>4. StoreFromEnded' /\ CopiesFromEnded'
    BY <2>1 DEF Pairing, StoreFromEnded, CopiesFromEnded
  <2>5. Wellness'
    BY <2>1 DEF Pairing, Wellness, Well, Unended, Closing, Open
  <2> QED BY <2>2, <2>3, <2>4, <2>5 DEF Pairing, Shapely
<1>2. CASE ~UNCHANGED vars
  <2>1. PICK t \in Turns : Kind(t) /\ Alone(t)
    BY <1>2, NextIs DEF Pairing
  <2>2. Uncompacted' /\ Fresh'
    BY <2>1, UncompactedStep, FreshStep DEF Pairing
  <2>3. Shapely'
    BY <2>1, ShapelyStep
  <2>4. StoreFromEnded' /\ CopiesFromEnded'
    BY <1>0, <2>1, StoreFromEndedStep, CopiesFromEndedStep DEF Pairing
  <2>5. Wellness'
    BY <1>0, <2>1, WellnessStep
  <2> QED BY <2>2, <2>3, <2>4, <2>5 DEF Pairing
<1> QED BY <1>1, <1>2

LEMMA PairingHolds == ~Compacting => (Spec => [](Inv /\ Pairing))
<1> SUFFICES ASSUME ~Compacting PROVE Spec => [](Inv /\ Pairing)
  OBVIOUS
<1>1. Inv /\ Pairing /\ [Next]_vars => (Inv /\ Pairing)'
  BY InvStep, PairingStep
<1>2. Init => Inv /\ Pairing
  BY InvInit, PairingInit
<1> QED BY <1>1, <1>2, PTL DEF Spec

(***************************************************************************)
(* Every history, stored or in a turn's hands, is one a provider accepts,  *)
(* whatever turns run, fail or are dropped on the session at once: results *)
(* behind their calls, and calls unanswered only where a turn broke off    *)
(* and the next user message follows.  (Not so with a compactor, which     *)
(* cuts histories between a response and its results.)                     *)
(***************************************************************************)
THEOREM HistoriesArePaired == ~Compacting => (Spec => []HistoriesPaired)
<1>1. Inv /\ Pairing => HistoriesPaired
  <2> SUFFICES ASSUME Inv, Pairing PROVE HistoriesPaired
    OBVIOUS
  <2>1. ASSUME store # Absent PROVE Paired(store.messages)
    BY <2>1, PairedIs DEF Inv, TypeOK, Stored, Pairing, Wellness
  <2>2. ASSUME NEW t \in Turns, session[t] # Absent PROVE Paired(session[t].messages)
    BY <2>2, PairedIs DEF Inv, TypeOK, Stored, Pairing, Wellness
  <2> QED BY <2>1, <2>2 DEF HistoriesPaired
<1> QED BY <1>1, PairingHolds, PTL

-----------------------------------------------------------------------------
(***************************************************************************)
(* Completed turns, when a turn of the session starts after the last       *)
(* reply: one turn is active at a time, but dropped turns still wait for   *)
(* their finally block.                                                    *)
(***************************************************************************)
OneAtATime == \A t, u \in Turns : Active(t) /\ Active(u) => t = u

(***************************************************************************)
(* A turn that has saved its copy is in the store, and in every copy that  *)
(* may still be saved, unless that is a dropped turn's copy and too old to *)
(* be accepted.                                                            *)
(***************************************************************************)
CannotLose(u, t) ==
  \/ Has(session[u].messages, "user", t)
  \/ pc[u] = "orphaned" /\ session[u].version < store.version

Lasting ==
  \A t \in Turns : Closing(t) =>
    /\ store # Absent /\ Has(store.messages, "user", t)
    /\ \A u \in Turns : Working(u) /\ ~saved[u] => CannotLose(u, t)

LEMMA OneAtATimeStep ==
  ASSUME Sequential, OneAtATime, NEW t \in Turns, Kind(t), Alone(t)
  PROVE  OneAtATime'
<1>1. ASSUME NEW u \in Turns \ {t} PROVE Active(u)' <=> Active(u)
  BY DEF Alone, Active, Working
<1>2. ASSUME Active(t)' PROVE Active(t) \/ Begins(t)
  BY <1>2 DEF Active, Kind, FailsToBegin, Walks, Responds, Decides, Completes, Finishes,
         SavesTurn, ToolWrites, Leaves, Abandons, Before, Dispatching, Working
<1>3. ASSUME NEW u \in Turns, Begins(t) PROVE ~Active(u)
  BY <1>3 DEF Begins, Waits, Replied, Active, Working
<1> QED BY <1>1, <1>2, <1>3 DEF OneAtATime

\* What the step of turn t does to its own copy and to what it must not lose.
LEMMA OwnCannotLose ==
  ASSUME Inv, Pairing, NEW t \in Turns, Kind(t), NEW c \in Turns, store # Absent,
         Has(store.messages, "user", c), Working(t) /\ ~saved[t] => CannotLose(t, c),
         (Working(t) /\ ~saved[t])',
         store'.version \in Nat, store'.version >= store.version
  PROVE  CannotLose(t, c)'
<1>1. CASE Begins(t)
  BY <1>1, BeginsAppends, HasAppend DEF CannotLose
<1>2. ASSUME NEW m, Appends(t, m), Active(t), ~saved[t] PROVE CannotLose(t, c)'
  <2>1. Working(t) /\ pc[t] # "orphaned"
    BY <1>2 DEF Active
  <2>2. Has(session[t].messages, "user", c) /\ session[t].messages \in Seq(Message)
    BY <1>2, <2>1, InHandHere DEF CannotLose
  <2> QED BY <1>2, <2>2, HasAppend DEF Appends, CannotLose
<1>3. CASE Responds(t)
  <2>1. PICK m : Appends(t, m)
    BY <1>3, RespondsAppends DEF Inv
  <2>2. pc[t] \in {"open", "stream"} /\ saved'[t] = saved[t]
    BY <1>3, RespondsAppends DEF Inv
  <2> QED BY <1>2, <2>1, <2>2 DEF Active, Working
<1>4. CASE Finishes(t)
  <2>1. Appends(t, Said("tool", t, results[t])) /\ pc[t] = "results" /\ saved'[t] = saved[t]
    BY <1>4, FinishesAppends DEF Inv, Finishes
  <2> QED BY <1>2, <2>1 DEF Active, Working
<1>5. CASE SavesTurn(t)
  BY <1>5 DEF SavesTurn
<1>6. CASE session'[t] = session[t] /\ ~Begins(t) /\ ~SavesTurn(t)
  <2>1. Working(t) /\ saved'[t] = saved[t] /\ (pc[t] = "orphaned" => pc'[t] = "orphaned")
    BY <1>6 DEF Kind, FailsToBegin, Walks, Responds, Decides, Completes, Finishes, ToolWrites,
      Leaves, Abandons, Kept, Before, Dispatching, Working
  <2>2. CannotLose(t, c)
    BY <2>1
  <2>3. session[t].version \in Nat /\ store.version \in Nat
    BY <2>1, InHandHere DEF Stored
  <2>4. CASE Has(session[t].messages, "user", c)
    BY <1>6, <2>4 DEF CannotLose
  <2>5. CASE pc[t] = "orphaned" /\ session[t].version < store.version
    <3>1. session'[t].version < store'.version
      BY <1>6, <2>3, <2>5
    <3> QED BY <2>1, <2>5, <3>1 DEF CannotLose
  <2> QED BY <2>2, <2>4, <2>5 DEF CannotLose
<1> QED BY <1>1, <1>3, <1>4, <1>5, <1>6, CopyChanges

LEMMA LastingStep ==
  ASSUME Inv, Inv', Pairing, OneAtATime, Lasting, NEW t \in Turns, Kind(t), Alone(t)
  PROVE  Lasting'
<1>0. ASSUME store # Absent
      PROVE  /\ store' # Absent /\ store \in Stored /\ store' \in Stored
             /\ store.version \in Nat /\ store'.version \in Nat
             /\ store'.version >= store.version
  <2>1. store' # Absent /\ (store' = store \/ store'.version > store.version)
    BY <1>0, StoreChanges DEF StoresCopy, AddsAttribute
  <2>2. store \in Stored /\ store' \in Stored
    BY <1>0, <2>1 DEF Inv, TypeOK
  <2> QED BY <2>1, <2>2 DEF Stored
<1> SUFFICES ASSUME NEW c \in Turns, ClosingNext(c)
             PROVE  /\ store' # Absent /\ Has(store'.messages, "user", c)
                    /\ \A u \in Turns : (Working(u) /\ ~saved[u])' => CannotLose(u, c)'
  BY DEF Lasting, Closing, ClosingNext, Has
<1>1. CASE Closing(c)
  <2>1. /\ store # Absent /\ Has(store.messages, "user", c)
        /\ \A u \in Turns : Working(u) /\ ~saved[u] => CannotLose(u, c)
    BY <1>1 DEF Lasting
  <2>2. ASSUME StoresCopy(t) PROVE Has(store'.messages, "user", c)
    <3>1. Working(t) /\ session[t].version = store.version /\ (saved[t] => pc[t] = "session_end")
          /\ store'.messages = session[t].messages
      BY <2>2 DEF StoresCopy
    <3>2. ~saved[t]
      BY <3>1 DEF Pairing, Shapely, Shape, Active
    <3>3. CannotLose(t, c)
      BY <2>1, <3>1, <3>2
    <3>4. Has(session[t].messages, "user", c)
      BY <1>0, <2>1, <3>1, <3>3 DEF CannotLose
    <3> QED BY <3>1, <3>4
  <2>3. Has(store'.messages, "user", c)
    BY <2>1, <2>2, StoreChanges DEF StoresCopy, AddsAttribute
  <2>4. ASSUME NEW u \in Turns \ {t}, (Working(u) /\ ~saved[u])' PROVE CannotLose(u, c)'
    <3>1. pc'[u] = pc[u] /\ session'[u] = session[u] /\ saved'[u] = saved[u]
      BY DEF Alone
    <3>2. CannotLose(u, c) /\ session[u].version \in Nat
      BY <2>1, <2>4, <3>1, InHandHere DEF Working, Stored
    <3> QED BY <1>0, <2>1, <3>1, <3>2 DEF CannotLose, Has
  <2>5. (Working(t) /\ ~saved[t])' => CannotLose(t, c)'
    BY <1>0, <2>1, OwnCannotLose
  <2>6. ASSUME NEW u \in Turns, (Working(u) /\ ~saved[u])' PROVE CannotLose(u, c)'
    BY <2>4, <2>5, <2>6
  <2> QED BY <1>0, <2>1, <2>3, <2>6
<1>2. CASE ~Closing(c)
  <2>1. c = t /\ SavesTurn(t)
    BY <1>2, Closers DEF Pairing
  <2>2. Active(t) /\ pc[t] = "session_end" /\ store' = Bumped(session[t]) /\ saved'[t] = TRUE
        /\ CanSave(store, session[t])
    BY <2>1 DEF SavesTurn, Active, Working
  <2>3. Shape(t) /\ store # Absent /\ session[t] \in Stored
    BY <2>2, InHandHere DEF Pairing, Shapely, Active
  <2>4. store'.messages = session[t].messages /\ store'.version = session[t].version + 1
        /\ session[t].version = store.version
    BY <2>2, <2>3, BumpedTyped DEF CanSave
  <2>5. ASSUME NEW u \in Turns, (Working(u) /\ ~saved[u])' PROVE CannotLose(u, c)'
    <3>1. u # t
      BY <2>2, <2>5
    <3>2. pc'[u] = pc[u] /\ session'[u] = session[u]
      BY <3>1 DEF Alone
    <3>3. Working(u) /\ ~Active(u)
      BY <2>2, <2>5, <3>1, <3>2 DEF OneAtATime, Working
    <3>4. session[u].version <= store.version /\ session[u].version \in Nat
      BY <3>3, InHandHere DEF CopyLevelOrStale, Stored
    <3>5. store.version \in Nat
      BY <1>0, <2>3
    <3> QED BY <2>4, <3>2, <3>3, <3>4, <3>5 DEF CannotLose, Active
  <2> QED BY <1>0, <2>1, <2>3, <2>4, <2>5 DEF Shape
<1> QED BY <1>1, <1>2

(***************************************************************************)
(* A turn whose consumer saw TurnCompleted is in the stored history, for   *)
(* good: neither the next turns nor the late finally block of a dropped    *)
(* one removes it.  (Concurrent turns do, and so does a compactor.)        *)
(***************************************************************************)
THEOREM CompletedTurnsAreFound == Sequential /\ ~Compacting => (Spec => []CompletedTurnsAreStored)
<1> SUFFICES ASSUME Sequential, ~Compacting PROVE Spec => []CompletedTurnsAreStored
  OBVIOUS
<1> DEFINE IInv == Inv /\ Pairing /\ OneAtATime /\ Lasting
<1>1. IInv /\ [Next]_vars => IInv'
  <2> SUFFICES ASSUME IInv, [Next]_vars PROVE IInv'
    OBVIOUS
  <2>1. Inv' /\ Pairing'
    BY InvStep, PairingStep
  <2>2. CASE UNCHANGED vars
    <3>1. UNCHANGED <<store, pc, session, saved, outcome>>
      BY <2>2 DEF vars, control, work
    <3>2. OneAtATime' /\ Lasting'
      BY <3>1 DEF OneAtATime, Active, Working, Lasting, Closing, CannotLose, Has
    <3> QED BY <2>1, <3>2
  <2>3. CASE ~UNCHANGED vars
    <3>1. PICK t \in Turns : Kind(t) /\ Alone(t)
      BY <2>3, NextIs DEF Pairing
    <3> QED BY <2>1, <3>1, OneAtATimeStep, LastingStep
  <2> QED BY <2>2, <2>3
<1>2. Init => IInv
  <2>1. Init => OneAtATime /\ Lasting
    BY DEF Init, OneAtATime, Active, Working, Lasting, Closing
  <2> QED BY <2>1, InvInit, PairingInit
<1>3. IInv => CompletedTurnsAreStored
  BY DEF Lasting, Closing, CompletedTurnsAreStored
<1> HIDE DEF IInv
<1> QED BY <1>1, <1>2, <1>3, PTL DEF Spec

-----------------------------------------------------------------------------
(***************************************************************************)
(* The setting of the last two theorems: a turn of the session starts      *)
(* after the last reply, consumers iterate to the end, and no compaction   *)
(* strategy is configured.  Each is needed: Turn_lost_update shows what    *)
(* concurrent turns lose, a dropped generator's finally block runs at any  *)
(* later time, and a compactor rewrites history.                           *)
(***************************************************************************)
OnePerSession == Sequential /\ ~CancelAtYield /\ ~Compacting

NoneDropped == \A t \in Turns : pc[t] # "orphaned"

(***************************************************************************)
(* The copy of the turn that works extends the stored history, is the      *)
(* stored one once it is saved, and is level with the store unless one of  *)
(* the turn's tools saved.                                                 *)
(***************************************************************************)
Own(t) ==
  LET ms == session[t].messages IN
    /\ Extends(ms, store.messages)
    /\ saved[t] => store.messages = ms
    /\ session[t].version # store.version => t \in store.attributes

Owned == \A t \in Turns : Working(t) => Own(t)

(***************************************************************************)
(* AbortedTurnsAreStoredOrToolSaved stays true because the stored history  *)
(* and attributes only grow.                                               *)
(***************************************************************************)
Remembered ==
  \A t \in Turns : Aborted(t) => store # Absent /\ (Has(store.messages, "user", t) \/ t \in store.attributes)

History == Pairing /\ OneAtATime /\ NoneDropped /\ Owned /\ Remembered

\* Nobody else is at work around a step.
Moves(t) ==
  /\ Kind(t) /\ Alone(t)
  /\ \A u \in Turns \ {t} : pc[u] \in {"idle", "done"} /\ pc'[u] = pc[u]

LEMMA HistoryMoves ==
  ASSUME Inv, OnePerSession, History, Next, ~UNCHANGED vars
  PROVE  \E t \in Turns : Moves(t)
<1>1. PICK t \in Turns : Kind(t) /\ Alone(t)
  BY NextIs DEF OnePerSession, History, Pairing
<1>2. (pc[t] = "idle" /\ Waits(t)) \/ Working(t)
  BY <1>1 DEF Kind, Begins, FailsToBegin, Walks, Responds, Decides, Completes, Finishes,
    SavesTurn, ToolWrites, Leaves, Abandons, Before, Dispatching, Working
<1>3. ASSUME NEW u \in Turns \ {t} PROVE pc[u] \in {"idle", "done"}
  BY <1>2 DEF OnePerSession, History, Waits, Replied, OneAtATime, NoneDropped, Active, Working
<1> QED BY <1>1, <1>3 DEF Moves, Alone

LEMMA NoneDroppedStep ==
  ASSUME ~CancelAtYield, NoneDropped, NEW t \in Turns, Kind(t), Alone(t)
  PROVE  NoneDropped'
<1>1. pc'[t] # "orphaned"
  BY DEF NoneDropped, Kind, Begins, FailsToBegin, Walks, Responds, Decides, Completes, Finishes,
         SavesTurn, ToolWrites, Leaves, Abandons, Before, Dispatching
<1> QED BY <1>1 DEF NoneDropped, Alone

(***************************************************************************)
(* A step never shortens or rewrites the stored history.                   *)
(***************************************************************************)
LEMMA SaveExtends ==
  ASSUME Inv, Owned, NEW t \in Turns, Kind(t), store # Absent
  PROVE  store' # Absent /\ Extends(store'.messages, store.messages)
<1>1. store \in Stored /\ store.messages \in Seq(Message)
  BY DEF Inv, TypeOK, Stored
<1>2. Len(store.messages) <= Len(store.messages)
  BY <1>1
<1>3. Extends(store.messages, store.messages)
  BY <1>2 DEF Extends
<1>4. CASE StoresCopy(t)
  BY <1>4 DEF StoresCopy, Owned, Own
<1> QED BY <1>3, <1>4, StoreChanges DEF AddsAttribute

(***************************************************************************)
(* The working turn's copy keeps extending the stored history.             *)
(***************************************************************************)
LEMMA OwnStep ==
  ASSUME Inv, Pairing, NoneDropped, ~CancelAtYield, NEW t \in Turns, Working(t) => Own(t),
         Kind(t), Working(t)'
  PROVE  Own(t)'
<1>1. CASE Begins(t)
  <2> DEFINE m == Said("user", t, {})
  <2>1. /\ m \in Message /\ m.turn = t /\ m.role = "user"
        /\ session'[t].messages = Append(store.messages, m)
        /\ store \in Stored /\ store.messages \in Seq(Message)
    BY <1>1, BeginsAppends
  <2>2. /\ pc[t] = "idle" /\ pc'[t] = "session_start" /\ store' = store
        /\ session'[t].version = store.version /\ saved'[t] = saved[t] /\ outcome'[t] = outcome[t]
    BY <1>1 DEF Begins
  <2> HIDE DEF m
  <2>5. Extends(session'[t].messages, store.messages)
    <3>1. Len(store.messages) <= Len(store.messages)
      BY <2>1
    <3>2. Extends(store.messages, store.messages)
      BY <3>1 DEF Extends
    <3> QED BY <2>1, <3>2, ExtendsAppend
  <2> QED BY <2>1, <2>2, <2>5 DEF Own, Pairing, Fresh
<1>2. ASSUME NEW m, Appends(t, m), Working(t), store' = store, saved'[t] = saved[t],
             session'[t].version = session[t].version \/ session'[t].version = store.version,
             pc[t] \notin {"saved", "end"}, pc'[t] \notin {"saved", "end"}
      PROVE  Own(t)'
  <2>1. Own(t) /\ Shape(t) /\ session[t].messages \in Seq(Message) /\ store.messages \in Seq(Message)
    BY <1>2, InHandHere DEF NoneDropped, Active, Pairing, Shapely
  <2>2. m \in Message /\ m.turn = t /\ session'[t].messages = Append(session[t].messages, m)
    BY <1>2 DEF Appends
  <2>4. Extends(session'[t].messages, store.messages)
    BY <2>1, <2>2, ExtendsAppend DEF Own
  <2>5. ~saved[t]
    BY <1>2, <2>1 DEF Shape
  <2>6. session[t].version # store.version => t \in store.attributes
    BY <2>1 DEF Own
  <2> QED BY <1>2, <2>4, <2>5, <2>6 DEF Own
<1>3. CASE Responds(t)
  <2>1. PICK m : Appends(t, m)
    BY <1>3, RespondsAppends DEF Inv
  <2>2. /\ pc[t] \in {"open", "stream"} /\ pc'[t] = "post_llm" /\ session'[t].version = session[t].version
        /\ store' = store /\ saved'[t] = saved[t] /\ outcome'[t] = outcome[t]
    BY <1>3, RespondsAppends DEF Inv
  <2>3. Working(t)
    BY <2>2 DEF Working
  <2> QED BY <1>2, <2>1, <2>2, <2>3
<1>4. CASE Finishes(t)
  <2>1. Appends(t, Said("tool", t, results[t]))
    BY <1>4, FinishesAppends DEF Inv
  <2>2. Working(t)
    BY <1>4 DEF Finishes, Working
  <2> QED BY <1>2, <1>4, <2>1, <2>2 DEF Finishes, Before
<1>5. CASE SavesTurn(t)
  <2>1. Working(t) /\ pc'[t] = "saved" /\ saved'[t] = TRUE /\ outcome'[t] = outcome[t] /\ session'[t] = store'
    BY <1>5 DEF SavesTurn, Working
  <2>2. session'[t].messages = session[t].messages /\ Own(t)
    BY <1>5, <2>1, InHandHere, BumpedTyped DEF SavesTurn
  <2>3. session[t].messages \in Seq(Message)
    BY <2>1, InHandHere
  <2>4. Len(session[t].messages) <= Len(session[t].messages)
    BY <2>3
  <2>5. Extends(session[t].messages, session[t].messages)
    BY <2>4 DEF Extends
  <2> QED BY <2>1, <2>2, <2>5 DEF Own
<1>6. CASE ToolWrites(t)
  <2>1. Working(t) /\ pc'[t] = pc[t] /\ session'[t] = session[t] /\ saved'[t] = saved[t] /\ outcome'[t] = outcome[t]
    BY <1>6 DEF ToolWrites, Working
  <2>2. store'.messages = store.messages /\ t \in store'.attributes
    <3>1. store # Absent /\ store \in Stored
      BY <1>6 DEF ToolWrites, Inv, TypeOK
    <3>2. [store EXCEPT !.attributes = @ \cup {t}] \in Stored
      BY <3>1 DEF Stored
    <3>3. store' = Bumped([store EXCEPT !.attributes = @ \cup {t}])
      BY <1>6 DEF ToolWrites
    <3> QED BY <3>1, <3>2, <3>3, BumpedTyped DEF Stored
  <2> QED BY <2>1, <2>2 DEF Own
<1>7. CASE Walks(t) \/ Decides(t) \/ Completes(t)
  <2>1. Kept(t) /\ Working(t)
    BY <1>7 DEF Walks, Decides, Completes, Working, Before, Dispatching
  <2>2. Own(t) /\ store' = store /\ session'[t] = session[t] /\ saved'[t] = saved[t]
    BY <2>1 DEF Kept
  <2> QED BY <2>2 DEF Own
<1>8. CASE Abandons(t)
  <2>1. FALSE
    BY <1>8 DEF Abandons
  <2> QED BY <2>1
<1> QED
  BY <1>1, <1>3, <1>4, <1>5, <1>6, <1>7, <1>8 DEF Kind, FailsToBegin, Leaves, Working

LEMMA OwnedStep ==
  ASSUME Inv, OnePerSession, History, NEW t \in Turns, Moves(t)
  PROVE  Owned'
<1>1. \A u \in Turns \ {t} : ~Working(u)'
  BY DEF Moves, Working
<1>2. Working(t)' => Own(t)'
  BY OwnStep DEF OnePerSession, History, Owned, Moves
<1> QED BY <1>1, <1>2 DEF Owned

(***************************************************************************)
(* Aborted turns stay in the stored history.                               *)
(***************************************************************************)
LEMMA RememberedStep ==
  ASSUME Inv, Inv', [Next]_vars, History, NEW t \in Turns, Moves(t)
  PROVE  Remembered'
<1> DEFINE Found(u) == store' # Absent /\ (Has(store'.messages, "user", u) \/ u \in store'.attributes)
<1>0. store # Absent => store.attributes \subseteq store'.attributes
  BY StoreStep
<1>1. store # Absent => store' # Absent /\ Extends(store'.messages, store.messages)
  BY SaveExtends DEF History, Moves
<1>2. ASSUME NEW u \in Turns, store # Absent, Has(store.messages, "user", u)
      PROVE  store' # Absent /\ Has(store'.messages, "user", u)
  <2>1. store \in Stored /\ store' \in Stored
    BY <1>1, <1>2 DEF Inv, TypeOK
  <2> QED BY <1>1, <1>2, <2>1, HasExtends DEF Stored
<1>3. ASSUME NEW u \in Turns \ {t}, Aborted(u)' PROVE Found(u)
  <2>1. pc'[u] = pc[u] /\ session'[u] = session[u] /\ outcome'[u] = outcome[u]
    BY DEF Moves, Alone
  <2>2. store # Absent /\ (Has(store.messages, "user", u) \/ u \in store.attributes)
    BY <1>3, <2>1 DEF History, Remembered, Aborted
  <2> QED BY <1>0, <1>1, <1>2, <2>2
<1>4. ASSUME Aborted(t)' PROVE Found(t)
  <2>1. pc'[t] = "done" /\ session'[t] # Absent
    BY <1>4 DEF Aborted
  <2>2. FailsToBegin(t) \/ Leaves(t)
    BY <2>1 DEF Moves, Kind, Begins, Walks, Responds, Decides, Completes,
              Finishes, SavesTurn, ToolWrites, Abandons, Before, Dispatching, Working
  <2>3. CASE FailsToBegin(t)
    BY <2>1, <2>3 DEF FailsToBegin, Inv, CopiesLevelOrStale, CopyLevelOrStale
  <2>4. CASE Leaves(t)
    <3>1. Working(t) /\ Own(t) /\ Shape(t) /\ store # Absent /\ session[t] \in Stored
      BY <2>4, InHandHere DEF Leaves, History, Owned, NoneDropped, Pairing, Shapely, Active
    <3>2. CASE saved[t]
      BY <2>4, <3>1, <3>2 DEF Leaves, Own, Shape
    <3>3. CASE ~saved[t] /\ CanSave(store, session[t])
      <4>1. store' = Bumped(session[t])
        BY <2>4, <3>3 DEF Leaves
      <4>2. store'.messages = session[t].messages /\ store' # Absent
        BY <3>1, <4>1, BumpedTyped, TurnAssumption
      <4> QED BY <3>1, <4>2 DEF Shape
    <3>4. CASE ~saved[t] /\ ~CanSave(store, session[t])
      <4>1. store' = store /\ session[t].version # store.version
        BY <2>4, <3>4 DEF Leaves, CanSave
      <4> QED BY <3>1, <4>1 DEF Own
    <3> QED BY <3>2, <3>3, <3>4
  <2> QED BY <2>2, <2>3, <2>4
<1>5. ASSUME NEW u \in Turns, Aborted(u)' PROVE Found(u)
  BY <1>3, <1>4, <1>5
<1> QED BY <1>5 DEF Remembered, Has

LEMMA HistoryInit == Init => History
<1>1. Init => OneAtATime /\ NoneDropped /\ Owned /\ Remembered
  BY DEF Init, OneAtATime, NoneDropped, Owned, Remembered, Active, Working, Aborted
<1> QED BY <1>1, PairingInit DEF History

LEMMA HistoryStep == OnePerSession /\ Inv /\ History /\ [Next]_vars => History'
<1> SUFFICES ASSUME OnePerSession, Inv, History, [Next]_vars PROVE History'
  OBVIOUS
<1>0. Inv' /\ Pairing'
  BY InvStep, PairingStep DEF OnePerSession, History
<1>1. CASE UNCHANGED vars
  <2>1. UNCHANGED <<store, pc, session, saved, outcome>>
    BY <1>1 DEF vars, control, work
  <2>2. OneAtATime' /\ NoneDropped' /\ Owned' /\ Remembered'
    BY <2>1 DEF History, OneAtATime, NoneDropped, Active, Working, Owned, Own, Extends,
      Remembered, Aborted, Has
  <2> QED BY <1>0, <2>2 DEF History
<1>2. CASE ~UNCHANGED vars
  <2>1. PICK t \in Turns : Moves(t)
    BY <1>2, HistoryMoves
  <2>2. Kind(t) /\ Alone(t)
    BY <2>1 DEF Moves
  <2>3. OneAtATime' /\ NoneDropped'
    BY <2>2, OneAtATimeStep, NoneDroppedStep DEF OnePerSession, History
  <2>4. Owned'
    BY <2>1, OwnedStep
  <2>5. Remembered'
    BY <1>0, <2>1, RememberedStep
  <2> QED BY <1>0, <2>3, <2>4, <2>5 DEF History
<1> QED BY <1>1, <1>2

LEMMA HistoryHolds == OnePerSession => (Spec => [](Inv /\ History))
<1> SUFFICES ASSUME OnePerSession PROVE Spec => [](Inv /\ History)
  OBVIOUS
<1>1. Inv /\ History /\ [Next]_vars => (Inv /\ History)'
  BY InvStep, HistoryStep
<1>2. Init => Inv /\ History
  BY InvInit, HistoryInit
<1> QED BY <1>1, <1>2, PTL DEF Spec

(***************************************************************************)
(* A turn that was cancelled, halted or failed is in the stored history as *)
(* well, unless one of its tools saved the session and it ended before it  *)
(* took that version over.                                                 *)
(***************************************************************************)
THEOREM AbortedTurnsAreFound == OnePerSession => (Spec => []AbortedTurnsAreStoredOrToolSaved)
<1>1. Inv /\ History => AbortedTurnsAreStoredOrToolSaved
  BY DEF History, Remembered, AbortedTurnsAreStoredOrToolSaved
<1> QED BY <1>1, HistoryHolds, PTL

(***************************************************************************)
(* Extends is what MessagesKept says with SubSeq.                          *)
(***************************************************************************)
LEMMA ExtendsPrefix ==
  ASSUME NEW ms \in Seq(Message), NEW base \in Seq(Message), Extends(ms, base)
  PROVE  Len(base) <= Len(ms) /\ base = SubSeq(ms, 1, Len(base))
<1>1. Len(base) \in Nat /\ Len(ms) \in Nat /\ Len(base) <= Len(ms)
  BY DEF Extends
<1>2. \A i \in 1..Len(base) : ms[i] \in Message
  BY <1>1
<1>3. /\ SubSeq(ms, 1, Len(base)) \in Seq(Message)
      /\ Len(SubSeq(ms, 1, Len(base))) = Len(base)
      /\ \A i \in 1..Len(base) : SubSeq(ms, 1, Len(base))[i] = ms[i]
  BY <1>1, <1>2, SubSeqProperties
<1>4. \A i \in 1..Len(base) : SubSeq(ms, 1, Len(base))[i] = base[i]
  BY <1>3 DEF Extends
<1> QED BY <1>1, <1>3, <1>4, SeqEqual

(***************************************************************************)
(* No message ever disappears from the stored history, nor changes its     *)
(* place.                                                                  *)
(***************************************************************************)
THEOREM NoMessageIsLost == OnePerSession => (Spec => MessagesKept)
<1> SUFFICES ASSUME OnePerSession PROVE Spec => MessagesKept
  OBVIOUS
<1> DEFINE Prefix == store # Absent =>
             /\ Len(store.messages) <= Len(store'.messages)
             /\ store.messages = SubSeq(store'.messages, 1, Len(store.messages))
<1>1. Inv /\ History /\ [Next]_vars => [Prefix]_vars
  <2> SUFFICES ASSUME Inv, History, [Next]_vars, ~UNCHANGED vars, store # Absent
               PROVE  Prefix
    BY DEF Prefix
  <2>1. PICK t \in Turns : Moves(t)
    BY HistoryMoves
  <2>2. store' # Absent /\ Extends(store'.messages, store.messages)
    BY <2>1, SaveExtends DEF History, Moves
  <2>3. Inv'
    BY InvStep
  <2>4. store.messages \in Seq(Message) /\ store'.messages \in Seq(Message)
    BY <2>2, <2>3 DEF Inv, TypeOK, Stored
  <2> QED BY <2>2, <2>4, ExtendsPrefix
<1>2. Spec => [][Prefix]_vars
  <2> HIDE DEF Prefix
  <2> QED BY <1>1, HistoryHolds, PTL DEF Spec
<1> QED BY <1>2 DEF MessagesKept

=============================================================================
