-------------------------------- MODULE Turn --------------------------------
(***************************************************************************)
(* engine/loop.py: run_turn, as several turns of one session run it        *)
(* concurrently in one event loop.  A turn loads the session, alternates   *)
(* model calls and tool calls on its own copy, and saves the copy at the   *)
(* end, or in its finally block if it does not get there.                  *)
(*                                                                         *)
(* A step is what a turn does between two points where it can be suspended *)
(* (an await that really waits, or a yield to the consumer).  The bundled  *)
(* stores never suspend inside load or save, so a load, a save and the     *)
(* statements around them belong to one step.                              *)
(*                                                                         *)
(* pc[t] names what turn t awaits next; atYield[t] says that it stands at  *)
(* the yield before that, its consumer having control.                     *)
(***************************************************************************)
EXTENDS Session, Compaction

CONSTANTS
  Turns,          \* calls of run_turn, all on one session
  MaxIterations,  \* RuntimeConfig.max_iterations
  MaxAttempts,    \* RuntimeConfig.retry.max_attempts
  MaxCalls,       \* bound: tool calls in one model response
  ToolsWrite,     \* whether tools save the session themselves
  Compacting,     \* whether a compaction strategy is configured
  KeepRecent,     \* SummarizationCompactor.keep_recent
  Sequential,     \* whether consumers start a turn only after the last reply
  CancelAtYield   \* whether a consumer may be cancelled while it has control

(***************************************************************************)
(* A tool call is named by its turn, iteration and place in the response.  *)
(* A message keeps its role, the turn that made it, and the tool calls it  *)
(* makes (assistant) or answers (tool).                                    *)
(***************************************************************************)
Call == Turns \X Nat \X Nat
Message == [role : {"user", "assistant", "tool", "system"}, turn : Turns, calls : SUBSET Call]
Stored == [version : Nat, messages : Seq(Message), attributes : SUBSET Turns]

ASSUME TurnAssumption ==
  /\ MaxIterations \in Nat /\ MaxAttempts \in Nat \ {0} /\ MaxCalls \in Nat
  /\ KeepRecent \in Nat
  /\ {ToolsWrite, Compacting, Sequential, CancelAtYield} \subseteq BOOLEAN
  /\ Absent \notin Stored  \* the sentinel is no session

Said(role, t, ids) == [role |-> role, turn |-> t, calls |-> ids]

VARIABLES
  store,      \* the stored session, or Absent
  pc, atYield,
  session,    \* the turn's own copy of the session
  iteration,
  attempt,    \* of _open_provider_stream_with_retry
  calls,      \* tool calls of the response still to be dispatched
  results,    \* the calls that have a ToolResultBlock
  saved,
  outcome,    \* how the turn ended for its consumer
  ran,        \* ghost: the calls whose tool was executed
  seen,       \* ghost: the stored messages the turn's copy is based on
  rebased     \* ghost: the turns that took a version without its messages

control == <<pc, atYield>>
work == <<session, iteration, attempt, calls, results, saved>>
ghost == <<ran, seen, rebased>>
vars == <<store, control, work, outcome, ghost>>

Awaits == {"session_start", "pre_llm", "open", "stream", "post_llm", "permission", "pre_tool",
           "tool", "post_tool", "compaction", "compact", "turn_complete", "session_end", "saved"}
Places == Awaits \cup {"idle", "results", "end", "orphaned", "done"}

Dispatching == {"permission", "pre_tool", "tool", "post_tool"}
InLoop == Dispatching \cup {"pre_llm", "open", "stream", "post_llm", "results"}

TypeOK ==
  /\ store \in Stored \cup {Absent}
  /\ pc \in [Turns -> Places]
  /\ atYield \in [Turns -> BOOLEAN]
  /\ session \in [Turns -> Stored \cup {Absent}]
  /\ iteration \in [Turns -> 0..MaxIterations]
  /\ attempt \in [Turns -> 0..MaxAttempts]
  /\ calls \in [Turns -> Seq(Call)]
  /\ results \in [Turns -> SUBSET Call]
  /\ saved \in [Turns -> BOOLEAN]
  /\ outcome \in [Turns -> {"none", "completed", "raised", "cancelled"}]
  /\ ran \in [Turns -> SUBSET Call]
  /\ seen \in [Turns -> Seq(Message)]
  /\ rebased \in SUBSET Turns
  /\ \A t \in Turns :
       /\ pc[t] \notin {"idle", "done"} => session[t] # Absent
       /\ pc[t] \in {"idle", "done"} => ~atYield[t]
       /\ pc[t] \in InLoop => iteration[t] < MaxIterations
       /\ pc[t] \in Dispatching => calls[t] # <<>>

Init ==
  /\ store \in {Absent, [version |-> 1, messages |-> <<>>, attributes |-> {}]}
  /\ pc = [t \in Turns |-> "idle"]
  /\ atYield = [t \in Turns |-> FALSE]
  /\ session = [t \in Turns |-> Absent]
  /\ iteration = [t \in Turns |-> 0]
  /\ attempt = [t \in Turns |-> 0]
  /\ calls = [t \in Turns |-> <<>>]
  /\ results = [t \in Turns |-> {}]
  /\ saved = [t \in Turns |-> FALSE]
  /\ outcome = [t \in Turns |-> "none"]
  /\ ran = [t \in Turns |-> {}]
  /\ seen = [t \in Turns |-> <<>>]
  /\ rebased = {}

-----------------------------------------------------------------------------
(* Control flow. *)

Awaiting(t, place) == pc[t] = place /\ ~atYield[t]

GoTo(t, place) ==
  /\ pc' = [pc EXCEPT ![t] = place]
  /\ UNCHANGED atYield

YieldThen(t, place) ==
  /\ pc' = [pc EXCEPT ![t] = place]
  /\ atYield' = [atYield EXCEPT ![t] = TRUE]

\* The while condition, when `iteration` is about to be i and stop is unset.
LoopHeadOffByOne(i) == IF i <= MaxIterations THEN "pre_llm" ELSE "turn_complete"

LoopHead(i) == IF i < MaxIterations THEN "pre_llm" ELSE "turn_complete"

\* The finally block: an unsaved copy is saved, and a conflict swallowed.
FinallyWithoutSave(t) == store' = store

Finally(t) ==
  store' = IF ~saved[t] /\ CanSave(store, session[t]) THEN Bumped(session[t]) ELSE store

\* An exception leaves run_turn through the finally block.
Leave(t, how) ==
  /\ Finally(t)
  /\ pc' = [pc EXCEPT ![t] = "done"]
  /\ atYield' = [atYield EXCEPT ![t] = FALSE]
  /\ outcome' = [outcome EXCEPT ![t] = how]
  /\ UNCHANGED <<work, ghost>>

\* The consumer can tell that the turn is over.
RepliedBeforeSave(t) == pc[t] \in {"session_end", "saved", "end", "orphaned", "done"}

Replied(t) == pc[t] \in {"orphaned", "done"}

-----------------------------------------------------------------------------
(* The beginning of a turn, and what can end it at any await or yield. *)

Start(t) ==
  /\ pc[t] = "idle"
  /\ Sequential => \A u \in Turns : pc[u] = "idle" \/ Replied(u)
  /\ IF store = Absent
       THEN /\ GoTo(t, "done")
            /\ outcome' = [outcome EXCEPT ![t] = "raised"]
            /\ UNCHANGED <<session, seen>>
       ELSE /\ GoTo(t, "session_start")
            /\ session' = [session EXCEPT ![t] =
                             [store EXCEPT !.messages = Append(@, Said("user", t, {}))]]
            /\ seen' = [seen EXCEPT ![t] = store.messages]
            /\ UNCHANGED outcome
  /\ UNCHANGED <<store, iteration, attempt, calls, results, saved, ran, rebased>>

\* The consumer asks for the next event and the turn goes on.
Resume(t) ==
  /\ atYield[t] /\ pc[t] \notin {"results", "end", "orphaned"}
  /\ atYield' = [atYield EXCEPT ![t] = FALSE]
  /\ UNCHANGED <<store, pc, work, outcome, ghost>>

\* A hook halts, or the prompt builder, the provider, the permission resolver
\* or should_compact raises; what tools and compact raise is caught.
Raise(t) ==
  /\ \E place \in Awaits \ {"open", "tool", "compact", "saved"} : Awaiting(t, place)
  /\ Leave(t, "raised")

\* The consumer's task is cancelled while the turn awaits: CancelledError
\* is thrown into the turn (but see CancelDropped).
Cancel(t) ==
  /\ \E place \in Awaits : Awaiting(t, place)
  /\ Leave(t, "cancelled")

\* It is cancelled, or fails, while the turn stands at a yield: the turn sees
\* nothing, and its finally block is left to the finalizer of the generator.
Abandon(t) ==
  /\ CancelAtYield
  /\ atYield[t] /\ pc[t] # "orphaned"
  /\ GoTo(t, "orphaned")
  /\ outcome' = [outcome EXCEPT ![t] = "cancelled"]
  /\ UNCHANGED <<store, work, ghost>>

FinalizeIfSaved(t) ==
  /\ pc[t] = "orphaned" /\ saved[t]
  /\ Leave(t, "cancelled")

Finalize(t) ==
  /\ pc[t] = "orphaned"
  /\ Leave(t, "cancelled")

-----------------------------------------------------------------------------
(* The model call. *)

SessionStarted(t) ==
  /\ Awaiting(t, "session_start")
  /\ GoTo(t, LoopHead(iteration[t]))
  /\ UNCHANGED <<store, work, outcome, ghost>>

\* The prompt is built and the pre_llm hooks have run; their decision is ignored.
CallModel(t) ==
  /\ Awaiting(t, "pre_llm")
  /\ GoTo(t, "open")
  /\ attempt' = [attempt EXCEPT ![t] = 1]
  /\ UNCHANGED <<store, session, iteration, calls, results, saved, outcome, ghost>>

\* The provider fails before its first event.  Only a retryable error of an
\* attempt that is not the last is followed by another attempt.
OpenFails(t, retryable) ==
  /\ Awaiting(t, "open")
  /\ IF retryable /\ attempt[t] < MaxAttempts
       THEN /\ attempt' = [attempt EXCEPT ![t] = @ + 1]
            /\ UNCHANGED <<store, control, session, iteration, calls, results, saved, outcome, ghost>>
       ELSE Leave(t, "raised")

\* The first event arrives; a text or thinking delta is passed to the consumer.
FirstEvent(t) ==
  /\ Awaiting(t, "open")
  /\ YieldThen(t, "stream") \/ GoTo(t, "stream")
  /\ UNCHANGED <<store, work, outcome, ghost>>

\* The stream ends, with n tool calls collected; a stream without events ends
\* here too.
Respond(t, n) ==
  /\ Awaiting(t, "stream") \/ (Awaiting(t, "open") /\ n = 0)
  /\ LET id(k) == <<t, iteration[t], k>> IN
       /\ session' = [session EXCEPT ![t].messages =
                        Append(@, Said("assistant", t, {id(k) : k \in 1..n}))]
       /\ calls' = [calls EXCEPT ![t] = [k \in 1..n |-> id(k)]]
  /\ GoTo(t, "post_llm")
  /\ UNCHANGED <<store, iteration, attempt, results, saved, outcome, ghost>>

\* The post_llm hooks have run: without tool calls the loop is over, otherwise
\* an empty list of results is begun.
ModelDoneKeepsResults(t) ==
  /\ Awaiting(t, "post_llm")
  /\ IF calls[t] = <<>>
       THEN YieldThen(t, "turn_complete") /\ iteration' = [iteration EXCEPT ![t] = @ + 1]
       ELSE GoTo(t, "permission") /\ UNCHANGED iteration
  /\ UNCHANGED <<store, session, attempt, calls, results, saved, outcome, ghost>>

ModelDone(t) ==
  /\ Awaiting(t, "post_llm")
  /\ IF calls[t] = <<>>
       THEN /\ YieldThen(t, "turn_complete")
            /\ iteration' = [iteration EXCEPT ![t] = @ + 1]
            /\ UNCHANGED results
       ELSE /\ GoTo(t, "permission")
            /\ results' = [results EXCEPT ![t] = {}]
            /\ UNCHANGED iteration
  /\ UNCHANGED <<store, session, attempt, calls, saved, outcome, ghost>>

-----------------------------------------------------------------------------
(* The tool calls of a response, one after the other. *)

NextCall(t) == Head(calls[t])

\* The call has its result: ToolCallCompleted is yielded, and the next call
\* dispatched or, after the last, the results appended.
Complete(t) ==
  /\ results' = [results EXCEPT ![t] = @ \cup {NextCall(t)}]
  /\ calls' = [calls EXCEPT ![t] = Tail(@)]
  /\ YieldThen(t, IF Len(calls[t]) = 1 THEN "results" ELSE "permission")
  /\ UNCHANGED <<store, session, iteration, attempt, saved, outcome, seen, rebased>>

\* The tool is unknown, or the verdict is deny or ask.
Refuse(t) ==
  /\ Awaiting(t, "permission")
  /\ Complete(t)
  /\ UNCHANGED ran

\* The tool is known and the verdict allow: ToolCallStarted is yielded.
Allow(t) ==
  /\ Awaiting(t, "permission")
  /\ YieldThen(t, "pre_tool")
  /\ UNCHANGED <<store, work, outcome, ghost>>

HookRefuses(t) ==
  /\ Awaiting(t, "pre_tool")
  /\ Complete(t)
  /\ UNCHANGED ran

Execute(t) ==
  /\ Awaiting(t, "pre_tool")
  /\ GoTo(t, "tool")
  /\ ran' = [ran EXCEPT ![t] = @ \cup {NextCall(t)}]
  /\ UNCHANGED <<store, work, outcome, seen, rebased>>

\* The tool loads the session, adds an attribute and saves it, as todo_write
\* does (bound: once per turn).
ToolSaves(t) ==
  /\ ToolsWrite
  /\ Awaiting(t, "tool")
  /\ store # Absent /\ t \notin store.attributes
  /\ store' = Bumped([store EXCEPT !.attributes = @ \cup {t}])
  /\ UNCHANGED <<control, work, outcome, ghost>>

\* The tool raises or its time is up: that is its result.
ToolFailsSilently(t) ==
  /\ Awaiting(t, "tool")
  /\ calls' = [calls EXCEPT ![t] = Tail(@)]
  /\ YieldThen(t, IF Len(calls[t]) = 1 THEN "results" ELSE "permission")
  /\ UNCHANGED <<store, session, iteration, attempt, results, saved, outcome, ghost>>

ToolFails(t) ==
  /\ Awaiting(t, "tool")
  /\ Complete(t)
  /\ UNCHANGED ran

ToolReturns(t) ==
  /\ Awaiting(t, "tool")
  /\ GoTo(t, "post_tool")
  /\ UNCHANGED <<store, work, outcome, ghost>>

\* The task is cancelled at the moment its tool ends: wait_for, on Python 3.10
\* and 3.11, drops the CancelledError, and the turn goes on.
CancelDropped(t) == ToolReturns(t) \/ ToolFails(t)

ToolDone(t) ==
  /\ Awaiting(t, "post_tool")
  /\ Complete(t)
  /\ UNCHANGED ran

\* A newer stored version is taken over with its attributes, not its messages.
TakenOverVersionOnly(own) ==
  IF store.version > own.version THEN [own EXCEPT !.version = store.version] ELSE own

TakenOverWhole(own) == IF store.version > own.version THEN store ELSE own

TakenOver(own) ==
  IF store.version > own.version
    THEN [own EXCEPT !.version = store.version, !.attributes = store.attributes]
    ELSE own

\* The results are appended, the session loaded again, IterationCompleted yielded.
FinishTools(t) ==
  /\ pc[t] = "results" /\ atYield[t]
  /\ LET own == [session[t] EXCEPT !.messages = Append(@, Said("tool", t, results[t]))] IN
       session' = [session EXCEPT ![t] = TakenOver(own)]
  /\ rebased' = IF store.version > session[t].version /\ store.messages # seen[t]
                  THEN rebased \cup {t} ELSE rebased
  /\ iteration' = [iteration EXCEPT ![t] = @ + 1]
  /\ YieldThen(t, IF Compacting THEN "compaction" ELSE LoopHead(iteration[t] + 1))
  /\ UNCHANGED <<store, attempt, calls, results, saved, outcome, ran, seen>>

-----------------------------------------------------------------------------
(* Compaction, and the end of a turn. *)

\* Below the threshold, or the strategy says no.
KeepHistory(t) ==
  /\ Awaiting(t, "compaction")
  /\ GoTo(t, LoopHead(iteration[t]))
  /\ UNCHANGED <<store, work, outcome, ghost>>

\* The copy is saved and loaded again, for the compactor to load it.
SaveForCompaction(t) ==
  /\ Awaiting(t, "compaction")
  /\ IF CanSave(store, session[t])
       THEN /\ store' = Bumped(session[t])
            /\ session' = [session EXCEPT ![t] = store']
            /\ seen' = [seen EXCEPT ![t] = session[t].messages]
            /\ GoTo(t, "compact")
            /\ UNCHANGED <<iteration, attempt, calls, results, saved, outcome, ran, rebased>>
       ELSE Leave(t, "raised")

Summarized(ms, t) == Compacted(ms, KeepRecent, Said("system", t, {}))

\* The compactor has loaded the messages in the step that saved them, and
\* the summary is there.
Compact(t) ==
  /\ Awaiting(t, "compact")
  /\ session' = [session EXCEPT ![t].messages = Summarized(@, t)]
  /\ GoTo(t, LoopHead(iteration[t]))
  /\ UNCHANGED <<store, iteration, attempt, calls, results, saved, outcome, ghost>>

CompactFails(t) ==
  /\ Awaiting(t, "compact")
  /\ GoTo(t, LoopHead(iteration[t]))
  /\ UNCHANGED <<store, work, outcome, ghost>>

TurnCompleteHooksDone(t) ==
  /\ Awaiting(t, "turn_complete")
  /\ GoTo(t, "session_end")
  /\ UNCHANGED <<store, work, outcome, ghost>>

SaveTurn(t) ==
  /\ Awaiting(t, "session_end")
  /\ IF CanSave(store, session[t])
       THEN /\ store' = Bumped(session[t])
            /\ session' = [session EXCEPT ![t] = store']
            /\ saved' = [saved EXCEPT ![t] = TRUE]
            /\ seen' = [seen EXCEPT ![t] = session[t].messages]
            /\ GoTo(t, "saved")
            /\ UNCHANGED <<iteration, attempt, calls, results, outcome, ran, rebased>>
       ELSE Leave(t, "raised")

\* turn.completed is traced, and TurnCompleted yielded.
Announce(t) ==
  /\ Awaiting(t, "saved")
  /\ YieldThen(t, "end")
  /\ UNCHANGED <<store, work, outcome, ghost>>

Return(t) ==
  /\ pc[t] = "end"
  /\ Leave(t, "completed")

-----------------------------------------------------------------------------
Proceed(t) ==
  \/ Resume(t) \/ SessionStarted(t) \/ CallModel(t) \/ FirstEvent(t) \/ ModelDone(t)
  \/ \E retryable \in BOOLEAN : OpenFails(t, retryable)
  \/ \E n \in 0..MaxCalls : Respond(t, n)
  \/ Refuse(t) \/ Allow(t) \/ HookRefuses(t) \/ Execute(t)
  \/ ToolFails(t) \/ ToolReturns(t) \/ ToolDone(t) \/ FinishTools(t)
  \/ KeepHistory(t) \/ SaveForCompaction(t) \/ Compact(t) \/ CompactFails(t)
  \/ TurnCompleteHooksDone(t) \/ SaveTurn(t) \/ Announce(t) \/ Return(t) \/ Finalize(t)

Disturb(t) == ToolSaves(t) \/ Raise(t) \/ Cancel(t) \/ CancelDropped(t) \/ Abandon(t)

AllDone == (\A t \in Turns : pc[t] = "done") /\ UNCHANGED vars

Next == (\E t \in Turns : Start(t) \/ Proceed(t) \/ Disturb(t)) \/ AllDone

Spec == Init /\ [][Next]_vars

(***************************************************************************)
(* Fairness: what a turn awaits answers in the end (tools have a timeout,  *)
(* providers end their streams), its consumer keeps iterating, and the     *)
(* event loop runs the finalizer of a dropped generator.  Nothing is       *)
(* assumed of Start or of the disturbances.                                *)
(***************************************************************************)
FairSpec == Spec /\ \A t \in Turns : WF_vars(Proceed(t))

-----------------------------------------------------------------------------
(* Properties. *)

(***************************************************************************)
(* The optimistic lock, seen from the turns: no turn's copy is ahead of    *)
(* the store, and a copy at the store's version has every attribute the    *)
(* store has and is based on the messages the store has, unless the turn   *)
(* took that version over after its tool calls.                            *)
(***************************************************************************)
CopyLevelOrStale(t) ==
  /\ store # Absent
  /\ session[t].version <= store.version
  /\ session[t].version = store.version =>
       /\ store.attributes \subseteq session[t].attributes
       /\ store.messages = seen[t] \/ t \in rebased

CopiesLevelOrStale == \A t \in Turns : session[t] # Absent => CopyLevelOrStale(t)

(***************************************************************************)
(* A step that changes the stored messages writes the copy of one turn     *)
(* over exactly the messages that copy is based on.  The exceptions are    *)
(* the turns that took a newer version over after their tool calls without *)
(* the messages that came with it: nothing else defeats the version check. *)
(***************************************************************************)
OverwritesOnlyWhatItSaw ==
  [][store' # store /\ store'.messages # store.messages =>
       \E t \in Turns : /\ session[t] # Absent
                       /\ store'.messages = session[t].messages
                       /\ (store.messages = seen[t] \/ t \in rebased)]_vars

(***************************************************************************)
(* What a tool saved in the session's attributes stays there, whatever     *)
(* turns run, end or fail around it: the reload after the tool calls is    *)
(* there for that.                                                         *)
(***************************************************************************)
AttributesKept ==
  [][store # Absent => store.attributes \subseteq store'.attributes]_vars

(***************************************************************************)
(* No message ever disappears from the stored history.                     *)
(***************************************************************************)
MessagesKept ==
  [][store # Absent =>
       /\ Len(store.messages) <= Len(store'.messages)
       /\ store.messages = SubSeq(store'.messages, 1, Len(store.messages))]_vars

(***************************************************************************)
(* A history a provider accepts: the results of a response's tool calls    *)
(* stand right behind the response and are those of its calls.  Only a     *)
(* turn that has not come to its end leaves calls unanswered, and what     *)
(* follows them is the next turn's user message.                           *)
(***************************************************************************)
Paired(ms) ==
  \A k \in 1..Len(ms) :
    /\ ms[k].role = "tool" =>
         k > 1 /\ ms[k - 1] = Said("assistant", ms[k].turn, ms[k].calls)
    /\ ms[k].role = "assistant" /\ ms[k].calls # {} =>
         \/ k < Len(ms) /\ ms[k + 1] = Said("tool", ms[k].turn, ms[k].calls)
         \/ /\ outcome[ms[k].turn] # "completed"
            /\ k < Len(ms) => ms[k + 1].role = "user"

HistoriesPaired ==
  /\ store # Absent => Paired(store.messages)
  /\ \A t \in Turns : session[t] # Absent => Paired(session[t].messages)

Has(ms, role, t) == \E k \in 1..Len(ms) : ms[k].role = role /\ ms[k].turn = t

(***************************************************************************)
(* The history of a completed turn shows every tool it executed: there is  *)
(* a result for each, timed out or failed ones included.                   *)
(***************************************************************************)
EffectsRecorded ==
  \A t \in Turns : outcome[t] = "completed" =>
    ran[t] \subseteq UNION {session[t].messages[k].calls :
                             k \in {j \in 1..Len(session[t].messages) :
                                     session[t].messages[j].role = "tool"}}

(***************************************************************************)
(* A turn whose consumer saw TurnCompleted is in the stored history.       *)
(***************************************************************************)
CompletedTurnsAreStored ==
  \A t \in Turns : outcome[t] = "completed" => Has(store.messages, "user", t)

Aborted(t) == pc[t] = "done" /\ outcome[t] \in {"raised", "cancelled"} /\ session[t] # Absent

(***************************************************************************)
(* A turn that was cancelled, halted or failed is in the stored history    *)
(* all the same, half-baked: that is what the finally block is for.  Not   *)
(* so a turn one of whose tools saved the session and that ended before it *)
(* took the tool's version over.                                           *)
(***************************************************************************)
AbortedTurnsAreStoredOrToolSaved ==
  \A t \in Turns : Aborted(t) => Has(store.messages, "user", t) \/ t \in store.attributes

(***************************************************************************)
(* A turn that has begun comes to its end, with its finally block run.     *)
(***************************************************************************)
TurnsEnd == \A t \in Turns : (pc[t] # "idle") ~> (pc[t] = "done")

=============================================================================
