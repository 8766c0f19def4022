# meta-harney in TLA+

meta-harney is an asyncio library that runs agent turns on stored sessions, and a JSON-RPC
bridge through which another process (with the TypeScript client, a Node program) uses it.
This directory models its concurrent core, checks it with TLC on small instances and proves
what it states of the stores, the turns, the model calls, the child agents and both ends of the
bridge, liveness excepted, with TLAPS. Line numbers refer to `src/src/meta_harney/`.

## 1. Inventory

| Component | State it keeps | Operations | What is hard |
|---|---|---|---|
| Session stores (`builtin/session/`) | one `Session` per id, with a version | load, save (optimistic lock), list, delete | stale objects, racing creators, a write that fails after the version was incremented, restarts |
| `AgentRuntime` (`runtime.py`) | none of its own | create_session, stream, invoke | create_session checks and saves in two calls |
| Turn loop (`engine/loop.py`, `tool_dispatch.py`, `hook_dispatch.py`, `retry.py`) | the turn's copy of the session, iteration, calls, results, `saved` | run_turn, an async generator | turns of one session interleave; tools save the same session; cancellation at any await, or at a yield; the finally block; retries |
| Compaction (`builtin/compaction/`) | none | should_compact, compact | saves and reloads in the middle of a turn; what it cuts off |
| Bridge server (`bridge/server.py`) | tasks by request id, write lock, pending outbound requests, shutdown and exit flags | serve, one task per request, cancel in two ways, permission round trip, shutdown, exit | tasks, read loop and lock queue interleave; cancellations come early, late, twice; the client goes away |
| Bridge permission (`bridge/permission.py`) | tools that are always allowed | resolve | replies come late or crossed |
| Multi-agent manager (`builtin/multi_agent/`) | tasks and results of children | spawn, join, status, cancel | timeouts racing the child's end, cancellations that spread or are swallowed |
| Providers (`providers/`) | buffers of the stream being read | stream; converting a history for a vendor | fragments by index, streams cut off, retries, thinking another vendor signed, quirks |
| TypeScript client (`clients/typescript/src/`) | pending requests, turn handles | requests, sendMessage, read loop, exit | read loop's end racing writes, rejections nobody awaits, routing of permission requests |
| Framing, tracing, prompts, hooks, testing | little or none | encoding, logging | framing errors |

How they interact: the bridge server turns each `session.send_message` into a task that
iterates `AgentRuntime.stream`, which iterates `run_turn`. `run_turn` calls the store, the
provider, hooks, tools and the permission resolver, and yields events to its consumer. The
bridge's resolver asks the client through the server, and the client's answer comes back
through the server's read loop. The TypeScript client runs the server as a child process and
talks to it over two pipes. A provider adapter reads the vendor's stream and yields events,
`run_turn` makes the assistant message of them, and the adapter of the next call, perhaps of
another vendor, puts that message on the wire again. Tools may spawn child agents, whose
turns run in tasks of their own. Tools get the session store and may save the session the
turn is working on. Everything in Python runs in one event loop: code is atomic between
two points where it can be suspended, and what runs in between is decided by the loop.

What makes each correct: the store loses no saved edit and hides other tenants' sessions;
a turn ends, stores what it did, overwrites nothing it has not seen and leaves a history a
provider accepts; the bridge answers each request once, last, cancels what it is told to
cancel, runs only allowed tools, and comes to an end; a child agent is cancelled only when
somebody wanted it, and nothing is said of one that still runs; a vendor gets back what it said,
in a form it accepts; the client's requests settle and its turns hear their own events. The hazards behind these, each at
its line, are in `PROJECT.json`.

## 2. Modules

| Module | Models | EXTENDS / used by |
|---|---|---|
| `Session` | the version check and the version increment of save() | everything that stores sessions |
| `SessionStore` | `memory_store.py` and `create_session`, several clients and tenants | `Session` |
| `SessionPromise` | abstract: a session is created once and only gains edits | refined by `SessionStore` |
| `FileStore` | `file_store.py`: failing writes, restarts | `SessionStore` |
| `Turn`, `MCTurn` | `run_turn` with its dispatch helpers, several turns of one session | `Session` |
| `BridgeServer`, `MCBridge` | `server.py`, `permission.py`, one connection | — |
| `Conversation` | abstract: a request, messages about it, one answer | refined by `BridgeServer` |
| `Compaction` | `SummarizationCompactor.compact` as an operator | `Turn`, `ProviderCall` |
| `MultiAgent` | `in_process.py`: children, and the parents that call about them | — |
| `ChildLife` | abstract: a child's status, and what may be said of it | refined by `MultiAgent` |
| `Wire` | both adapters' conversions of a history | `ProviderCall` |
| `ProviderCall` | both adapters' streams, the retry helper, the assembly of messages | `Wire`, `Compaction` |
| `BridgeClient` | `client.ts`, `transport.ts`, the pipes, a server that may end | composes `Conversation` |
| `SessionStoreProofs`, `FileStoreProofs`, `TurnProofs`, `MultiAgentProofs`, `BridgeServerProofs`, `BridgeClientProofs`, `ProviderCallProofs` | their modules' proofs | the modules and TLAPS |
| `WireProofs` | lemmas about the operators of `Wire` and `Compaction` | `ProviderCallProofs` |

Operators named `...OffByOne`, `...WithoutSave`, `SpawnFirst` and the like next to a
definition are plausible wrong versions of it; nothing uses them in the specifications. Each
property is checked to fail when one of them takes the definition's place (`mutants`).

### The stores

`data` is `_data` (or the directory), `copy[c]` the Session object client `c` holds,
`creating[c]` the object of a `create_session` between its load and its save. The contents of a
session are abstracted to the set of edits it has. Both bundled stores hold a lock and never
suspend inside a call, so a call is one step; between two calls of a client anything may
happen, also between the two calls of `create_session`, because `SessionStore` is a protocol
with other implementations. `Commit` and `Conflict` are the two outcomes of `save`.

`FileStore` adds two failures: `WriteFails`, where the version check passed, the object's
version was incremented and writing the temporary file raises, and `Restart`, where only the
files survive. The ghost `torn` holds the clients whose object was bumped by such a save.

### The turns

`pc[t]` names what turn `t` awaits next and `atYield[t]` says that its consumer has control.
A step is the code from one suspension point to the next. A message keeps its role, the turn
that made it and the tool calls it makes or answers; texts are left out. Actions and code
correspond one to one with the stretches of `run_turn`: `SessionStarted`, `CallModel`,
`OpenFails` / `FirstEvent` (the retry helper), `Respond`, `ModelDone`, per tool call `Refuse`,
`Allow`, `HookRefuses`, `Execute`, `ToolFails` / `ToolReturns`, `ToolDone`, then `FinishTools`
with the reload at loop.py:383, `KeepHistory` / `SaveForCompaction` / `Compact` /
`CompactFails`, `TurnCompleteHooksDone`, `SaveTurn`, `Announce`, `Return`. `ToolSaves` is a
tool that saves the session itself, as `todo_write` does. Disturbances: `Raise` (a hook halts, a
provider or resolver raises), `Cancel` at an await, `CancelDropped` (a cancellation that `wait_for`
loses because the tool has just ended: the step is the tool's end), `Abandon` at a yield.

*Cancellation at a yield.* When the consumer's task is cancelled while it handles an event,
the CancelledError is raised in the consumer. `run_turn` is left suspended at its yield; its
finally block runs when the event loop's asyncgen finalizer closes it, a later step
(`Finalize`) that may come after the consumer has been answered. `CancelAtYield` turns this on.

Ghosts: `seen[t]` is the stored history the turn's copy is based on, `rebased` the turns that
took over a version without its messages, `ran[t]` the calls whose tool was executed.

### The bridge

`place[r]` says where the task of request `r` is: spawned, running, asking (its permission
request is open), waiting for the write lock, draining, over. `sending[r]` is what it sends,
`must[r]` that a CancelledError is on its way to it, as `Task.cancel` leaves it. `lock` and
`waiters` are the asyncio.Lock with its FIFO queue; a released lock goes to the head of the queue
when that task runs, and a task that comes in between queues up. `written[r]` is what was
given to the transport about `r`. The read loop spawns a task per request (`Spawn`; tasks
begin in that order), handles `$/cancelRequest` and `exit` inline, and resolves replies.
`DrainFails` and `Interrupted` cover the exception paths of `_dispatch_request`. Inside a turn
only what reaches the connection is kept: it sends events, asks for tools, announces those that are
allowed (`RunAllowed`, `Decided`) and runs them, ends. Wherever else a turn is suspended, a
CancelledError goes through it to `_dispatch_request`; `Turn` has the same (`Cancel`, `Abandon`). A tool may
lose it: `_execute_after_permission` awaits the tool under `asyncio.wait_for`, which on Python 3.10 and 3.11
(the package supports both) returns the result of a tool that has just ended and drops the
CancelledError, and a tool that drains a child agent takes it for the child's (in_process.py:187, 219).
So a turn whose place is "tool" may be interrupted, or its tool ends and the turn goes on with
nothing on its way (`ToolEnds`); `stopped` holds the turns that were cancelled anywhere else.
That a message can be encoded as JSON is assumed: an event that cannot fails its turn, as
`EndTurn` may at any time.

The client (external) sends requests with unique ids, cancellations, replies, `exit`, and
may close its end of the connection, or stop reading too.

### Child agents

`child[c]` is the state of the turn that child `c` runs, `tasks` and `results` are the backend's
two tables, `told` the children whose task has a CancelledError on its way. A caller (a
tool of a parent's turn, or the application) makes one call after another; `place[k]` says
where the call is suspended: in the session store, in a blocking child, in a join with or
without a timeout, in the drain of a join whose time is up, in the drain of cancel(). `StopCaller` is
`Task.cancel` on the caller's task, with what asyncio makes of it there: a blocking child and a
child awaited without timeout are cancelled too, the shield of a timed join takes it. `JoinReturns`
includes that `wait_for` of Python 3.10 and 3.11, which the package supports, prefers a
finished child to the cancellation. A child's own `asyncio.TimeoutError` (state `late`) is
taken for the join's, as in the code.

### Model calls

One chunk of a vendor is one step of `ProviderCall`, with the events the adapter yields for it and
what the engine does with them. A text, a signature or a JSON string is the sequence of the
pieces it was streamed in, and every piece is a number of its own: a piece that is lost, doubled,
moved or taken from another stream shows. Of JSON only this is kept: a text that is not closed
does not parse, and one that parses may not be an object. The ghost `said` holds what the
vendor streamed, apart from all buffers; `Record` writes what was finished of it into the message,
where it stays beside what the code recorded. Then the properties compare what a vendor said
with what `Wire` would send back to it. `NewTurn(v)` changes provider between two turns,
`Act` answers the calls and may compact. `BreakOff` is the other way out of a response with calls: a
`post_llm` hook halts the turn, the permission resolver raises, or the turn is cancelled in a tool or
at a yield, between loop.py:283 and 374. The results collected so far are lost, the finally block
saves the calls, and the next turn appends its user message behind them. Being halted, failing or cancelled
while the stream is open is `Fail` of `StreamFails`, since nothing has been recorded then; after a
last answer it changes nothing here. Stores with several turns are `Turn`'s. Images and names are left out, and the attributes of
ProviderStreamDone (stop reason, usage) are too, since nothing depends on them.

### The TypeScript client

`pending` and `inflight` are the client's tables, `promise[r]` is how a request was settled.
Steps are Node's: a message read, a call of the application, a callback. `writing` are the
requests whose `write` waits for the pipe to drain, `gone` the plain requests whose caller got the
write's error, which leaves their resolver in the table. `dead` is the process ended by an error
nobody handles: the rejection of a plain request whose promise nobody awaits yet or any more, or a
write to a server that has ended before Node has noticed (stdin has no 'error' listener).
`transport` follows exit(): after `stop()` the read under way may still deliver one message. The
notification of exit() waits for room in the pipe like any write, so stdin is ended only when no
write waits, and no 'drain' comes after it (`Exit`).
The server is any that keeps the promise of `Conversation`, which `BridgeServer` refines;
it may ask permission questions, and it may end at any moment. Which requests are turns is
drawn at the start.

## 3. Runs

| Run | Question | Bounds |
|---|---|---|
| `store` | Does the optimistic lock lose no edit; is it a `SessionPromise`? | 2 sessions, one deletable, 2 clients, 2 tenants, 2 edits, versions ≤ 2 |
| `file_store` | What do failing writes and restarts lose? | 2 sessions, 2 clients, 1 tenant, 2 edits, versions ≤ 3 |
| `turn_concurrent` | What can two interleaved turns do to the session, and do they end? | 2 turns, 1 iteration, 2 attempts, 1 call, tools save, compaction with KeepRecent 1, CancelAtYield |
| `turn_sequential` | Are turns that follow each other stored, completely and well formed? | 2 turns, 2 iterations, 2 calls, tools save |
| `bridge_requests` | Do cancellation, the lock and permissions hold together? | 2 turns, 1 session.cancel, 1 $/cancelRequest, 1 event or question per turn, 1 message in flight |
| `bridge_shutdown` | Does the server refuse, finish and return? | 1 turn, 1 shutdown, 1 other request, 1 $/cancelRequest |
| `multi_agent` | Who can end a child, what is a caller told, do timed calls return? | 2 callers, 2 calls each, 2 children |
| `provider_calls` | Does a vendor get back what it said, in a form it accepts? | Anthropic and DeepSeek, 3 pieces, 2 blocks per response, 5 messages, 2 attempts, KeepRecent 2 |
| `bridge_client` | Do requests settle, and do turns hear and answer their own? | 2 requests of either kind, one of them may wait for the pipe, 1 event or question per turn, pipes of 1 |
| `turn_lost_update`, `file_store_failed_write`, `bridge_stop_lost` | violations, section 4 | as small as shows it |

Why the bounds suffice. A lost update needs two clients and two saves, and version 2 or 3 is
the first at which an object can be stale and a failed write repeated. A turn's second iteration is the
first that could keep results of the one before, and two calls the first with an order. The
interesting cancellations need a task that holds the lock, one that waits and something to
cancel either: two turns and a cancel request. `MaxInbox = 1` does not serialise client and
server: the task of a request already read is still to begin when the next message is read,
and this is what the early cancellation needs. Two callers with two calls each are a parent that spawns
and joins, another that joins the same child, and either of them stopped or timed out in between; with a second
child the first can be mistaken for it. Three pieces let two blocks interleave and one
of them have an inside; five messages are a call, its answer, the next call after compaction
and the turn after. Two requests are two turns whose questions may cross, a turn and a
plain request, or two plain ones; a pipe of one message is full when the next is due.
`MaxCalls`, `MaxTalk`, `MaxInbox`, `MaxStops`, `MaxVersion`, `MaxPieces`, `MaxBlocks`,
`MaxMessages`, `MaxPipe` and `Slow` are bounds of the models; `MaxIterations`, `MaxAttempts` and `KeepRecent` are parameters of the code.

Properties by module:

- `SessionStore`: `OptimisticLock` (an object level with the store has all its edits),
  `NoLostUpdate`, `KeepsPromise` (the refinement; racing creators make one session, and a
  session never changes tenant).
- `FileStore`: `FileLock`, `LostOnlyToTornSaves`: the same for clients whose last save did
  not fail half way, across restarts.
- `Turn`: `CopiesLevelOrStale` and `OverwritesOnlyWhatItSaw` (the reload after the tool calls
  is the only way around the lock), `AttributesKept` (what that reload is for),
  `HistoriesPaired` (results directly behind their calls, if their turn did not end in between), `EffectsRecorded` (every tool that
  was executed has a result), `CompletedTurnsAreStored`, `AbortedTurnsAreStoredOrToolSaved`
  and `MessagesKept` (for turns that follow each other), `TurnsEnd`.
- `BridgeServer`: `WriterQueue`, `ToolsRunOnlyAllowed`, `CancelledTurnsStop` (but for
  a cancellation lost in a tool), `CancelRequestsReach` (a `session.cancel` cannot come too early), `LateRequestsRefused`,
  `KeepsPromise` (each request is a `Conversation`: one answer, the last message about it, missing
  only if the client asked to cancel), `RequestsEnd`, `ServeReturns`.
- `MultiAgent`: `ChildrenKeepPromise` (each child is a `ChildLife`: its status only goes forward,
  whichever table it is read from, and no call ends with news of a child that still runs),
  `JoinsTell` (a child's result is not lost, also after a join timed out),
  `ChildrenCancelledForCause`, `CallersCancelledForCause`, `TimedCallsReturn`.
- `ProviderCall`: `ReplayedAsSaid` (text, finished thoughts with their signature and first, calls with
  id and whole arguments, nothing of a failed attempt, reasoning where DeepSeek demands it),
  `OnlySignedThoughts` (whoever made the history), `CallsPaired` (on both wires, compaction
  included; but for the calls of turns that broke off, which is where such calls come from), `SilentOnlyIfNothingSaid` (where messages without content come from).
- `BridgeClient`: `RequestsSettle`, `TurnsHearTheirOwn`, `QuestionsFindATurn`.

The history properties are checked by the sequential run. "Sequential" means that a turn starts
when the consumer of the one before has been answered, and `CancelAtYield` is off there: with it the
late finally block makes turns overlap after all. Some of them need no such setting, which the
theorems of section 5 make precise: with two turns at once `CompletedTurnsAreStored` is violated
(`turn_lost_update`), while calls and results stay paired.

**Fairness.** `Turn!FairSpec` assumes that what a turn awaits answers (tools have a timeout,
providers end their streams), that the consumer keeps iterating and that the event loop
runs finalizers: weak fairness of each turn's own steps, none of disturbances or starts.
`BridgeServer!FairSpec` assumes weak fairness of the read loop, of each task (asyncio runs what
is ready, and the lock is FIFO) and of the client's answer to a permission request while its
connection is open; drain ends because the client reads or is gone. The client need not send
anything else. `MultiAgent!FairSpec` assumes that callers that can run do, that timers go off and
that a child told to cancel ends (`TurnsEnd`); of other children nothing, their provider
may hang. `BridgeClient` assumes that Node runs its callbacks, that the application's handlers
answer, that the server takes its input and comes to answer a request while the client reads, and that
one whose input has ended ends or is killed after the five seconds of `stop()`.

**Deadlock.** It is checked for stores, turns and child agents (`AllDone` is the stutter after the
last turn or call). The other configurations turn
it off: after `exit` a connection is over, and a server whose client left an open permission
request waits for good (`ServeReturns` and `RequestsEnd` name that as the only case);
`provider_calls` stops at its bounds; a client that has exited or whose process has died does
nothing more.

## 4. What the checks found

1. `turn_lost_update`: two turns of one session run at once and both yield
   TurnCompleted; one of them is missing from the stored history. The reload at loop.py:383
   takes over the version another turn saved, without its messages, and so defeats the lock the
   design makes mandatory.
2. `file_store_failed_write`: `FileSessionStore.save` increments the caller's version before it
   writes. After a failed write the object is ahead by one; once another client has saved, saving
   it again passes the check and drops the other client's edit.
3. `bridge_stop_lost`: a `$/cancelRequest` right behind its request is handled inline before the
   request's task has registered itself. It cancels nothing and the turn completes.
   `CancelRequestsReach` shows that `session.cancel`, being a task, cannot come too early.

Properties that name an exception, and the behaviour of the code it stands for:

- `AbortedTurnsAreStoredOrToolSaved`: a turn cancelled after its tool saved the session and
  before the reload is not stored: the save in the finally block conflicts, and the conflict is
  swallowed.
- `KeepsPromise` of the bridge: a second cancellation that reaches a task whose answer waits for the
  write lock ends the task, and the request is not answered. It happens only to requests the client asked
  to cancel, and `RequestsSettle` of the client excepts them for this reason.
- `CallersCancelledForCause`: a parent in the join of a child that somebody else cancels gets the
  child's CancelledError; the tool dispatch does not catch it, and the parent's turn ends.
- `JoinsTell`, "timeout": a child that fails with a TimeoutError of its own is reported as one that
  did not end in time, with `timeout=None` as well.
- `CallsPaired` and `HistoriesPaired`: a turn that ends between a response's calls and their results
  (a `post_llm` hook halts it, the permission resolver raises, it is cancelled in a tool) leaves the calls
  without results in front of the next user message, and the finally block stores them. Every later
  request of the session carries them, until compaction has summarised them away; both vendors refuse
  such a request. `HistoriesPaired` exempts these calls, `CallsPaired` says that they are the only ones, and
  that they are there as soon as one turn has broken off in this way. No document claims that a session can be
  used after an aborted turn, so this is not listed as a finding.
- `CallsPaired`: compaction separates calls from results when `keep_recent` is odd, or when a turn
  before ended without a last answer, so that user messages and the rest no longer alternate.
- `CancelledTurnsStop`: a cancellation that reaches a turn in a tool may be lost, and the turn go on and
  complete, although `session.cancel` answered that it was cancelled.
- `SilentOnlyIfNothingSaid`: a stream that ends with nothing but unfinished or unsigned
  reasoning leaves a message Anthropic gets without content.
- `ReplayedAsSaid` speaks of whole arguments only: a call whose JSON was cut off goes out with `{}`.
- `RequestsSettle`, "dead" and "reading": the client's process can end by a rejection nobody
  awaits, and a request sent after the read loop ended over a read error, while the server lives,
  is never settled.
- `QuestionsFindATurn`: with several turns in flight the question of an earlier one is put to the
  handle begun last, as the comment in `client.ts` says.

## 5. Proofs

Proved for every value of the constants: any number of sessions, clients, tenants, edits,
turns, iterations, attempts, calls, children, callers, requests, vendors, blocks and messages. The
assumptions are the named `ASSUME`s of the modules: sentinels are not values, bounds are natural
numbers, `MaxAttempts` is positive, the kinds of bridge requests are disjoint, and the client's
requests are finitely many (ids count them). `KeepRecent` is any natural number: 0 summarises and
keeps everything, as the slice `rest[-0:]` does. The theorems about histories in `TurnProofs` have
hypotheses besides, stated below.

Each proof has the same plan. An inductive invariant, made of the property and what makes it
true, was first checked by TLC on the instances of section 3; then it is shown of the initial states,
of every action, and to imply the property.

- `SessionStoreProofs`. `TypeCorrect`; `LockHolds`: `TypeOK /\ OptimisticLock` is inductive —
  `NoLostUpdate` alone says nothing about the objects clients hold, and a save loses nothing
  only because an object level with the store has what the store has. The clause that no
  stored record has version 0 is what makes the second of two racing creators conflict.
  `EditsAreKept` is `NoLostUpdate` from that invariant. `StoreKeepsPromise` is the refinement:
  initial states map to initial states, and every step is a `Create`, an `Extend` or a stutter
  (`StepKinds`).
- `FileStoreProofs`. `FileLockHolds`: the invariant adds that an object being created is still at
  version 0 and that no file is. A failed write breaks the lock for its own client only (`torn`),
  and a later successful save takes that client out again. `OnlyTornSavesLose` follows.
- `TurnProofs`. `TypeCorrect` needs each turn's place to agree with its data (in the
  loop below the bound, dispatching only with calls left), which are conjuncts of `TypeOK`.
  `LockHolds` is `CopiesLevelOrStale`; its induction sorts every action by what it does to
  store and copy: leaves both alone, changes the copy's messages only, saves a level copy,
  takes the store's version over, or is a tool's save (`TurnStepKind`). From the
  invariant follow `AttributesAreKept` and `OnlyRebasedTurnsOverwrite`.
- `TurnProofs`, second half: the histories. The steps of a turn are sorted once more, by what they do to its
  messages, calls and results (`StepIs`). `ToolEffectsAreRecorded` assumes `~Compacting` only and
  holds for turns that interleave, are cancelled or are dropped: an executed call is in hand, among
  the results collected, or in the history (`AllRecorded`). `HistoriesArePaired` assumes no more:
  its invariant `Pairing` says of each active turn how far the answering of its last response has
  come (`Answered`), that store and copies hold messages of other turns only once these have stored
  their copy or ended (`StoreFromEnded`, `CopiesFromEnded`), and that no history has an open response
  of a turn that is past its save. With compaction neither holds: a compactor summarises
  results, and cuts them off their calls.
  `CompletedTurnsAreFound` assumes `Sequential` and `~Compacting`, but lets consumers be cancelled at
  a yield: once a turn has saved its copy, every copy that may still be saved contains it, or is a dropped
  turn's and older than the stored version (`Lasting`). Interleaved turns lose completed ones
  (`turn_lost_update`). `AbortedTurnsAreFound` and `NoMessageIsLost` assume
  `OnePerSession`: `Sequential`, no consumer cancelled at a yield, no compaction. Each of
  the three is needed: TLC finds both violated when any one is given up; a generator dropped at a yield
  saves after the next turn has begun, or not at all. `History` adds to
  `Pairing` that the copy at work extends the stored history (`Own`).
- `MultiAgentProofs`. `ChildrenEndForCause` and `CallersEndForCause` are inductive together with
  the types, the agreement of `tasks`, `results` and `child` with what each caller waits for
  (`CallerOK`), and `OneParent`: no two callers spawn the same child. `JoinsTellHowTheyEnded` is the
  action property about joins, `BackendKeepsPromise` the refinement of `ChildLife`: a stored result
  is never of a child that still runs, so reading either table says the same.
- `BridgeServerProofs`. One invariant for `TypeCorrect`, `OneWriterAtATime`, `NoToolWithoutPermission`,
  `NothingAfterShutdown`, `CancelledTurnsDoNotComplete` and `CancelRequestsFindTheirTurn`.
  `Lines` says that a request stands once in the input or in the ready queue, `Order` that a
  `session.cancel` stands behind its turn in both and a late request behind the shutdown: the FIFO
  argument why a cancel request, unlike `$/cancelRequest`, is never early. `Questions` says where the answer to a
  permission request is: not given, in the input once, or in the future of the very question that
  waits, so that the k-th decision is about the k-th tool; with `AlwaysAllowed` this gives
  `ToolsRunOnlyAllowed`. `Stops` says that the cancellation of a turn that was cancelled outside
  its tools is on its way until the turn has its answer; a turn that a CancelledError is on its way to never
  enters a tool, which is the only place that could lose it. `WriterQueue` needs only the types.
- `BridgeServerProofs`, at its end: `ServerKeepsPromise`. Every step of the server is, for each request, a
  step of `Conversation` or a stutter. A task that is over without an answer was cancelled
  (`Wishes`), and nothing about a request is written behind its answer.
- `BridgeClientProofs`. The client with any server that keeps that promise, so with this one.
  `TypeCorrect` includes that both tables hold exactly what waits. `Answers` carries `Conversation`'s
  promise into the pipe: an answer is the last message about its request there. `Hears` counts: what was
  heard of a turn and what is still in the pipe make what the server told, as long as the handle
  is in the table; once the answer is read nothing is to come, which is `AnsweredTurnsHeardAll`.
  `QuestionsReachAHandle` rests on a turn with a question in the pipe being open, or its write failed,
  and on the greatest id among the handles (well-founded induction on the distance from the bound).

- `WireProofs`. The operators that adapters and compactor are made of, for sequences of any length.
  `InOrder(f, S)` is the sequence of the values of f at the numbers S; `Rank` and `Nth` are shown inverse
  to each other, and from that what picking keeps, adds, distributes over and composes to. `FlattenSeq`
  is a recursive function of the library: its run exists and is unique (`Flattening`), by taking
  a least counterexample where an induction theorem cannot be instantiated. `CompactedShape` says
  which messages compaction keeps. `Wire` defines `InOrder` by `CHOOSE` of the k-th number for the
  sake of these proofs: the provers know nothing of the library's `SelectSeq` and `SetToSortSeq`.
- `ProviderCallProofs`. All five invariants of `ProviderCall`, from `Inv` (`Invariance`):
  - `Stream`, of the attempt that streams: the buffer holds the unfinished blocks as they were
    streamed (`StreamTyped`), Anthropic's one after the other (`Serial`) and the others' at fixed
    indexes (`Parallel`); the events tell what is done, text, thoughts and calls each in order
    (`HeardText`, `HeardThoughts`, `HeardCalls`); ids do not repeat (`Identified`). The three
    properties about messages compare what was *said* with what is *sent*, and neither is in the
    history before the stream has ended: without `Stream` they are not inductive.
  - `Recorded`, of the history: each message is `Kept`, which holds what `ReplayedAsSaid`,
    `OnlySignedThoughts` and `SilentOnlyIfNothingSaid` say of an assistant message alone. So
    nothing has to be shown of them when messages are appended or cut off; all is
    shown once, where the message is recorded (`RecordedAnthropic`, `RecordedOpenAI`).
  - `SystemsFirst`: the system messages lead the history, where compaction puts its summary.

  `Replay`, `Signatures` and `Silence` follow, and `TypeCorrect`. `Pairing` (`CallsPaired`) needs `Order`
  besides (`OrderInvariance`): without compaction, or with an even `KeepRecent` while no turn has ended without a
  last answer, every tool message stands behind its calls, and calls without results stand in front of
  a user message or at the end of an idle history, and only if a turn broke off (`Pairs`); if one did
  and nothing was compacted, such calls are there (`Breaks`); and as long as no turn has failed the assistant's
  messages and the others alternate (`Alternates`). That is why an even `KeepRecent` is enough: compaction happens behind a tool message,
  and counted backwards from there every other message is the assistant's (`Backwards`), so the kept
  part begins with one and no result is cut off its call. The step from a paired history to a
  paired wire is its own argument: Anthropic's wire keeps the messages (`AnthropicPaired`), OpenAI's has an
  entry per result, and is paired by induction on the history's length (`OpenAIPaired`), the dangling calls
  and the user message behind them taken in one step (`BrokenAdded`).

Only liveness is left to TLC (`TurnsEnd`, `RequestsEnd`, `ServeReturns`, `TimedCallsReturn`,
`RequestsSettle`): it is out of the prover's reach. Every other property that a run checks and finds to hold
is stated by a theorem.

Where a hypothesis excludes a setting, the property fails there (`HistoriesPaired` and
`EffectsRecorded` with compaction; the other history properties also with interleaved turns, and
the last two with consumers cancelled at a yield).

## 6. Not modelled, and the plan

Left out for good: tracing and telemetry (errors swallowed, nothing depends on them), HTTP and
the vendors themselves, the model catalog, the fake provider, configuration, prompt builders,
the delays between retries, several processes on one store directory, duplicate request ids
on one connection, a retry configuration without attempts.

Left out so far: the decoders of both framings (byte level; a frame either arrives whole
or fails, `ReceiveEnd` and `ReadFails`), and the construction of `AgentRuntime`. What a child
agent does is a turn; that the child's tools and the parent's share the session store is
covered by `Turn` for one session, and a child has a session of its own.

What would come next: `EffectsRecorded` and `HistoriesPaired` with compaction, up to what was
summarised and for an even `KeepRecent`, by carrying `CompactedShape` and the alternation of
`ProviderCallProofs` over to `Turn`; the framing decoders, once something depends on them.
