---------------------------- MODULE BridgeServer ----------------------------
(***************************************************************************)
(* bridge/server.py and bridge/permission.py: one connection of a client   *)
(* to the server.  The read loop takes the client's messages in order;     *)
(* every request is dispatched in a task of its own; what the tasks send   *)
(* goes through one asyncio.Lock, which is held while the writer drains.   *)
(* A turn (session.send_message) streams events, asks the client for       *)
(* permission to run tools, and runs those it allows.                      *)
(*                                                                         *)
(* A step is what a task does between two points where it can be           *)
(* suspended.  A cancelled task is marked in `must`: the next it does is   *)
(* to receive the CancelledError where it is suspended; only in a tool the *)
(* error may be lost.                                                      *)
(***************************************************************************)
EXTENDS Naturals, Sequences, FiniteSets

CONSTANTS
  Turns,      \* ids of session.send_message requests
  Cancels,    \* ids of session.cancel requests
  Shutdowns,  \* ids of shutdown requests
  Plain,      \* ids of requests of the other methods, known or not
  Tools,      \* names of tools
  Nobody,     \* no request
  MaxTalk,    \* bound: events and permission requests of one turn
  MaxInbox,   \* bound: messages on their way to the server
  MaxStops    \* bound: $/cancelRequest notifications

Requests == Turns \cup Cancels \cup Shutdowns \cup Plain

Decisions == {"allow", "deny", "allow_always", "error"}
Answers == {"result", "failed", "cancelled", "refused"}
Kinds == Answers \cup {"event", "ask", "started"}

ASSUME BridgeAssumption ==
  /\ {MaxTalk, MaxInbox, MaxStops} \subseteq Nat
  /\ Turns \cap (Cancels \cup Shutdowns \cup Plain) = {}
  /\ Cancels \cap (Shutdowns \cup Plain) = {} /\ Shutdowns \cap Plain = {}
  /\ Nobody \notin Requests /\ Nobody \notin Tools

VARIABLES
  client,       \* "open", "closed" (sends no more), "gone" (reads no more either)
  inbox,        \* the messages the server has not read yet
  loop,         \* serve(): "reading", "draining" its tasks, "closed"
  spawned,      \* tasks created but not yet begun, in the loop's ready queue
  place,        \* where each request is
  sending,      \* what its task is writing, or wrote last
  must,         \* whether its task has a CancelledError coming
  lock, waiters,  \* _write_lock and the tasks waiting for it
  written,      \* the messages about a request given to the transport
  shuttingDown,
  future,       \* _pending: the future of the turn's permission request
  always,       \* BridgePermissionResolver._always_allow
  target,       \* the turn a session.cancel request names
  stops,        \* how many $/cancelRequest were sent
  asked, decided,   \* ghost: tools a turn asked for, and the client's decisions
  ran,          \* ghost: the tools that were let run, by turn
  unwanted,     \* ghost: the turns the client asked to cancel
  stopped,      \* ghost: the turns that were cancelled before their answer, not in a tool
  early,        \* ghost: the turns whose $/cancelRequest came before their task began
  late          \* ghost: requests sent after a shutdown request

server == <<loop, spawned, place, sending, must, lock, waiters, written, shuttingDown>>
permission == <<future, always, asked, decided, ran>>
wishes == <<client, inbox, target, stops, unwanted, late>>
vars == <<server, permission, wishes, stopped, early>>

Message == [kind : {"request", "stop", "reply", "exit"}, about : Requests \cup {Nobody},
            decision : Decisions \cup {"none"}]

Msg(kind, about, decision) == [kind |-> kind, about |-> about, decision |-> decision]

Init ==
  /\ client = "open" /\ inbox = <<>> /\ loop = "reading" /\ spawned = <<>>
  /\ place = [r \in Requests |-> "unsent"]
  /\ sending = [r \in Requests |-> "nothing"]
  /\ must = [r \in Requests |-> FALSE]
  /\ lock = Nobody /\ waiters = <<>>
  /\ written = [r \in Requests |-> <<>>]
  /\ shuttingDown = FALSE
  /\ future = [t \in Turns |-> "none"]
  /\ always = {}
  /\ target = [c \in Cancels |-> Nobody]
  /\ stops = 0
  /\ asked = [t \in Turns |-> <<>>] /\ decided = [t \in Turns |-> <<>>]
  /\ ran = {} /\ unwanted = {} /\ stopped = {} /\ early = {} /\ late = {}

-----------------------------------------------------------------------------
(* The client. *)

Send(msg) ==
  /\ client = "open" /\ Len(inbox) < MaxInbox
  /\ inbox' = Append(inbox, msg)

SendRequest(r) ==
  /\ place[r] = "unsent"
  /\ Send(Msg("request", r, "none"))
  /\ place' = [place EXCEPT ![r] = "sent"]
  /\ late' = IF \E s \in Shutdowns : place[s] # "unsent" THEN late \cup {r} ELSE late
  /\ IF r \in Cancels
       THEN \E t \in Turns :
              /\ place[t] # "unsent"
              /\ target' = [target EXCEPT ![r] = t]
              /\ unwanted' = unwanted \cup {t}
       ELSE UNCHANGED <<target, unwanted>>
  /\ UNCHANGED <<client, loop, spawned, sending, must, lock, waiters, written, shuttingDown,
                 permission, stops, stopped, early>>

\* $/cancelRequest
SendStop(t) ==
  /\ place[t] # "unsent" /\ stops < MaxStops
  /\ Send(Msg("stop", t, "none"))
  /\ stops' = stops + 1
  /\ unwanted' = unwanted \cup {t}
  /\ UNCHANGED <<client, server, permission, target, late, stopped, early>>

Asks(t) == Cardinality({k \in 1..Len(written[t]) : written[t][k] = "ask"})

\* The client answers a permission request it has received.
SendReply(t, decision) ==
  /\ Len(decided[t]) < Asks(t)
  /\ Send(Msg("reply", t, decision))
  /\ decided' = [decided EXCEPT ![t] = Append(@, decision)]
  /\ UNCHANGED <<client, server, future, always, asked, ran, target, stops, unwanted, late,
                 stopped, early>>

SendExit ==
  /\ Send(Msg("exit", Nobody, "none"))
  /\ client' = "closed"
  /\ UNCHANGED <<server, permission, target, stops, unwanted, late, stopped, early>>

Close(how) ==
  /\ \/ client = "open" /\ how \in {"closed", "gone"}
     \/ client = "closed" /\ how = "gone"
  /\ client' = how
  /\ UNCHANGED <<inbox, server, permission, target, stops, unwanted, late, stopped, early>>

-----------------------------------------------------------------------------
(* Sending. *)

\* Task r sends a message of a kind; lk and ws are the lock and its queue as
\* r finds them.  The message is one that json.dumps can encode: a turn whose
\* event it cannot encode fails, as in EndTurn.
Submit(r, kind, lk, ws) ==
  /\ sending' = [sending EXCEPT ![r] = kind]
  /\ IF lk = Nobody /\ ws = <<>>
       THEN /\ lock' = r /\ waiters' = ws
            /\ written' = [written EXCEPT ![r] = Append(@, kind)]
            /\ place' = [place EXCEPT ![r] = "draining"]
       ELSE /\ lock' = lk /\ waiters' = Append(ws, r)
            /\ place' = [place EXCEPT ![r] = "waiting"]
            /\ UNCHANGED written

\* The first in the queue gets the released lock, and its message is written.
Acquire(r) ==
  /\ place[r] = "waiting" /\ ~must[r]
  /\ lock = Nobody /\ waiters # <<>> /\ Head(waiters) = r
  /\ lock' = r /\ waiters' = Tail(waiters)
  /\ written' = [written EXCEPT ![r] = Append(@, sending[r])]
  /\ place' = [place EXCEPT ![r] = "draining"]
  /\ UNCHANGED <<loop, spawned, sending, must, shuttingDown, permission, wishes, stopped, early>>

\* Where a task is when it has sent a message of a kind.
AfterSending(kind) ==
  CASE kind = "event" -> "running"
    [] kind = "ask" -> "asking"
    [] kind = "started" -> "tool"
    [] OTHER -> "over"

\* The buffer is drained and the lock released: the task goes on.
Drained(r) ==
  /\ place[r] = "draining" /\ ~must[r]
  /\ lock' = Nobody
  /\ place' = [place EXCEPT ![r] = AfterSending(sending[r])]
  /\ UNCHANGED <<loop, spawned, sending, must, waiters, written, shuttingDown, permission,
                 wishes, stopped, early>>

\* Nobody reads the output any more: drain() raises.  In a handler this
\* becomes an InternalError answer, while an answer is sent it ends the task.
DrainFails(r) ==
  /\ client = "gone"
  /\ place[r] = "draining" /\ ~must[r]
  /\ IF sending[r] \in Answers
       THEN /\ lock' = Nobody
            /\ place' = [place EXCEPT ![r] = "over"]
            /\ UNCHANGED <<sending, waiters, written>>
       ELSE Submit(r, "failed", Nobody, waiters)
  /\ UNCHANGED <<loop, spawned, must, shuttingDown, permission, wishes, stopped, early>>

-----------------------------------------------------------------------------
(* Cancellation. *)

\* _inflight_by_request_id: from the lookup of the handler to the end of the task.
Registered(r) ==
  /\ place[r] \in {"running", "asking", "tool", "waiting", "draining"}
  /\ sending[r] # "refused"

\* Where a cancellation stops the handler of r for certain: before its answer,
\* and not while it awaits a tool.
Stoppable(r) == Registered(r) /\ sending[r] \notin Answers /\ place[r] # "tool"

CancelAnyTask(r) ==
  /\ must' = [must EXCEPT ![r] = TRUE]
  /\ stopped' = IF Stoppable(r) THEN stopped \cup {r} ELSE stopped

\* task.cancel() for the request r, if it is registered.
CancelTask(r) ==
  /\ must' = IF Registered(r) THEN [must EXCEPT ![r] = TRUE] ELSE must
  /\ stopped' = IF Stoppable(r) THEN stopped \cup {r} ELSE stopped

WithoutNothing(queue, r) == queue

\* A task stands in the queue once at most (WriterQueue).
Without(queue, r) ==
  IF \E k \in 1..Len(queue) : queue[k] = r
    THEN LET k == CHOOSE k \in 1..Len(queue) : queue[k] = r IN
           SubSeq(queue, 1, k - 1) \o SubSeq(queue, k + 1, Len(queue))
    ELSE queue

\* The error is caught by the `except` around an await in vain.
InterruptedIgnored(r) ==
  /\ must[r]
  /\ must' = [must EXCEPT ![r] = FALSE]
  /\ UNCHANGED <<loop, spawned, place, sending, lock, waiters, written, shuttingDown, permission,
                 wishes, stopped, early>>

\* The error becomes a Cancelled answer wherever it arrives.
InterruptedAnswers(r) ==
  /\ must[r]
  /\ must' = [must EXCEPT ![r] = FALSE]
  /\ Submit(r, "cancelled", IF lock = r THEN Nobody ELSE lock, Without(waiters, r))
  /\ future' = IF place[r] = "asking" THEN [future EXCEPT ![r] = "none"] ELSE future
  /\ UNCHANGED <<loop, spawned, shuttingDown, always, asked, decided, ran, wishes, stopped, early>>

\* The error arrives.  In a handler it becomes a Cancelled answer; while an
\* answer is sent it ends the task, and an answer still waiting is lost.  A
\* permission request leaves _pending only if its reply was being awaited.
Interrupted(r) ==
  /\ must[r]
  /\ must' = [must EXCEPT ![r] = FALSE]
  /\ LET lk == IF lock = r THEN Nobody ELSE lock
         ws == Without(waiters, r) IN
       IF sending[r] \in Answers
         THEN /\ place' = [place EXCEPT ![r] = "over"]
              /\ lock' = lk /\ waiters' = ws
              /\ UNCHANGED <<sending, written>>
         ELSE Submit(r, "cancelled", lk, ws)
  /\ future' = IF place[r] = "asking" THEN [future EXCEPT ![r] = "none"] ELSE future
  /\ UNCHANGED <<loop, spawned, shuttingDown, always, asked, decided, ran, wishes, stopped, early>>

-----------------------------------------------------------------------------
(* The read loop. *)

Receive(kind) ==
  /\ loop = "reading" /\ inbox # <<>> /\ Head(inbox).kind = kind
  /\ inbox' = Tail(inbox)

\* _spawn: the tasks begin in the order they were created in.
SpawnFirst(r) == spawned' = <<r>> \o spawned

Spawn(r) == spawned' = Append(spawned, r)

ReceiveRequest ==
  /\ Receive("request")
  /\ Spawn(Head(inbox).about)
  /\ place' = [place EXCEPT ![Head(inbox).about] = "spawned"]
  /\ UNCHANGED <<client, loop, sending, must, lock, waiters, written, shuttingDown, permission,
                 target, stops, unwanted, late, stopped, early>>

\* Handled inline, before the next message is read.
ReceiveStop ==
  /\ Receive("stop")
  /\ CancelTask(Head(inbox).about)
  /\ early' = IF place[Head(inbox).about] = "spawned" THEN early \cup {Head(inbox).about} ELSE early
  /\ UNCHANGED <<client, loop, spawned, place, sending, lock, waiters, written, shuttingDown,
                 permission, target, stops, unwanted, late>>

\* The turn whose permission request a reply resolves: ids tell them apart.
ResolvesAny(about) == CHOOSE t \in Turns : future[t] = "open" \/ \A u \in Turns : future[u] # "open"

Resolves(about) == about

ReceiveReply ==
  /\ Receive("reply")
  /\ LET t == Resolves(Head(inbox).about) IN
       future' = IF future[t] = "open" THEN [future EXCEPT ![t] = Head(inbox).decision] ELSE future
  /\ UNCHANGED <<client, server, always, asked, decided, ran, target, stops, unwanted, late,
                 stopped, early>>

\* Exit or the end of the input: serve() waits for its tasks.
ReceiveExit ==
  /\ Receive("exit")
  /\ loop' = "draining"
  /\ UNCHANGED <<client, spawned, place, sending, must, lock, waiters, written, shuttingDown,
                 permission, target, stops, unwanted, late, stopped, early>>

ReceiveEnd ==
  /\ loop = "reading" /\ inbox = <<>> /\ client # "open"
  /\ loop' = "draining"
  /\ UNCHANGED <<spawned, place, sending, must, lock, waiters, written, shuttingDown,
                 permission, wishes, stopped, early>>

Wrote(r, kind) == \E k \in 1..Len(written[r]) : written[r][k] = kind

Answered(r) == \E k \in 1..Len(written[r]) : written[r][k] \in Answers

FinishAnswered ==
  /\ loop = "draining"
  /\ \A r \in Requests : place[r] \in {"unsent", "sent"} \/ Answered(r)
  /\ loop' = "closed"
  /\ UNCHANGED <<spawned, place, sending, must, lock, waiters, written, shuttingDown,
                 permission, wishes, stopped, early>>

Finish ==
  /\ loop = "draining"
  /\ \A r \in Requests : place[r] \in {"unsent", "sent", "over"}
  /\ loop' = "closed"
  /\ UNCHANGED <<spawned, place, sending, must, lock, waiters, written, shuttingDown,
                 permission, wishes, stopped, early>>

-----------------------------------------------------------------------------
(* The tasks. *)

Begins(r) ==
  /\ spawned # <<>> /\ Head(spawned) = r
  /\ spawned' = Tail(spawned)

\* The server is shutting down, or the method is unknown: the task is not
\* registered.
Refuse(r) ==
  /\ Begins(r)
  /\ shuttingDown \/ r \in Plain
  /\ Submit(r, "refused", lock, waiters)
  /\ UNCHANGED <<loop, must, shuttingDown, permission, wishes, stopped, early>>

\* A handler that never waits: it has its result, or its error, at once.
HandlePlain(r, kind) ==
  /\ r \in Plain /\ kind \in {"result", "failed"}
  /\ Begins(r)
  /\ ~shuttingDown
  /\ Submit(r, kind, lock, waiters)
  /\ UNCHANGED <<loop, must, shuttingDown, permission, wishes, stopped, early>>

HandleShutdown(r) ==
  /\ r \in Shutdowns
  /\ Begins(r)
  /\ ~shuttingDown
  /\ shuttingDown' = TRUE
  /\ Submit(r, "result", lock, waiters)
  /\ UNCHANGED <<loop, must, permission, wishes, stopped, early>>

HandleCancel(r) ==
  /\ r \in Cancels
  /\ Begins(r)
  /\ ~shuttingDown
  /\ CancelTask(target[r])
  /\ Submit(r, "result", lock, waiters)
  /\ UNCHANGED <<loop, shuttingDown, permission, wishes, early>>

BeginTurn(t) ==
  /\ Begins(t)
  /\ ~shuttingDown
  /\ place' = [place EXCEPT ![t] = "running"]
  /\ UNCHANGED <<loop, sending, must, lock, waiters, written, shuttingDown, permission, wishes,
                 stopped, early>>

Running(t) == place[t] = "running" /\ ~must[t]

SendEvent(t) ==
  /\ Running(t) /\ Len(written[t]) < MaxTalk
  /\ Submit(t, "event", lock, waiters)
  /\ UNCHANGED <<loop, spawned, must, shuttingDown, permission, wishes, stopped, early>>

\* The turn is about to run a tool: one that is always allowed is announced
\* to the client and runs, for another the client is asked.
RunAllowed(t, tool) ==
  /\ Running(t) /\ tool \in always /\ Len(written[t]) < MaxTalk
  /\ ran' = ran \cup {<<t, tool>>}
  /\ Submit(t, "started", lock, waiters)
  /\ UNCHANGED <<loop, spawned, must, shuttingDown, future, always, asked, decided, wishes,
                 stopped, early>>

Ask(t, tool) ==
  /\ Running(t) /\ tool \notin always /\ Len(written[t]) < MaxTalk
  /\ future' = [future EXCEPT ![t] = "open"]
  /\ asked' = [asked EXCEPT ![t] = Append(@, tool)]
  /\ Submit(t, "ask", lock, waiters)
  /\ UNCHANGED <<loop, spawned, must, shuttingDown, always, decided, ran, wishes, stopped, early>>

\* The reply is there.  An allowed tool is announced and runs, a refused one
\* does not; an error reply fails the turn.
Decided(t) ==
  /\ place[t] = "asking" /\ ~must[t] /\ future[t] \in Decisions
  /\ LET tool == asked[t][Len(asked[t])] IN
       /\ always' = IF future[t] = "allow_always" THEN always \cup {tool} ELSE always
       /\ ran' = IF future[t] \in {"allow", "allow_always"} THEN ran \cup {<<t, tool>>} ELSE ran
  /\ future' = [future EXCEPT ![t] = "none"]
  /\ IF future[t] = "deny"
       THEN /\ place' = [place EXCEPT ![t] = "running"]
            /\ UNCHANGED <<sending, lock, waiters, written>>
       ELSE Submit(t, IF future[t] = "error" THEN "failed" ELSE "started", lock, waiters)
  /\ UNCHANGED <<loop, spawned, must, shuttingDown, asked, decided, wishes, stopped, early>>

\* The tool returns, raises, times out or is denied by a hook, and the turn
\* goes on.  A CancelledError that comes with its end is lost: wait_for on
\* Python 3.10 and 3.11 returns the result instead, and a tool may catch it.
ToolEnds(t) ==
  /\ place[t] = "tool"
  /\ place' = [place EXCEPT ![t] = "running"]
  /\ must' = [must EXCEPT ![t] = FALSE]
  /\ UNCHANGED <<loop, spawned, sending, lock, waiters, written, shuttingDown, permission, wishes,
                 stopped, early>>

\* The turn is over, or raises.
EndTurn(t, kind) ==
  /\ Running(t) /\ kind \in {"result", "failed"}
  /\ Submit(t, kind, lock, waiters)
  /\ UNCHANGED <<loop, spawned, must, shuttingDown, permission, wishes, stopped, early>>

-----------------------------------------------------------------------------
Task(r) ==
  \/ Refuse(r) \/ HandleShutdown(r) \/ HandleCancel(r)
  \/ \E kind \in {"result", "failed"} : HandlePlain(r, kind)
  \/ Acquire(r) \/ Drained(r) \/ DrainFails(r) \/ Interrupted(r)

Turn(t) ==
  \/ BeginTurn(t) \/ SendEvent(t) \/ Decided(t) \/ ToolEnds(t)
  \/ \E tool \in Tools : RunAllowed(t, tool) \/ Ask(t, tool)
  \/ \E kind \in {"result", "failed"} : EndTurn(t, kind)

ReadLoop == ReceiveRequest \/ ReceiveStop \/ ReceiveReply \/ ReceiveExit \/ ReceiveEnd \/ Finish

Reply(t) == \E decision \in Decisions : SendReply(t, decision)

Client ==
  \/ \E r \in Requests : SendRequest(r)
  \/ \E t \in Turns : SendStop(t) \/ Reply(t)
  \/ SendExit
  \/ \E how \in {"closed", "gone"} : Close(how)

Next ==
  \/ Client \/ ReadLoop
  \/ \E r \in Requests : Task(r)
  \/ \E t \in Turns : Turn(t)

Spec == Init /\ [][Next]_vars

(***************************************************************************)
(* Fairness: the read loop and the tasks run, what a turn waits for comes, *)
(* the client reads what it is sent or goes away, and while it may send it *)
(* answers the permission requests it gets.  It need not send anything     *)
(* else.                                                                   *)
(***************************************************************************)
FairSpec ==
  /\ Spec
  /\ WF_vars(ReadLoop)
  /\ \A r \in Requests : WF_vars(Task(r))
  /\ \A t \in Turns : WF_vars(Turn(t)) /\ WF_vars(Reply(t))

-----------------------------------------------------------------------------
(* Properties. *)

TypeOK ==
  /\ client \in {"open", "closed", "gone"}
  /\ inbox \in Seq(Message)
  /\ loop \in {"reading", "draining", "closed"}
  /\ spawned \in Seq(Requests)
  /\ place \in [Requests -> {"unsent", "sent", "spawned", "running", "asking", "tool",
                             "waiting", "draining", "over"}]
  /\ sending \in [Requests -> Kinds \cup {"nothing"}]
  /\ must \in [Requests -> BOOLEAN]
  /\ lock \in Requests \cup {Nobody}
  /\ waiters \in Seq(Requests)
  /\ written \in [Requests -> Seq(Kinds)]
  /\ shuttingDown \in BOOLEAN
  /\ future \in [Turns -> Decisions \cup {"none", "open"}]
  /\ always \in SUBSET Tools
  /\ target \in [Cancels -> Turns \cup {Nobody}]
  /\ stops \in 0..MaxStops
  /\ asked \in [Turns -> Seq(Tools)] /\ decided \in [Turns -> Seq(Decisions)]
  /\ ran \in SUBSET (Turns \X Tools)
  /\ unwanted \in SUBSET Turns /\ stopped \in SUBSET Turns /\ early \in SUBSET Turns
  /\ late \in SUBSET Requests
  /\ \A r \in Requests : must[r] => Registered(r)
  /\ \A t \in Turns : place[t] = "asking" => asked[t] # <<>> /\ future[t] # "none"

(***************************************************************************)
(* The write lock survives cancellation: whoever drains holds it, nobody   *)
(* else does, and every task that waits for it stands in its queue once.   *)
(***************************************************************************)
WriterQueue ==
  /\ \A r \in Requests : place[r] = "draining" <=> lock = r
  /\ \A r \in Requests : place[r] = "waiting" <=> \E k \in 1..Len(waiters) : waiters[k] = r
  /\ \A j, k \in 1..Len(waiters) : waiters[j] = waiters[k] => j = k

(***************************************************************************)
(* A tool runs only if the client allowed it: for this turn in answer to   *)
(* a question about this tool, or for every turn with allow_always.  The   *)
(* answers come late, crossed, or for turns that are over.                 *)
(***************************************************************************)
Allowed(t, tool) ==
  \E u \in Turns : \E k \in 1..Len(decided[u]) :
    /\ asked[u][k] = tool
    /\ decided[u][k] = "allow_always" \/ (u = t /\ decided[u][k] = "allow")

ToolsRunOnlyAllowed == \A p \in ran : Allowed(p[1], p[2])

(***************************************************************************)
(* After shutdown the server accepts only exit: a request the client sent  *)
(* after a shutdown request gets nothing but the ShuttingDown error.       *)
(***************************************************************************)
LateRequestsRefused == \A r \in late : \A k \in 1..Len(written[r]) : written[r][k] = "refused"

(***************************************************************************)
(* A cancellation that reached a turn before its answer, anywhere but in a *)
(* tool, stops it: it does not complete.  (In a tool the CancelledError    *)
(* may be lost, ToolEnds, and the turn goes on.)                           *)
(***************************************************************************)
CancelledTurnsStop == \A t \in stopped : ~Wrote(t, "result")

(***************************************************************************)
(* The same, and for the turns whose $/cancelRequest the server read       *)
(* before their task had begun.                                            *)
(***************************************************************************)
StopsAreHonoured == \A t \in stopped \cup early : ~Wrote(t, "result")

(***************************************************************************)
(* session.cancel, being dispatched as a task, cannot come too early: when *)
(* it finds nothing to cancel, the turn is over or was refused.            *)
(***************************************************************************)
CancelRequestsReach ==
  [][\A c \in Cancels :
       place[c] = "spawned" /\ sending'[c] = "result" =>
         \/ must'[target[c]]
         \/ place[target[c]] = "over" \/ sending[target[c]] = "refused"]_vars

(***************************************************************************)
(* What the client sees of each request is a Conversation: nothing about   *)
(* it after its answer, one answer, and an answer for all it did not ask   *)
(* to cancel.                                                              *)
(***************************************************************************)
Promise == INSTANCE Conversation WITH
  status <- [r \in Requests |->
               IF Answered(r) THEN "answered"
               ELSE IF place[r] = "over" THEN "dropped"
               ELSE IF place[r] \in {"unsent", "sent"} THEN "unsent" ELSE "open"],
  talk <- [r \in Requests |-> Len(written[r])],
  unwanted <- unwanted

KeepsPromise == Promise!Spec

(***************************************************************************)
(* Every request taken up comes to its end.  Only a turn whose permission  *)
(* request is open when the server stops reading may wait for good.        *)
(***************************************************************************)
RequestsEnd ==
  \A r \in Requests :
    (place[r] = "spawned") ~> (place[r] = "over" \/ (place[r] = "asking" /\ loop # "reading"))

(***************************************************************************)
(* serve() returns after exit or the end of the input, unless a turn still *)
(* waits for the client's permission.                                      *)
(***************************************************************************)
ServeReturns ==
  (loop = "draining") ~> (loop = "closed" \/ \E t \in Turns : place[t] = "asking")

=============================================================================
