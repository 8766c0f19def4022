---------------------------- MODULE BridgeClient ----------------------------
(***************************************************************************)
(* The TypeScript client of the bridge (clients/typescript/src/client.ts   *)
(* and transport.ts), composed with a server that keeps the promise of     *)
(* module Conversation, over two pipes.  BridgeServer implements that      *)
(* promise, so what holds here holds of the client with the real server.   *)
(*                                                                         *)
(* Steps are the event loop's: one message read, one call of the           *)
(* application, one callback.  A request is a plain one (sendRequest) or a *)
(* turn (sendMessage, which returns a handle).                             *)
(***************************************************************************)
EXTENDS Integers, Sequences, FiniteSets

CONSTANTS
  Requests,     \* finitely many
  Slow,         \* bound: those whose write may have to wait for the pipe
  Nobody,
  MaxTalk,      \* bound: messages about a turn before its answer
  MaxPipe       \* bound: messages in a pipe when another is put in

ASSUME BridgeClientAssumption ==
  /\ IsFiniteSet(Requests) /\ Slow \subseteq Requests /\ Nobody \notin Requests
  /\ MaxTalk \in Nat /\ MaxPipe \in Nat

VARIABLES
  \* the client
  turns,        \* the requests that are session.send_message
  id,           \* of each request, 0 before it is sent
  promise,      \* of each request: how it was settled
  pending,      \* the requests in the table of resolvers
  inflight,     \* the turns with a handle in the table
  writing,      \* the requests whose write waits for the pipe to drain
  gone,         \* plain requests whose caller got the error of the write
  questions,    \* permission questions an application's handler is answering
  transport,    \* "running"; after exit() "stopped", then "closing" (one message more)
  reading,      \* whether the read loop runs
  stdin,        \* what Node takes the server's stdin for
  dead,         \* an error nobody handles has ended the client's process
  \* the server and the pipes
  up,           \* whether the server's process runs
  toServer, toClient,
  status, talk, unwanted,   \* as in Conversation
  asking,       \* the turns that wait for the answer to a permission question
  heard         \* history: of each turn, its messages that found a handle

tables == <<promise, pending, inflight>>
server == <<up, status, talk, unwanted, asking>>
calls == <<turns, id, tables, writing, gone>>
vars == <<calls, questions, transport, reading, stdin, dead, server, toServer, toClient, heard>>

Server == INSTANCE Conversation

Sent(r) == id[r] # 0

Msg(kind, r) == [kind |-> kind, about |-> r]

InPipe(pipe) == {pipe[k] : k \in DOMAIN pipe}

\* Types; the two tables hold exactly the requests that wait for their answer.
TypeOK ==
  /\ turns \subseteq Requests
  /\ id \in [Requests -> 0..Cardinality(Requests)]
  /\ promise \in [Requests -> {"none", "open", "resolved", "rejected", "closed", "unwritten"}]
  /\ \A r \in Requests : promise[r] = "none" <=> ~Sent(r)
  /\ pending = {r \in Requests : promise[r] = "open"}
  /\ inflight = pending \cap turns
  /\ writing \subseteq Requests /\ gone \subseteq Requests \ turns
  /\ questions \subseteq turns \X (turns \cup {Nobody})
  /\ transport \in {"running", "stopped", "closing"}
  /\ {reading, dead, up} \subseteq BOOLEAN /\ stdin \in {"open", "destroyed"}
  /\ \A m \in InPipe(toServer) : m.kind \in {"request", "cancel", "reply", "exit"}
  /\ \A m \in InPipe(toClient) : m.kind \in {"resolved", "rejected", "event", "question"}
  /\ asking \subseteq turns
  /\ heard \in [turns -> 0..MaxTalk]

Init ==
  /\ turns \in SUBSET Requests
  /\ id = [r \in Requests |-> 0] /\ promise = [r \in Requests |-> "none"]
  /\ pending = {} /\ inflight = {} /\ writing = {} /\ gone = {} /\ questions = {}
  /\ transport = "running" /\ reading = TRUE /\ stdin = "open" /\ dead = FALSE
  /\ up = TRUE /\ toServer = <<>> /\ toClient = <<>>
  /\ Server!Init /\ asking = {}
  /\ heard = [t \in turns |-> 0]

-----------------------------------------------------------------------------
(* Writing. *)

\* A stopped transport and a destroyed stdin make a write fail.
WriteFails == transport \in {"stopped", "closing"} \/ stdin = "destroyed"

\* A write into a pipe whose reader is gone, before Node has seen it go, raises
\* 'error' on stdin, which has no listener; any other goes out, at once or
\* when the pipe drains.
Write(m) ==
  /\ ~WriteFails
  /\ IF up THEN toServer' = Append(toServer, m) /\ UNCHANGED dead
           ELSE dead' = TRUE /\ UNCHANGED toServer

-----------------------------------------------------------------------------
(* Calls of the application. *)

Register(r) ==
  /\ ~dead /\ ~Sent(r)
  /\ UNCHANGED turns
  /\ id' = [id EXCEPT ![r] = 1 + Cardinality({q \in Requests : Sent(q)})]

Open(r) ==
  /\ promise' = [promise EXCEPT ![r] = "open"]
  /\ pending' = pending \cup {r}
  /\ inflight' = inflight \cup ({r} \cap turns)

\* sendRequest and sendMessage, up to the write.
Send(r, waits) ==
  /\ Register(r)
  /\ Open(r)
  /\ Write(Msg("request", r))
  /\ writing' = writing \cup waits
  /\ UNCHANGED <<gone, questions, transport, reading, stdin, server, toClient, heard>>

\* sendRequest whose write fails: its caller gets that error, the resolver stays.
SendRequestFails(r) ==
  /\ r \notin turns
  /\ Register(r)
  /\ WriteFails
  /\ Open(r)
  /\ gone' = gone \cup {r}
  /\ UNCHANGED <<writing, questions, transport, reading, stdin, dead, server,
                 toServer, toClient, heard>>

\* sendMessage whose write fails: out of both tables again, `done` is rejected.
SendMessageFails(t) ==
  /\ t \in turns
  /\ Register(t)
  /\ WriteFails
  /\ promise' = [promise EXCEPT ![t] = "unwritten"]
  /\ UNCHANGED <<pending, inflight, writing, gone, questions, transport, reading, stdin, dead,
                 server, toServer, toClient, heard>>

\* A cancel that takes the handle away at once.
CancelForgets(t) ==
  /\ ~dead /\ t \in inflight
  /\ inflight' = inflight \ {t}
  /\ Msg("cancel", t) \notin InPipe(toServer) /\ t \notin unwanted /\ Len(toServer) < MaxPipe
  /\ Write(Msg("cancel", t))
  /\ UNCHANGED <<turns, id, promise, pending, writing, gone, questions, transport, reading,
                 stdin, server, toClient, heard>>

\* handle.cancel(), of a turn that has not ended: later it changes nothing.
Cancel(t) ==
  /\ ~dead /\ t \in inflight
  /\ Msg("cancel", t) \notin InPipe(toServer) /\ t \notin unwanted /\ Len(toServer) < MaxPipe
  /\ Write(Msg("cancel", t))
  /\ UNCHANGED <<calls, questions, transport, reading, stdin, server, toClient, heard>>

\* exit(): the notification, then stop(): the transport has no process any more,
\* the read under way goes on.  The notification waits for the pipe behind all
\* that waits already, and one 'drain' ends every wait: stop() ends stdin, after
\* which there is no 'drain', when nothing waits.  (What is sent between the two
\* is lost, as if the server had ended before.)
Exit ==
  /\ ~dead /\ transport = "running"
  /\ up /\ stdin = "open" => writing = {}
  /\ transport' = "stopped"
  /\ IF stdin = "open" THEN Write(Msg("exit", Nobody)) ELSE UNCHANGED <<toServer, dead>>
  /\ UNCHANGED <<calls, questions, reading, stdin, server, toClient, heard>>

-----------------------------------------------------------------------------
(* Callbacks. *)

Drain(r) ==
  /\ ~dead /\ r \in writing /\ up /\ stdin = "open"
  /\ writing' = writing \ {r}
  /\ UNCHANGED <<turns, id, tables, gone, questions, transport, reading, stdin, dead, server,
                 toServer, toClient, heard>>

\* What waited to be written meets the closed pipe.
WriteBreaks ==
  /\ ~dead /\ writing # {} /\ ~up /\ stdin = "open"
  /\ dead' = TRUE
  /\ UNCHANGED <<calls, questions, transport, reading, stdin, server, toServer, toClient, heard>>

\* The server's exit destroys its stdin; the writes that waited are rejected.
NoticeExit ==
  /\ ~dead /\ ~up /\ stdin = "open"
  /\ stdin' = "destroyed"
  /\ UNCHANGED <<calls, questions, transport, reading, dead, server, toServer, toClient, heard>>

\* The rejected write of a plain request: only its caller hears of it.
RequestUnwritten(r) ==
  /\ ~dead /\ r \in writing \ turns /\ stdin = "destroyed"
  /\ writing' = writing \ {r}
  /\ gone' = gone \cup {r}
  /\ UNCHANGED <<turns, id, tables, questions, transport, reading, stdin, dead, server,
                 toServer, toClient, heard>>

\* The rejected write of a turn: unless it is settled, `done` is rejected.
MessageUnwritten(t) ==
  /\ ~dead /\ t \in writing \cap turns /\ stdin = "destroyed"
  /\ writing' = writing \ {t}
  /\ promise' = IF t \in pending THEN [promise EXCEPT ![t] = "unwritten"] ELSE promise
  /\ pending' = pending \ {t} /\ inflight' = inflight \ {t}
  /\ UNCHANGED <<turns, id, gone, questions, transport, reading, stdin, dead, server,
                 toServer, toClient, heard>>

\* The handler's answer; an answer that cannot be written is swallowed.
HandlerAnswers(q) ==
  /\ ~dead /\ q \in questions
  /\ questions' = questions \ {q}
  /\ IF WriteFails THEN UNCHANGED <<toServer, dead>> ELSE Write(Msg("reply", q[1]))
  /\ UNCHANGED <<calls, transport, reading, stdin, server, toClient, heard>>

-----------------------------------------------------------------------------
(* The read loop. *)

\* A plain request nobody awaits yet, or any more: its rejection ends the process.
Unawaited(r) == r \notin turns /\ r \in writing \cup gone

HandleResponse(r, outcome) ==
  /\ IF r \in pending
       THEN /\ promise' = [promise EXCEPT ![r] = outcome]
            /\ pending' = pending \ {r} /\ inflight' = inflight \ {r}
            /\ dead' = (outcome # "resolved" /\ Unawaited(r))
       ELSE UNCHANGED <<tables, dead>>
  /\ UNCHANGED <<questions, heard>>

\* stream/event goes to its handle, if there is one.
HandleEvent(t) ==
  /\ heard' = IF t \in inflight THEN [heard EXCEPT ![t] = @ + 1] ELSE heard
  /\ UNCHANGED <<tables, dead, questions>>

\* Or the one begun first.
FirstHandle ==
  IF inflight = {} THEN Nobody
  ELSE CHOOSE t \in inflight : \A u \in inflight : id[t] <= id[u]

\* Insertion order of the table: the handle begun last, whatever turn asks.
LastHandle ==
  IF inflight = {} THEN Nobody
  ELSE CHOOSE t \in inflight : \A u \in inflight : id[u] <= id[t]

HandleIncomingRequest(t) ==
  /\ questions' = questions \cup {<<t, LastHandle>>}
  /\ heard' = IF t \in inflight THEN [heard EXCEPT ![t] = @ + 1] ELSE heard
  /\ UNCHANGED <<tables, dead>>

Dispatch(m) ==
  \/ m.kind \in {"resolved", "rejected"} /\ HandleResponse(m.about, m.kind)
  \/ m.kind = "event" /\ HandleEvent(m.about)
  \/ m.kind = "question" /\ HandleIncomingRequest(m.about)

Read ==
  /\ ~dead /\ reading /\ transport # "closing" /\ toClient # <<>>
  /\ toClient' = Tail(toClient)
  /\ transport' = IF transport = "stopped" THEN "closing" ELSE transport
  /\ Dispatch(Head(toClient))
  /\ UNCHANGED <<turns, id, writing, gone, reading, stdin, server, toServer>>

\* Closing the tables and leaving the handles, or the promises, as they are.
FailAllPendingKeepsHandles ==
  /\ promise' = [r \in Requests |-> IF r \in pending THEN "closed" ELSE promise[r]]
  /\ pending' = {} /\ UNCHANGED inflight
  /\ dead' = \E r \in pending : Unawaited(r)

FailAllPendingSilently ==
  /\ pending' = {} /\ inflight' = {}
  /\ UNCHANGED <<promise, dead>>

FailAllPending ==
  /\ promise' = [r \in Requests |-> IF r \in pending THEN "closed" ELSE promise[r]]
  /\ pending' = {} /\ inflight' = {}
  /\ dead' = \E r \in pending : Unawaited(r)

LoopEnds ==
  /\ reading' = FALSE
  /\ FailAllPending
  /\ UNCHANGED <<turns, id, writing, gone, questions, transport, stdin, server, toServer,
                 toClient, heard>>

\* The end of the server's output, or a read of a transport without a process.
ReadEnds ==
  /\ ~dead /\ reading
  /\ transport = "closing" \/ (~up /\ toClient = <<>>)
  /\ LoopEnds

\* Bytes the framing cannot take, for instance a line a tool has printed.
ReadFails ==
  /\ ~dead /\ reading /\ up
  /\ LoopEnds

-----------------------------------------------------------------------------
(* The server: any that keeps the promise of Conversation.  It is not        *)
(* followed after the death of its client, which can no longer notice it.    *)

client == <<calls, questions, transport, reading, stdin, dead, heard>>

Room == up /\ ~dead /\ Len(toClient) < MaxPipe

ServerTakes ==
  /\ up /\ ~dead /\ toServer # <<>>
  /\ toServer' = Tail(toServer)
  /\ LET m == Head(toServer) IN
       \/ m.kind = "request" /\ Server!TakeUp(m.about) /\ UNCHANGED <<up, asking>>
       \/ m.kind = "cancel" /\ Server!Unwant(m.about) /\ UNCHANGED <<up, asking>>
       \/ m.kind = "reply" /\ asking' = asking \ {m.about} /\ UNCHANGED <<up, status, talk, unwanted>>
       \/ m.kind = "exit" /\ up' = FALSE /\ UNCHANGED <<status, talk, unwanted, asking>>
  /\ UNCHANGED <<client, toClient>>

\* An event or a question about a turn; a turn that asks waits for the answer.
ServerTells(t, kind) ==
  /\ Room /\ t \notin asking /\ talk[t] < MaxTalk
  /\ Server!Tell(t)
  /\ toClient' = Append(toClient, Msg(kind, t))
  /\ asking' = IF kind = "question" THEN asking \cup {t} ELSE asking
  /\ UNCHANGED <<client, up, toServer>>

\* The client treats a turn's error and its cancellation as its result.
Outcomes(r) == IF r \in turns THEN {"resolved"} ELSE {"resolved", "rejected"}

ServerAnswers(r, outcome) ==
  /\ Room
  /\ Server!Answer(r)
  /\ toClient' = Append(toClient, Msg(outcome, r))
  /\ asking' = asking \ {r}
  /\ UNCHANGED <<client, up, toServer>>

ServerDrops(r) ==
  /\ up /\ ~dead
  /\ Server!Drop(r)
  /\ asking' = asking \ {r}
  /\ UNCHANGED <<client, up, toServer, toClient>>

\* The end of its input, SIGKILL, or a crash; what it has written can be read.
ServerEnds ==
  /\ up /\ ~dead
  /\ up' = FALSE
  /\ UNCHANGED <<client, status, talk, unwanted, asking, toServer, toClient>>

-----------------------------------------------------------------------------
ClientNext ==
  \/ \E r \in Requests : \E waits \in SUBSET ({r} \cap Slow) : Send(r, waits)
  \/ \E r \in Requests : SendRequestFails(r) \/ SendMessageFails(r)
  \/ \E t \in turns : Cancel(t)
  \/ Exit
  \/ \E r \in writing : Drain(r) \/ RequestUnwritten(r) \/ MessageUnwritten(r)
  \/ WriteBreaks \/ NoticeExit
  \/ \E q \in questions : HandlerAnswers(q)
  \/ Read \/ ReadEnds \/ ReadFails

ServerNext ==
  \/ ServerTakes
  \/ \E t \in turns, kind \in {"event", "question"} : ServerTells(t, kind)
  \/ \E r \in Requests : \E outcome \in Outcomes(r) : ServerAnswers(r, outcome)
  \/ \E r \in Requests : ServerDrops(r)
  \/ ServerEnds

Next == ClientNext \/ ServerNext

\* The event loop runs its callbacks, the application's handlers answer, a
\* server takes its input and comes to answer each request, and one whose input
\* has ended ends or is killed.
Fairness ==
  /\ WF_vars(Read \/ ReadEnds) /\ WF_vars(NoticeExit)
  /\ WF_vars(\E r \in writing : Drain(r) \/ RequestUnwritten(r) \/ MessageUnwritten(r))
  /\ WF_vars(\E q \in questions : HandlerAnswers(q))
  /\ WF_vars(ServerTakes)
  /\ WF_vars(\E r \in Requests \ asking : \E outcome \in Outcomes(r) : ServerAnswers(r, outcome))
  /\ WF_vars(transport \in {"stopped", "closing"} /\ ServerEnds)

Spec == Init /\ [][Next]_vars /\ Fairness

-----------------------------------------------------------------------------
(* Properties *)

\* Neither sendRequest nor `done` of sendMessage hangs: a request sent while the
\* read loop runs is answered or fails, and its write with it, whatever becomes
\* of the server, of the pipe and of exit().  Not so for a request the
\* application has asked to cancel, which the server may drop.
Settled(r) ==
  \/ r \in gone
  \/ promise[r] \notin {"none", "open"} /\ r \notin writing

RequestsSettle ==
  \A r \in Requests :
    Sent(r) /\ reading ~> Settled(r) \/ r \in unwanted \/ dead

\* When `done` of a turn is settled by its answer, every event and question of the
\* turn has been seen before, in spite of cancels and of the other requests
\* that come and go in the tables.
TurnsHearTheirOwn ==
  \A t \in turns :
    promise[t] \in {"resolved", "rejected"} =>
      /\ status[t] = "answered"
      /\ heard[t] = talk[t] - 1

\* A permission question, which does not name its turn, is put to the handle of
\* that turn or of one begun after it, never of an earlier one; there is none to
\* put it to only when the turn's own write has failed.
QuestionsFindATurn ==
  \A q \in questions :
    \/ promise[q[1]] = "unwritten"
    \/ q[2] # Nobody /\ id[q[1]] <= id[q[2]]

=============================================================================
