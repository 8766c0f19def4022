------------------------ MODULE BridgeServerProofs -------------------------
(***************************************************************************)
(* The invariants of BridgeServer hold for any number of requests, tools   *)
(* and messages, and a session.cancel finds its turn.  The inductive       *)
(* invariant IInv adds to them where messages, tasks and questions stand:  *)
(* Lines, Stages, Order, Wishes, Stops and Questions.  With it the server  *)
(* implements Conversation.                                                *)
(***************************************************************************)
EXTENDS BridgeServer, TLAPS, SequenceTheorems, FiniteSetTheorems

-----------------------------------------------------------------------------
(* The inductive invariant. *)

\* A message of a kind about r is on its way to the server.
InInbox(kind, r) == \E k \in 1..Len(inbox) : inbox[k].kind = kind /\ inbox[k].about = r

\* The task of r has begun.
Begun(r) == place[r] \notin {"unsent", "sent", "spawned"}

(***************************************************************************)
(* The messages on their way and the tasks not yet begun are two lines:    *)
(* each request stands in at most one of them, once, and `place` says in   *)
(* which.                                                                  *)
(***************************************************************************)
Lines ==
  /\ \A r \in Requests : place[r] = "sent" <=> InInbox("request", r)
  /\ \A j, k \in 1..Len(inbox) :
       inbox[j].kind = "request" /\ inbox[k].kind = "request" /\ inbox[j].about = inbox[k].about => j = k
  /\ \A k \in 1..Len(inbox) : inbox[k].kind # "exit" => inbox[k].about \in Requests
  /\ \A k \in 1..Len(inbox) : inbox[k].kind \in {"stop", "reply"} => inbox[k].about \in Turns
  /\ \A r \in Requests : place[r] = "spawned" <=> \E k \in 1..Len(spawned) : spawned[k] = r
  /\ \A j, k \in 1..Len(spawned) : spawned[j] = spawned[k] => j = k

(***************************************************************************)
(* How far the task of r has come says what it has sent: nothing before it *)
(* begins, and one answer, the last it writes.                             *)
(***************************************************************************)
Stage(r) ==
  /\ ~Begun(r) => sending[r] = "nothing" /\ written[r] = <<>>
  /\ place[r] = "running" => r \in Turns /\ sending[r] \in {"nothing", "event", "ask", "started"}
  /\ place[r] = "asking" => r \in Turns /\ sending[r] = "ask"
  /\ place[r] = "tool" => r \in Turns /\ sending[r] = "started"
  /\ place[r] \in {"waiting", "draining"} => sending[r] # "nothing"
  /\ place[r] \in {"waiting", "draining"} /\ sending[r] \in {"event", "ask", "started"} => r \in Turns
  /\ place[r] = "over" => sending[r] \in Answers
  /\ place[r] = "draining" => Wrote(r, sending[r])
  /\ \A k \in 1..Len(written[r]) : written[r][k] \in Answers =>
       k = Len(written[r]) /\ sending[r] = written[r][k] /\ place[r] \in {"draining", "over"}

Stages == \A r \in Requests : Stage(r)

(***************************************************************************)
(* s comes to begin before r: it stands ahead of r in the line, or in the  *)
(* line ahead of r's.                                                      *)
(***************************************************************************)
Ahead(s, r) ==
  \/ Begun(s)
  \/ place[s] = "spawned" /\ place[r] = "sent"
  \/ place[s] = "spawned" /\ place[r] = "spawned"
     /\ \A k \in 1..Len(spawned) : spawned[k] = r => \E j \in 1..k-1 : spawned[j] = s
  \/ place[s] = "sent" /\ place[r] = "sent"
     /\ \A k \in 1..Len(inbox) : inbox[k].kind = "request" /\ inbox[k].about = r =>
           \E j \in 1..k-1 : inbox[j].kind = "request" /\ inbox[j].about = s

(***************************************************************************)
(* The turn a session.cancel names and a shutdown sent before a request    *)
(* come first; so a late request finds the server shutting down.           *)
(***************************************************************************)
Order ==
  /\ \A c \in Cancels : place[c] \in {"sent", "spawned"} => target[c] \in Turns /\ Ahead(target[c], c)
  /\ \A r \in late : place[r] \in {"sent", "spawned"} => \E s \in Shutdowns : Ahead(s, r)
  /\ \A s \in Shutdowns : Begun(s) => shuttingDown
  /\ \A r \in late : place[r] # "unsent" /\ (Begun(r) => sending[r] = "refused")

\* Only what the client asked to cancel is cancelled.
Wishes ==
  /\ \A r \in Requests : must[r] => r \in unwanted
  /\ \A k \in 1..Len(inbox) : inbox[k].kind = "stop" => inbox[k].about \in unwanted
  /\ \A c \in Cancels : place[c] # "unsent" => target[c] \in unwanted

(***************************************************************************)
(* A turn cancelled before its answer, not in a tool, has not sent a       *)
(* result, and its error is coming until it has its answer: it does not    *)
(* come to a tool, where it might be lost.                                 *)
(***************************************************************************)
Stops ==
  \A t \in stopped :
    /\ Begun(t) /\ sending[t] # "result" /\ place[t] # "tool"
    /\ sending[t] \notin Answers => must[t]

\* No reply about t is on its way.
NoReply(t) == ~InInbox("reply", t)

\* At most one reply about t is on its way.
OneReply(t) ==
  \A j, k \in 1..Len(inbox) :
     inbox[j].kind = "reply" /\ inbox[k].kind = "reply" /\ inbox[j].about = t /\ inbox[k].about = t => j = k

\* The turn sends a permission request, or waits for the reply.
Asking(t) == place[t] \in {"waiting", "draining", "asking"} /\ sending[t] = "ask"

\* The turn works, is in a tool, or sends an event.
Busy(t) ==
  \/ place[t] \in {"running", "tool"}
  \/ place[t] \in {"waiting", "draining"} /\ sending[t] \in {"event", "started"}

\* The question a turn waits with is not answered yet...
NotAnswered(t) == future[t] = "open" /\ Len(decided[t]) = Len(asked[t]) - 1 /\ NoReply(t)

\* ...or its reply is on its way...
OnItsWay(t) ==
  /\ future[t] = "open" /\ Len(decided[t]) = Len(asked[t]) /\ OneReply(t)
  /\ \A k \in 1..Len(inbox) : inbox[k].kind = "reply" /\ inbox[k].about = t =>
        inbox[k].decision = decided[t][Len(asked[t])]

\* ...or the reply is there.
There(t) ==
  /\ future[t] \in Decisions /\ Len(decided[t]) = Len(asked[t]) /\ NoReply(t)
  /\ decided[t][Len(asked[t])] = future[t]

(***************************************************************************)
(* The k-th decision of the client is about the k-th tool the turn asked   *)
(* for. At most one question of a turn is open, and none while it works.   *)
(***************************************************************************)
Question(t) ==
  /\ Asks(t) <= Len(asked[t])
  /\ place[t] = "waiting" /\ sending[t] = "ask" => Asks(t) < Len(asked[t])
  /\ Len(decided[t]) <= Len(asked[t])
  /\ ~Begun(t) => asked[t] = <<>> /\ NoReply(t)
  /\ Busy(t) => Len(decided[t]) = Len(asked[t]) /\ NoReply(t)
  /\ Asking(t) => asked[t] # <<>> /\ (NotAnswered(t) \/ OnItsWay(t) \/ There(t))

Questions == \A t \in Turns : Question(t)

\* A reply carries a decision.
RepliesDecided == \A k \in 1..Len(inbox) : inbox[k].kind = "reply" => inbox[k].decision \in Decisions

\* What is always allowed was allowed so by a decision of the client.
AlwaysAllowed ==
  \A tool \in always : \E u \in Turns : \E k \in 1..Len(decided[u]) :
    asked[u][k] = tool /\ decided[u][k] = "allow_always"

IInv ==
  /\ TypeOK /\ WriterQueue /\ Lines /\ Stages /\ Order /\ Wishes /\ Stops
  /\ Questions /\ RepliesDecided /\ AlwaysAllowed /\ ToolsRunOnlyAllowed
  /\ LateRequestsRefused /\ CancelledTurnsStop

\* The types in four parts, and the rest of TypeOK.
TaskTypes ==
  /\ place \in [Requests -> {"unsent", "sent", "spawned", "running", "asking", "tool",
                             "waiting", "draining", "over"}]
  /\ sending \in [Requests -> Kinds \cup {"nothing"}]
  /\ must \in [Requests -> BOOLEAN]
  /\ written \in [Requests -> Seq(Kinds)]

QueueTypes ==
  /\ loop \in {"reading", "draining", "closed"}
  /\ spawned \in Seq(Requests)
  /\ lock \in Requests \cup {Nobody}
  /\ waiters \in Seq(Requests)
  /\ shuttingDown \in BOOLEAN

TalkTypes ==
  /\ future \in [Turns -> Decisions \cup {"none", "open"}]
  /\ always \in SUBSET Tools
  /\ asked \in [Turns -> Seq(Tools)] /\ decided \in [Turns -> Seq(Decisions)]
  /\ ran \in SUBSET (Turns \X Tools)

WishTypes ==
  /\ client \in {"open", "closed", "gone"}
  /\ inbox \in Seq(Message)
  /\ target \in [Cancels -> Turns \cup {Nobody}]
  /\ stops \in 0..MaxStops
  /\ unwanted \in SUBSET Turns /\ stopped \in SUBSET Turns /\ early \in SUBSET Turns
  /\ late \in SUBSET Requests

Types == TaskTypes /\ QueueTypes /\ TalkTypes /\ WishTypes

Marks ==
  /\ \A r \in Requests : must[r] => Registered(r)
  /\ \A t \in Turns : place[t] = "asking" => asked[t] # <<>> /\ future[t] # "none"

\* Nobody stands twice in a queue, and who stands in it.
NoRepeats(queue) == \A j, k \in 1..Len(queue) : queue[j] = queue[k] => j = k

SameBut(left, queue, r) ==
  \A x : (\E k \in 1..Len(left) : left[k] = x)
            <=> x # r /\ \E k \in 1..Len(queue) : queue[k] = x

\* A queue in which nobody stands twice, without r.
LEMMA WithoutIs ==
  ASSUME NEW S, NEW queue \in Seq(S), NEW r, NoRepeats(queue)
  PROVE  /\ Without(queue, r) \in Seq(S)
         /\ NoRepeats(Without(queue, r))
         /\ SameBut(Without(queue, r), queue, r)
<1> USE DEF NoRepeats, SameBut
<1>1. CASE ~\E k \in 1..Len(queue) : queue[k] = r
  BY <1>1 DEF Without
<1>2. CASE \E k \in 1..Len(queue) : queue[k] = r
  <2> DEFINE n == CHOOSE k \in 1..Len(queue) : queue[k] = r
             front == SubSeq(queue, 1, n - 1)
             rest == SubSeq(queue, n + 1, Len(queue))
             w == front \o rest
  <2>1. n \in 1..Len(queue) /\ queue[n] = r
    BY <1>2
  <2> HIDE DEF n
  <2>2. Len(queue) \in Nat /\ n \in Nat /\ n >= 1 /\ n <= Len(queue)
    BY <2>1
  <2>3. /\ front \in Seq(S)
        /\ Len(front) = n - 1
        /\ \A i \in 1..(n - 1) : front[i] = queue[i]
    <3>1. \A i \in 1..(n - 1) : queue[i] \in S
      BY <2>2
    <3>2. 1 \in Int /\ n - 1 \in Int /\ n - 1 - 1 + 1 = n - 1
      BY <2>2
    <3>3. front \in Seq(S)
      BY <3>1, <3>2, SubSeqProperties
    <3>4. Len(front) = IF 1 <= n - 1 THEN n - 1 - 1 + 1 ELSE 0
      BY <3>1, <3>2, SubSeqProperties
    <3>5. \A i \in 1..(n - 1 - 1 + 1) : front[i] = queue[1 + i - 1]
      BY <3>1, <3>2, SubSeqProperties
    <3> QED BY <2>2, <3>2, <3>3, <3>4, <3>5
  <2>4. /\ rest \in Seq(S)
        /\ Len(rest) = Len(queue) - n
        /\ \A i \in 1..(Len(queue) - n) : rest[i] = queue[n + i]
    <3>1. \A i \in (n + 1)..Len(queue) : queue[i] \in S
      BY <2>2
    <3>2. n + 1 \in Int /\ Len(queue) \in Int
      BY <2>2
    <3>3. rest \in Seq(S)
      BY <3>1, <3>2, SubSeqProperties
    <3>4. Len(rest) = IF n + 1 <= Len(queue) THEN Len(queue) - (n + 1) + 1 ELSE 0
      BY <3>1, <3>2, SubSeqProperties
    <3>5. \A i \in 1..(Len(queue) - (n + 1) + 1) : rest[i] = queue[n + 1 + i - 1]
      BY <3>1, <3>2, SubSeqProperties
    <3> QED BY <2>2, <3>3, <3>4, <3>5
  <2>5. /\ w \in Seq(S)
        /\ Len(w) = Len(queue) - 1
        /\ \A i \in 1..(Len(queue) - 1) : w[i] = IF i < n THEN queue[i] ELSE queue[i + 1]
    <3> HIDE DEF front, rest
    <3>1. w \in Seq(S) /\ Len(w) = Len(front) + Len(rest)
          /\ \A i \in 1..(Len(front) + Len(rest)) :
                w[i] = IF i <= Len(front) THEN front[i] ELSE rest[i - Len(front)]
      BY <2>3, <2>4, ConcatProperties, ZenonT(30)
    <3> HIDE DEF w
    <3>2. \A i \in 1..(n - 1 + (Len(queue) - n)) :
             w[i] = IF i <= n - 1 THEN front[i] ELSE rest[i - (n - 1)]
      BY <2>3, <2>4, <3>1
    <3>3. w \in Seq(S) /\ Len(w) = n - 1 + (Len(queue) - n)
      BY <2>3, <2>4, <3>1
    <3>4. Len(w) = Len(queue) - 1
      BY <2>2, <3>3
    <3>5. ASSUME NEW i \in 1..(Len(queue) - 1), i < n PROVE w[i] = queue[i]
      <4>1. i \in 1..(n - 1 + (Len(queue) - n)) /\ i <= n - 1 /\ i \in 1..(n - 1)
        BY <2>2, <3>5
      <4> QED BY <2>3, <3>2, <4>1
    <3>6. ASSUME NEW i \in 1..(Len(queue) - 1), ~(i < n) PROVE w[i] = queue[i + 1]
      <4>1. i \in 1..(n - 1 + (Len(queue) - n)) /\ ~(i <= n - 1)
            /\ i - (n - 1) \in 1..(Len(queue) - n) /\ n + (i - (n - 1)) = i + 1
        BY <2>2, <3>6
      <4> QED BY <2>4, <3>2, <4>1
    <3> QED BY <3>3, <3>4, <3>5, <3>6
  <2>6. Without(queue, r) = w
    BY <1>2 DEF Without, n
  <2> HIDE DEF w
  <2>7. \A j, k \in 1..Len(w) : w[j] = w[k] => j = k
    BY <2>2, <2>5
  <2>8. ASSUME NEW x
        PROVE  (\E k \in 1..Len(w) : w[k] = x) <=> x # r /\ \E k \in 1..Len(queue) : queue[k] = x
    <3>1. ASSUME NEW k \in 1..Len(w),
                 w[k] = x
          PROVE  x # r /\ \E i \in 1..Len(queue) : queue[i] = x
      <4>1. k \in Nat /\ k <= Len(queue) - 1
        BY <2>2, <2>5
      <4>2. CASE k < n
        <5>1. queue[k] = x /\ k \in 1..Len(queue) /\ k # n
          BY <2>2, <2>5, <3>1, <4>1, <4>2
        <5> QED BY <2>1, <5>1
      <4>3. CASE ~(k < n)
        <5>1. queue[k + 1] = x /\ k + 1 \in 1..Len(queue) /\ k + 1 # n
          BY <2>2, <2>5, <3>1, <4>1, <4>3
        <5> QED BY <2>1, <5>1
      <4> QED BY <4>2, <4>3
    <3>2. ASSUME x # r, NEW i \in 1..Len(queue),
      queue[i] = x PROVE \E k \in 1..Len(w) : w[k] = x
      <4>1. CASE i < n
        <5>1. i \in 1..Len(w) /\ w[i] = x
          BY <2>2, <2>5, <3>2, <4>1
        <5> QED BY <5>1
      <4>2. CASE i > n
        <5>1. i - 1 \in 1..Len(w) /\ w[i - 1] = x
          BY <2>2, <2>5, <3>2, <4>2
        <5> QED BY <5>1
      <4>3. i # n
        BY <2>1, <3>2
      <4> QED BY <2>2, <4>1, <4>2, <4>3
    <3> QED BY <3>1, <3>2
  <2> QED BY <2>5, <2>6, <2>7, <2>8
<1> QED BY <1>1, <1>2

\* Where a task can be when it has sent a message.
LEMMA AfterSendingIs ==
  ASSUME NEW kind
  PROVE  /\ AfterSending(kind) \in {"running", "asking", "tool", "over"}
         /\ AfterSending(kind) = "running" <=> kind = "event"
         /\ AfterSending(kind) = "asking" <=> kind = "ask"
         /\ AfterSending(kind) = "tool" <=> kind = "started"
BY DEF AfterSending

\* A decided turn goes on, or sends that its tool runs or that it failed.
LEMMA DecidedSends ==
  ASSUME NEW t \in Turns, Decided(t)
  PROVE  \/ future[t] = "deny" /\ place' = [place EXCEPT ![t] = "running"]
              /\ UNCHANGED <<sending, lock, waiters, written>>
         \/ \E kind \in {"failed", "started"} : Submit(t, kind, lock, waiters)
BY DEF Decided

\* Sending keeps the types.
LEMMA SubmitTypes ==
  ASSUME TaskTypes, NEW r \in Requests, NEW kind \in Kinds, NEW lk \in Requests \cup {Nobody},
         NEW ws \in Seq(Requests), Submit(r, kind, lk, ws)
  PROVE  /\ place' \in [Requests -> {"unsent", "sent", "spawned", "running", "asking", "tool",
                             "waiting", "draining", "over"}]
         /\ sending' \in [Requests -> Kinds \cup {"nothing"}]
         /\ written' \in [Requests -> Seq(Kinds)]
         /\ lock' \in Requests \cup {Nobody}
         /\ waiters' \in Seq(Requests)
<1>0. sending' \in [Requests -> Kinds \cup {"nothing"}]
  BY DEF Submit, TaskTypes
<1>1. CASE lk = Nobody /\ ws = <<>>
  <2>1. /\ lock' = r /\ waiters' = ws
        /\ written' = [written EXCEPT ![r] = Append(@, kind)]
        /\ place' = [place EXCEPT ![r] = "draining"]
    BY <1>1 DEF Submit
  <2>2. written' \in [Requests -> Seq(Kinds)]
    BY <2>1 DEF TaskTypes
  <2> QED BY <1>0, <2>1, <2>2 DEF TaskTypes
<1>2. CASE ~(lk = Nobody /\ ws = <<>>)
  <2>1. /\ lock' = lk /\ waiters' = Append(ws, r)
        /\ written' = written
        /\ place' = [place EXCEPT ![r] = "waiting"]
    BY <1>2 DEF Submit
  <2> QED BY <1>0, <2>1 DEF TaskTypes
<1> QED BY <1>1, <1>2

\* The head and the tail of a queue, by index.
LEMMA HeadAndTail ==
  ASSUME NEW S, NEW q \in Seq(S), q # <<>>
  PROVE  /\ 1 \in 1..Len(q) /\ Head(q) = q[1] /\ Head(q) \in S
         /\ Tail(q) \in Seq(S) /\ Len(Tail(q)) = Len(q) - 1
         /\ \A k \in 1..Len(Tail(q)) : Tail(q)[k] = q[k + 1] /\ k + 1 \in 1..Len(q)
BY HeadTailProperties

\* The queue of the lock without r.
LEMMA WithoutWaiters ==
  ASSUME Types, WriterQueue, NEW r
  PROVE  /\ Without(waiters, r) \in Seq(Requests)
         /\ NoRepeats(Without(waiters, r))
         /\ SameBut(Without(waiters, r), waiters, r)
<1>1. waiters \in Seq(Requests)
  BY DEF Types, QueueTypes
<1>2. NoRepeats(waiters)
  BY DEF WriterQueue, NoRepeats
<1> QED BY <1>1, <1>2, WithoutIs

\* The queue of the lock without r is a queue of requests.
LEMMA WithoutType ==
  ASSUME Types, WriterQueue, NEW r
  PROVE  Without(waiters, r) \in Seq(Requests)
BY WithoutWaiters

\* A step keeps the types of what is kept for each task...
LEMMA TaskTypesStep ==
  ASSUME IInv, Next \/ UNCHANGED vars PROVE TaskTypes'
<1> USE BridgeAssumption DEF Requests
<1>0. Types /\ Lines /\ Stages /\ WriterQueue BY DEF IInv, TypeOK, Types, TaskTypes,
  QueueTypes, TalkTypes, WishTypes
<1>1. CASE UNCHANGED <<place, sending, must, written>>
  BY <1>1, <1>0 DEF TaskTypes, Types
<1>2. ASSUME NEW r \in Requests, SendRequest(r) PROVE TaskTypes'
  BY <1>2, <1>0 DEF SendRequest, Send, Msg, server, Types, QueueTypes, Kinds, Answers, TaskTypes
<1>3. ASSUME ReceiveRequest PROVE TaskTypes'
  BY <1>3, <1>0 DEF ReceiveRequest, Receive, Spawn, server, Types, QueueTypes, Kinds, Answers,
    TaskTypes
<1>4. ASSUME ReceiveStop PROVE TaskTypes'
  BY <1>4, <1>0 DEF ReceiveStop, Receive, CancelTask, server, Types, QueueTypes, Kinds,
    Answers, TaskTypes
<1>5. ASSUME NEW r \in Requests, Refuse(r) PROVE TaskTypes'
  BY <1>5, <1>0, SubmitTypes DEF Refuse, Begins, server, Types, QueueTypes, Kinds, Answers,
    TaskTypes
<1>6. ASSUME NEW r \in Requests, HandleShutdown(r) PROVE TaskTypes'
  BY <1>6, <1>0, SubmitTypes DEF HandleShutdown, Begins, server, Types, QueueTypes, Kinds,
    Answers, TaskTypes
<1>7. ASSUME NEW r \in Requests, HandleCancel(r) PROVE TaskTypes'
  BY <1>7, <1>0, SubmitTypes DEF HandleCancel, Begins, CancelTask, server, Types, QueueTypes,
    Kinds, Answers, TaskTypes
<1>8. ASSUME NEW r \in Requests, NEW kind \in {"result", "failed"}, HandlePlain(r, kind)
      PROVE  TaskTypes'
  BY <1>8, <1>0, SubmitTypes DEF HandlePlain, Begins, server, Types, QueueTypes, Kinds,
    Answers, TaskTypes
<1>9. ASSUME NEW r \in Requests, Acquire(r) PROVE TaskTypes'
  <2>1. sending[r] \in Kinds
    BY <1>9, <1>0 DEF Acquire, Types, TaskTypes, Stages, Stage
  <2> QED BY <1>9, <1>0, <2>1 DEF Acquire, server, Types, TaskTypes
<1>10. ASSUME NEW r \in Requests, Drained(r) PROVE TaskTypes'
  <2> DEFINE p == AfterSending(sending[r])
  <2>1. p \in {"running", "asking", "tool", "over"}
    BY AfterSendingIs
  <2>2. place' = [place EXCEPT ![r] = p] /\ UNCHANGED <<sending, must, written>>
    BY <1>10 DEF Drained
  <2> HIDE DEF p
  <2> QED BY <1>0, <2>1, <2>2 DEF Types, TaskTypes
<1>11. ASSUME NEW r \in Requests, DrainFails(r) PROVE TaskTypes'
  BY <1>11, <1>0, SubmitTypes DEF DrainFails, server, Types, QueueTypes, Kinds, Answers,
    TaskTypes
<1>12. ASSUME NEW r \in Requests, Interrupted(r) PROVE TaskTypes'
  <2>1. Without(waiters, r) \in Seq(Requests) /\ (IF lock = r THEN Nobody ELSE lock) \in Requests \cup {Nobody}
    BY <1>0, WithoutType DEF Types, QueueTypes
  <2>2. CASE sending[r] \in Answers
    BY <1>12, <1>0, <2>1, <2>2 DEF Interrupted, Types, TaskTypes, QueueTypes
  <2>3. CASE sending[r] \notin Answers
    <3>1. Submit(r, "cancelled", IF lock = r THEN Nobody ELSE lock, Without(waiters, r))
          /\ must' = [must EXCEPT ![r] = FALSE] /\ UNCHANGED <<loop, spawned, shuttingDown>>
      BY <1>12, <2>3 DEF Interrupted
    <3> QED BY <1>0, <2>1, <3>1, SubmitTypes DEF Types, TaskTypes, QueueTypes, Kinds, Answers
  <2> QED BY <2>2, <2>3
<1>13. ASSUME NEW t \in Turns, BeginTurn(t) PROVE TaskTypes'
  BY <1>13, <1>0 DEF BeginTurn, Begins, server, Types, QueueTypes, Kinds, Answers, TaskTypes
<1>14. ASSUME NEW t \in Turns, SendEvent(t) PROVE TaskTypes'
  BY <1>14, <1>0, SubmitTypes DEF SendEvent, Running, server, Types, QueueTypes, Kinds,
    Answers, TaskTypes
<1>15. ASSUME NEW t \in Turns, Decided(t) PROVE TaskTypes'
  <2>1. CASE place' = [place EXCEPT ![t] = "running"] /\ UNCHANGED <<sending, lock, waiters, written>>
    BY <1>15, <1>0, <2>1 DEF Decided, Types, TaskTypes
  <2>2. ASSUME NEW kind \in {"failed", "started"}, Submit(t, kind, lock, waiters) PROVE TaskTypes'
    BY <1>15, <1>0, <2>2, SubmitTypes DEF Decided, Types, QueueTypes, Kinds, Answers, TaskTypes
  <2> QED BY <1>15, <2>1, <2>2, DecidedSends
<1>16. ASSUME NEW t \in Turns, NEW tool \in Tools, Ask(t, tool) PROVE TaskTypes'
  BY <1>16, <1>0, SubmitTypes DEF Ask, Running, server, Types, QueueTypes, Kinds, Answers,
    TaskTypes
<1>17. ASSUME NEW t \in Turns, NEW kind \in {"result", "failed"}, EndTurn(t, kind)
       PROVE  TaskTypes'
  BY <1>17, <1>0, SubmitTypes DEF EndTurn, Running, server, Types, QueueTypes, Kinds, Answers,
    TaskTypes
<1>18. ASSUME NEW t \in Turns, NEW tool \in Tools, RunAllowed(t, tool) PROVE TaskTypes'
  BY <1>18, <1>0, SubmitTypes DEF RunAllowed, Running, server, Types, QueueTypes, Kinds, Answers,
    TaskTypes
<1>19. ASSUME NEW t \in Turns, ToolEnds(t) PROVE TaskTypes'
  BY <1>19, <1>0 DEF ToolEnds, Types, TaskTypes
<1> QED
  BY <1>1, <1>2, <1>3, <1>4, <1>5, <1>6, <1>7, <1>8, <1>9, <1>10, <1>11, <1>12, <1>13, <1>14,
    <1>15, <1>16, <1>17, <1>18, <1>19
  DEF Next, Client, Reply, ReadLoop, Task, Turn, vars, server, permission, wishes, SendStop,
    SendReply, SendExit, Close, ReceiveReply, ReceiveExit, ReceiveEnd, Finish

\* ...of the read loop, the lock and the queues...
LEMMA QueueTypesStep ==
  ASSUME IInv, Next \/ UNCHANGED vars PROVE QueueTypes'
<1> USE BridgeAssumption DEF Requests
<1>0. Types /\ Lines /\ Stages /\ WriterQueue BY DEF IInv, TypeOK, Types, TaskTypes,
  QueueTypes, TalkTypes, WishTypes
<1>1. CASE UNCHANGED <<loop, spawned, lock, waiters, shuttingDown>>
  BY <1>1, <1>0 DEF QueueTypes, Types
<1>2. ASSUME ReceiveRequest PROVE QueueTypes'
  <2>1. Head(inbox) \in Message /\ Head(inbox) = inbox[1] /\ 1 \in 1..Len(inbox)
    BY <1>2, <1>0, HeadAndTail DEF ReceiveRequest, Receive, Types, WishTypes
  <2>2. Head(inbox).about \in Requests
    BY <1>2, <1>0, <2>1 DEF ReceiveRequest, Receive, Lines
  <2> QED BY <1>2, <1>0, <2>2 DEF ReceiveRequest, Spawn, server, Types, QueueTypes
<1>3. ASSUME ReceiveExit PROVE QueueTypes'
  BY <1>3, <1>0 DEF ReceiveExit, Receive, server, Types, TaskTypes, Kinds, Answers, QueueTypes
<1>4. ASSUME ReceiveEnd PROVE QueueTypes'
  BY <1>4, <1>0 DEF ReceiveEnd, server, Types, TaskTypes, Kinds, Answers, QueueTypes
<1>5. ASSUME Finish PROVE QueueTypes'
  BY <1>5, <1>0 DEF Finish, server, Types, TaskTypes, Kinds, Answers, QueueTypes
<1>6. ASSUME NEW r \in Requests, Refuse(r) PROVE QueueTypes'
  BY <1>6, <1>0, SubmitTypes DEF Refuse, Begins, server, Types, TaskTypes, Kinds, Answers,
    QueueTypes
<1>7. ASSUME NEW r \in Requests, HandleShutdown(r) PROVE QueueTypes'
  BY <1>7, <1>0, SubmitTypes DEF HandleShutdown, Begins, server, Types, TaskTypes, Kinds,
    Answers, QueueTypes
<1>8. ASSUME NEW r \in Requests, HandleCancel(r) PROVE QueueTypes'
  BY <1>8, <1>0, SubmitTypes DEF HandleCancel, Begins, CancelTask, server, Types, TaskTypes,
    Kinds, Answers, QueueTypes
<1>9. ASSUME NEW r \in Requests, NEW kind \in {"result", "failed"}, HandlePlain(r, kind)
      PROVE  QueueTypes'
  <2>1. kind \in Kinds BY DEF Kinds, Answers
  <2> QED BY <1>9, <1>0, <2>1, SubmitTypes DEF HandlePlain, Begins, Types, TaskTypes, QueueTypes
<1>10. ASSUME NEW r \in Requests, Acquire(r) PROVE QueueTypes'
  BY <1>10, <1>0 DEF Acquire, server, Types, TaskTypes, Kinds, Answers, QueueTypes
<1>11. ASSUME NEW r \in Requests, Drained(r) PROVE QueueTypes'
  BY <1>11, <1>0 DEF Drained, server, Types, TaskTypes, Kinds, Answers, QueueTypes
<1>12. ASSUME NEW r \in Requests, DrainFails(r) PROVE QueueTypes'
  BY <1>12, <1>0, SubmitTypes DEF DrainFails, server, Types, TaskTypes, Kinds, Answers,
    QueueTypes
<1>13. ASSUME NEW r \in Requests, Interrupted(r) PROVE QueueTypes'
  <2>1. Without(waiters, r) \in Seq(Requests) /\ (IF lock = r THEN Nobody ELSE lock) \in Requests \cup {Nobody}
    BY <1>0, WithoutType DEF Types, QueueTypes
  <2>2. CASE sending[r] \in Answers
    BY <1>13, <1>0, <2>1, <2>2 DEF Interrupted, Types, TaskTypes, QueueTypes
  <2>3. CASE sending[r] \notin Answers
    <3>1. Submit(r, "cancelled", IF lock = r THEN Nobody ELSE lock, Without(waiters, r))
          /\ must' = [must EXCEPT ![r] = FALSE] /\ UNCHANGED <<loop, spawned, shuttingDown>>
      BY <1>13, <2>3 DEF Interrupted
    <3> QED BY <1>0, <2>1, <3>1, SubmitTypes DEF Types, TaskTypes, QueueTypes, Kinds, Answers
  <2> QED BY <2>2, <2>3
<1>14. ASSUME NEW t \in Turns, BeginTurn(t) PROVE QueueTypes'
  BY <1>14, <1>0 DEF BeginTurn, Begins, server, Types, TaskTypes, Kinds, Answers, QueueTypes
<1>15. ASSUME NEW t \in Turns, SendEvent(t) PROVE QueueTypes'
  BY <1>15, <1>0, SubmitTypes DEF SendEvent, Running, server, Types, TaskTypes, Kinds, Answers,
    QueueTypes
<1>16. ASSUME NEW t \in Turns, Decided(t) PROVE QueueTypes'
  <2>1. CASE UNCHANGED <<lock, waiters>>
    BY <1>16, <1>0, <2>1 DEF Decided, Types, QueueTypes
  <2>2. ASSUME NEW kind \in {"failed", "started"}, Submit(t, kind, lock, waiters) PROVE QueueTypes'
    BY <1>16, <1>0, <2>2, SubmitTypes DEF Decided, Types, QueueTypes, Kinds, Answers
  <2> QED BY <1>16, <2>1, <2>2, DecidedSends
<1>17. ASSUME NEW t \in Turns, NEW tool \in Tools, Ask(t, tool) PROVE QueueTypes'
  BY <1>17, <1>0, SubmitTypes DEF Ask, Running, server, Types, TaskTypes, Kinds, Answers,
    QueueTypes
<1>18. ASSUME NEW t \in Turns, NEW kind \in {"result", "failed"}, EndTurn(t, kind)
       PROVE  QueueTypes'
  BY <1>18, <1>0, SubmitTypes DEF EndTurn, Running, server, Types, TaskTypes, Kinds, Answers,
    QueueTypes
<1>19. ASSUME NEW t \in Turns, NEW tool \in Tools, RunAllowed(t, tool) PROVE QueueTypes'
  BY <1>19, <1>0, SubmitTypes DEF RunAllowed, Running, server, Types, TaskTypes, Kinds, Answers,
    QueueTypes
<1> QED
  BY <1>1, <1>2, <1>3, <1>4, <1>5, <1>6, <1>7, <1>8, <1>9, <1>10, <1>11, <1>12, <1>13, <1>14,
    <1>15, <1>16, <1>17, <1>18, <1>19
  DEF Next, Client, Reply, ReadLoop, Task, Turn, vars, server, permission, wishes, SendRequest,
    SendStop, SendReply, SendExit, Close, ReceiveStop, ReceiveReply, ToolEnds

\* ...of the permission requests...
LEMMA TalkTypesStep ==
  ASSUME IInv, Next \/ UNCHANGED vars PROVE TalkTypes'
<1> USE BridgeAssumption DEF Requests
<1>0. RepliesDecided /\ Types /\ Lines /\ Stages /\ WriterQueue BY
  DEF IInv, TypeOK, Types, TaskTypes, QueueTypes, TalkTypes, WishTypes
<1>1. CASE UNCHANGED <<future, always, asked, decided, ran>>
  BY <1>1, <1>0 DEF TalkTypes, Types
<1>2. ASSUME NEW t \in Turns, NEW d \in Decisions, SendReply(t, d) PROVE TalkTypes'
  BY <1>2, <1>0 DEF SendReply, Send, Msg, Reply, permission, Types, WishTypes, Decisions,
    TalkTypes
<1>3. ASSUME ReceiveReply PROVE TalkTypes'
  <2>1. Head(inbox) = inbox[1] /\ 1 \in 1..Len(inbox)
    BY <1>3, <1>0, HeadAndTail DEF ReceiveReply, Receive, Types, WishTypes
  <2>2. Head(inbox).decision \in Decisions
    BY <1>3, <1>0, <2>1 DEF ReceiveReply, Receive, RepliesDecided
  <2> QED BY <1>3, <1>0, <2>2 DEF ReceiveReply, Resolves, Types, TalkTypes
<1>4. ASSUME NEW r \in Requests, Interrupted(r) PROVE TalkTypes'
  BY <1>4, <1>0 DEF Interrupted, Types, TalkTypes
<1>5. ASSUME NEW t \in Turns, Decided(t) PROVE TalkTypes'
  <2>1. asked[t] # <<>> /\ asked[t] \in Seq(Tools)
    BY <1>5, <1>0 DEF Decided, IInv, TypeOK
  <2>2. asked[t][Len(asked[t])] \in Tools
    BY <2>1, EmptySeq
  <2> QED BY <1>5, <1>0, <2>2 DEF Decided, Types, TalkTypes
<1>6. ASSUME NEW t \in Turns, NEW tool \in Tools, RunAllowed(t, tool) PROVE TalkTypes'
  BY <1>6, <1>0 DEF RunAllowed, Running, permission, Types, WishTypes, Decisions, TalkTypes
<1>7. ASSUME NEW t \in Turns, NEW tool \in Tools, Ask(t, tool) PROVE TalkTypes'
  BY <1>7, <1>0 DEF Ask, Running, permission, Types, WishTypes, Decisions, TalkTypes
<1> QED
  BY <1>1, <1>2, <1>3, <1>4, <1>5, <1>6, <1>7
  DEF Next, Client, Reply, ReadLoop, Task, Turn, vars, server, permission, wishes, SendRequest,
    SendStop, SendExit, Close, ReceiveRequest, ReceiveStop, ReceiveExit, ReceiveEnd, Finish,
      Refuse, HandleShutdown, HandleCancel, HandlePlain, Acquire, Drained, DrainFails,
        BeginTurn, SendEvent, ToolEnds, EndTurn

\* ...and of what the client has sent.
LEMMA WishTypesStep ==
  ASSUME IInv, Next \/ UNCHANGED vars PROVE WishTypes'
<1> USE BridgeAssumption DEF Requests
<1>0. Order /\ Types /\ Lines /\ Stages /\ WriterQueue BY DEF IInv, TypeOK, Types, TaskTypes,
  QueueTypes, TalkTypes, WishTypes
<1>1. CASE UNCHANGED <<client, inbox, target, stops, unwanted, late, stopped, early>>
  BY <1>1, <1>0 DEF WishTypes, Types
<1>2. ASSUME NEW r \in Requests, SendRequest(r) PROVE WishTypes'
  <2>1. Msg("request", r, "none") \in Message
    BY DEF Msg, Message
  <2>2. inbox' \in Seq(Message)
    BY <1>2, <1>0, <2>1 DEF SendRequest, Send, Types, WishTypes
  <2>3. target' \in [Cancels -> Turns \cup {Nobody}] /\ unwanted' \in SUBSET Turns
    <3>1. CASE r \in Cancels
      BY <1>2, <1>0, <3>1 DEF SendRequest, Types, WishTypes
    <3>2. CASE r \notin Cancels
      BY <1>2, <1>0, <3>2 DEF SendRequest, Types, WishTypes
    <3> QED BY <3>1, <3>2
  <2> QED BY <1>2, <1>0, <2>2, <2>3 DEF SendRequest, Types, WishTypes
<1>3. ASSUME NEW t \in Turns, SendStop(t) PROVE WishTypes'
  BY <1>3, <1>0 DEF SendStop, Send, Msg, wishes, Types, WishTypes, Message, Decisions, Lines
<1>4. ASSUME NEW t \in Turns, NEW d \in Decisions, SendReply(t, d) PROVE WishTypes'
  BY <1>4, <1>0 DEF SendReply, Send, Msg, Reply, wishes, Types, WishTypes, Message, Decisions,
    Lines
<1>5. ASSUME SendExit PROVE WishTypes'
  BY <1>5, <1>0 DEF SendExit, Send, Msg, wishes, Types, WishTypes, Message, Decisions, Lines
<1>6. ASSUME NEW how \in {"closed", "gone"}, Close(how) PROVE WishTypes'
  BY <1>6, <1>0 DEF Close, wishes, Types, WishTypes, Message, Decisions, Lines
<1>7. ASSUME ReceiveRequest PROVE WishTypes'
  BY <1>7, <1>0 DEF ReceiveRequest, Receive, Spawn, wishes, Types, WishTypes, Message,
    Decisions, Lines
<1>8. ASSUME ReceiveStop PROVE WishTypes'
  BY <1>8, <1>0 DEF ReceiveStop, Receive, CancelTask, wishes, Types, WishTypes, Message,
    Decisions, Lines
<1>9. ASSUME ReceiveReply PROVE WishTypes'
  BY <1>9, <1>0 DEF ReceiveReply, Receive, Resolves, wishes, Types, WishTypes, Message,
    Decisions, Lines
<1>10. ASSUME ReceiveExit PROVE WishTypes'
  BY <1>10, <1>0 DEF ReceiveExit, Receive, wishes, Types, WishTypes, Message, Decisions, Lines
<1>11. ASSUME NEW r \in Requests, HandleCancel(r) PROVE WishTypes'
  <2>1. Begins(r) /\ r \in Cancels
    BY <1>11 DEF HandleCancel
  <2>2. place[r] = "spawned"
    BY <1>0, <2>1, HeadAndTail DEF Begins, Types, QueueTypes, Lines
  <2>3. target[r] \in Turns
    BY <1>0, <2>1, <2>2 DEF Order
  <2> QED BY <1>11, <1>0, <2>3 DEF HandleCancel, CancelTask, Stoppable, wishes, Types, WishTypes
<1> QED
  BY <1>1, <1>2, <1>3, <1>4, <1>5, <1>6, <1>7, <1>8, <1>9, <1>10, <1>11
  DEF Next, Client, Reply, ReadLoop, Task, Turn, vars, server, permission, wishes, ReceiveEnd,
    Finish, Refuse, HandleShutdown, HandlePlain, Acquire, Drained, DrainFails, Interrupted,
      BeginTurn, SendEvent, Decided, RunAllowed, ToolEnds, Ask, EndTurn

-----------------------------------------------------------------------------
(* The lock and its queue. *)

\* What the steps of the invariant rest on.
Parts == Types /\ Marks /\ WriterQueue /\ Lines /\ Stages /\ Order /\ Wishes /\ Stops /\ Questions /\ RepliesDecided

\* The invariant has these parts.
LEMMA PartsAre == ASSUME IInv PROVE Parts
BY DEF Parts, IInv, TypeOK, Types, TaskTypes, QueueTypes, TalkTypes, WishTypes, Marks

\* A queue with one more, by index.
LEMMA Appended ==
  ASSUME NEW S, NEW q \in Seq(S), NEW x \in S
  PROVE  /\ Append(q, x) \in Seq(S) /\ Len(Append(q, x)) = Len(q) + 1
         /\ \A k \in 1..Len(q) : Append(q, x)[k] = q[k]
         /\ Append(q, x)[Len(q) + 1] = x
BY AppendProperties

\* With r aside, lk and ws are a lock and a queue in order.
Aside(r, lk, ws) ==
  /\ lk \in (Requests \cup {Nobody}) \ {r} /\ ws \in Seq(Requests)
  /\ \A q \in Requests \ {r} : place[q] = "draining" <=> lk = q
  /\ \A q \in Requests : q # r /\ place[q] = "waiting" <=> \E k \in 1..Len(ws) : ws[k] = q
  /\ \A j, k \in 1..Len(ws) : ws[j] = ws[k] => j = k

\* Who was aside and sends leaves the lock and its queue in order...
LEMMA AsideSubmits ==
  ASSUME Types, NEW r \in Requests, NEW kind, NEW lk, NEW ws, Aside(r, lk, ws), Submit(r, kind, lk, ws)
  PROVE  WriterQueue'
<1> USE BridgeAssumption DEF Requests
<1>1. CASE lk = Nobody /\ ws = <<>>
  <2>1. lock' = r /\ waiters' = ws /\ place' = [place EXCEPT ![r] = "draining"]
    BY <1>1 DEF Submit
  <2>2. \A q \in Requests : place'[q] = "draining" <=> lock' = q
    BY <2>1, <1>1 DEF Aside, Types, TaskTypes
  <2>3. ~\E k \in 1..Len(ws) : TRUE
    BY <1>1
  <2>4. \A q \in Requests : place'[q] # "waiting"
    BY <2>1, <2>3 DEF Aside, Types, TaskTypes
  <2> QED BY <2>1, <2>2, <2>3, <2>4 DEF WriterQueue
<1>2. CASE ~(lk = Nobody /\ ws = <<>>)
  <2>1. lock' = lk /\ waiters' = Append(ws, r) /\ place' = [place EXCEPT ![r] = "waiting"]
    BY <1>2 DEF Submit
  <2>2. /\ Len(waiters') = Len(ws) + 1 /\ Len(ws) \in Nat /\ waiters'[Len(ws) + 1] = r
        /\ \A k \in 1..Len(ws) : waiters'[k] = ws[k]
    BY <2>1, Appended DEF Aside
  <2>3. \A q \in Requests : place'[q] = "draining" <=> lock' = q
    BY <2>1 DEF Aside, Types, TaskTypes
  <2>4. ASSUME NEW q \in Requests
        PROVE  place'[q] = "waiting" <=> \E k \in 1..Len(waiters') : waiters'[k] = q
    <3>1. CASE q = r
      BY <3>1, <2>1, <2>2 DEF Types, TaskTypes
    <3>2. CASE q # r
      <4>1. place'[q] = place[q] BY <3>2, <2>1 DEF Types, TaskTypes
      <4>2. (\E k \in 1..Len(waiters') : waiters'[k] = q) <=> \E k \in 1..Len(ws) : ws[k] = q
        BY <3>2, <2>2
      <4> QED BY <4>1, <4>2, <3>2 DEF Aside
    <3> QED BY <3>1, <3>2
  <2>5. \A j, k \in 1..Len(waiters') : waiters'[j] = waiters'[k] => j = k
    BY <2>2 DEF Aside
  <2> QED BY <2>3, <2>4, <2>5 DEF WriterQueue
<1> QED BY <1>1, <1>2

\* ...and so does who leaves them.
LEMMA AsideLeaves ==
  ASSUME Types, NEW r \in Requests, NEW lk, NEW ws, Aside(r, lk, ws), NEW p,
         place' = [place EXCEPT ![r] = p], p \notin {"waiting", "draining"}, lock' = lk,
           waiters' = ws
  PROVE  WriterQueue'
BY BridgeAssumption DEF Requests, Aside, WriterQueue, Types, TaskTypes

\* A task steps aside: it held nothing, it released the lock, or it left the queue.
LEMMA AsideFor ==
  ASSUME Types, WriterQueue, NEW r \in Requests
  PROVE  /\ place[r] \notin {"waiting", "draining"} => Aside(r, lock, waiters)
         /\ place[r] = "draining" => Aside(r, Nobody, waiters)
         /\ Aside(r, IF lock = r THEN Nobody ELSE lock, Without(waiters, r))
<1> USE BridgeAssumption DEF Requests, Types, TaskTypes, QueueTypes
<1>1. place[r] \notin {"waiting", "draining"} => Aside(r, lock, waiters)
  BY DEF WriterQueue, Aside
<1>2. place[r] = "draining" => Aside(r, Nobody, waiters)
  BY DEF WriterQueue, Aside
<1>3. Aside(r, IF lock = r THEN Nobody ELSE lock, Without(waiters, r))
  <2> DEFINE lk == IF lock = r THEN Nobody ELSE lock
             ws == Without(waiters, r)
  <2>1. /\ ws \in Seq(Requests)
        /\ \A j, k \in 1..Len(ws) : ws[j] = ws[k] => j = k
        /\ \A x : (\E k \in 1..Len(ws) : ws[k] = x) <=> x # r /\ \E k \in 1..Len(waiters) : waiters[k] = x
    BY WithoutWaiters DEF NoRepeats, SameBut
  <2> HIDE DEF ws
  <2>2. lk \in (Requests \cup {Nobody}) \ {r} /\ \A q \in Requests \ {r} : place[q] = "draining" <=> lk = q
    BY DEF WriterQueue
  <2> HIDE DEF lk
  <2>3. \A q \in Requests : q # r /\ place[q] = "waiting" <=> \E k \in 1..Len(ws) : ws[k] = q
    BY <2>1 DEF WriterQueue
  <2>4. Aside(r, lk, ws)
    BY <2>1, <2>2, <2>3 DEF Aside
  <2> QED BY <2>4 DEF lk, ws
<1> QED BY <1>1, <1>2, <1>3

\* The task that begins was the first of the line.
LEMMA BeginsIs ==
  ASSUME Types, Lines, NEW r \in Requests, Begins(r)
  PROVE  /\ place[r] = "spawned" /\ spawned # <<>> /\ spawned[1] = r
         /\ spawned' \in Seq(Requests) /\ Len(spawned') = Len(spawned) - 1 /\ Len(spawned) \in Nat
         /\ \A k \in 1..Len(spawned') : spawned'[k] = spawned[k + 1] /\ k + 1 \in 1..Len(spawned)
BY HeadAndTail DEF Begins, Types, QueueTypes, Lines

\* A step keeps the lock and its queue in order.
LEMMA WriterQueueStep ==
  ASSUME Parts, Next
  PROVE  WriterQueue'
<1>0. Types /\ WriterQueue /\ Lines
  BY DEF Parts
<1>1. CASE UNCHANGED <<place, lock, waiters>>
  BY <1>0, <1>1 DEF WriterQueue
<1>2. ASSUME NEW r \in Requests, NEW p, place' = [place EXCEPT ![r] = p],
             place[r] \notin {"waiting", "draining"}, p \notin {"waiting", "draining"},
             UNCHANGED <<lock, waiters>>
      PROVE  WriterQueue'
  BY <1>0, <1>2, AsideFor, AsideLeaves
<1>3. ASSUME NEW r \in Requests, NEW kind, place[r] \notin {"waiting", "draining"},
             Submit(r, kind, lock, waiters)
      PROVE  WriterQueue'
  BY <1>0, <1>3, AsideFor, AsideSubmits
<1>4. ASSUME NEW r \in Requests, SendRequest(r) PROVE WriterQueue'
  BY <1>2, <1>4 DEF SendRequest
<1>5. ASSUME ReceiveRequest PROVE WriterQueue'
  <2>1. inbox \in Seq(Message) /\ inbox # <<>> /\ inbox[1].kind = "request"
    BY <1>0, <1>5, HeadAndTail DEF ReceiveRequest, Receive, Types, WishTypes
  <2>2. Head(inbox) = inbox[1] /\ 1 \in 1..Len(inbox)
    BY <2>1, HeadAndTail
  <2>3. place[inbox[1].about] = "sent" /\ inbox[1].about \in Requests
    BY <1>0, <2>1, <2>2 DEF Lines, InInbox
  <2>4. PICK r \in Requests : r = inbox[1].about
    BY <2>3
  <2>5. place[r] = "sent" /\ place' = [place EXCEPT ![r] = "spawned"] /\ UNCHANGED <<lock, waiters>>
    BY <1>5, <2>2, <2>3, <2>4 DEF ReceiveRequest
  <2> QED BY <1>2, <2>5
<1>6. ASSUME NEW r \in Requests, Refuse(r) PROVE WriterQueue'
  BY <1>0, <1>3, <1>6, BeginsIs DEF Refuse
<1>7. ASSUME NEW r \in Requests, HandleShutdown(r) PROVE WriterQueue'
  BY <1>0, <1>3, <1>7, BeginsIs DEF HandleShutdown
<1>8. ASSUME NEW r \in Requests, HandleCancel(r) PROVE WriterQueue'
  BY <1>0, <1>3, <1>8, BeginsIs DEF HandleCancel
<1>9. ASSUME NEW r \in Requests, NEW kind \in {"result", "failed"}, HandlePlain(r, kind)
      PROVE  WriterQueue'
  BY <1>0, <1>3, <1>9, BeginsIs DEF HandlePlain
<1>10. ASSUME NEW r \in Requests, Acquire(r) PROVE WriterQueue'
  <2>1. /\ place[r] = "waiting" /\ lock = Nobody /\ waiters # <<>> /\ waiters[1] = r
        /\ lock' = r /\ waiters' = Tail(waiters) /\ place' = [place EXCEPT ![r] = "draining"]
    BY <1>0, <1>10, HeadAndTail DEF Acquire, Types, QueueTypes
  <2>2. /\ waiters' \in Seq(Requests) /\ Len(waiters') = Len(waiters) - 1 /\ Len(waiters) \in Nat
        /\ 1 \in 1..Len(waiters)
        /\ \A k \in 1..Len(waiters') : waiters'[k] = waiters[k + 1] /\ k + 1 \in 1..Len(waiters)
    BY <1>0, <2>1, HeadAndTail DEF Types, QueueTypes
  <2>3. \A q \in Requests : place'[q] = "draining" <=> lock' = q
    BY <1>0, <2>1, BridgeAssumption DEF Types, TaskTypes, WriterQueue
  <2>4. ASSUME NEW q \in Requests
        PROVE  place'[q] = "waiting" <=> \E k \in 1..Len(waiters') : waiters'[k] = q
    <3>1. CASE q = r
      <4>1. ASSUME NEW k \in 1..Len(waiters'), waiters'[k] = r PROVE FALSE
        <5>1. waiters[k + 1] = waiters[1] /\ k + 1 \in 1..Len(waiters) /\ k + 1 # 1
          BY <2>1, <2>2, <4>1
        <5> QED BY <1>0, <2>2, <5>1 DEF WriterQueue
      <4> QED BY <1>0, <2>1, <3>1, <4>1 DEF Types, TaskTypes
    <3>2. CASE q # r
      <4>1. ASSUME NEW k \in 1..Len(waiters),
                   waiters[k] = q
            PROVE  \E j \in 1..Len(waiters') : waiters'[j] = q
        <5>1. k # 1 BY <2>1, <3>2, <4>1
        <5>2. k - 1 \in 1..Len(waiters') /\ k - 1 + 1 = k BY <2>2, <5>1
        <5> QED BY <2>2, <4>1, <5>2
      <4>2. place'[q] = place[q] BY <1>0, <2>1, <3>2 DEF Types, TaskTypes
      <4> QED BY <1>0, <2>2, <4>1, <4>2, SMTT(30) DEF WriterQueue
    <3> QED BY <3>1, <3>2
  <2>5. \A j, k \in 1..Len(waiters') : waiters'[j] = waiters'[k] => j = k
    <3> TAKE j, k \in 1..Len(waiters')
    <3>1. waiters[j + 1] = waiters[k + 1] => j + 1 = k + 1
      BY <1>0, <2>2 DEF WriterQueue
    <3> QED BY <2>2, <3>1
  <2> QED BY <2>3, <2>4, <2>5 DEF WriterQueue
<1>11. ASSUME NEW r \in Requests, Drained(r) PROVE WriterQueue'
  <2>1. PICK p : p \notin {"waiting", "draining"} /\ place' = [place EXCEPT ![r] = p]
    <3> DEFINE p == AfterSending(sending[r])
    <3>1. p \notin {"waiting", "draining"} /\ place' = [place EXCEPT ![r] = p]
      BY <1>11, AfterSendingIs DEF Drained
    <3> QED BY <3>1
  <2> QED BY <1>0, <1>11, <2>1, AsideFor, AsideLeaves DEF Drained
<1>12. ASSUME NEW r \in Requests, DrainFails(r) PROVE WriterQueue'
  <2>1. Aside(r, Nobody, waiters)
    BY <1>0, <1>12, AsideFor DEF DrainFails
  <2>2. CASE sending[r] \in Answers
    BY <1>0, <1>12, <2>1, <2>2, AsideLeaves DEF DrainFails
  <2>3. CASE sending[r] \notin Answers
    BY <1>0, <1>12, <2>1, <2>3, AsideSubmits DEF DrainFails
  <2> QED BY <2>2, <2>3
<1>13. ASSUME NEW r \in Requests, Interrupted(r) PROVE WriterQueue'
  <2> DEFINE lk == IF lock = r THEN Nobody ELSE lock
             ws == Without(waiters, r)
  <2>1. Aside(r, lk, ws)
    BY <1>0, AsideFor
  <2>2. CASE sending[r] \in Answers
    <3>1. place' = [place EXCEPT ![r] = "over"] /\ lock' = lk /\ waiters' = ws
      BY <1>13, <2>2 DEF Interrupted
    <3> QED BY <1>0, <2>1, <3>1, AsideLeaves
  <2>3. CASE sending[r] \notin Answers
    <3>1. Submit(r, "cancelled", lk, ws)
      BY <1>13, <2>3 DEF Interrupted
    <3> QED BY <1>0, <2>1, <3>1, AsideSubmits
  <2> QED BY <2>2, <2>3
<1>14. ASSUME NEW t \in Turns, BeginTurn(t) PROVE WriterQueue'
  <2>1. t \in Requests /\ place[t] = "spawned" /\ place' = [place EXCEPT ![t] = "running"]
        /\ UNCHANGED <<lock, waiters>>
    BY <1>0, <1>14, BeginsIs DEF BeginTurn, Requests
  <2> QED BY <1>2, <2>1
<1>15. ASSUME NEW t \in Turns, SendEvent(t) PROVE WriterQueue'
  BY <1>3, <1>15 DEF SendEvent, Running, Requests
<1>16. ASSUME NEW t \in Turns, Decided(t) PROVE WriterQueue'
  <2>1. t \in Requests /\ place[t] = "asking"
    BY <1>16 DEF Decided, Requests
  <2> QED BY <1>2, <1>3, <1>16, <2>1, DecidedSends
<1>17. ASSUME NEW t \in Turns, NEW tool \in Tools, Ask(t, tool) PROVE WriterQueue'
  BY <1>3, <1>17 DEF Ask, Running, Requests
<1>18. ASSUME NEW t \in Turns, NEW kind \in {"result", "failed"}, EndTurn(t, kind)
       PROVE  WriterQueue'
  BY <1>3, <1>18 DEF EndTurn, Running, Requests
<1>19. ASSUME NEW t \in Turns, NEW tool \in Tools, RunAllowed(t, tool) PROVE WriterQueue'
  BY <1>3, <1>19 DEF RunAllowed, Running, Requests
<1>20. ASSUME NEW t \in Turns, ToolEnds(t) PROVE WriterQueue'
  BY <1>2, <1>20 DEF ToolEnds, Requests
<1> QED
  BY <1>1, <1>4, <1>5, <1>6, <1>7, <1>8, <1>9, <1>10, <1>11, <1>12, <1>13, <1>14, <1>15, <1>16,
    <1>17, <1>18, <1>19, <1>20
  DEF Next, Client, Reply, ReadLoop, Task, Turn, vars, server, permission, wishes, SendStop,
    SendReply, SendExit, Close, ReceiveStop, ReceiveReply, ReceiveExit, ReceiveEnd, Finish

-----------------------------------------------------------------------------
(* The two lines: messages to be read, tasks to begin. *)

\* The places of a task that has begun.
Underway == {"running", "asking", "tool", "waiting", "draining", "over"}

\* What a step does to the two lines of messages and tasks.
Moves(r) == \E p \in Underway : place' = [place EXCEPT ![r] = p]

Posts == \E m \in Message :
  /\ inbox' = Append(inbox, m) /\ m.kind # "request"
  /\ m.kind # "exit" => m.about \in Turns
  /\ UNCHANGED <<place, spawned>>

Takes ==
  /\ inbox # <<>> /\ Head(inbox).kind # "request" /\ inbox' = Tail(inbox)
  /\ UNCHANGED <<place, spawned>>

Starts(r) == Begins(r) /\ Moves(r) /\ UNCHANGED inbox

GoesOn(r) == place[r] \in Underway /\ Moves(r) /\ UNCHANGED <<inbox, spawned>>

\* Who sends stays under way.
LEMMA SubmitMoves ==
  ASSUME NEW r, NEW kind, NEW lk, NEW ws, Submit(r, kind, lk, ws)
  PROVE  Moves(r)
BY DEF Submit, Moves, Underway

\* What each step does to the two lines.
LEMMA LineSteps ==
  ASSUME Parts, Next
  PROVE  \/ UNCHANGED <<place, inbox, spawned>> \/ Posts \/ Takes \/ ReceiveRequest
         \/ \E r \in Requests : SendRequest(r) \/ Starts(r) \/ GoesOn(r)
<1> DEFINE Goal == \/ UNCHANGED <<place, inbox, spawned>> \/ Posts \/ Takes \/ ReceiveRequest
                   \/ \E r \in Requests : SendRequest(r) \/ Starts(r) \/ GoesOn(r)
<1>1. ASSUME NEW r \in Requests, Task(r) PROVE Goal
  <2>1. CASE Refuse(r) \/ HandleShutdown(r) \/ HandleCancel(r) \/ \E kind \in {"result", "failed"} : HandlePlain(r, kind)
    <3>1. Begins(r) /\ UNCHANGED inbox /\ \E kind : Submit(r, kind, lock, waiters)
      BY <2>1 DEF Refuse, HandleShutdown, HandleCancel, HandlePlain, wishes
    <3> QED BY <3>1, SubmitMoves DEF Starts
  <2>2. CASE Acquire(r)
    BY <2>2 DEF Acquire, GoesOn, Moves, Underway, wishes
  <2>3. CASE Drained(r)
    <3> DEFINE p == AfterSending(sending[r])
    <3>1. p \in Underway
      BY AfterSendingIs DEF Underway
    <3>2. place[r] \in Underway /\ place' = [place EXCEPT ![r] = p] /\ UNCHANGED <<inbox, spawned>>
      BY <2>3 DEF Drained, Underway, wishes
    <3> QED BY <3>1, <3>2 DEF GoesOn, Moves
  <2>4. CASE DrainFails(r)
    <3>1. place[r] \in Underway /\ UNCHANGED <<inbox, spawned>>
      BY <2>4 DEF DrainFails, wishes, Underway
    <3>2. Moves(r)
      <4>1. CASE sending[r] \in Answers
        BY <2>4, <4>1 DEF DrainFails, Moves, Underway
      <4>2. CASE sending[r] \notin Answers
        BY <2>4, <4>2, SubmitMoves DEF DrainFails
      <4> QED BY <4>1, <4>2
    <3> QED BY <3>1, <3>2 DEF GoesOn
  <2>5. CASE Interrupted(r)
    <3>1. place[r] \in Underway /\ UNCHANGED <<inbox, spawned>>
      BY <2>5 DEF Interrupted, wishes, Underway, Parts, Marks, Registered
    <3>2. Moves(r)
      <4>1. CASE sending[r] \in Answers
        BY <2>5, <4>1 DEF Interrupted, Moves, Underway
      <4>2. CASE sending[r] \notin Answers
        <5>1. Submit(r, "cancelled", IF lock = r THEN Nobody ELSE lock, Without(waiters, r))
          BY <2>5, <4>2 DEF Interrupted
        <5> QED BY <5>1, SubmitMoves
      <4> QED BY <4>1, <4>2
    <3> QED BY <3>1, <3>2 DEF GoesOn
  <2> QED BY <1>1, <2>1, <2>2, <2>3, <2>4, <2>5 DEF Task
<1>2. ASSUME NEW t \in Turns, Turn(t) PROVE Goal
  <2>0. t \in Requests BY DEF Requests
  <2>1. CASE BeginTurn(t)
    BY <2>0, <2>1 DEF BeginTurn, Starts, Moves, Underway, wishes
  <2>2. CASE \/ SendEvent(t) \/ (\E tool \in Tools : Ask(t, tool) \/ RunAllowed(t, tool))
             \/ \E kind \in {"result", "failed"} : EndTurn(t, kind)
    <3>1. place[t] \in Underway /\ UNCHANGED <<inbox, spawned>> /\ \E kind : Submit(t, kind, lock, waiters)
      BY <2>2 DEF SendEvent, Ask, RunAllowed, EndTurn, Running, wishes, Underway
    <3> QED BY <2>0, <3>1, SubmitMoves DEF GoesOn
  <2>3. CASE Decided(t)
    <3>1. place[t] \in Underway /\ UNCHANGED <<inbox, spawned>>
      BY <2>3 DEF Decided, wishes, Underway
    <3>2. Moves(t)
      <4>1. CASE place' = [place EXCEPT ![t] = "running"]
        BY <4>1 DEF Moves, Underway
      <4>2. CASE \E kind \in {"failed", "started"} : Submit(t, kind, lock, waiters)
        BY <4>2, SubmitMoves
      <4> QED BY <2>3, <4>1, <4>2, DecidedSends
    <3> QED BY <2>0, <3>1, <3>2 DEF GoesOn
  <2>4. CASE ToolEnds(t)
    BY <2>0, <2>4 DEF ToolEnds, GoesOn, Moves, Underway, wishes
  <2> QED BY <1>2, <2>1, <2>2, <2>3, <2>4 DEF Turn
<1>3. CASE Client
  <2>1. CASE \E r \in Requests : SendRequest(r)
    BY <2>1
  <2>2. ASSUME NEW t \in Turns, SendStop(t) PROVE Posts
    BY <2>2 DEF SendStop, Send, Msg, Posts, server, Message, Requests
  <2>3. ASSUME NEW t \in Turns, NEW d \in Decisions, SendReply(t, d) PROVE Posts
    BY <2>3 DEF SendReply, Send, Msg, Posts, server, Message, Requests
  <2>4. CASE SendExit
    BY <2>4 DEF SendExit, Send, Msg, Posts, server, Message, Requests
  <2>5. CASE \E how \in {"closed", "gone"} : Close(how)
    BY <2>5 DEF Close, server
  <2> QED BY <1>3, <2>1, <2>2, <2>3, <2>4, <2>5 DEF Client, Reply
<1>4. CASE ReadLoop
  <2>1. CASE ReceiveRequest
    BY <2>1
  <2>2. CASE ReceiveStop \/ ReceiveReply \/ ReceiveExit
    BY <2>2 DEF ReceiveStop, ReceiveReply, ReceiveExit, Receive, Takes, server
  <2>3. CASE ReceiveEnd \/ Finish
    BY <2>3 DEF ReceiveEnd, Finish, wishes
  <2> QED BY <1>4, <2>1, <2>2, <2>3 DEF ReadLoop
<1> QED BY <1>1, <1>2, <1>3, <1>4 DEF Next

\* The inbox with one more message.
LEMMA Posted ==
  ASSUME Types, NEW m \in Message, inbox' = Append(inbox, m)
  PROVE  /\ Len(inbox') = Len(inbox) + 1 /\ Len(inbox) \in Nat /\ inbox'[Len(inbox) + 1] = m
         /\ \A k \in 1..Len(inbox) : inbox'[k] = inbox[k]
         /\ \A kind, r : InInbox(kind, r)' <=> InInbox(kind, r) \/ (m.kind = kind /\ m.about = r)
<1>1. inbox \in Seq(Message)
  BY DEF Types, WishTypes
<1>2. /\ Len(inbox') = Len(inbox) + 1 /\ Len(inbox) \in Nat /\ inbox'[Len(inbox) + 1] = m
      /\ \A k \in 1..Len(inbox) : inbox'[k] = inbox[k]
  BY <1>1, Appended
<1> QED BY <1>2 DEF InInbox

\* The inbox without its first message.
LEMMA Taken ==
  ASSUME Types, inbox # <<>>, inbox' = Tail(inbox)
  PROVE  /\ Len(inbox') = Len(inbox) - 1 /\ Len(inbox) \in Nat /\ Head(inbox) = inbox[1] /\ 1 \in 1..Len(inbox)
         /\ inbox[1] \in Message
         /\ \A k \in 1..Len(inbox') : inbox'[k] = inbox[k + 1] /\ k + 1 \in 1..Len(inbox)
         /\ \A kind, r : InInbox(kind, r) <=> InInbox(kind, r)' \/ (inbox[1].kind = kind /\ inbox[1].about = r)
<1>1. inbox \in Seq(Message)
  BY DEF Types, WishTypes
<1>2. /\ Len(inbox') = Len(inbox) - 1 /\ Len(inbox) \in Nat /\ Head(inbox) = inbox[1] /\ 1 \in 1..Len(inbox)
      /\ inbox[1] \in Message
      /\ \A k \in 1..Len(inbox') : inbox'[k] = inbox[k + 1] /\ k + 1 \in 1..Len(inbox)
  BY <1>1, HeadAndTail
<1>3. ASSUME NEW kind, NEW r, InInbox(kind, r)
      PROVE  InInbox(kind, r)' \/ (inbox[1].kind = kind /\ inbox[1].about = r)
  <2>1. PICK k \in 1..Len(inbox) : inbox[k].kind = kind /\ inbox[k].about = r
    BY <1>3 DEF InInbox
  <2>2. CASE k # 1
    <3>1. k - 1 \in 1..Len(inbox') /\ k - 1 + 1 = k
      BY <1>2, <2>2
    <3> QED BY <1>2, <2>1, <3>1 DEF InInbox
  <2> QED BY <2>1, <2>2
<1>4. ASSUME NEW kind, NEW r, InInbox(kind, r)' \/ (inbox[1].kind = kind /\ inbox[1].about = r)
      PROVE  InInbox(kind, r)
  BY <1>2, <1>4 DEF InInbox
<1> QED BY <1>2, <1>3, <1>4

\* The read loop takes a request: it moves from one line to the other.
LEMMA ReceiveRequestIs ==
  ASSUME Types, Lines, ReceiveRequest
  PROVE  \E r \in Requests :
           /\ inbox # <<>> /\ inbox[1].kind = "request" /\ inbox[1].about = r /\ place[r] = "sent"
           /\ inbox' = Tail(inbox) /\ spawned' = Append(spawned, r)
           /\ place' = [place EXCEPT ![r] = "spawned"]
<1>1. inbox # <<>> /\ inbox' = Tail(inbox) /\ Head(inbox).kind = "request"
  BY DEF ReceiveRequest, Receive
<1>2. Head(inbox) = inbox[1] /\ 1 \in 1..Len(inbox)
  BY <1>1, Taken
<1>3. PICK r \in Requests : r = inbox[1].about
  BY <1>1, <1>2 DEF Lines
<1>4. place[r] = "sent"
  BY <1>1, <1>2, <1>3 DEF Lines, InInbox
<1>5. spawned' = Append(spawned, r) /\ place' = [place EXCEPT ![r] = "spawned"]
  BY <1>2, <1>3 DEF ReceiveRequest, Spawn
<1> QED BY <1>1, <1>2, <1>3, <1>4, <1>5

\* The client sends a request: it enters the first line.
LEMMA SendRequestIs ==
  ASSUME Types, NEW r \in Requests, SendRequest(r)
  PROVE  /\ place[r] = "unsent" /\ place' = [place EXCEPT ![r] = "sent"] /\ UNCHANGED spawned
         /\ inbox' = Append(inbox, Msg("request", r, "none")) /\ Msg("request", r, "none") \in Message
         /\ Msg("request", r, "none").kind = "request" /\ Msg("request", r, "none").about = r
BY DEF SendRequest, Send, Msg, Message

\* A step keeps the two lines.
LEMMA LinesStep ==
  ASSUME Parts, Next
  PROVE  Lines'
<1>0. Types /\ Lines /\ place \in [Requests -> {"unsent", "sent", "spawned"} \cup Underway] /\ spawned \in Seq(Requests)
  BY DEF Parts, Types, TaskTypes, QueueTypes, Underway
<1>1. CASE UNCHANGED <<place, inbox, spawned>>
  BY <1>0, <1>1 DEF Lines, InInbox
<1>2. CASE Posts
  <2>1. PICK m \in Message : /\ inbox' = Append(inbox, m) /\ m.kind # "request"
                             /\ m.kind # "exit" => m.about \in Turns
                             /\ UNCHANGED <<place, spawned>>
    BY <1>2 DEF Posts
  <2>2. /\ Len(inbox') = Len(inbox) + 1 /\ Len(inbox) \in Nat /\ inbox'[Len(inbox) + 1] = m
        /\ \A k \in 1..Len(inbox) : inbox'[k] = inbox[k]
        /\ \A kind, r : InInbox(kind, r)' <=> InInbox(kind, r) \/ (m.kind = kind /\ m.about = r)
    BY <1>0, <2>1, Posted
  <2>3. \A k \in 1..Len(inbox') : (k \in 1..Len(inbox) /\ inbox'[k] = inbox[k]) \/ inbox'[k] = m
    BY <2>2
  <2> QED BY <1>0, <2>1, <2>2, <2>3 DEF Lines, Requests
<1>3. CASE Takes
  <2>1. inbox # <<>> /\ Head(inbox).kind # "request" /\ inbox' = Tail(inbox) /\ UNCHANGED <<place, spawned>>
    BY <1>3 DEF Takes
  <2>2. /\ Len(inbox') = Len(inbox) - 1 /\ Len(inbox) \in Nat /\ Head(inbox) = inbox[1]
        /\ \A k \in 1..Len(inbox') : inbox'[k] = inbox[k + 1] /\ k + 1 \in 1..Len(inbox)
        /\ \A kind, r : InInbox(kind, r) <=> InInbox(kind, r)' \/ (inbox[1].kind = kind /\ inbox[1].about = r)
    BY <1>0, <2>1, Taken
  <2>3. \A r \in Requests : place'[r] = "sent" <=> InInbox("request", r)'
    BY <1>0, <2>1, <2>2 DEF Lines
  <2>4. \A j, k \in 1..Len(inbox') :
           inbox'[j].kind = "request" /\ inbox'[k].kind = "request" /\ inbox'[j].about = inbox'[k].about => j = k
    <3> TAKE j, k \in 1..Len(inbox')
    <3>1. inbox[j + 1].kind = "request" /\ inbox[k + 1].kind = "request" /\ inbox[j + 1].about = inbox[k + 1].about
             => j + 1 = k + 1
      BY <1>0, <2>2 DEF Lines
    <3> QED BY <2>2, <3>1
  <2> QED BY <1>0, <2>1, <2>2, <2>3, <2>4 DEF Lines
<1>4. CASE ReceiveRequest
  <2>1. PICK r \in Requests :
           /\ inbox # <<>> /\ inbox[1].kind = "request" /\ inbox[1].about = r /\ place[r] = "sent"
           /\ inbox' = Tail(inbox) /\ spawned' = Append(spawned, r)
           /\ place' = [place EXCEPT ![r] = "spawned"]
    BY <1>0, <1>4, ReceiveRequestIs
  <2>2. /\ Len(inbox') = Len(inbox) - 1 /\ Len(inbox) \in Nat /\ Head(inbox) = inbox[1] /\ 1 \in 1..Len(inbox)
        /\ \A k \in 1..Len(inbox') : inbox'[k] = inbox[k + 1] /\ k + 1 \in 1..Len(inbox)
        /\ \A kind, q : InInbox(kind, q) <=> InInbox(kind, q)' \/ (inbox[1].kind = kind /\ inbox[1].about = q)
    BY <1>0, <2>1, Taken
  <2>3. /\ Len(spawned') = Len(spawned) + 1 /\ Len(spawned) \in Nat /\ spawned'[Len(spawned) + 1] = r
        /\ \A k \in 1..Len(spawned) : spawned'[k] = spawned[k]
    BY <1>0, <2>1, Appended
  <2>4. ~InInbox("request", r)'
    <3>1. ASSUME NEW k \in 1..Len(inbox'), inbox'[k].kind = "request",
                 inbox'[k].about = r
          PROVE  FALSE
      <4>1. k + 1 = 1
        BY <1>0, <2>1, <2>2, <3>1 DEF Lines
      <4> QED BY <4>1
    <3> QED BY <3>1 DEF InInbox
  <2>5. \A q \in Requests : place'[q] = "sent" <=> InInbox("request", q)'
    BY <1>0, <2>1, <2>2, <2>4 DEF Lines
  <2>6. \A j, k \in 1..Len(inbox') :
           inbox'[j].kind = "request" /\ inbox'[k].kind = "request" /\ inbox'[j].about = inbox'[k].about => j = k
    <3> TAKE j, k \in 1..Len(inbox')
    <3>1. inbox[j + 1].kind = "request" /\ inbox[k + 1].kind = "request" /\ inbox[j + 1].about = inbox[k + 1].about
             => j + 1 = k + 1
      BY <1>0, <2>2 DEF Lines
    <3> QED BY <2>2, <3>1
  <2>7. \A k \in 1..Len(spawned) : spawned[k] # r
    BY <1>0, <2>1 DEF Lines
  <2>8. ASSUME NEW q \in Requests
        PROVE  place'[q] = "spawned" <=> \E k \in 1..Len(spawned') : spawned'[k] = q
    <3>1. CASE q = r
      BY <1>0, <2>1, <2>3, <3>1
    <3>2. CASE q # r
      <4>1. (\E k \in 1..Len(spawned') : spawned'[k] = q) <=> \E k \in 1..Len(spawned) : spawned[k] = q
        BY <2>3, <3>2
      <4> QED BY <1>0, <2>1, <3>2, <4>1 DEF Lines
    <3> QED BY <3>1, <3>2
  <2>9. \A j, k \in 1..Len(spawned') : spawned'[j] = spawned'[k] => j = k
    BY <1>0, <2>3, <2>7 DEF Lines
  <2>10. /\ \A k \in 1..Len(inbox') : inbox'[k].kind # "exit" => inbox'[k].about \in Requests
         /\ \A k \in 1..Len(inbox') : inbox'[k].kind \in {"stop", "reply"} => inbox'[k].about \in Turns
    <3>1. ASSUME NEW k \in 1..Len(inbox')
          PROVE  /\ inbox'[k].kind # "exit" => inbox'[k].about \in Requests
                 /\ inbox'[k].kind \in {"stop", "reply"} => inbox'[k].about \in Turns
      <4>1. k + 1 \in 1..Len(inbox) /\ inbox'[k] = inbox[k + 1]
        BY <2>2
      <4>2. PICK j \in 1..Len(inbox) : inbox'[k] = inbox[j]
        BY <4>1
      <4> QED BY <1>0, <4>2 DEF Lines
    <3> QED BY <3>1
  <2> QED BY <2>5, <2>6, <2>8, <2>9, <2>10 DEF Lines
<1>5. ASSUME NEW r \in Requests, SendRequest(r) PROVE Lines'
  <2> DEFINE m == Msg("request", r, "none")
  <2>1. /\ place[r] = "unsent" /\ place' = [place EXCEPT ![r] = "sent"] /\ UNCHANGED spawned
        /\ inbox' = Append(inbox, m) /\ m \in Message /\ m.kind = "request" /\ m.about = r
    BY <1>0, <1>5, SendRequestIs
  <2> HIDE DEF m
  <2>2. /\ Len(inbox') = Len(inbox) + 1 /\ Len(inbox) \in Nat /\ inbox'[Len(inbox) + 1] = m
        /\ \A k \in 1..Len(inbox) : inbox'[k] = inbox[k]
        /\ \A kind, q : InInbox(kind, q)' <=> InInbox(kind, q) \/ (m.kind = kind /\ m.about = q)
    BY <1>0, <2>1, Posted
  <2>3. \A k \in 1..Len(inbox') : (k \in 1..Len(inbox) /\ inbox'[k] = inbox[k]) \/ (k = Len(inbox) + 1 /\ inbox'[k] = m)
    <3> TAKE k \in 1..Len(inbox')
    <3>1. k \in 1..Len(inbox) \/ k = Len(inbox) + 1
      BY <2>2
    <3>2. CASE k \in 1..Len(inbox)
      <4>1. \A i \in 1..Len(inbox) : inbox'[i] = inbox[i] BY <2>2
      <4> QED BY <3>2, <4>1
    <3>3. CASE k = Len(inbox) + 1
      <4>1. inbox'[Len(inbox) + 1] = m BY <2>2
      <4> QED BY <3>3, <4>1
    <3> QED BY <3>1, <3>2, <3>3
  <2>4. \A k \in 1..Len(inbox) : ~(inbox[k].kind = "request" /\ inbox[k].about = r)
    BY <1>0, <2>1 DEF Lines, InInbox
  <2>5. \A q \in Requests : place'[q] = "sent" <=> InInbox("request", q)'
    BY <1>0, <2>1, <2>2 DEF Lines
  <2>6. \A j, k \in 1..Len(inbox') :
           inbox'[j].kind = "request" /\ inbox'[k].kind = "request" /\ inbox'[j].about = inbox'[k].about => j = k
    BY <1>0, <2>1, <2>3, <2>4 DEF Lines
  <2>7. \A q \in Requests : place'[q] = "spawned" <=> \E k \in 1..Len(spawned') : spawned'[k] = q
    BY <1>0, <2>1 DEF Lines
  <2>8. /\ \A k \in 1..Len(inbox') : inbox'[k].kind # "exit" => inbox'[k].about \in Requests
        /\ \A k \in 1..Len(inbox') : inbox'[k].kind \in {"stop", "reply"} => inbox'[k].about \in Turns
    BY <1>0, <2>1, <2>3 DEF Lines
  <2>9. \A j, k \in 1..Len(spawned') : spawned'[j] = spawned'[k] => j = k
    BY <1>0, <2>1 DEF Lines
  <2> QED BY <2>5, <2>6, <2>7, <2>8, <2>9 DEF Lines
<1>6. ASSUME NEW r \in Requests, Starts(r) PROVE Lines'
  <2>1. PICK p \in Underway : place' = [place EXCEPT ![r] = p]
    BY <1>6 DEF Starts, Moves
  <2>2. UNCHANGED inbox
    BY <1>6 DEF Starts
  <2>3. /\ place[r] = "spawned" /\ spawned[1] = r /\ Len(spawned') = Len(spawned) - 1 /\ Len(spawned) \in Nat
        /\ spawned # <<>>
        /\ \A k \in 1..Len(spawned') : spawned'[k] = spawned[k + 1] /\ k + 1 \in 1..Len(spawned)
    BY <1>0, <1>6, BeginsIs DEF Starts
  <2>4. 1 \in 1..Len(spawned)
    BY <1>0, <2>3, HeadAndTail
  <2>5. p \notin {"unsent", "sent", "spawned"}
    BY DEF Underway
  <2>6. \A q \in Requests : place'[q] = "sent" <=> InInbox("request", q)'
    BY <1>0, <2>1, <2>2, <2>3, <2>5 DEF Lines, InInbox
  <2>7. \A k \in 1..Len(spawned') : spawned'[k] # r
    <3> TAKE k \in 1..Len(spawned')
    <3>1. spawned[k + 1] = spawned[1] => k + 1 = 1
      BY <1>0, <2>3, <2>4 DEF Lines
    <3>2. k + 1 # 1 /\ spawned'[k] = spawned[k + 1]
      BY <2>3
    <3> QED BY <2>3, <3>1, <3>2
  <2>8. ASSUME NEW q \in Requests
        PROVE  place'[q] = "spawned" <=> \E k \in 1..Len(spawned') : spawned'[k] = q
    <3>1. CASE q = r
      BY <1>0, <2>1, <2>5, <2>7, <3>1
    <3>2. CASE q # r
      <4>1. ASSUME NEW k \in 1..Len(spawned),
                   spawned[k] = q
            PROVE  \E j \in 1..Len(spawned') : spawned'[j] = q
        <5>1. k # 1 BY <2>3, <3>2, <4>1
        <5>2. k - 1 \in 1..Len(spawned') /\ k - 1 + 1 = k BY <2>3, <5>1
        <5> QED BY <2>3, <4>1, <5>2
      <4>2. place'[q] = place[q] BY <1>0, <2>1, <3>2
      <4> QED BY <1>0, <2>3, <4>1, <4>2 DEF Lines
    <3> QED BY <3>1, <3>2
  <2>9. \A j, k \in 1..Len(spawned') : spawned'[j] = spawned'[k] => j = k
    <3> TAKE j, k \in 1..Len(spawned')
    <3>1. spawned[j + 1] = spawned[k + 1] => j + 1 = k + 1
      BY <1>0, <2>3 DEF Lines
    <3> QED BY <2>3, <3>1
  <2> QED BY <1>0, <2>2, <2>6, <2>8, <2>9 DEF Lines
<1>7. ASSUME NEW r \in Requests, GoesOn(r) PROVE Lines'
  <2>1. PICK p \in Underway : place' = [place EXCEPT ![r] = p]
    BY <1>7 DEF GoesOn, Moves
  <2>2. place[r] \in Underway /\ UNCHANGED <<inbox, spawned>>
    BY <1>7 DEF GoesOn
  <2>3. \A q \in Requests : \A s \in {"sent", "spawned"} : place'[q] = s <=> place[q] = s
    BY <1>0, <2>1, <2>2 DEF Underway
  <2> QED BY <1>0, <2>2, <2>3 DEF Lines, InInbox
<1> QED BY <1>1, <1>2, <1>3, <1>4, <1>5, <1>6, <1>7, LineSteps

-----------------------------------------------------------------------------
(* What a task writes, and the cancellations coming. *)

\* Nothing written about r is an answer.
Unanswered(r) == \A k \in 1..Len(written[r]) : written[r][k] \notin Answers

\* Only the stage of r changes.
LEMMA StagesElsewhere ==
  ASSUME Stages, NEW r \in Requests, Stage(r)',
         \A q \in Requests \ {r} : place'[q] = place[q] /\ sending'[q] = sending[q] /\ written'[q] = written[q]
  PROVE  Stages'
<1>1. ASSUME NEW q \in Requests, q # r PROVE Stage(q)'
  BY <1>1 DEF Stages, Stage, Begun, Wrote
<1> QED BY <1>1 DEF Stages

\* What sending does to the sender, and that it does nothing to the others.
LEMMA SubmitIs ==
  ASSUME Types, NEW r \in Requests, NEW kind, NEW lk, NEW ws, Submit(r, kind, lk, ws)
  PROVE  /\ sending'[r] = kind
         /\ \/ place'[r] = "draining" /\ written'[r] = Append(written[r], kind)
            \/ place'[r] = "waiting" /\ written'[r] = written[r]
         /\ \A q \in Requests \ {r} :
              place'[q] = place[q] /\ sending'[q] = sending[q] /\ written'[q] = written[q]
<1>1. CASE lk = Nobody /\ ws = <<>>
  BY <1>1 DEF Submit, Types, TaskTypes
<1>2. CASE ~(lk = Nobody /\ ws = <<>>)
  BY <1>2 DEF Submit, Types, TaskTypes
<1> QED BY <1>1, <1>2

\* Who sends before its answer stays within its stages.
LEMMA SubmitStages ==
  ASSUME Types, Stages, NEW r \in Requests, NEW kind \in Kinds, NEW lk, NEW ws, Submit(r, kind, lk, ws),
         Unanswered(r), kind \in {"event", "ask", "started"} => r \in Turns
  PROVE  Stages'
<1>1. written[r] \in Seq(Kinds)
  BY DEF Types, TaskTypes
<1>2. kind # "nothing"
  BY DEF Kinds, Answers
<1>3. CASE place'[r] = "draining" /\ written'[r] = Append(written[r], kind)
  <2>1. /\ Len(written'[r]) = Len(written[r]) + 1 /\ Len(written[r]) \in Nat
        /\ written'[r][Len(written[r]) + 1] = kind
        /\ \A k \in 1..Len(written[r]) : written'[r][k] = written[r][k]
    BY <1>1, <1>3, Appended
  <2>2. \A k \in 1..Len(written'[r]) : written'[r][k] \in Answers => k = Len(written'[r]) /\ written'[r][k] = kind
    BY <2>1 DEF Unanswered
  <2>3. Wrote(r, kind)'
    BY <2>1 DEF Wrote
  <2>4. Stage(r)'
    BY <1>2, <1>3, <2>2, <2>3, SubmitIs DEF Stage, Begun
  <2> QED BY <2>4, SubmitIs, StagesElsewhere
<1>4. CASE place'[r] = "waiting" /\ written'[r] = written[r]
  <2>1. Stage(r)'
    BY <1>2, <1>4, SubmitIs DEF Stage, Begun, Unanswered
  <2> QED BY <2>1, SubmitIs, StagesElsewhere
<1> QED BY <1>3, <1>4, SubmitIs

\* There is no answer before the task writes one.
LEMMA UnansweredUntil ==
  ASSUME Stages, NEW r \in Requests,
         place[r] \notin {"draining", "over"} \/ sending[r] \notin Answers
  PROVE  Unanswered(r)
BY DEF Stages, Stage, Unanswered

\* A step keeps every task within its stages.
LEMMA StagesStep ==
  ASSUME Parts, Next
  PROVE  Stages'
<1>0. Types /\ Lines /\ Stages /\ Marks
      /\ place \in [Requests -> {"unsent", "sent", "spawned", "running", "asking", "tool", "waiting", "draining", "over"}]
      /\ sending \in [Requests -> Kinds \cup {"nothing"}]
      /\ written \in [Requests -> Seq(Kinds)]
  BY DEF Parts, Types, TaskTypes
<1>1. CASE UNCHANGED <<place, sending, written>>
  BY <1>0, <1>1 DEF Stages, Stage, Begun, Wrote
<1>2. ASSUME NEW r \in Requests, NEW p, place' = [place EXCEPT ![r] = p], UNCHANGED <<sending, written>>, Stage(r)'
      PROVE  Stages'
  BY <1>0, <1>2, StagesElsewhere
<1>3. ASSUME NEW r \in Requests, NEW kind \in Answers, Submit(r, kind, lock, waiters),
  place[r] \in {"spawned", "running", "asking"}
      PROVE  Stages'
  <2>1. kind \in Kinds /\ (kind \in {"event", "ask", "started"} => r \in Turns)
    BY <1>3 DEF Kinds, Answers
  <2>2. Unanswered(r)
    BY <1>0, <1>3, UnansweredUntil
  <2> QED BY <1>0, <1>3, <2>1, <2>2, SubmitStages
<1>4. ASSUME NEW r \in Requests, SendRequest(r) PROVE Stages'
  <2>1. Stage(r)'
    BY <1>0, <1>4 DEF SendRequest, Stages, Stage, Begun, Wrote
  <2> QED BY <1>2, <1>4, <2>1 DEF SendRequest
<1>5. CASE ReceiveRequest
  <2>1. PICK r \in Requests : place[r] = "sent" /\ place' = [place EXCEPT ![r] = "spawned"]
    BY <1>0, <1>5, ReceiveRequestIs
  <2>2. UNCHANGED <<sending, written>>
    BY <1>5 DEF ReceiveRequest
  <2>3. Stage(r)'
    BY <1>0, <2>1, <2>2 DEF Stages, Stage, Begun, Wrote
  <2> QED BY <1>2, <2>1, <2>2, <2>3
<1>6. ASSUME NEW r \in Requests, Refuse(r) PROVE Stages'
  BY <1>0, <1>3, <1>6, BeginsIs DEF Refuse, Answers
<1>7. ASSUME NEW r \in Requests, HandleShutdown(r) PROVE Stages'
  BY <1>0, <1>3, <1>7, BeginsIs DEF HandleShutdown, Answers
<1>8. ASSUME NEW r \in Requests, HandleCancel(r) PROVE Stages'
  BY <1>0, <1>3, <1>8, BeginsIs DEF HandleCancel, Answers
<1>9. ASSUME NEW r \in Requests, NEW kind \in {"result", "failed"}, HandlePlain(r, kind)
      PROVE  Stages'
  <2>1. kind \in Answers BY DEF Answers
  <2> QED BY <1>0, <1>3, <1>9, <2>1, BeginsIs DEF HandlePlain
<1>10. ASSUME NEW r \in Requests, Acquire(r) PROVE Stages'
  <2>1. /\ place[r] = "waiting" /\ UNCHANGED sending
        /\ written' = [written EXCEPT ![r] = Append(written[r], sending[r])]
        /\ place' = [place EXCEPT ![r] = "draining"]
    BY <1>10 DEF Acquire
  <2>2. sending[r] \in Kinds /\ written[r] \in Seq(Kinds) /\ written'[r] = Append(written[r], sending[r])
    BY <1>0, <2>1 DEF Stages, Stage
  <2>3. /\ Len(written'[r]) = Len(written[r]) + 1 /\ Len(written[r]) \in Nat
        /\ written'[r][Len(written[r]) + 1] = sending[r]
        /\ \A k \in 1..Len(written[r]) : written'[r][k] = written[r][k]
    BY <2>2, Appended
  <2>4. Unanswered(r)
    BY <1>0, <2>1, UnansweredUntil
  <2>5. \A k \in 1..Len(written'[r]) : written'[r][k] \in Answers => k = Len(written'[r]) /\ written'[r][k] = sending[r]
    BY <2>3, <2>4 DEF Unanswered
  <2>6. \E k \in 1..Len(written'[r]) : written'[r][k] = sending'[r]
    BY <2>1, <2>3
  <2>7. Stage(r)'
    BY <1>0, <2>1, <2>5, <2>6 DEF Stages, Stage, Begun, Wrote
  <2>8. \A q \in Requests \ {r} : place'[q] = place[q] /\ sending'[q] = sending[q] /\ written'[q] = written[q]
    BY <1>0, <2>1
  <2> QED BY <1>0, <2>7, <2>8, StagesElsewhere
<1>11. ASSUME NEW r \in Requests, Drained(r) PROVE Stages'
  <2> DEFINE p == AfterSending(sending[r])
  <2>1. place[r] = "draining" /\ place' = [place EXCEPT ![r] = p] /\ UNCHANGED <<sending, written>>
    BY <1>11 DEF Drained
  <2>2. Stage(r)'
    <3>1. sending[r] \in Answers \cup {"event", "ask", "started"}
          /\ (sending[r] \in {"event", "ask", "started"} => r \in Turns)
      BY <1>0, <2>1 DEF Stages, Stage, Kinds
    <3>2. "event" \notin Answers /\ "ask" \notin Answers /\ "started" \notin Answers
      BY DEF Answers
    <3>3. p \in {"running", "asking", "tool", "over"} /\ place'[r] = p
          /\ (p = "running" => sending[r] = "event") /\ (p = "asking" => sending[r] = "ask")
          /\ (p = "tool" => sending[r] = "started")
          /\ (p = "over" => sending[r] \in Answers) /\ (sending[r] \in Answers => p = "over")
      BY <1>0, <2>1, <3>1, <3>2, AfterSendingIs
    <3> HIDE DEF p
    <3> QED BY <1>0, <2>1, <3>1, <3>2, <3>3 DEF Stages, Stage, Begun, Wrote
  <2> QED BY <1>2, <2>1, <2>2
<1>12. ASSUME NEW r \in Requests, DrainFails(r) PROVE Stages'
  <2>1. CASE sending[r] \in Answers
    <3>1. place[r] = "draining" /\ place' = [place EXCEPT ![r] = "over"] /\ UNCHANGED <<sending, written>>
      BY <1>12, <2>1 DEF DrainFails
    <3>2. Stage(r)'
      BY <1>0, <2>1, <3>1 DEF Stages, Stage, Begun, Wrote
    <3> QED BY <1>2, <3>1, <3>2
  <2>2. CASE sending[r] \notin Answers
    <3>1. Submit(r, "failed", Nobody, waiters)
      BY <1>12, <2>2 DEF DrainFails
    <3>2. Unanswered(r) /\ "failed" \in Kinds
      BY <1>0, <2>2, UnansweredUntil DEF Kinds, Answers
    <3> QED BY <1>0, <3>1, <3>2, SubmitStages
  <2> QED BY <2>1, <2>2
<1>13. ASSUME NEW r \in Requests, Interrupted(r) PROVE Stages'
  <2>1. CASE sending[r] \in Answers
    <3>1. place' = [place EXCEPT ![r] = "over"] /\ UNCHANGED <<sending, written>> /\ must[r]
      BY <1>13, <2>1 DEF Interrupted
    <3>2. Stage(r)'
      BY <1>0, <2>1, <3>1 DEF Stages, Stage, Begun, Wrote, Marks, Registered
    <3> QED BY <1>2, <3>1, <3>2
  <2>2. CASE sending[r] \notin Answers
    <3>1. Submit(r, "cancelled", IF lock = r THEN Nobody ELSE lock, Without(waiters, r))
      BY <1>13, <2>2 DEF Interrupted
    <3>2. Unanswered(r) /\ "cancelled" \in Kinds
      BY <1>0, <2>2, UnansweredUntil DEF Kinds, Answers
    <3> QED BY <1>0, <3>1, <3>2, SubmitStages
  <2> QED BY <2>1, <2>2
<1>14. ASSUME NEW t \in Turns, BeginTurn(t) PROVE Stages'
  <2>1. t \in Requests /\ place[t] = "spawned" /\ place' = [place EXCEPT ![t] = "running"] /\ UNCHANGED <<sending, written>>
    BY <1>0, <1>14, BeginsIs DEF BeginTurn, Requests
  <2>2. Stage(t)'
    BY <1>0, <2>1 DEF Stages, Stage, Begun, Wrote
  <2> QED BY <1>2, <2>1, <2>2
<1>15. ASSUME NEW t \in Turns, NEW kind \in {"event", "ask", "started"}, place[t] \in {"running", "asking"},
              Submit(t, kind, lock, waiters)
       PROVE  Stages'
  <2>1. t \in Requests /\ kind \in Kinds
    BY DEF Requests, Kinds
  <2>2. Unanswered(t)
    BY <1>0, <1>15, <2>1, UnansweredUntil
  <2> QED BY <1>0, <1>15, <2>1, <2>2, SubmitStages
<1>16. ASSUME NEW t \in Turns, SendEvent(t) PROVE Stages'
  BY <1>15, <1>16 DEF SendEvent, Running
<1>17. ASSUME NEW t \in Turns, Decided(t) PROVE Stages'
  <2>1. t \in Requests /\ place[t] = "asking"
    BY <1>17 DEF Decided, Requests
  <2>2. ASSUME NEW kind \in {"failed", "started"}, Submit(t, kind, lock, waiters) PROVE Stages'
    BY <1>3, <1>15, <2>1, <2>2 DEF Answers
  <2>3. CASE place' = [place EXCEPT ![t] = "running"] /\ UNCHANGED <<sending, written>>
    <3>1. Stage(t)'
      BY <1>0, <2>1, <2>3 DEF Stages, Stage, Begun, Wrote
    <3> QED BY <1>2, <2>1, <2>3, <3>1
  <2> QED BY <1>17, <2>2, <2>3, DecidedSends
<1>18. ASSUME NEW t \in Turns, NEW tool \in Tools, Ask(t, tool) PROVE Stages'
  BY <1>15, <1>18 DEF Ask, Running
<1>19. ASSUME NEW t \in Turns, NEW kind \in {"result", "failed"}, EndTurn(t, kind) PROVE Stages'
  <2>1. t \in Requests /\ kind \in Answers
    BY DEF Requests, Answers
  <2> QED BY <1>3, <1>19, <2>1 DEF EndTurn, Running
<1>20. ASSUME NEW t \in Turns, NEW tool \in Tools, RunAllowed(t, tool) PROVE Stages'
  BY <1>15, <1>20 DEF RunAllowed, Running
<1>21. ASSUME NEW t \in Turns, ToolEnds(t) PROVE Stages'
  <2>1. t \in Requests /\ place[t] = "tool" /\ place' = [place EXCEPT ![t] = "running"] /\ UNCHANGED <<sending, written>>
    BY <1>21 DEF ToolEnds, Requests
  <2>2. Stage(t)'
    BY <1>0, <2>1 DEF Stages, Stage, Begun, Wrote
  <2> QED BY <1>2, <2>1, <2>2
<1> QED
  BY <1>1, <1>4, <1>5, <1>6, <1>7, <1>8, <1>9, <1>10, <1>11, <1>12, <1>13, <1>14, <1>16, <1>17,
    <1>18, <1>19, <1>20, <1>21
  DEF Next, Client, Reply, ReadLoop, Task, Turn, vars, server, permission, wishes, SendStop,
    SendReply, SendExit, Close, ReceiveStop, ReceiveReply, ReceiveExit, ReceiveEnd, Finish

\* Only a registered task has an error coming.
Marked == \A r \in Requests : must[r] => Registered(r)

\* A step marks no task that is not registered.
LEMMA MarkedStep ==
  ASSUME Parts, Next
  PROVE  Marked'
<1>0. Types /\ Lines /\ Stages /\ Marked /\ Order
      /\ place \in [Requests -> {"unsent", "sent", "spawned", "running", "asking", "tool", "waiting", "draining", "over"}]
      /\ sending \in [Requests -> Kinds \cup {"nothing"}]
      /\ must \in [Requests -> BOOLEAN]
  BY DEF Parts, Types, TaskTypes, Marks, Marked
<1>1. CASE UNCHANGED <<place, sending, must>>
  BY <1>0, <1>1 DEF Marked, Registered
<1>2. ASSUME NEW r \in Requests, ~must'[r],
             \A q \in Requests \ {r} : place'[q] = place[q] /\ sending'[q] = sending[q] /\ must'[q] = must[q]
      PROVE  Marked'
  BY <1>0, <1>2 DEF Marked, Registered
<1>3. ASSUME NEW r \in Requests, NEW kind, ~must[r], UNCHANGED must, Submit(r, kind, lock, waiters)
      PROVE  Marked'
  BY <1>0, <1>2, <1>3, SubmitIs
<1>4. ASSUME NEW r \in Requests, NEW p, ~must'[r], place' = [place EXCEPT ![r] = p],
  UNCHANGED sending,
             \A q \in Requests \ {r} : must'[q] = must[q]
      PROVE  Marked'
  BY <1>0, <1>2, <1>4
<1>5. ASSUME NEW r \in Requests, Begins(r) PROVE ~must[r] /\ place[r] = "spawned"
  BY <1>0, <1>5, BeginsIs DEF Marked, Registered
<1>6. ASSUME NEW r \in Requests, SendRequest(r) PROVE Marked'
  BY <1>0, <1>4, <1>6 DEF SendRequest, Marked, Registered
<1>7. CASE ReceiveRequest
  <2>1. PICK r \in Requests : place[r] = "sent" /\ place' = [place EXCEPT ![r] = "spawned"]
    BY <1>0, <1>7, ReceiveRequestIs
  <2> QED BY <1>0, <1>4, <1>7, <2>1 DEF ReceiveRequest, Marked, Registered
<1>8. CASE ReceiveStop
  BY <1>0, <1>8 DEF ReceiveStop, CancelTask, Marked, Registered
<1>9. ASSUME NEW r \in Requests, Refuse(r) PROVE Marked'
  BY <1>3, <1>5, <1>9 DEF Refuse
<1>10. ASSUME NEW r \in Requests, HandleShutdown(r) PROVE Marked'
  BY <1>3, <1>5, <1>10 DEF HandleShutdown
<1>11. ASSUME NEW r \in Requests, HandleCancel(r) PROVE Marked'
  <2>1. Begins(r) /\ r \in Cancels /\ Submit(r, "result", lock, waiters)
        /\ must' = IF Registered(target[r]) THEN [must EXCEPT ![target[r]] = TRUE] ELSE must
    BY <1>11 DEF HandleCancel, CancelTask
  <2>2. ~must[r] /\ place[r] = "spawned"
    BY <1>5, <2>1
  <2>3. PICK t \in Turns : t = target[r]
    BY <1>0, <2>1, <2>2 DEF Order
  <2>4. t # r /\ t \in Requests
    BY <2>1, BridgeAssumption DEF Requests
  <2>5. \A q \in Requests \ {r} : place'[q] = place[q] /\ sending'[q] = sending[q]
    BY <1>0, <2>1, SubmitIs
  <2>6. ~must'[r] /\ \A q \in Requests \ {r} : must'[q] => must[q] \/ (q = t /\ Registered(t))
    BY <1>0, <2>1, <2>2, <2>3, <2>4
  <2> QED BY <1>0, <2>5, <2>6 DEF Marked, Registered
<1>12. ASSUME NEW r \in Requests, NEW kind \in {"result", "failed"}, HandlePlain(r, kind)
       PROVE  Marked'
  BY <1>3, <1>5, <1>12 DEF HandlePlain
<1>13. ASSUME NEW r \in Requests, Acquire(r) PROVE Marked'
  BY <1>4, <1>13 DEF Acquire
<1>14. ASSUME NEW r \in Requests, Drained(r) PROVE Marked'
  <2> DEFINE p == AfterSending(sending[r])
  <2>1. ~must[r] /\ place' = [place EXCEPT ![r] = p] /\ UNCHANGED <<sending, must>>
    BY <1>14 DEF Drained
  <2> QED BY <1>4, <2>1
<1>15. ASSUME NEW r \in Requests, DrainFails(r) PROVE Marked'
  <2>1. ~must[r] /\ UNCHANGED must
    BY <1>15 DEF DrainFails
  <2>2. CASE sending[r] \in Answers
    BY <1>4, <1>15, <2>1, <2>2 DEF DrainFails
  <2>3. CASE sending[r] \notin Answers
    <3>1. Submit(r, "failed", Nobody, waiters)
      BY <1>15, <2>3 DEF DrainFails
    <3> QED BY <1>0, <1>2, <2>1, <3>1, SubmitIs
  <2> QED BY <2>2, <2>3
<1>16. ASSUME NEW r \in Requests, Interrupted(r) PROVE Marked'
  <2>1. ~must'[r] /\ \A q \in Requests \ {r} : must'[q] = must[q]
    BY <1>0, <1>16 DEF Interrupted
  <2>2. CASE sending[r] \in Answers
    BY <1>4, <1>16, <2>1, <2>2 DEF Interrupted
  <2>3. CASE sending[r] \notin Answers
    <3>1. Submit(r, "cancelled", IF lock = r THEN Nobody ELSE lock, Without(waiters, r))
      BY <1>16, <2>3 DEF Interrupted
    <3> QED BY <1>0, <1>2, <2>1, <3>1, SubmitIs
  <2> QED BY <2>2, <2>3
<1>17. ASSUME NEW t \in Turns, BeginTurn(t) PROVE Marked'
  BY <1>4, <1>5, <1>17 DEF BeginTurn, Requests
<1>18. ASSUME NEW t \in Turns, SendEvent(t) PROVE Marked'
  BY <1>3, <1>18 DEF SendEvent, Running, Requests
<1>19. ASSUME NEW t \in Turns, Decided(t) PROVE Marked'
  <2>1. t \in Requests /\ ~must[t] /\ UNCHANGED must
    BY <1>19 DEF Decided, Requests
  <2> QED BY <1>3, <1>4, <1>19, <2>1, DecidedSends
<1>20. ASSUME NEW t \in Turns, NEW tool \in Tools, Ask(t, tool) PROVE Marked'
  BY <1>3, <1>20 DEF Ask, Running, Requests
<1>21. ASSUME NEW t \in Turns, NEW kind \in {"result", "failed"}, EndTurn(t, kind) PROVE Marked'
  BY <1>3, <1>21 DEF EndTurn, Running, Requests
<1>22. ASSUME NEW t \in Turns, NEW tool \in Tools, RunAllowed(t, tool) PROVE Marked'
  BY <1>3, <1>22 DEF RunAllowed, Running, Requests
<1>23. ASSUME NEW t \in Turns, ToolEnds(t) PROVE Marked'
  BY <1>0, <1>4, <1>23 DEF ToolEnds, Requests
<1> QED
  BY <1>1, <1>6, <1>7, <1>8, <1>9, <1>10, <1>11, <1>12, <1>13, <1>14, <1>15, <1>16, <1>17,
    <1>18, <1>19, <1>20, <1>21, <1>22, <1>23
  DEF Next, Client, Reply, ReadLoop, Task, Turn, vars, server, permission, wishes, SendStop,
    SendReply, SendExit, Close, ReceiveReply, ReceiveExit, ReceiveEnd, Finish

-----------------------------------------------------------------------------
(* What the steps of others and of the outside leave alone. *)

\* The step of a task is nothing to the others.
LEMMA Others ==
  ASSUME Types, NEW q \in Requests, Task(q) \/ (q \in Turns /\ Turn(q))
  PROVE  \A r \in Requests \ {q} : place'[r] = place[r] /\ sending'[r] = sending[r] /\ written'[r] = written[r]
<1> DEFINE Goal == \A r \in Requests \ {q} : place'[r] = place[r] /\ sending'[r] = sending[r] /\ written'[r] = written[r]
<1>0. place \in [Requests -> {"unsent", "sent", "spawned", "running", "asking", "tool", "waiting", "draining", "over"}]
      /\ written \in [Requests -> Seq(Kinds)]
  BY DEF Types, TaskTypes
<1>1. ASSUME NEW kind, NEW lk, NEW ws, Submit(q, kind, lk, ws) PROVE Goal
  BY <1>1, SubmitIs
<1>2. ASSUME NEW p, place' = [place EXCEPT ![q] = p], UNCHANGED <<sending, written>> PROVE Goal
  BY <1>0, <1>2

<1>3. CASE Refuse(q)
  BY <1>1, <1>3 DEF Refuse
<1>4. CASE HandleShutdown(q)
  BY <1>1, <1>4 DEF HandleShutdown
<1>5. CASE HandleCancel(q)
  BY <1>1, <1>5 DEF HandleCancel
<1>6. CASE \E kind \in {"result", "failed"} : HandlePlain(q, kind)
  BY <1>1, <1>6 DEF HandlePlain
<1>7. CASE Acquire(q)
  BY <1>0, <1>7 DEF Acquire
<1>8. CASE Drained(q)
  <2> DEFINE p == AfterSending(sending[q])
  <2>1. place' = [place EXCEPT ![q] = p] /\ UNCHANGED <<sending, written>>
    BY <1>8 DEF Drained
  <2> QED BY <1>2, <2>1
<1>9. CASE DrainFails(q)
  <2>1. CASE sending[q] \in Answers
    BY <1>2, <1>9, <2>1 DEF DrainFails
  <2>2. CASE sending[q] \notin Answers
    BY <1>1, <1>9, <2>2 DEF DrainFails
  <2> QED BY <2>1, <2>2
<1>10. CASE Interrupted(q)
  <2>1. CASE sending[q] \in Answers
    BY <1>2, <1>10, <2>1 DEF Interrupted
  <2>2. CASE sending[q] \notin Answers
    <3>1. Submit(q, "cancelled", IF lock = q THEN Nobody ELSE lock, Without(waiters, q))
      BY <1>10, <2>2 DEF Interrupted
    <3> QED BY <1>1, <3>1
  <2> QED BY <2>1, <2>2
<1>11. CASE BeginTurn(q)
  BY <1>2, <1>11 DEF BeginTurn
<1>12. CASE SendEvent(q)
  BY <1>1, <1>12 DEF SendEvent
<1>13. CASE q \in Turns /\ Decided(q)
  BY <1>1, <1>2, <1>13, DecidedSends
<1>14. CASE \E tool \in Tools : RunAllowed(q, tool)
  BY <1>1, <1>14 DEF RunAllowed
<1>15. CASE \E tool \in Tools : Ask(q, tool)
  BY <1>1, <1>15 DEF Ask
<1>16. CASE \E kind \in {"result", "failed"} : EndTurn(q, kind)
  BY <1>1, <1>16 DEF EndTurn
<1>17. CASE ToolEnds(q)
  BY <1>2, <1>17 DEF ToolEnds
<1>18. Goal
  BY <1>3, <1>4, <1>5, <1>6, <1>7, <1>8, <1>9, <1>10, <1>11, <1>12, <1>13, <1>14, <1>15,
    <1>16, <1>17 DEF Task, Turn
<1> QED BY <1>18

\* The client and the read loop write nothing and begin no task.
LEMMA Outside ==
  ASSUME Types, Lines, Client \/ ReadLoop
  PROVE  /\ UNCHANGED <<sending, written, shuttingDown>>
         /\ \A r \in Requests : Begun(r)' <=> Begun(r)
<1>0. place \in [Requests -> {"unsent", "sent", "spawned", "running", "asking", "tool", "waiting", "draining", "over"}]
  BY DEF Types, TaskTypes
<1>1. UNCHANGED <<sending, written, shuttingDown>>
  BY DEF Client, Reply, ReadLoop, server, SendRequest, SendStop, SendReply, SendExit, Close,
     ReceiveRequest, ReceiveStop, ReceiveReply, ReceiveExit, ReceiveEnd, Finish
<1>2. CASE UNCHANGED place
  BY <1>1, <1>2 DEF Begun
<1>3. ASSUME NEW r \in Requests, SendRequest(r) PROVE \A q \in Requests : Begun(q)' <=> Begun(q)
  BY <1>0, <1>3 DEF SendRequest, Begun
<1>4. CASE ReceiveRequest
  <2>1. PICK r \in Requests : place[r] = "sent" /\ place' = [place EXCEPT ![r] = "spawned"]
    BY <1>4, ReceiveRequestIs
  <2>2. \A q \in Requests : Begun(q)' <=> Begun(q)
    BY <1>0, <2>1 DEF Begun
  <2> QED BY <1>1, <2>2
<1> QED BY <1>1, <1>2, <1>3, <1>4 DEF Client, Reply, ReadLoop, server, SendStop, SendReply,
  SendExit, Close,
     ReceiveStop, ReceiveReply, ReceiveExit, ReceiveEnd, Finish

\* A task that begins did not wait; it is the first of the line.
LEMMA Beginnings ==
  ASSUME Parts, NEW r \in Requests, Next, ~Begun(r), Begun(r)'
  PROVE  /\ place[r] = "spawned" /\ Begins(r)
         /\ \/ Refuse(r) \/ HandleShutdown(r) \/ HandleCancel(r)
            \/ \E kind \in {"result", "failed"} : HandlePlain(r, kind)
            \/ r \in Turns /\ BeginTurn(r)
<1>0. Types /\ Lines /\ Marks
  BY DEF Parts
<1>1. place[r] \in {"unsent", "sent", "spawned"}
  BY DEF Begun
<1>2. \E q \in Requests : Task(q) \/ (q \in Turns /\ Turn(q))
  BY <1>0, Outside DEF Next, Requests
<1>3. Task(r) \/ (r \in Turns /\ Turn(r))
  BY <1>0, <1>2, Others DEF Begun
<1>4. ~Acquire(r) /\ ~Drained(r) /\ ~DrainFails(r) /\ ~SendEvent(r) /\ ~Decided(r) /\ ~ToolEnds(r)
  BY <1>1 DEF Acquire, Drained, DrainFails, SendEvent, Running, Decided, ToolEnds
<1>5. ~Interrupted(r)
  BY <1>0, <1>1 DEF Interrupted, Marks, Registered
<1>6. ~(\E tool \in Tools : RunAllowed(r, tool) \/ Ask(r, tool)) /\ ~(\E kind \in {"result", "failed"} : EndTurn(r, kind))
  BY <1>1 DEF RunAllowed, Ask, EndTurn, Running
<1>7. \/ Refuse(r) \/ HandleShutdown(r) \/ HandleCancel(r)
      \/ \E kind \in {"result", "failed"} : HandlePlain(r, kind)
      \/ r \in Turns /\ BeginTurn(r)
  BY <1>3, <1>4, <1>5, <1>6 DEF Task, Turn
<1>8. Begins(r)
  BY <1>7 DEF Refuse, HandleShutdown, HandleCancel, HandlePlain, BeginTurn
<1>9. place[r] = "spawned"
  BY <1>0, <1>8, BeginsIs
<1> QED BY <1>7, <1>8, <1>9

\* An answer is not changed any more.
LEMMA AnswersStand ==
  ASSUME Parts, NEW r \in Requests, Next, Begun(r), sending[r] \in Answers
  PROVE  sending'[r] = sending[r]
<1>0. Types /\ Lines /\ Stages
  BY DEF Parts
<1>1. CASE Client \/ ReadLoop
  BY <1>0, <1>1, Outside
<1>2. ASSUME NEW q \in Requests, q # r,
             Task(q) \/ (q \in Turns /\ Turn(q))
      PROVE  sending'[r] = sending[r]
  BY <1>0, <1>2, Others
<1>3. place[r] \notin {"running", "asking", "tool"}
  BY <1>0 DEF Stages, Stage, Answers
<1>4. CASE Task(r)
  <2>1. ~Begins(r)
    BY <1>0, BeginsIs DEF Begun
  <2>2. CASE Acquire(r) \/ Drained(r)
    BY <2>2 DEF Acquire, Drained
  <2>3. CASE DrainFails(r)
    BY <2>3 DEF DrainFails
  <2>4. CASE Interrupted(r)
    BY <2>4 DEF Interrupted
  <2> QED BY <1>4, <2>1, <2>2, <2>3, <2>4 DEF Task, Refuse, HandleShutdown, HandleCancel,
    HandlePlain
<1>5. CASE r \in Turns /\ Turn(r)
  <2>1. ~BeginTurn(r)
    BY <1>0, BeginsIs DEF Begun, BeginTurn
  <2> QED BY <1>3, <1>5, <2>1 DEF Turn, SendEvent, Decided, RunAllowed, ToolEnds, Ask, EndTurn, Running
<1> QED BY <1>1, <1>2, <1>4, <1>5 DEF Next, Requests

\* What has begun has begun.
LEMMA BegunStays ==
  ASSUME Parts, NEW r \in Requests, Next, Begun(r)
  PROVE  Begun(r)'
<1>0. Types /\ Lines /\ place \in [Requests -> {"unsent", "sent", "spawned"} \cup Underway]
  BY DEF Parts, Types, TaskTypes, Underway
<1>1. CASE UNCHANGED place
  BY <1>1 DEF Begun
<1>2. ASSUME NEW q \in Requests, Moves(q) PROVE Begun(r)'
  BY <1>0, <1>2 DEF Moves, Begun, Underway
<1>3. CASE ReceiveRequest
  BY <1>0, <1>3, Outside DEF ReadLoop
<1>4. CASE \E q \in Requests : SendRequest(q)
  BY <1>0, <1>4, Outside DEF Client
<1> QED BY <1>1, <1>2, <1>3, <1>4, LineSteps DEF Posts, Takes, Starts, GoesOn

-----------------------------------------------------------------------------
(* Who comes first. *)

\* Who is ahead stays ahead.
LEMMA AheadKept ==
  ASSUME Parts, Next, NEW s \in Requests, NEW r \in Requests, s # r, Ahead(s, r),
         place[r] # "unsent", place'[r] \in {"sent", "spawned"}
  PROVE  Ahead(s, r)'
<1>0. Types /\ Lines /\ place \in [Requests -> {"unsent", "sent", "spawned"} \cup Underway] /\ spawned \in Seq(Requests)
  BY DEF Parts, Types, TaskTypes, QueueTypes, Underway
<1>1. CASE Begun(s)
  BY <1>1, BegunStays DEF Ahead
<1>2. CASE UNCHANGED <<place, inbox, spawned>>
  BY <1>2 DEF Ahead, Begun
<1>3. CASE Posts
  <2>1. PICK m \in Message : inbox' = Append(inbox, m) /\ m.kind # "request" /\ UNCHANGED <<place, spawned>>
    BY <1>3 DEF Posts
  <2>2. /\ Len(inbox') = Len(inbox) + 1 /\ Len(inbox) \in Nat /\ inbox'[Len(inbox) + 1] = m
        /\ \A k \in 1..Len(inbox) : inbox'[k] = inbox[k]
    BY <1>0, <2>1, Posted
  <2>3. ASSUME NEW k \in 1..Len(inbox'), inbox'[k].kind = "request", inbox'[k].about = r,
    place[s] = "sent", place[r] = "sent"
        PROVE  \E j \in 1..k-1 : inbox'[j].kind = "request" /\ inbox'[j].about = s
    <3>1. k \in 1..Len(inbox)
      BY <2>1, <2>2, <2>3
    <3>2. PICK j \in 1..k-1 : inbox[j].kind = "request" /\ inbox[j].about = s
      BY <1>0, <2>2, <2>3, <3>1 DEF Ahead, Begun
    <3> QED BY <2>2, <3>1, <3>2
  <2> QED BY <2>1, <2>3 DEF Ahead, Begun
<1>4. CASE Takes
  <2>1. inbox # <<>> /\ Head(inbox).kind # "request" /\ inbox' = Tail(inbox) /\ UNCHANGED <<place, spawned>>
    BY <1>4 DEF Takes
  <2>2. /\ Len(inbox') = Len(inbox) - 1 /\ Len(inbox) \in Nat /\ Head(inbox) = inbox[1]
        /\ \A k \in 1..Len(inbox') : inbox'[k] = inbox[k + 1] /\ k + 1 \in 1..Len(inbox)
    BY <1>0, <2>1, Taken
  <2>3. ASSUME NEW k \in 1..Len(inbox'), inbox'[k].kind = "request", inbox'[k].about = r,
    place[s] = "sent", place[r] = "sent"
        PROVE  \E j \in 1..k-1 : inbox'[j].kind = "request" /\ inbox'[j].about = s
    <3>1. PICK j \in 1..k : inbox[j].kind = "request" /\ inbox[j].about = s
      <4>1. k + 1 \in 1..Len(inbox) /\ inbox[k + 1].kind = "request" /\ inbox[k + 1].about = r /\ k + 1 - 1 = k
        BY <2>2, <2>3
      <4> QED BY <1>0, <2>3, <4>1 DEF Ahead, Begun
    <3>2. j # 1
      BY <2>1, <2>2, <3>1
    <3>3. j - 1 \in 1..k-1 /\ j - 1 \in 1..Len(inbox') /\ j - 1 + 1 = j
      BY <2>2, <3>2
    <3> QED BY <2>2, <3>1, <3>3
  <2> QED BY <2>1, <2>3 DEF Ahead, Begun
<1>5. ASSUME ReceiveRequest, ~Begun(s) PROVE Ahead(s, r)'
  <2>1. PICK q \in Requests :
           /\ inbox # <<>> /\ inbox[1].kind = "request" /\ inbox[1].about = q /\ place[q] = "sent"
           /\ inbox' = Tail(inbox) /\ spawned' = Append(spawned, q)
           /\ place' = [place EXCEPT ![q] = "spawned"]
    BY <1>0, <1>5, ReceiveRequestIs
  <2>2. /\ Len(inbox') = Len(inbox) - 1 /\ Len(inbox) \in Nat /\ Head(inbox) = inbox[1] /\ 1 \in 1..Len(inbox)
        /\ \A k \in 1..Len(inbox') : inbox'[k] = inbox[k + 1] /\ k + 1 \in 1..Len(inbox)
    BY <1>0, <2>1, Taken
  <2>3. /\ Len(spawned') = Len(spawned) + 1 /\ Len(spawned) \in Nat /\ spawned'[Len(spawned) + 1] = q
        /\ \A k \in 1..Len(spawned) : spawned'[k] = spawned[k]
    BY <1>0, <2>1, Appended
  <2>4. CASE q = s
    <3>1. place[r] = "sent"
      BY <1>5, <2>1, <2>4 DEF Ahead
    <3> QED BY <1>0, <2>1, <2>4, <3>1 DEF Ahead
  <2>5. CASE q = r
    <3>1. place[s] # "sent"
      <4>1. ASSUME place[s] = "sent" PROVE \E j \in 1..1-1 : TRUE
        BY <1>5, <2>1, <2>2, <2>5, <4>1 DEF Ahead
      <4> QED BY <4>1
    <3>2. place[s] = "spawned" /\ place'[s] = "spawned" /\ place'[r] = "spawned"
      BY <1>0, <1>5, <2>1, <2>5, <3>1 DEF Ahead
    <3>3. PICK j \in 1..Len(spawned) : spawned[j] = s
      BY <1>0, <3>2 DEF Lines
    <3>4. ASSUME NEW k \in 1..Len(spawned'),
                 spawned'[k] = r
          PROVE  \E i \in 1..k-1 : spawned'[i] = s
      <4>1. \A i \in 1..Len(spawned) : spawned[i] # r
        BY <1>0, <2>1, <2>5 DEF Lines
      <4>2. k = Len(spawned) + 1
        BY <2>3, <3>4, <4>1
      <4>3. j \in 1..k-1 /\ spawned'[j] = s
        BY <2>3, <3>3, <4>2
      <4> QED BY <4>3
    <3> QED BY <3>2, <3>4 DEF Ahead
  <2>6. CASE q # s /\ q # r
    <3>1. place'[s] = place[s] /\ place'[r] = place[r]
      BY <1>0, <2>1, <2>6
    <3>2. CASE place[s] = "spawned" /\ place[r] = "sent"
      BY <3>1, <3>2 DEF Ahead
    <3>3. CASE place[s] = "spawned" /\ place[r] = "spawned"
      <4>1. ASSUME NEW k \in 1..Len(spawned'),
                   spawned'[k] = r
            PROVE  \E i \in 1..k-1 : spawned'[i] = s
        <5>1. k \in 1..Len(spawned)
          BY <2>3, <2>6, <4>1
        <5>2. PICK i \in 1..k-1 : spawned[i] = s
          BY <1>5, <2>3, <3>3, <4>1, <5>1 DEF Ahead
        <5> QED BY <2>3, <5>1, <5>2
      <4> QED BY <3>1, <3>3, <4>1 DEF Ahead
    <3>4. CASE place[s] = "sent" /\ place[r] = "sent"
      <4>1. ASSUME NEW k \in 1..Len(inbox'), inbox'[k].kind = "request", inbox'[k].about = r
            PROVE  \E j \in 1..k-1 : inbox'[j].kind = "request" /\ inbox'[j].about = s
        <5>1. PICK j \in 1..k : inbox[j].kind = "request" /\ inbox[j].about = s
          <6>1. k + 1 \in 1..Len(inbox) /\ inbox[k + 1].kind = "request" /\ inbox[k + 1].about = r /\ k + 1 - 1 = k
            BY <2>2, <4>1
          <6> QED BY <1>5, <3>4, <6>1 DEF Ahead
        <5>2. j # 1
          BY <2>1, <2>6, <5>1
        <5>3. j - 1 \in 1..k-1 /\ j - 1 \in 1..Len(inbox') /\ j - 1 + 1 = j
          BY <2>2, <5>2
        <5> QED BY <2>2, <5>1, <5>3
      <4> QED BY <3>1, <3>4, <4>1 DEF Ahead
    <3> QED BY <1>5, <3>2, <3>3, <3>4 DEF Ahead
  <2> QED BY <2>4, <2>5, <2>6
<1>6. ASSUME NEW q \in Requests, SendRequest(q) PROVE Ahead(s, r)'
  <2> DEFINE m == Msg("request", q, "none")
  <2>1. /\ place[q] = "unsent" /\ place' = [place EXCEPT ![q] = "sent"] /\ UNCHANGED spawned
        /\ inbox' = Append(inbox, m) /\ m \in Message /\ m.kind = "request" /\ m.about = q
    BY <1>0, <1>6, SendRequestIs
  <2> HIDE DEF m
  <2>2. /\ Len(inbox') = Len(inbox) + 1 /\ Len(inbox) \in Nat /\ inbox'[Len(inbox) + 1] = m
        /\ \A k \in 1..Len(inbox) : inbox'[k] = inbox[k]
    BY <1>0, <2>1, Posted
  <2>3. q # r /\ q # s
    BY <2>1 DEF Ahead, Begun
  <2>4. place'[s] = place[s] /\ place'[r] = place[r]
    BY <1>0, <2>1, <2>3
  <2>5. ASSUME NEW k \in 1..Len(inbox'), inbox'[k].kind = "request", inbox'[k].about = r,
    place[s] = "sent", place[r] = "sent"
        PROVE  \E j \in 1..k-1 : inbox'[j].kind = "request" /\ inbox'[j].about = s
    <3>1. k \in 1..Len(inbox)
      BY <2>1, <2>2, <2>3, <2>5
    <3>2. PICK j \in 1..k-1 : inbox[j].kind = "request" /\ inbox[j].about = s
      BY <1>0, <2>2, <2>5, <3>1 DEF Ahead, Begun
    <3> QED BY <2>2, <3>1, <3>2
  <2> QED BY <2>1, <2>4, <2>5 DEF Ahead, Begun
<1>7. ASSUME NEW q \in Requests, Starts(q), ~Begun(s) PROVE Ahead(s, r)'
  <2>1. PICK p \in Underway : place' = [place EXCEPT ![q] = p]
    BY <1>7 DEF Starts, Moves
  <2>2. UNCHANGED inbox
    BY <1>7 DEF Starts
  <2>3. /\ place[q] = "spawned" /\ spawned[1] = q /\ Len(spawned') = Len(spawned) - 1 /\ Len(spawned) \in Nat
        /\ \A k \in 1..Len(spawned') : spawned'[k] = spawned[k + 1] /\ k + 1 \in 1..Len(spawned)
    BY <1>0, <1>7, BeginsIs DEF Starts
  <2>4. q # r
    BY <1>0, <2>1 DEF Underway
  <2>5. CASE q = s
    BY <1>0, <2>1, <2>5 DEF Ahead, Begun, Underway
  <2>6. CASE q # s
    <3>1. place'[s] = place[s] /\ place'[r] = place[r]
      BY <1>0, <2>1, <2>4, <2>6
    <3>2. ASSUME place[s] = "spawned", place[r] = "spawned", NEW k \in 1..Len(spawned'),
      spawned'[k] = r
          PROVE  \E i \in 1..k-1 : spawned'[i] = s
      <4>1. PICK i \in 1..k : spawned[i] = s
        <5>1. k + 1 \in 1..Len(spawned) /\ spawned[k + 1] = r /\ k + 1 - 1 = k
          BY <2>3, <3>2
        <5> QED BY <1>7, <3>2, <5>1 DEF Ahead
      <4>2. i # 1
        BY <2>3, <2>6, <4>1
      <4>3. i - 1 \in 1..k-1 /\ i - 1 \in 1..Len(spawned') /\ i - 1 + 1 = i
        BY <2>3, <4>2
      <4> QED BY <2>3, <4>1, <4>3
    <3> QED BY <1>7, <2>2, <3>1, <3>2 DEF Ahead
  <2> QED BY <2>5, <2>6
<1>8. ASSUME NEW q \in Requests, GoesOn(q), ~Begun(s) PROVE Ahead(s, r)'
  <2>1. PICK p \in Underway : place' = [place EXCEPT ![q] = p]
    BY <1>8 DEF GoesOn, Moves
  <2>2. place[q] \in Underway /\ UNCHANGED <<inbox, spawned>>
    BY <1>8 DEF GoesOn
  <2>3. q # s /\ q # r
    BY <1>0, <1>8, <2>1, <2>2 DEF Begun, Underway
  <2>4. place'[s] = place[s] /\ place'[r] = place[r]
    BY <1>0, <2>1, <2>3
  <2> QED BY <2>2, <2>4 DEF Ahead, Begun
<1> QED BY <1>1, <1>2, <1>3, <1>4, <1>5, <1>6, <1>7, <1>8, LineSteps

\* A request sent is behind all sent before it.
LEMMA SentBehind ==
  ASSUME Parts, NEW s \in Requests, NEW r \in Requests, SendRequest(r), place[s] # "unsent"
  PROVE  Ahead(s, r)'
<1>0. Types /\ Lines /\ place \in [Requests -> {"unsent", "sent", "spawned"} \cup Underway]
  BY DEF Parts, Types, TaskTypes, QueueTypes, Underway
<1> DEFINE m == Msg("request", r, "none")
<1>1. /\ place[r] = "unsent" /\ place' = [place EXCEPT ![r] = "sent"] /\ UNCHANGED spawned
      /\ inbox' = Append(inbox, m) /\ m \in Message /\ m.kind = "request" /\ m.about = r
  BY <1>0, SendRequestIs
<1> HIDE DEF m
<1>2. /\ Len(inbox') = Len(inbox) + 1 /\ Len(inbox) \in Nat /\ inbox'[Len(inbox) + 1] = m
      /\ \A k \in 1..Len(inbox) : inbox'[k] = inbox[k]
  BY <1>0, <1>1, Posted
<1>3. place'[s] = place[s] /\ place'[r] = "sent" /\ s # r
  BY <1>0, <1>1
<1>4. CASE place[s] = "sent"
  <2>1. PICK j \in 1..Len(inbox) : inbox[j].kind = "request" /\ inbox[j].about = s
    BY <1>0, <1>4 DEF Lines, InInbox
  <2>2. ASSUME NEW k \in 1..Len(inbox'), inbox'[k].kind = "request", inbox'[k].about = r
        PROVE  \E i \in 1..k-1 : inbox'[i].kind = "request" /\ inbox'[i].about = s
    <3>1. \A i \in 1..Len(inbox) : ~(inbox[i].kind = "request" /\ inbox[i].about = r)
      BY <1>0, <1>1 DEF Lines, InInbox
    <3>2. k = Len(inbox) + 1
      BY <1>2, <2>2, <3>1
    <3>3. j \in 1..k-1 /\ inbox'[j] = inbox[j]
      BY <1>2, <3>2
    <3> QED BY <2>1, <3>3
  <2> QED BY <1>3, <1>4, <2>2 DEF Ahead
<1>5. CASE place[s] = "spawned"
  BY <1>3, <1>5 DEF Ahead
<1>6. CASE place[s] \in Underway
  BY <1>3, <1>6 DEF Ahead, Begun, Underway
<1> QED BY <1>0, <1>4, <1>5, <1>6

\* Who begins found the tasks ahead of it begun.
LEMMA AheadBegun ==
  ASSUME Types, Lines, NEW s \in Requests, NEW r \in Requests, Begins(r), Ahead(s, r)
  PROVE  Begun(s)
<1>1. place[r] = "spawned" /\ spawned # <<>> /\ spawned[1] = r /\ spawned \in Seq(Requests)
  BY BeginsIs DEF Types, QueueTypes
<1>2. 1 \in 1..Len(spawned)
  BY <1>1, HeadAndTail
<1>3. ASSUME ~Begun(s) PROVE \E j \in 1..1-1 : spawned[j] = s
  BY <1>1, <1>2, <1>3 DEF Ahead
<1> QED BY <1>3

\* Nobody is ahead of itself.
LEMMA NotAheadOfItself ==
  ASSUME Types, Lines, NEW r \in Requests, ~Begun(r)
  PROVE  ~Ahead(r, r)
<1>0. place \in [Requests -> {"unsent", "sent", "spawned"} \cup Underway] /\ spawned \in Seq(Requests)
      /\ inbox \in Seq(Message)
  BY DEF Types, TaskTypes, QueueTypes, WishTypes, Underway
<1>1. ASSUME Ahead(r, r), place[r] = "spawned" PROVE FALSE
  <2>1. PICK k \in 1..Len(spawned) : spawned[k] = r
    BY <1>1 DEF Lines
  <2>2. PICK j \in 1..k-1 : spawned[j] = r
    BY <1>1, <2>1 DEF Ahead
  <2>3. j \in 1..Len(spawned) /\ j # k
    BY <1>0, <2>1
  <2> QED BY <2>1, <2>2, <2>3 DEF Lines
<1>2. ASSUME Ahead(r, r), place[r] = "sent" PROVE FALSE
  <2>1. PICK k \in 1..Len(inbox) : inbox[k].kind = "request" /\ inbox[k].about = r
    BY <1>2 DEF Lines, InInbox
  <2>2. PICK j \in 1..k-1 : inbox[j].kind = "request" /\ inbox[j].about = r
    BY <1>2, <2>1 DEF Ahead
  <2>3. j \in 1..Len(inbox) /\ j # k
    BY <1>0, <2>1
  <2> QED BY <2>1, <2>2, <2>3 DEF Lines
<1> QED BY <1>1, <1>2 DEF Ahead

\* Requests come from the client only.
LEMMA OutOfNothing ==
  ASSUME Parts, Next, NEW r \in Requests
  PROVE  /\ place[r] # "unsent" => place'[r] # "unsent"
         /\ place[r] = "unsent" /\ place'[r] # "unsent" => SendRequest(r)
<1>0. Types /\ Lines /\ place \in [Requests -> {"unsent", "sent", "spawned"} \cup Underway]
  BY DEF Parts, Types, TaskTypes, Underway
<1> DEFINE Goal == /\ place[r] # "unsent" => place'[r] # "unsent"
                   /\ place[r] = "unsent" /\ place'[r] # "unsent" => SendRequest(r)
<1>1. CASE UNCHANGED place
  BY <1>1
<1>2. ASSUME NEW q \in Requests, SendRequest(q) PROVE Goal
  BY <1>0, <1>2 DEF SendRequest
<1>3. CASE ReceiveRequest
  <2>1. PICK q \in Requests : place[q] = "sent" /\ place' = [place EXCEPT ![q] = "spawned"]
    BY <1>0, <1>3, ReceiveRequestIs
  <2> QED BY <1>0, <2>1
<1>4. ASSUME NEW q \in Requests, place[q] # "unsent", Moves(q) PROVE Goal
  BY <1>0, <1>4 DEF Moves, Underway
<1>5. ASSUME NEW q \in Requests, Starts(q) PROVE place[q] # "unsent"
  BY <1>0, <1>5, BeginsIs DEF Starts
<1> QED BY <1>1, <1>2, <1>3, <1>4, <1>5, LineSteps DEF Posts, Takes, Starts, GoesOn, Underway

\* The server that shuts down does so for good.
LEMMA ShuttingDownStays ==
  ASSUME Next, shuttingDown
  PROVE  shuttingDown'
<1>1. CASE UNCHANGED shuttingDown
  BY <1>1
<1>2. ASSUME NEW r \in Requests, HandleShutdown(r) PROVE shuttingDown'
  BY <1>2 DEF HandleShutdown
<1> QED BY <1>1, <1>2 DEF Next, Client, Reply, ReadLoop, Task, Turn, server, SendRequest,
  SendStop, SendReply,
     SendExit, Close, ReceiveRequest, ReceiveStop, ReceiveReply, ReceiveExit, ReceiveEnd,
       Finish, Refuse, HandleCancel,
     HandlePlain, Acquire, Drained, DrainFails, Interrupted, BeginTurn, SendEvent, Decided,
       RunAllowed, ToolEnds, Ask, EndTurn

\* What the client asked for changes with its messages only.
LEMMA WishesStand ==
  ASSUME Next
  PROVE  \/ \E r \in Requests : SendRequest(r)
         \/ UNCHANGED <<target, late>> /\ \E t \in Turns : SendStop(t)
         \/ UNCHANGED <<target, late, unwanted>>
BY DEF Next, Client, Reply, ReadLoop, Task, Turn, wishes, SendStop, SendReply,
     SendExit, Close, ReceiveRequest, ReceiveStop, ReceiveReply, ReceiveExit, ReceiveEnd,
       Finish, Refuse, HandleCancel,
     HandleShutdown, HandlePlain, Acquire, Drained, DrainFails, Interrupted, BeginTurn,
       SendEvent, Decided, RunAllowed, ToolEnds, Ask, EndTurn

\* A step keeps the order.
LEMMA OrderStep ==
  ASSUME Parts, Next
  PROVE  Order'
<1>0. Types /\ Lines /\ Order /\ place \in [Requests -> {"unsent", "sent", "spawned"} \cup Underway]
  BY DEF Parts, Types, TaskTypes, Underway
<1>1. ASSUME NEW c \in Cancels, place'[c] \in {"sent", "spawned"}
      PROVE  (target[c] \in Turns /\ Ahead(target[c], c))'
  <2>1. c \in Requests
    BY DEF Requests
  <2>2. CASE place[c] = "unsent"
    <3>1. SendRequest(c)
      BY <1>1, <2>1, <2>2, OutOfNothing
    <3>2. PICK t \in Turns : place[t] # "unsent" /\ target' = [target EXCEPT ![c] = t]
      BY <3>1 DEF SendRequest
    <3>3. Ahead(t, c)'
      BY <2>1, <3>1, <3>2, SentBehind DEF Requests
    <3>4. target'[c] = t
      BY <1>0, <3>2 DEF Types, WishTypes
    <3> QED BY <3>3, <3>4 DEF Ahead, Begun
  <2>3. CASE place[c] # "unsent"
    <3>1. target'[c] = target[c]
      <4>1. ASSUME NEW r \in Requests, SendRequest(r) PROVE target'[c] = target[c]
        <5>1. r # c
          BY <2>3, <4>1 DEF SendRequest
        <5> QED BY <1>0, <4>1, <5>1 DEF SendRequest, Types, WishTypes
      <4> QED BY <4>1, WishesStand
    <3>2. place[c] \in {"sent", "spawned"}
      BY <1>0, <1>1, <2>1, <2>3, BegunStays DEF Begun, Underway
    <3>3. PICK t \in Turns : t = target[c] /\ Ahead(t, c)
      BY <1>0, <3>2 DEF Order
    <3>4. t \in Requests /\ t # c
      BY BridgeAssumption DEF Requests
    <3>5. Ahead(t, c)'
      BY <1>1, <2>1, <2>3, <3>3, <3>4, AheadKept
    <3> QED BY <3>1, <3>3, <3>5 DEF Ahead, Begun
  <2> QED BY <2>2, <2>3
<1>2. ASSUME NEW s \in Shutdowns, Begun(s)' PROVE shuttingDown'
  <2>1. s \in Requests /\ s \notin Plain \cup Cancels \cup Turns
    BY BridgeAssumption DEF Requests
  <2>2. CASE Begun(s)
    BY <1>0, <2>2, ShuttingDownStays DEF Order
  <2>3. CASE ~Begun(s)
    <3>1. Refuse(s) \/ HandleShutdown(s)
      BY <1>2, <2>1, <2>3, Beginnings DEF HandleCancel, HandlePlain
    <3> QED BY <2>1, <3>1, ShuttingDownStays DEF Refuse, HandleShutdown
  <2> QED BY <2>2, <2>3
<1>3. ASSUME NEW r \in late',
             r \notin late
      PROVE  SendRequest(r) /\ r \in Requests /\ \E s \in Shutdowns : place[s] # "unsent"
  <2>1. PICK q \in Requests : SendRequest(q)
    BY <1>3, WishesStand
  <2> QED BY <1>3, <2>1 DEF SendRequest
<1>4. late \subseteq Requests
  BY <1>0 DEF Types, WishTypes
<1>5. ASSUME NEW r \in late', place'[r] \in {"sent", "spawned"} PROVE \E s \in Shutdowns : Ahead(s, r)'
  <2>1. CASE r \in late
    <3>1. r \in Requests /\ place[r] # "unsent" /\ ~Begun(r)
      BY <1>0, <1>4, <1>5, <2>1, BegunStays DEF Order, Begun
    <3>2. place[r] \in {"sent", "spawned"}
      BY <1>0, <3>1 DEF Begun
    <3>3. PICK s \in Shutdowns : Ahead(s, r)
      BY <1>0, <2>1, <3>2 DEF Order
    <3>4. s \in Requests /\ s # r
      BY <1>0, <3>1, <3>3, NotAheadOfItself DEF Requests
    <3> QED BY <1>5, <3>1, <3>3, <3>4, AheadKept
  <2>2. CASE r \notin late
    BY <1>3, <2>2, SentBehind DEF Requests
  <2> QED BY <2>1, <2>2
<1>6. ASSUME NEW r \in late'
      PROVE  place'[r] # "unsent" /\ (Begun(r)' => sending'[r] = "refused")
  <2>1. CASE r \in late
    <3>1. r \in Requests /\ place[r] # "unsent"
      BY <1>0, <1>4, <2>1 DEF Order
    <3>2. CASE Begun(r)
      <4>1. sending[r] = "refused" /\ "refused" \in Answers
        BY <1>0, <2>1, <3>2 DEF Order, Answers
      <4> QED BY <3>1, <3>2, <4>1, OutOfNothing, AnswersStand
    <3>3. ASSUME ~Begun(r), Begun(r)' PROVE sending'[r] = "refused"
      <4>1. place[r] = "spawned" /\ Begins(r)
        BY <3>1, <3>3, Beginnings
      <4>2. PICK s \in Shutdowns : Ahead(s, r)
        BY <1>0, <2>1, <4>1 DEF Order
      <4>3. shuttingDown
        BY <1>0, <3>1, <4>1, <4>2, AheadBegun DEF Order, Requests
      <4>4. Refuse(r)
        BY <3>1, <3>3, <4>3, Beginnings DEF HandleShutdown, HandleCancel, HandlePlain, BeginTurn
      <4> QED BY <1>0, <3>1, <4>4, SubmitIs DEF Refuse
    <3> QED BY <3>1, <3>2, <3>3, OutOfNothing
  <2>2. CASE r \notin late
    BY <1>0, <1>3, <2>2 DEF SendRequest, Begun
  <2> QED BY <2>1, <2>2
<1> QED BY <1>1, <1>2, <1>5, <1>6 DEF Order

\* The client does not take a cancellation back.
LEMMA UnwantedGrows ==
  ASSUME Next
  PROVE  unwanted \subseteq unwanted'
<1>1. ASSUME NEW r \in Requests, SendRequest(r) PROVE unwanted \subseteq unwanted'
  BY <1>1 DEF SendRequest
<1>2. ASSUME NEW t \in Turns, SendStop(t) PROVE unwanted \subseteq unwanted'
  BY <1>2 DEF SendStop
<1> QED BY <1>1, <1>2, WishesStand

\* Cancellations are made by $/cancelRequest and session.cancel, and end when they arrive
\* or are lost in a tool.
LEMMA CancellationsMade ==
  ASSUME Parts, Next
  PROVE  \/ UNCHANGED <<must, stopped>>
         \/ \E r \in Requests : Interrupted(r)
         \/ \E t \in Turns : ToolEnds(t)
         \/ ReceiveStop
         \/ \E r \in Cancels : HandleCancel(r)
BY DEF Next, Client, Reply, ReadLoop, Task, Turn, server, SendRequest, SendStop, SendReply,
     SendExit, Close, ReceiveRequest, ReceiveReply, ReceiveExit, ReceiveEnd, Finish, Refuse,
       HandleCancel,
     HandleShutdown, HandlePlain, Acquire, Drained, DrainFails, BeginTurn, SendEvent, Decided,
       RunAllowed, Ask, EndTurn

\* The read loop takes a $/cancelRequest.
LEMMA ReceiveStopIs ==
  ASSUME Types, Lines, ReceiveStop
  PROVE  \E t \in Turns : inbox # <<>> /\ inbox[1].kind = "stop" /\ inbox[1].about = t /\ inbox' = Tail(inbox) /\ CancelTask(t)
<1>1. inbox # <<>> /\ inbox' = Tail(inbox) /\ Head(inbox).kind = "stop"
  BY DEF ReceiveStop, Receive
<1>2. Head(inbox) = inbox[1] /\ 1 \in 1..Len(inbox)
  BY <1>1, Taken
<1>3. PICK t \in Turns : t = inbox[1].about
  BY <1>1, <1>2 DEF Lines
<1>4. CancelTask(t)
  BY <1>2, <1>3 DEF ReceiveStop
<1> QED BY <1>1, <1>2, <1>3, <1>4

-----------------------------------------------------------------------------
(* Cancellations the client asked for, and what they stop. *)

\* A step cancels only what the client asked to cancel.
LEMMA WishesStep ==
  ASSUME Parts, Next
  PROVE  Wishes'
<1>0. Types /\ Lines /\ Order /\ Wishes /\ must \in [Requests -> BOOLEAN] /\ unwanted \subseteq unwanted'
  BY UnwantedGrows DEF Parts, Types, TaskTypes
<1>1. ASSUME NEW r \in Requests, must'[r] PROVE r \in unwanted'
  <2>1. CASE must[r]
    BY <1>0, <2>1 DEF Wishes
  <2>2. CASE ~must[r]
    <3>1. CASE UNCHANGED must
      BY <1>1, <2>2, <3>1
    <3>2. ASSUME NEW q \in Requests, Interrupted(q) PROVE FALSE
      BY <1>0, <1>1, <2>2, <3>2 DEF Interrupted
    <3>5. ASSUME NEW q \in Turns, ToolEnds(q) PROVE FALSE
      BY <1>0, <1>1, <2>2, <3>5 DEF ToolEnds, Requests
    <3>3. CASE ReceiveStop
      <4>1. PICK t \in Turns : inbox # <<>> /\ inbox[1].kind = "stop" /\ inbox[1].about = t /\ inbox' = Tail(inbox) /\ CancelTask(t)
        BY <1>0, <3>3, ReceiveStopIs
      <4>2. r = t
        BY <1>0, <1>1, <2>2, <4>1 DEF CancelTask
      <4>3. 1 \in 1..Len(inbox)
        BY <1>0, <4>1, Taken
      <4> QED BY <1>0, <4>1, <4>2, <4>3 DEF Wishes
    <3>4. ASSUME NEW c \in Cancels, HandleCancel(c) PROVE r \in unwanted'
      <4>1. Begins(c) /\ CancelTask(target[c]) /\ c \in Requests
        BY <3>4 DEF HandleCancel, Requests
      <4>2. r = target[c]
        BY <1>0, <1>1, <2>2, <4>1 DEF CancelTask
      <4>3. place[c] = "spawned"
        BY <1>0, <4>1, BeginsIs
      <4> QED BY <1>0, <4>2, <4>3 DEF Wishes
    <3> QED BY <3>1, <3>2, <3>3, <3>4, <3>5, CancellationsMade
  <2> QED BY <2>1, <2>2
<1>2. ASSUME NEW k \in 1..Len(inbox'),
             inbox'[k].kind = "stop"
      PROVE  inbox'[k].about \in unwanted'
  <2>1. CASE \E j \in 1..Len(inbox) : inbox'[k] = inbox[j]
    BY <1>0, <1>2, <2>1 DEF Wishes
  <2>2. ASSUME NEW m \in Message, inbox' = Append(inbox, m),
               m.kind # "stop"
        PROVE  \E j \in 1..Len(inbox) : inbox'[k] = inbox[j]
    <3>1. /\ Len(inbox') = Len(inbox) + 1 /\ Len(inbox) \in Nat /\ inbox'[Len(inbox) + 1] = m
          /\ \A j \in 1..Len(inbox) : inbox'[j] = inbox[j]
      BY <1>0, <2>2, Posted
    <3>2. k # Len(inbox) + 1
      BY <1>2, <2>2, <3>1
    <3>3. k \in 1..Len(inbox)
      BY <3>1, <3>2
    <3> QED BY <3>1, <3>3
  <2>3. ASSUME inbox # <<>>,
    inbox' = Tail(inbox) PROVE \E j \in 1..Len(inbox) : inbox'[k] = inbox[j]
    <3>1. \A j \in 1..Len(inbox') : inbox'[j] = inbox[j + 1] /\ j + 1 \in 1..Len(inbox)
      BY <1>0, <2>3, Taken
    <3> QED BY <3>1
  <2>4. ASSUME NEW r \in Requests, SendRequest(r) PROVE inbox'[k].about \in unwanted'
    BY <1>0, <2>1, <2>2, <2>4, SendRequestIs
  <2>5. ASSUME NEW t \in Turns, SendStop(t) PROVE inbox'[k].about \in unwanted'
    <3> DEFINE m == Msg("stop", t, "none")
    <3>1. m \in Message /\ inbox' = Append(inbox, m) /\ m.about = t /\ t \in unwanted'
      BY <2>5 DEF SendStop, Send, Msg, Message, Requests
    <3> HIDE DEF m
    <3>2. /\ Len(inbox') = Len(inbox) + 1 /\ Len(inbox) \in Nat /\ inbox'[Len(inbox) + 1] = m
          /\ \A j \in 1..Len(inbox) : inbox'[j] = inbox[j]
      BY <1>0, <3>1, Posted
    <3>3. CASE k = Len(inbox) + 1
      BY <3>1, <3>2, <3>3
    <3>4. CASE k # Len(inbox) + 1
      <4>1. k \in 1..Len(inbox)
        BY <3>2, <3>4
      <4> QED BY <2>1, <3>2, <4>1
    <3> QED BY <3>3, <3>4
  <2>6. ASSUME NEW t \in Turns, NEW d \in Decisions, SendReply(t, d)
        PROVE  inbox'[k].about \in unwanted'
    <3>1. Msg("reply", t, d) \in Message /\ inbox' = Append(inbox, Msg("reply", t, d)) /\ Msg("reply", t, d).kind # "stop"
      BY <2>6 DEF SendReply, Send, Msg, Message, Requests
    <3> QED BY <2>1, <2>2, <3>1
  <2>7. CASE SendExit
    <3>1. Msg("exit", Nobody, "none") \in Message /\ inbox' = Append(inbox, Msg("exit", Nobody, "none"))
          /\ Msg("exit", Nobody, "none").kind # "stop"
      BY <2>7 DEF SendExit, Send, Msg, Message
    <3> QED BY <2>1, <2>2, <3>1
  <2>8. CASE ReceiveRequest \/ ReceiveStop \/ ReceiveReply \/ ReceiveExit
    <3>1. inbox # <<>> /\ inbox' = Tail(inbox)
      BY <2>8 DEF ReceiveRequest, ReceiveStop, ReceiveReply, ReceiveExit, Receive
    <3> QED BY <2>1, <2>3, <3>1
  <2>9. CASE UNCHANGED inbox
    BY <1>0, <1>2, <2>9 DEF Wishes
  <2> QED
    BY <2>4, <2>5, <2>6, <2>7, <2>8, <2>9
    DEF Next, Client, Reply, ReadLoop, Task, Turn, wishes, Close, ReceiveEnd, Finish, Refuse,
      HandleCancel,
      HandleShutdown, HandlePlain, Acquire, Drained, DrainFails, Interrupted, BeginTurn,
        SendEvent, Decided,
      RunAllowed, ToolEnds, Ask, EndTurn
<1>3. ASSUME NEW c \in Cancels, place'[c] # "unsent" PROVE target'[c] \in unwanted'
  <2>1. c \in Requests
    BY DEF Requests
  <2>2. CASE place[c] = "unsent"
    <3>1. SendRequest(c)
      BY <1>3, <2>1, <2>2, OutOfNothing
    <3> QED BY <1>0, <3>1 DEF SendRequest, Types, WishTypes
  <2>3. CASE place[c] # "unsent"
    <3>1. target'[c] = target[c]
      <4>1. ASSUME NEW r \in Requests, SendRequest(r) PROVE target'[c] = target[c]
        <5>1. r # c
          BY <2>3, <4>1 DEF SendRequest
        <5> QED BY <1>0, <4>1, <5>1 DEF SendRequest, Types, WishTypes
      <4> QED BY <4>1, WishesStand
    <3> QED BY <1>0, <2>3, <3>1 DEF Wishes
  <2> QED BY <2>2, <2>3
<1> QED BY <1>1, <1>2, <1>3 DEF Wishes

\* The read loop and the client move a turn only before it begins.
LEMMA PlacesOutside ==
  ASSUME Types, Lines, Client \/ ReadLoop, NEW r \in Requests, Begun(r)
  PROVE  place'[r] = place[r]
<1>0. place \in [Requests -> {"unsent", "sent", "spawned"} \cup Underway]
  BY DEF Types, TaskTypes, Underway
<1>1. CASE UNCHANGED place
  BY <1>1
<1>2. ASSUME NEW q \in Requests, SendRequest(q) PROVE place'[r] = place[r]
  BY <1>0, <1>2 DEF SendRequest, Begun
<1>3. CASE ReceiveRequest
  <2>1. PICK q \in Requests : place[q] = "sent" /\ place' = [place EXCEPT ![q] = "spawned"]
    BY <1>3, ReceiveRequestIs
  <2> QED BY <1>0, <2>1 DEF Begun
<1> QED
  BY <1>1, <1>2, <1>3
  DEF Client, Reply, ReadLoop, server, SendStop, SendReply, SendExit, Close, ReceiveStop,
    ReceiveReply, ReceiveExit,
    ReceiveEnd, Finish

\* A task with a CancelledError coming does nothing before it arrives, but for a turn in a tool.
LEMMA NothingElse ==
  ASSUME Parts, Next, NEW r \in Requests, must[r], place[r] # "tool"
  PROVE  Interrupted(r) \/ (must'[r] /\ sending'[r] = sending[r] /\ place'[r] = place[r])
<1>0. Types /\ Lines /\ Marks /\ Order /\ must \in [Requests -> BOOLEAN]
  BY DEF Parts, Types, TaskTypes
<1>1. must'[r] \/ Interrupted(r)
  <2>1. CASE UNCHANGED must
    BY <2>1
  <2>2. ASSUME NEW q \in Requests, Interrupted(q) PROVE must'[r] \/ Interrupted(r)
    BY <1>0, <2>2 DEF Interrupted
  <2>3. ASSUME NEW q, CancelTask(q) PROVE must'[r]
    BY <1>0, <2>3 DEF CancelTask
  <2>4. ASSUME NEW q \in Turns, ToolEnds(q) PROVE must'[r]
    BY <1>0, <2>4 DEF ToolEnds
  <2> QED BY <2>1, <2>2, <2>3, <2>4, CancellationsMade DEF ReceiveStop, HandleCancel
<1>2. CASE Client \/ ReadLoop
  <2>1. Begun(r)
    BY <1>0 DEF Marks, Registered, Begun
  <2> QED BY <1>0, <1>1, <1>2, <2>1, Outside, PlacesOutside
<1>3. ASSUME NEW q \in Requests, q # r,
             Task(q) \/ (q \in Turns /\ Turn(q))
      PROVE  sending'[r] = sending[r] /\ place'[r] = place[r]
  BY <1>0, <1>3, Others
<1>4. ~Begins(r)
  BY <1>0, BeginsIs DEF Marks, Registered
<1>5. ~(r \in Turns /\ Turn(r))
  BY <1>4 DEF Turn, BeginTurn, SendEvent, Decided, RunAllowed, ToolEnds, Ask, EndTurn, Running
<1>6. Task(r) => Interrupted(r)
  BY <1>4 DEF Task, Refuse, HandleShutdown, HandleCancel, HandlePlain, Acquire, Drained,
    DrainFails
<1> QED BY <1>1, <1>2, <1>3, <1>5, <1>6 DEF Next, Requests

\* What Stops says of t.
Stopping(t) ==
  /\ Begun(t) /\ sending[t] # "result" /\ place[t] # "tool"
  /\ sending[t] \notin Answers => must[t]

\* A step keeps cancelled turns from a result.
LEMMA StopsStep ==
  ASSUME Parts, Next
  PROVE  Stops'
<1>0. Types /\ Lines /\ Marks /\ Order /\ Stops /\ must \in [Requests -> BOOLEAN] /\ stopped \subseteq Turns
      /\ Stages'
  BY StagesStep DEF Parts, Types, TaskTypes, WishTypes
<1>1. ASSUME NEW t \in stopped PROVE Stopping(t)'
  <2>1. t \in Requests /\ Stopping(t)
    BY <1>0, <1>1 DEF Stops, Stopping, Requests
  <2>2. Begun(t)'
    BY <2>1, BegunStays DEF Stopping
  <2>3. ASSUME sending'[t] \in Answers PROVE place'[t] # "tool"
    BY <1>0, <2>1, <2>3 DEF Stages, Stage, Answers
  <2>4. CASE sending[t] \in Answers
    BY <2>1, <2>2, <2>3, <2>4, AnswersStand DEF Stopping
  <2>5. CASE sending[t] \notin Answers
    <3>1. CASE Interrupted(t)
      <4>1. Submit(t, "cancelled", IF lock = t THEN Nobody ELSE lock, Without(waiters, t))
        BY <2>5, <3>1 DEF Interrupted
      <4>2. sending'[t] = "cancelled"
        BY <1>0, <2>1, <4>1, SubmitIs
      <4>3. sending'[t] \in Answers
        BY <4>2 DEF Answers
      <4> QED BY <2>2, <2>3, <4>2, <4>3 DEF Stopping
    <3>2. CASE ~Interrupted(t)
      BY <2>1, <2>2, <2>5, <3>2, NothingElse DEF Stopping
    <3> QED BY <3>1, <3>2
  <2> QED BY <2>4, <2>5
<1>2. ASSUME NEW t \in Turns, CancelTask(t), t \in stopped', t \notin stopped,
  sending'[t] = sending[t], place'[t] = place[t]
      PROVE  Stopping(t)'
  <2>1. Registered(t) /\ sending[t] \notin Answers /\ place[t] # "tool" /\ must'[t] /\ t \in Requests
    BY <1>0, <1>2 DEF CancelTask, Stoppable, Requests
  <2>2. Begun(t)'
    BY <2>1, BegunStays DEF Registered, Begun
  <2> QED BY <1>2, <2>1, <2>2 DEF Stopping, Answers
<1>3. ASSUME NEW t \in stopped', t \notin stopped PROVE Stopping(t)'
  <2>1. ASSUME NEW q \in Requests, Interrupted(q) PROVE stopped' = stopped
    BY <2>1 DEF Interrupted
  <2>2. CASE ReceiveStop
    <3>1. PICK u \in Turns : CancelTask(u)
      BY <1>0, <2>2, ReceiveStopIs
    <3>2. t = u
      BY <1>3, <3>1 DEF CancelTask
    <3>3. sending' = sending /\ place' = place
      BY <2>2 DEF ReceiveStop
    <3> QED BY <1>2, <1>3, <3>1, <3>2, <3>3
  <2>3. ASSUME NEW c \in Cancels, HandleCancel(c) PROVE Stopping(t)'
    <3>1. Begins(c) /\ CancelTask(target[c]) /\ Submit(c, "result", lock, waiters) /\ c \in Requests
      BY <2>3 DEF HandleCancel, Requests
    <3>2. PICK u \in Turns : u = target[c]
      BY <1>0, <3>1, BeginsIs DEF Order
    <3>3. t = u
      BY <1>3, <3>1, <3>2 DEF CancelTask
    <3>4. u \in Requests /\ u # c
      BY BridgeAssumption DEF Requests
    <3>5. sending'[t] = sending[t] /\ place'[t] = place[t]
      BY <1>0, <3>1, <3>3, <3>4, SubmitIs
    <3> QED BY <1>2, <1>3, <3>1, <3>2, <3>3, <3>5
  <2>4. ASSUME NEW q \in Turns, ToolEnds(q) PROVE stopped' = stopped
    BY <2>4 DEF ToolEnds
  <2> QED BY <1>3, <2>1, <2>2, <2>3, <2>4, CancellationsMade
<1> QED BY <1>1, <1>3 DEF Stops, Stopping

-----------------------------------------------------------------------------
(* Questions and replies. *)

\* Writing a permission request adds one to their number.
LEMMA AsksIs ==
  ASSUME Types, NEW t \in Turns
  PROVE  /\ Asks(t) \in Nat
         /\ written'[t] = written[t] => Asks(t)' = Asks(t)
         /\ \A kind \in Kinds : written'[t] = Append(written[t], kind) =>
              Asks(t)' = IF kind = "ask" THEN Asks(t) + 1 ELSE Asks(t)
<1> DEFINE A == {k \in 1..Len(written[t]) : written[t][k] = "ask"}
<1>1. written[t] \in Seq(Kinds) /\ Len(written[t]) \in Nat
  BY DEF Types, TaskTypes, Requests
<1>2. IsFiniteSet(A)
  <2>1. IsFiniteSet(1..Len(written[t]))
    BY <1>1, FS_Interval
  <2> QED BY <2>1, FS_Subset
<1>3. Asks(t) = Cardinality(A) /\ Asks(t) \in Nat
  BY <1>2, FS_CardinalityType DEF Asks
<1>4. written'[t] = written[t] => Asks(t)' = Asks(t)
  BY DEF Asks
<1>5. ASSUME NEW kind \in Kinds, written'[t] = Append(written[t], kind)
      PROVE  Asks(t)' = IF kind = "ask" THEN Asks(t) + 1 ELSE Asks(t)
  <2> DEFINE B == {k \in 1..Len(written'[t]) : written'[t][k] = "ask"}
             n == Len(written[t]) + 1
  <2>1. /\ Len(written'[t]) = n /\ written'[t][n] = kind
        /\ \A k \in 1..Len(written[t]) : written'[t][k] = written[t][k]
    BY <1>1, <1>5, Appended
  <2>2. Asks(t)' = Cardinality(B)
    BY DEF Asks
  <2>3. CASE kind = "ask"
    <3>1. B = A \cup {n}
      BY <1>1, <2>1, <2>3
    <3>2. n \notin A
      BY <1>1
    <3>3. Cardinality(A \cup {n}) = Cardinality(A) + 1
      BY <1>2, <3>2, FS_AddElement
    <3> QED BY <1>3, <2>2, <2>3, <3>1, <3>3
  <2>4. CASE kind # "ask"
    <3>1. B = A
      BY <1>1, <2>1, <2>4
    <3> QED BY <1>3, <2>2, <2>4, <3>1
  <2> QED BY <2>3, <2>4
<1> QED BY <1>3, <1>4, <1>5

\* The replies about t on their way stay the same.
SameReplies(t) ==
  /\ NoReply(t) => NoReply(t)'
  /\ OneReply(t) => OneReply(t)'
  /\ \A d : (\A k \in 1..Len(inbox) : inbox[k].kind = "reply" /\ inbox[k].about = t => inbox[k].decision = d)
       => \A k \in 1..Len(inbox') : inbox'[k].kind = "reply" /\ inbox'[k].about = t => inbox'[k].decision = d

\* Messages that are no reply about t leave them the same...
LEMMA RepliesPosted ==
  ASSUME Types, NEW t \in Turns, NEW m \in Message, inbox' = Append(inbox, m),
         m.kind # "reply" \/ m.about # t
  PROVE  SameReplies(t)
<1>1. /\ Len(inbox') = Len(inbox) + 1 /\ Len(inbox) \in Nat /\ inbox'[Len(inbox) + 1] = m
      /\ \A k \in 1..Len(inbox) : inbox'[k] = inbox[k]
  BY Posted
<1>2. ASSUME NEW k \in 1..Len(inbox'), inbox'[k].kind = "reply", inbox'[k].about = t
      PROVE  k \in 1..Len(inbox) /\ inbox'[k] = inbox[k]
  <2>1. k # Len(inbox) + 1
    BY <1>1, <1>2
  <2>2. k \in 1..Len(inbox)
    BY <1>1, <2>1
  <2> QED BY <1>1, <2>2
<1> QED BY <1>2 DEF SameReplies, NoReply, OneReply, InInbox

\* ...whoever takes them.
LEMMA RepliesTaken ==
  ASSUME Types, NEW t \in Turns, inbox # <<>>, inbox' = Tail(inbox)
  PROVE  SameReplies(t)
<1>1. /\ Len(inbox') = Len(inbox) - 1 /\ Len(inbox) \in Nat
      /\ \A k \in 1..Len(inbox') : inbox'[k] = inbox[k + 1] /\ k + 1 \in 1..Len(inbox)
  BY Taken
<1>2. NoReply(t) => NoReply(t)'
  BY <1>1 DEF NoReply, InInbox
<1>3. ASSUME OneReply(t) PROVE OneReply(t)'
  <2>1. ASSUME NEW j \in 1..Len(inbox'), NEW k \in 1..Len(inbox'), inbox'[j].kind = "reply",
    inbox'[k].kind = "reply",
               inbox'[j].about = t, inbox'[k].about = t
        PROVE  j = k
    <3>1. j + 1 = k + 1
      BY <1>1, <1>3, <2>1 DEF OneReply
    <3> QED BY <1>1, <3>1
  <2> QED BY <2>1 DEF OneReply
<1>4. ASSUME NEW d, \A k \in 1..Len(inbox) : inbox[k].kind = "reply" /\ inbox[k].about = t => inbox[k].decision = d
      PROVE  \A k \in 1..Len(inbox') : inbox'[k].kind = "reply" /\ inbox'[k].about = t => inbox'[k].decision = d
  BY <1>1, <1>4
<1> QED BY <1>2, <1>3, <1>4 DEF SameReplies

\* With the same replies, questions keep their state.
LEMMA RepliesAlone ==
  ASSUME NEW t \in Turns, UNCHANGED inbox
  PROVE  SameReplies(t)
BY DEF SameReplies, NoReply, OneReply, InInbox

\* A step that is nothing to t keeps its question.
LEMMA QuestionElsewhere ==
  ASSUME Types, NEW t \in Turns, Question(t), SameReplies(t),
         Begun(t)' <=> Begun(t),
         Begun(t) => place'[t] = place[t],
         sending'[t] = sending[t], written'[t] = written[t],
         asked'[t] = asked[t], decided'[t] = decided[t], future'[t] = future[t]
  PROVE  Question(t)'
<1>1. Asks(t)' = Asks(t)
  BY AsksIs
<1>2. (Busy(t)' => Busy(t)) /\ (Asking(t)' => Asking(t)) /\ (place'[t] = "waiting" => place[t] = "waiting")
  BY DEF Busy, Asking, Begun
<1>3. NotAnswered(t) => NotAnswered(t)'
  BY DEF NotAnswered, SameReplies
<1>4. OnItsWay(t) => OnItsWay(t)'
  BY ZenonT(30) DEF OnItsWay, SameReplies
<1>5. There(t) => There(t)'
  BY DEF There, SameReplies
<1> QED BY <1>1, <1>2, <1>3, <1>4, <1>5 DEF Question, SameReplies

\* A turn that is about to answer, or has answered, no longer waits with a question.
LEMMA QuestionOver ==
  ASSUME Types, NEW t \in Turns, Question(t), Begun(t)', sending'[t] \in Answers,
         place'[t] \notin {"running", "tool"},
         \/ written'[t] = written[t] \/ written'[t] = Append(written[t], sending'[t]),
         asked'[t] = asked[t], decided'[t] = decided[t]
  PROVE  Question(t)'
<1>1. Asks(t)' = Asks(t)
  <2>1. sending'[t] \in Kinds /\ sending'[t] # "ask"
    BY DEF Kinds, Answers
  <2> QED BY <2>1, AsksIs
<1>2. ~Busy(t)' /\ ~Asking(t)'
  BY DEF Busy, Asking, Answers
<1> QED BY <1>1, <1>2 DEF Question, Asking

\* The step of a task is nothing to the questions of the other turns.
LEMMA TalkElsewhere ==
  ASSUME Types, NEW q \in Requests, Task(q) \/ (q \in Turns /\ Turn(q)), NEW t \in Turns, t # q
  PROVE  UNCHANGED inbox /\ asked'[t] = asked[t] /\ decided'[t] = decided[t] /\ future'[t] = future[t]
<1>0. asked \in [Turns -> Seq(Tools)] /\ future \in [Turns -> Decisions \cup {"none", "open"}]
  BY DEF Types, TalkTypes
<1>1. CASE UNCHANGED <<inbox, future, asked, decided>>
  BY <1>1
<1>2. CASE Interrupted(q)
  BY <1>0, <1>2 DEF Interrupted, wishes
<1>3. CASE Decided(q)
  BY <1>0, <1>3 DEF Decided, wishes
<1>4. ASSUME NEW tool \in Tools, Ask(q, tool)
      PROVE  UNCHANGED inbox /\ asked'[t] = asked[t] /\ decided'[t] = decided[t] /\ future'[t] = future[t]
  BY <1>0, <1>4 DEF Ask, wishes
<1> QED
  BY <1>1, <1>2, <1>3, <1>4
  DEF Task, Turn, permission, wishes, Refuse, HandleShutdown, HandleCancel, HandlePlain,
    Acquire, Drained, DrainFails,
    BeginTurn, SendEvent, RunAllowed, ToolEnds, EndTurn

\* The read loop takes a reply.
LEMMA ReceiveReplyIs ==
  ASSUME Types, Lines, RepliesDecided, ReceiveReply
  PROVE  \E t \in Turns :
           /\ inbox # <<>> /\ inbox[1].kind = "reply" /\ inbox[1].about = t /\ inbox[1].decision \in Decisions
           /\ inbox' = Tail(inbox)
           /\ future' = IF future[t] = "open" THEN [future EXCEPT ![t] = inbox[1].decision] ELSE future
<1>1. inbox # <<>> /\ inbox' = Tail(inbox) /\ Head(inbox).kind = "reply"
  BY DEF ReceiveReply, Receive
<1>2. Head(inbox) = inbox[1] /\ 1 \in 1..Len(inbox)
  BY <1>1, Taken
<1>3. PICK t \in Turns : t = inbox[1].about
  BY <1>1, <1>2 DEF Lines
<1>4. inbox[1].decision \in Decisions
  BY <1>1, <1>2 DEF RepliesDecided
<1>5. future' = IF future[t] = "open" THEN [future EXCEPT ![t] = inbox[1].decision] ELSE future
  BY <1>2, <1>3 DEF ReceiveReply, Resolves
<1> QED BY <1>1, <1>2, <1>3, <1>4, <1>5

\* The client answers the question of t.
LEMMA QuestionReplied ==
  ASSUME Types, NEW t \in Turns, NEW d \in Decisions, SendReply(t, d), Question(t)
  PROVE  Question(t)'
<1> DEFINE m == Msg("reply", t, d)
<1>1. /\ m \in Message /\ m.kind = "reply" /\ m.about = t /\ m.decision = d /\ inbox' = Append(inbox, m)
      /\ Len(decided[t]) < Asks(t)
      /\ decided' = [decided EXCEPT ![t] = Append(decided[t], d)]
      /\ UNCHANGED <<place, sending, written, asked, future>>
  BY DEF SendReply, Send, Msg, Message, server, Requests
<1> HIDE DEF m
<1>2. decided[t] \in Seq(Decisions) /\ asked[t] \in Seq(Tools) /\ Len(decided[t]) \in Nat /\ Len(asked[t]) \in Nat
  BY DEF Types, TalkTypes
<1>3. /\ Len(decided'[t]) = Len(decided[t]) + 1 /\ decided'[t][Len(decided[t]) + 1] = d
  <2>1. decided'[t] = Append(decided[t], d)
    BY <1>1 DEF Types, TalkTypes
  <2> QED BY <1>2, <2>1, Appended
<1>4. Asks(t) \in Nat /\ Asks(t)' = Asks(t) /\ Asks(t) <= Len(asked[t])
  BY <1>1, AsksIs DEF Question
<1>5. Len(decided'[t]) <= Len(asked[t])
  BY <1>1, <1>2, <1>3, <1>4
<1>6. ~Busy(t) /\ Begun(t)
  <2>1. Len(decided[t]) # Len(asked[t]) /\ asked[t] # <<>>
    BY <1>1, <1>2, <1>4
  <2> QED BY <2>1 DEF Question
<1>7. ASSUME Asking(t) PROVE OnItsWay(t)' /\ asked[t] # <<>> /\ place[t] # "waiting"
  <2>1. NotAnswered(t) /\ asked[t] # <<>>
    BY <1>1, <1>2, <1>4, <1>7 DEF Question, OnItsWay, There
  <2>2. Len(decided'[t]) = Len(asked[t]) /\ decided'[t][Len(asked[t])] = d /\ future'[t] = "open"
    BY <1>1, <1>2, <1>3, <2>1 DEF NotAnswered
  <2>3. /\ Len(inbox') = Len(inbox) + 1 /\ Len(inbox) \in Nat /\ inbox'[Len(inbox) + 1] = m
        /\ \A k \in 1..Len(inbox) : inbox'[k] = inbox[k]
    BY <1>1, Posted
  <2>4. ASSUME NEW k \in 1..Len(inbox'), inbox'[k].kind = "reply",
               inbox'[k].about = t
        PROVE  k = Len(inbox) + 1
    <3>1. k \notin 1..Len(inbox)
      BY <2>1, <2>3, <2>4 DEF NotAnswered, NoReply, InInbox
    <3> QED BY <2>3, <3>1
  <2>5. OneReply(t)'
    BY <2>4 DEF OneReply
  <2>6. ASSUME NEW k \in 1..Len(inbox'), inbox'[k].kind = "reply",
               inbox'[k].about = t
        PROVE  inbox'[k].decision = d
    <3>1. k = Len(inbox) + 1
      BY <2>4, <2>6
    <3> QED BY <1>1, <2>3, <3>1
  <2>7. OnItsWay(t)'
    BY <1>1, <2>2, <2>5, <2>6 DEF OnItsWay
  <2>8. place[t] # "waiting"
    BY <1>1, <1>2, <1>4, <1>7, <2>1 DEF Question, NotAnswered, Asking
  <2> QED BY <2>1, <2>7, <2>8
<1>8. (Busy(t)' <=> Busy(t)) /\ (Asking(t)' <=> Asking(t)) /\ (Begun(t)' <=> Begun(t))
  BY <1>1 DEF Busy, Asking, Begun
<1> QED BY <1>1, <1>4, <1>5, <1>6, <1>7, <1>8 DEF Question, Asking

\* The reply resolves the future of t.
LEMMA QuestionResolved ==
  ASSUME Types, NEW t \in Turns, Question(t), inbox # <<>>, inbox' = Tail(inbox),
         inbox[1].kind = "reply", inbox[1].about = t, inbox[1].decision \in Decisions,
         future' = IF future[t] = "open" THEN [future EXCEPT ![t] = inbox[1].decision] ELSE future,
         UNCHANGED <<place, sending, written, asked, decided>>
  PROVE  Question(t)'
<1>1. Asks(t)' = Asks(t)
  BY AsksIs
<1>2. /\ Len(inbox') = Len(inbox) - 1 /\ Len(inbox) \in Nat /\ 1 \in 1..Len(inbox)
      /\ \A k \in 1..Len(inbox') : inbox'[k] = inbox[k + 1] /\ k + 1 \in 1..Len(inbox)
  BY Taken
<1>3. ~NoReply(t)
  BY <1>2 DEF NoReply, InInbox
<1>4. ~Busy(t) /\ Begun(t)
  BY <1>3 DEF Question
<1>5. ASSUME Asking(t) PROVE There(t)' /\ asked[t] # <<>>
  <2>1. OnItsWay(t) /\ asked[t] # <<>>
    BY <1>3, <1>5 DEF Question, NotAnswered, There
  <2>2. future'[t] = inbox[1].decision /\ inbox[1].decision = decided[t][Len(asked[t])]
    BY <1>2, <2>1 DEF OnItsWay, Types, TalkTypes
  <2>3. NoReply(t)'
    <3>1. ASSUME NEW k \in 1..Len(inbox'), inbox'[k].kind = "reply",
                 inbox'[k].about = t
          PROVE  FALSE
      <4>1. k + 1 = 1
        BY <1>2, <2>1, <3>1 DEF OnItsWay, OneReply
      <4> QED BY <1>2, <4>1
    <3> QED BY <3>1 DEF NoReply, InInbox
  <2> QED BY <2>1, <2>2, <2>3 DEF There, OnItsWay
<1>6. (Busy(t)' <=> Busy(t)) /\ (Asking(t)' <=> Asking(t)) /\ (Begun(t)' <=> Begun(t))
  BY DEF Busy, Asking, Begun
<1> QED BY <1>1, <1>4, <1>5, <1>6 DEF Question, Asking

\* The task of a turn keeps its question in order: lock, writer, cancellation...
LEMMA QuestionOfTask ==
  ASSUME Parts, NEW t \in Turns, Task(t), Question(t)
  PROVE  Question(t)'
<1>0. Types /\ Lines /\ Stages /\ Marks /\ t \in Requests
      /\ place \in [Requests -> {"unsent", "sent", "spawned", "running", "asking", "tool", "waiting", "draining", "over"}]
      /\ written \in [Requests -> Seq(Kinds)]
  BY DEF Parts, Types, TaskTypes, Requests
<1>1. ASSUME NEW kind \in Answers, NEW lk, NEW ws, Submit(t, kind, lk, ws), UNCHANGED <<asked, decided>>
      PROVE  Question(t)'
  <2>1. sending'[t] = kind /\ place'[t] \in {"waiting", "draining"}
        /\ (written'[t] = written[t] \/ written'[t] = Append(written[t], kind))
    BY <1>0, <1>1, SubmitIs
  <2>2. Begun(t)' /\ place'[t] \notin {"running", "tool"}
    BY <2>1 DEF Begun
  <2> QED BY <1>0, <1>1, <2>1, <2>2, QuestionOver
<1>2. CASE Refuse(t)
  BY <1>1, <1>2 DEF Refuse, Answers, permission
<1>3. CASE HandleShutdown(t)
  BY <1>1, <1>3 DEF HandleShutdown, Answers, permission
<1>4. CASE HandleCancel(t)
  BY <1>1, <1>4 DEF HandleCancel, Answers, permission
<1>5. ASSUME NEW kind \in {"result", "failed"}, HandlePlain(t, kind) PROVE Question(t)'
  <2>1. kind \in Answers
    BY DEF Answers
  <2> QED BY <1>1, <1>5, <2>1 DEF HandlePlain, permission
<1>6. CASE Acquire(t)
  <2>1. /\ place[t] = "waiting" /\ place'[t] = "draining" /\ sending'[t] = sending[t]
        /\ written'[t] = Append(written[t], sending[t]) /\ sending[t] \in Kinds
        /\ UNCHANGED <<asked, decided, future, inbox>>
    BY <1>0, <1>6 DEF Acquire, permission, wishes, Stages, Stage, Types, TaskTypes
  <2>2. Asks(t)' = (IF sending[t] = "ask" THEN Asks(t) + 1 ELSE Asks(t)) /\ Asks(t) \in Nat
    BY <1>0, <2>1, AsksIs
  <2>3. Len(asked[t]) \in Nat
    BY <1>0 DEF Types, TalkTypes
  <2>4. Asks(t)' <= Len(asked'[t])
    BY <2>1, <2>2, <2>3 DEF Question
  <2>5. (Busy(t)' => Busy(t)) /\ (Asking(t)' => Asking(t)) /\ Begun(t)'
    BY <2>1 DEF Busy, Asking, Begun
  <2>6. SameReplies(t)
    BY <2>1, RepliesAlone
  <2>7. (NotAnswered(t) => NotAnswered(t)') /\ (OnItsWay(t) => OnItsWay(t)') /\ (There(t) => There(t)')
    BY <2>1, <2>6 DEF NotAnswered, OnItsWay, There, SameReplies
  <2> QED BY <2>1, <2>4, <2>5, <2>6, <2>7 DEF Question, SameReplies
<1>7. CASE Drained(t)
  <2> DEFINE p == AfterSending(sending[t])
  <2>1. /\ place[t] = "draining" /\ place' = [place EXCEPT ![t] = p]
        /\ UNCHANGED <<sending, written, asked, decided, future, inbox>>
    BY <1>7 DEF Drained, permission, wishes
  <2>2. place'[t] = p /\ p \in {"running", "asking", "tool", "over"} /\ (p = "running" => sending[t] = "event")
        /\ (p = "tool" => sending[t] = "started")
    BY <1>0, <2>1, AfterSendingIs
  <2> HIDE DEF p
  <2>3. (Busy(t)' => Busy(t)) /\ (Asking(t)' => Asking(t)) /\ Begun(t)' /\ Asks(t)' = Asks(t) /\ place'[t] # "waiting"
    BY <1>0, <2>1, <2>2, AsksIs DEF Busy, Asking, Begun
  <2>4. SameReplies(t)
    BY <2>1, RepliesAlone
  <2>5. (NotAnswered(t) => NotAnswered(t)') /\ (OnItsWay(t) => OnItsWay(t)') /\ (There(t) => There(t)')
    BY <2>1, <2>4 DEF NotAnswered, OnItsWay, There, SameReplies
  <2> QED BY <2>1, <2>3, <2>4, <2>5 DEF Question, SameReplies
<1>8. CASE DrainFails(t)
  <2>0. place[t] = "draining" /\ UNCHANGED <<asked, decided>>
    BY <1>8 DEF DrainFails, permission
  <2>1. CASE sending[t] \in Answers
    <3>1. place' = [place EXCEPT ![t] = "over"] /\ UNCHANGED <<sending, written>>
      BY <1>8, <2>1 DEF DrainFails
    <3>2. place'[t] = "over" /\ Begun(t)' /\ place'[t] \notin {"running", "tool"}
      BY <1>0, <3>1 DEF Begun
    <3> QED BY <1>0, <2>0, <2>1, <3>1, <3>2, QuestionOver
  <2>2. CASE sending[t] \notin Answers
    BY <1>1, <1>8, <2>0, <2>2 DEF DrainFails, Answers
  <2> QED BY <2>1, <2>2
<1>9. CASE Interrupted(t)
  <2>0. UNCHANGED <<asked, decided>>
    BY <1>9 DEF Interrupted
  <2>1. CASE sending[t] \in Answers
    <3>1. place' = [place EXCEPT ![t] = "over"] /\ UNCHANGED <<sending, written>>
      BY <1>9, <2>1 DEF Interrupted
    <3>2. place'[t] = "over" /\ Begun(t)' /\ place'[t] \notin {"running", "tool"}
      BY <1>0, <3>1 DEF Begun
    <3> QED BY <1>0, <2>0, <2>1, <3>1, <3>2, QuestionOver
  <2>2. CASE sending[t] \notin Answers
    <3>1. Submit(t, "cancelled", IF lock = t THEN Nobody ELSE lock, Without(waiters, t))
      BY <1>9, <2>2 DEF Interrupted
    <3>2. "cancelled" \in Answers
      BY DEF Answers
    <3> QED BY <1>1, <2>0, <3>1, <3>2
  <2> QED BY <2>1, <2>2
<1> QED BY <1>2, <1>3, <1>4, <1>5, <1>6, <1>7, <1>8, <1>9 DEF Task

\* ...and so does the turn itself.
LEMMA QuestionOfTurn ==
  ASSUME Parts, NEW t \in Turns, Turn(t), Question(t)
  PROVE  Question(t)'
<1>0. Types /\ Lines /\ Stages /\ Marks /\ t \in Requests
      /\ place \in [Requests -> {"unsent", "sent", "spawned", "running", "asking", "tool", "waiting", "draining", "over"}]
      /\ written \in [Requests -> Seq(Kinds)] /\ asked \in [Turns -> Seq(Tools)] /\ decided \in [Turns -> Seq(Decisions)]
      /\ future \in [Turns -> Decisions \cup {"none", "open"}]
  BY DEF Parts, Types, TaskTypes, TalkTypes, Requests
<1>00. Len(asked[t]) \in Nat /\ Len(decided[t]) \in Nat /\ Asks(t) \in Nat
  BY <1>0, AsksIs
<1>1. ASSUME NEW kind \in Answers, Submit(t, kind, lock, waiters), UNCHANGED <<asked, decided>>
      PROVE  Question(t)'
  <2>1. sending'[t] = kind /\ place'[t] \in {"waiting", "draining"}
        /\ (written'[t] = written[t] \/ written'[t] = Append(written[t], kind))
    BY <1>0, <1>1, SubmitIs
  <2>2. Begun(t)' /\ place'[t] \notin {"running", "tool"}
    BY <2>1 DEF Begun
  <2> QED BY <1>0, <1>1, <2>1, <2>2, QuestionOver
<1>2. ASSUME place'[t] = "running", Len(decided[t]) = Len(asked[t]), NoReply(t),
  Asks(t) <= Len(asked[t]),
             UNCHANGED <<written, asked, decided, inbox>>
      PROVE  Question(t)'
  <2>1. Begun(t)' /\ ~Asking(t)' /\ Asks(t)' = Asks(t) /\ NoReply(t)'
    BY <1>0, <1>2, AsksIs DEF Begun, Asking, NoReply, InInbox
  <2> QED BY <1>00, <1>2, <2>1 DEF Question
<1>3. CASE BeginTurn(t)
  <2>1. place[t] = "spawned" /\ ~Begun(t)
    BY <1>0, <1>3, BeginsIs DEF BeginTurn, Begun
  <2>2. asked[t] = <<>> /\ NoReply(t) /\ Len(decided[t]) <= 0
    BY <2>1 DEF Question
  <2>3. Len(decided[t]) = Len(asked[t])
    BY <1>00, <2>2
  <2> QED BY <1>0, <1>2, <1>3, <2>2, <2>3 DEF BeginTurn, permission, wishes, Question
<1>9. ASSUME NEW kind \in {"event", "started"}, Submit(t, kind, lock, waiters), Len(decided[t]) = Len(asked[t]),
             NoReply(t), Asks(t) <= Len(asked[t]), UNCHANGED <<asked, decided, inbox>>
      PROVE  Question(t)'
  <2>1. Asks(t)' = Asks(t)
    <3>1. kind \in Kinds /\ kind # "ask"
      BY DEF Kinds
    <3> QED BY <1>0, <1>9, <3>1, SubmitIs, AsksIs
  <2>2. sending'[t] = kind /\ Begun(t)' /\ ~Asking(t)'
    BY <1>0, <1>9, SubmitIs DEF Begun, Asking
  <2>3. NoReply(t)'
    BY <1>9 DEF NoReply, InInbox
  <2> QED BY <1>00, <1>9, <2>1, <2>2, <2>3 DEF Question
<1>4. CASE SendEvent(t)
  <2>1. Submit(t, "event", lock, waiters) /\ place[t] = "running" /\ UNCHANGED <<asked, decided, inbox>>
    BY <1>4 DEF SendEvent, Running, permission, wishes
  <2> QED BY <1>9, <2>1 DEF Question, Busy
<1>5. CASE Decided(t)
  <2>0. place[t] = "asking" /\ future[t] \in Decisions /\ UNCHANGED <<asked, decided, inbox>>
    BY <1>5 DEF Decided, wishes
  <2>1. sending[t] = "ask"
    BY <1>0, <2>0 DEF Stages, Stage
  <2>2. There(t) /\ Asks(t) <= Len(asked[t])
    BY <2>0, <2>1 DEF Question, Asking, NotAnswered, OnItsWay, Decisions
  <2>3. CASE Submit(t, "failed", lock, waiters)
    BY <1>1, <2>0, <2>3 DEF Answers
  <2>4. CASE Submit(t, "started", lock, waiters)
    BY <1>9, <2>0, <2>2, <2>4 DEF There
  <2>5. CASE place' = [place EXCEPT ![t] = "running"] /\ UNCHANGED written
    BY <1>0, <1>2, <2>0, <2>2, <2>5 DEF There
  <2> QED BY <1>5, <2>3, <2>4, <2>5, DecidedSends
<1>6. ASSUME NEW tool \in Tools, RunAllowed(t, tool) PROVE Question(t)'
  <2>1. Submit(t, "started", lock, waiters) /\ place[t] = "running" /\ UNCHANGED <<asked, decided, inbox>>
    BY <1>6 DEF RunAllowed, Running, wishes
  <2> QED BY <1>9, <2>1 DEF Question, Busy
<1>10. CASE ToolEnds(t)
  <2>1. place[t] = "tool" /\ place'[t] = "running" /\ UNCHANGED <<written, asked, decided, inbox>>
    BY <1>0, <1>10 DEF ToolEnds, permission, wishes
  <2> QED BY <1>2, <2>1 DEF Question, Busy
<1>7. ASSUME NEW tool \in Tools, Ask(t, tool) PROVE Question(t)'
  <2>1. /\ Submit(t, "ask", lock, waiters) /\ place[t] = "running" /\ UNCHANGED <<decided, inbox>>
        /\ future'[t] = "open" /\ asked'[t] = Append(asked[t], tool)
    BY <1>0, <1>7 DEF Ask, Running, wishes
  <2>2. Len(decided[t]) = Len(asked[t]) /\ NoReply(t) /\ Asks(t) <= Len(asked[t])
    BY <2>1 DEF Question, Busy
  <2>3. Len(asked'[t]) = Len(asked[t]) + 1
    BY <1>0, <2>1, Appended
  <2>4. sending'[t] = "ask" /\ Begun(t)' /\ ~Busy(t)'
    BY <1>0, <2>1, SubmitIs DEF Begun, Busy
  <2>5. NoReply(t)'
    BY <2>1, <2>2 DEF NoReply, InInbox
  <2>6. NotAnswered(t)' /\ asked'[t] # <<>>
    <3>1. Len(decided'[t]) = Len(asked'[t]) - 1
      BY <1>00, <2>1, <2>2, <2>3
    <3>2. Len(asked'[t]) # 0
      BY <1>00, <2>3
    <3>3. asked'[t] # <<>>
      BY <3>2
    <3> QED BY <2>1, <2>5, <3>1, <3>3 DEF NotAnswered
  <2>7. Asks(t)' <= Len(asked'[t]) /\ (place'[t] = "waiting" => Asks(t)' < Len(asked'[t]))
    <3>1. "ask" \in Kinds BY DEF Kinds
    <3>2. CASE place'[t] = "draining" /\ written'[t] = Append(written[t], "ask")
      <4>1. Asks(t)' = Asks(t) + 1
        BY <1>0, <3>1, <3>2, AsksIs
      <4> QED BY <1>00, <2>2, <2>3, <3>2, <4>1
    <3>3. CASE written'[t] = written[t]
      <4>1. Asks(t)' = Asks(t)
        BY <1>0, <3>3, AsksIs
      <4> QED BY <1>00, <2>2, <2>3, <4>1
    <3> QED BY <1>0, <2>1, <3>2, <3>3, SubmitIs
  <2>8. Len(decided'[t]) <= Len(asked'[t])
    BY <1>00, <2>1, <2>2, <2>3
  <2> QED BY <2>4, <2>6, <2>7, <2>8 DEF Question
<1>8. ASSUME NEW kind \in {"result", "failed"}, EndTurn(t, kind) PROVE Question(t)'
  <2>1. kind \in Answers
    BY DEF Answers
  <2> QED BY <1>1, <1>8, <2>1 DEF EndTurn, permission
<1> QED BY <1>3, <1>4, <1>5, <1>6, <1>7, <1>8, <1>10 DEF Turn

\* A step keeps every question in order.
LEMMA QuestionsStep ==
  ASSUME Parts, Next
  PROVE  Questions'
<1>0. Types /\ Lines /\ Questions /\ RepliesDecided
      /\ decided \in [Turns -> Seq(Decisions)] /\ future \in [Turns -> Decisions \cup {"none", "open"}]
  BY DEF Parts, Types, TalkTypes
<1>1. SUFFICES ASSUME NEW t \in Turns PROVE Question(t)'
  BY DEF Questions
<1>2. Question(t) /\ t \in Requests
  BY <1>0 DEF Questions, Requests
<1>3. ASSUME Client \/ ReadLoop, SameReplies(t), asked'[t] = asked[t],
  decided'[t] = decided[t], future'[t] = future[t]
      PROVE  Question(t)'
  <2>1. /\ Begun(t)' <=> Begun(t)
        /\ Begun(t) => place'[t] = place[t]
        /\ sending'[t] = sending[t] /\ written'[t] = written[t]
    BY <1>0, <1>2, <1>3, Outside, PlacesOutside
  <2> QED BY <1>0, <1>2, <1>3, <2>1, QuestionElsewhere
<1>4. ASSUME Client PROVE Question(t)'
  <2>1. ASSUME NEW r \in Requests, SendRequest(r) PROVE Question(t)'
    <3>1. SameReplies(t)
      BY <1>0, <2>1, SendRequestIs, RepliesPosted
    <3> QED BY <1>3, <1>4, <2>1, <3>1 DEF SendRequest, permission
  <2>2. ASSUME NEW u \in Turns, SendStop(u) PROVE Question(t)'
    <3>1. Msg("stop", u, "none") \in Message /\ inbox' = Append(inbox, Msg("stop", u, "none")) /\ Msg("stop", u, "none").kind # "reply"
      BY <2>2 DEF SendStop, Send, Msg, Message, Requests
    <3>2. SameReplies(t)
      BY <1>0, <3>1, RepliesPosted
    <3> QED BY <1>3, <1>4, <2>2, <3>2 DEF SendStop, permission
  <2>3. ASSUME NEW u \in Turns, NEW d \in Decisions, SendReply(u, d) PROVE Question(t)'
    <3>1. CASE u = t
      BY <1>0, <1>2, <2>3, <3>1, QuestionReplied
    <3>2. CASE u # t
      <4>1. Msg("reply", u, d) \in Message /\ inbox' = Append(inbox, Msg("reply", u, d)) /\ Msg("reply", u, d).about # t
        BY <2>3, <3>2 DEF SendReply, Send, Msg, Message, Requests
      <4>2. SameReplies(t)
        BY <1>0, <4>1, RepliesPosted
      <4>3. asked'[t] = asked[t] /\ decided'[t] = decided[t] /\ future'[t] = future[t]
        BY <1>0, <2>3, <3>2 DEF SendReply
      <4> QED BY <1>3, <1>4, <4>2, <4>3
    <3> QED BY <3>1, <3>2
  <2>4. CASE SendExit
    <3>1. Msg("exit", Nobody, "none") \in Message /\ inbox' = Append(inbox, Msg("exit", Nobody, "none"))
          /\ Msg("exit", Nobody, "none").kind # "reply"
      BY <2>4 DEF SendExit, Send, Msg, Message
    <3>2. SameReplies(t)
      BY <1>0, <3>1, RepliesPosted
    <3> QED BY <1>3, <1>4, <2>4, <3>2 DEF SendExit, permission
  <2>5. ASSUME NEW how \in {"closed", "gone"}, Close(how) PROVE Question(t)'
    BY <1>3, <1>4, <2>5, RepliesAlone DEF Close, permission
  <2> QED BY <1>4, <2>1, <2>2, <2>3, <2>4, <2>5 DEF Client, Reply
<1>5. ASSUME ReadLoop PROVE Question(t)'
  <2>1. CASE ReceiveRequest \/ ReceiveStop \/ ReceiveExit
    <3>1. inbox # <<>> /\ inbox' = Tail(inbox) /\ UNCHANGED <<asked, decided, future>>
      BY <2>1 DEF ReceiveRequest, ReceiveStop, ReceiveExit, Receive, permission
    <3> QED BY <1>0, <1>3, <1>5, <3>1, RepliesTaken
  <2>2. CASE ReceiveReply
    <3>1. PICK u \in Turns :
           /\ inbox # <<>> /\ inbox[1].kind = "reply" /\ inbox[1].about = u /\ inbox[1].decision \in Decisions
           /\ inbox' = Tail(inbox)
           /\ future' = IF future[u] = "open" THEN [future EXCEPT ![u] = inbox[1].decision] ELSE future
      BY <1>0, <2>2, ReceiveReplyIs
    <3>2. UNCHANGED <<place, sending, written, asked, decided>>
      BY <2>2 DEF ReceiveReply, server
    <3>3. CASE u = t
      BY <1>0, <1>2, <3>1, <3>2, <3>3, QuestionResolved
    <3>4. CASE u # t
      <4>1. future'[t] = future[t]
        BY <1>0, <3>1, <3>4
      <4> QED BY <1>0, <1>3, <1>5, <3>1, <3>2, <4>1, RepliesTaken
    <3> QED BY <3>3, <3>4
  <2>3. CASE ReceiveEnd \/ Finish
    BY <1>3, <1>5, <2>3, RepliesAlone DEF ReceiveEnd, Finish, permission, wishes
  <2> QED BY <1>5, <2>1, <2>2, <2>3 DEF ReadLoop
<1>6. ASSUME NEW q \in Requests, q # t, Task(q) \/ (q \in Turns /\ Turn(q)) PROVE Question(t)'
  <2>1. place'[t] = place[t] /\ sending'[t] = sending[t] /\ written'[t] = written[t]
    BY <1>0, <1>2, <1>6, Others
  <2>2. UNCHANGED inbox /\ asked'[t] = asked[t] /\ decided'[t] = decided[t] /\ future'[t] = future[t]
    BY <1>0, <1>6, TalkElsewhere
  <2>3. SameReplies(t) /\ (Begun(t)' <=> Begun(t))
    BY <2>1, <2>2, RepliesAlone DEF Begun
  <2> QED BY <1>0, <1>2, <2>1, <2>2, <2>3, QuestionElsewhere
<1> QED BY <1>2, <1>4, <1>5, <1>6, QuestionOfTask, QuestionOfTurn DEF Next, Requests

-----------------------------------------------------------------------------
(* What a task says about its request. *)

\* The places of a task that was created and is not over.
Alive == {"spawned", "running", "asking", "tool", "waiting", "draining"}

\* What a step of a task does to the conversation about its request: nothing...
Silent(q) == written'[q] = written[q] /\ place'[q] \in Alive \ {"spawned"}

\* ...or it writes a message...
Says(q) == written'[q] = Append(written[q], sending'[q]) /\ sending'[q] \in Kinds /\ place'[q] = "draining"

\* ...or it ends the task, with its answer drained or with an error.
Leaves(q) ==
  /\ written'[q] = written[q] /\ place'[q] = "over"
  /\ (place[q] = "draining" /\ sending[q] \in Answers) \/ must[q]

\* Every step of a task is one of these.
LEMMA TaskSteps ==
  ASSUME Parts, NEW q \in Requests, Task(q) \/ (q \in Turns /\ Turn(q))
  PROVE  place[q] \in Alive /\ (Silent(q) \/ Says(q) \/ Leaves(q))
<1>0. Types /\ Lines /\ Stages /\ Marks
      /\ place \in [Requests -> {"unsent", "sent", "spawned", "running", "asking", "tool", "waiting", "draining", "over"}]
      /\ written \in [Requests -> Seq(Kinds)] /\ sending \in [Requests -> Kinds \cup {"nothing"}]
  BY DEF Parts, Types, TaskTypes
<1>1. ASSUME NEW kind \in Kinds, NEW lk, NEW ws, Submit(q, kind, lk, ws)
      PROVE  Silent(q) \/ Says(q)
  BY <1>0, <1>1, SubmitIs DEF Silent, Says, Alive
<1>2. {"event", "ask", "started", "refused", "result", "failed", "cancelled"} \subseteq Kinds
  BY DEF Kinds, Answers
<1>3. CASE Refuse(q)
  BY <1>0, <1>1, <1>2, <1>3, BeginsIs DEF Refuse, Alive
<1>4. CASE HandleShutdown(q)
  BY <1>0, <1>1, <1>2, <1>4, BeginsIs DEF HandleShutdown, Alive
<1>5. CASE HandleCancel(q)
  BY <1>0, <1>1, <1>2, <1>5, BeginsIs DEF HandleCancel, Alive
<1>6. CASE \E kind \in {"result", "failed"} : HandlePlain(q, kind)
  BY <1>0, <1>1, <1>2, <1>6, BeginsIs DEF HandlePlain, Alive
<1>7. CASE Acquire(q)
  <2>1. place[q] = "waiting" /\ place'[q] = "draining" /\ written'[q] = Append(written[q], sending'[q])
        /\ sending'[q] = sending[q]
    BY <1>0, <1>7 DEF Acquire
  <2>2. sending[q] \in Kinds
    BY <1>0, <2>1 DEF Stages, Stage
  <2> QED BY <2>1, <2>2 DEF Says, Alive
<1>8. CASE Drained(q)
  <2> DEFINE p == AfterSending(sending[q])
  <2>1. place[q] = "draining" /\ place' = [place EXCEPT ![q] = p] /\ written'[q] = written[q]
    BY <1>8 DEF Drained
  <2>2. sending[q] \in Answers \cup {"event", "ask", "started"}
    BY <1>0, <2>1 DEF Stages, Stage, Kinds
  <2>3. place'[q] = p /\ p \in {"running", "asking", "tool", "over"} /\ (p = "over" => sending[q] \in Answers)
    BY <1>0, <2>1, <2>2, AfterSendingIs
  <2> HIDE DEF p
  <2> QED BY <2>1, <2>3 DEF Silent, Leaves, Alive
<1>9. CASE DrainFails(q)
  <2>0. place[q] = "draining"
    BY <1>9 DEF DrainFails
  <2>1. CASE sending[q] \in Answers
    BY <1>0, <1>9, <2>0, <2>1 DEF DrainFails, Leaves, Alive
  <2>2. CASE sending[q] \notin Answers
    BY <1>1, <1>2, <1>9, <2>0, <2>2 DEF DrainFails, Alive
  <2> QED BY <2>1, <2>2
<1>10. CASE Interrupted(q)
  <2>0. place[q] \in Alive /\ must[q]
    BY <1>0, <1>10 DEF Interrupted, Marks, Registered, Alive
  <2>1. CASE sending[q] \in Answers
    <3>1. place' = [place EXCEPT ![q] = "over"] /\ UNCHANGED written
      BY <1>10, <2>1 DEF Interrupted
    <3> QED BY <1>0, <2>0, <3>1 DEF Leaves
  <2>2. CASE sending[q] \notin Answers
    <3>1. Submit(q, "cancelled", IF lock = q THEN Nobody ELSE lock, Without(waiters, q))
      BY <1>10, <2>2 DEF Interrupted
    <3> QED BY <1>1, <1>2, <2>0, <3>1
  <2> QED BY <2>1, <2>2
<1>11. CASE BeginTurn(q)
  BY <1>0, <1>11, BeginsIs DEF BeginTurn, Silent, Alive
<1>12. CASE SendEvent(q)
  BY <1>1, <1>2, <1>12 DEF SendEvent, Running, Alive
<1>13. CASE q \in Turns /\ Decided(q)
  <2>0. place[q] = "asking"
    BY <1>13 DEF Decided
  <2>1. ASSUME NEW kind \in {"failed", "started"}, Submit(q, kind, lock, waiters)
        PROVE  place[q] \in Alive /\ (Silent(q) \/ Says(q))
    BY <1>1, <1>2, <2>0, <2>1 DEF Alive
  <2>2. CASE place' = [place EXCEPT ![q] = "running"] /\ UNCHANGED written
    BY <1>0, <2>0, <2>2 DEF Silent, Alive
  <2> QED BY <1>13, <2>1, <2>2, DecidedSends
<1>14. CASE \E tool \in Tools : RunAllowed(q, tool)
  BY <1>1, <1>2, <1>14 DEF RunAllowed, Running, Alive
<1>17. CASE ToolEnds(q)
  BY <1>0, <1>17 DEF ToolEnds, Silent, Alive
<1>15. CASE \E tool \in Tools : Ask(q, tool)
  BY <1>1, <1>2, <1>15 DEF Ask, Running, Alive
<1>16. CASE \E kind \in {"result", "failed"} : EndTurn(q, kind)
  BY <1>1, <1>2, <1>16 DEF EndTurn, Running, Alive
<1> QED
  BY <1>3, <1>4, <1>5, <1>6, <1>7, <1>8, <1>9, <1>10, <1>11, <1>12, <1>13, <1>14, <1>15,
    <1>16, <1>17 DEF Task, Turn

\* A step writes at most one message about a request.
LEMMA WrittenGrows ==
  ASSUME Parts, Next, NEW r \in Requests
  PROVE  written'[r] = written[r] \/ (written'[r] = Append(written[r], sending'[r]) /\ sending'[r] \in Kinds)
<1>0. Types /\ Lines
  BY DEF Parts
<1>1. CASE Client \/ ReadLoop
  BY <1>0, <1>1, Outside
<1>2. ASSUME NEW q \in Requests, Task(q) \/ (q \in Turns /\ Turn(q))
      PROVE  written'[r] = written[r] \/ (written'[r] = Append(written[r], sending'[r]) /\ sending'[r] \in Kinds)
  <2>1. CASE q = r
    BY <1>2, <2>1, TaskSteps DEF Silent, Says, Leaves
  <2>2. CASE q # r
    BY <1>0, <1>2, <2>2, Others
  <2> QED BY <2>1, <2>2
<1> QED BY <1>1, <1>2 DEF Next, Requests

\* A step writes nothing but a refusal about a late request.
LEMMA LateStep ==
  ASSUME Parts, Next, LateRequestsRefused, Order'
  PROVE  LateRequestsRefused'
<1>0. Types /\ Lines /\ Stages /\ Order /\ written \in [Requests -> Seq(Kinds)]
  BY DEF Parts, Types, TaskTypes
<1>1. ASSUME NEW r \in late', NEW k \in 1..Len(written'[r]) PROVE written'[r][k] = "refused"
  <2>1. r \in Requests /\ \A j \in 1..Len(written[r]) : written[r][j] = "refused"
    <3>1. CASE r \in late
      BY <1>0, <3>1 DEF LateRequestsRefused, Types, WishTypes
    <3>2. CASE r \notin late
      <4>1. PICK q \in Requests : SendRequest(q)
        BY <1>1, <3>2, WishesStand
      <4>2. r = q /\ written[r] = <<>>
        BY <1>0, <1>1, <3>2, <4>1 DEF SendRequest, Stages, Stage, Begun
      <4> QED BY <4>2
    <3> QED BY <3>1, <3>2
  <2>2. CASE written'[r] = written[r]
    BY <1>1, <2>1, <2>2
  <2>3. CASE written'[r] = Append(written[r], sending'[r]) /\ sending'[r] \in Kinds
    <3>1. /\ Len(written'[r]) = Len(written[r]) + 1 /\ written'[r][Len(written[r]) + 1] = sending'[r]
          /\ \A j \in 1..Len(written[r]) : written'[r][j] = written[r][j]
          /\ Len(written[r]) \in Nat
      BY <1>0, <2>1, <2>3, Appended
    <3>2. CASE k = Len(written[r]) + 1
      <4>1. Begun(r)'
        <5>1. CASE Begun(r)
          BY <2>1, <5>1, BegunStays
        <5>2. CASE ~Begun(r)
          <6>1. \E q \in Requests : Task(q) \/ (q \in Turns /\ Turn(q))
            <7>1. written'[r] # written[r]
              BY <3>1
            <7> QED BY <1>0, <7>1, Outside DEF Next, Requests
          <6>2. Task(r) \/ (r \in Turns /\ Turn(r))
            <7>1. written'[r] # written[r]
              BY <3>1
            <7> QED BY <1>0, <2>1, <6>1, <7>1, Others
          <6>3. place'[r] \in Alive \ {"spawned"} \/ place'[r] = "draining" \/ place'[r] = "over"
            BY <2>1, <6>2, TaskSteps DEF Silent, Says, Leaves
          <6> QED BY <6>3 DEF Begun, Alive
        <5> QED BY <5>1, <5>2
      <4>2. sending'[r] = "refused"
        BY <1>1, <4>1 DEF Order
      <4> QED BY <3>1, <3>2, <4>2
    <3>3. CASE k # Len(written[r]) + 1
      <4>1. k \in 1..Len(written[r])
        BY <1>1, <3>1, <3>3
      <4> QED BY <2>1, <3>1, <4>1
    <3> QED BY <3>2, <3>3
  <2> QED BY <2>1, <2>2, <2>3, WrittenGrows
<1> QED BY <1>1 DEF LateRequestsRefused

\* A step sends no reply without a decision.
LEMMA RepliesDecidedStep ==
  ASSUME Parts, Next
  PROVE  RepliesDecided'
<1>0. Types /\ RepliesDecided
  BY DEF Parts
<1>1. SUFFICES ASSUME NEW k \in 1..Len(inbox'),
  inbox'[k].kind = "reply" PROVE inbox'[k].decision \in Decisions
  BY DEF RepliesDecided
<1>2. ASSUME NEW m \in Message, inbox' = Append(inbox, m),
  m.kind = "reply" => m.decision \in Decisions
      PROVE inbox'[k].decision \in Decisions
  <2>1. /\ Len(inbox') = Len(inbox) + 1 /\ Len(inbox) \in Nat /\ inbox'[Len(inbox) + 1] = m
        /\ \A j \in 1..Len(inbox) : inbox'[j] = inbox[j]
    BY <1>0, <1>2, Posted
  <2>2. CASE k = Len(inbox) + 1
    BY <1>1, <1>2, <2>1, <2>2
  <2>3. CASE k # Len(inbox) + 1
    <3>1. k \in 1..Len(inbox)
      BY <2>1, <2>3
    <3> QED BY <1>0, <1>1, <2>1, <3>1 DEF RepliesDecided
  <2> QED BY <2>2, <2>3
<1>3. ASSUME inbox # <<>>, inbox' = Tail(inbox) PROVE inbox'[k].decision \in Decisions
  <2>1. \A j \in 1..Len(inbox') : inbox'[j] = inbox[j + 1] /\ j + 1 \in 1..Len(inbox)
    BY <1>0, <1>3, Taken
  <2> QED BY <1>0, <1>1, <2>1 DEF RepliesDecided
<1>4. CASE UNCHANGED inbox
  BY <1>0, <1>1, <1>4 DEF RepliesDecided
<1>5. ASSUME NEW r \in Requests, SendRequest(r) PROVE inbox'[k].decision \in Decisions
  BY <1>0, <1>2, <1>5, SendRequestIs
<1>6. ASSUME NEW t \in Turns, SendStop(t) PROVE inbox'[k].decision \in Decisions
  <2>1. Msg("stop", t, "none") \in Message /\ inbox' = Append(inbox, Msg("stop", t, "none")) /\ Msg("stop", t, "none").kind # "reply"
    BY <1>6 DEF SendStop, Send, Msg, Message, Requests
  <2> QED BY <1>2, <2>1
<1>7. ASSUME NEW t \in Turns, NEW d \in Decisions, SendReply(t, d)
      PROVE  inbox'[k].decision \in Decisions
  <2>1. Msg("reply", t, d) \in Message /\ inbox' = Append(inbox, Msg("reply", t, d)) /\ Msg("reply", t, d).decision = d
    BY <1>7 DEF SendReply, Send, Msg, Message, Requests
  <2> QED BY <1>2, <2>1
<1>8. CASE SendExit
  <2>1. Msg("exit", Nobody, "none") \in Message /\ inbox' = Append(inbox, Msg("exit", Nobody, "none"))
        /\ Msg("exit", Nobody, "none").kind # "reply"
    BY <1>8 DEF SendExit, Send, Msg, Message
  <2> QED BY <1>2, <2>1
<1>9. CASE ReceiveRequest \/ ReceiveStop \/ ReceiveReply \/ ReceiveExit
  BY <1>3, <1>9 DEF ReceiveRequest, ReceiveStop, ReceiveReply, ReceiveExit, Receive
<1> QED
  BY <1>4, <1>5, <1>6, <1>7, <1>8, <1>9
  DEF Next, Client, Reply, ReadLoop, Task, Turn, wishes, Close, ReceiveEnd, Finish, Refuse,
    HandleCancel,
    HandleShutdown, HandlePlain, Acquire, Drained, DrainFails, Interrupted, BeginTurn,
      SendEvent, Decided,
    RunAllowed, ToolEnds, Ask, EndTurn

-----------------------------------------------------------------------------
(* Decisions and tools. *)

\* Decisions, and the questions they answer, stand.
LEMMA DecisionsStand ==
  ASSUME Parts, Next, NEW u \in Turns, NEW k \in 1..Len(decided[u])
  PROVE  k \in 1..Len(decided'[u]) /\ decided'[u][k] = decided[u][k] /\ asked'[u][k] = asked[u][k]
<1>0. decided \in [Turns -> Seq(Decisions)] /\ asked \in [Turns -> Seq(Tools)] /\ Len(decided[u]) <= Len(asked[u])
      /\ Len(decided[u]) \in Nat /\ Len(asked[u]) \in Nat
  BY DEF Parts, Types, TalkTypes, Questions, Question
<1>1. CASE UNCHANGED <<asked, decided>>
  BY <1>1
<1>2. ASSUME NEW t \in Turns, NEW d \in Decisions, SendReply(t, d)
      PROVE  k \in 1..Len(decided'[u]) /\ decided'[u][k] = decided[u][k] /\ asked'[u][k] = asked[u][k]
  <2>1. UNCHANGED asked /\ decided' = [decided EXCEPT ![t] = Append(decided[t], d)]
    BY <1>2 DEF SendReply
  <2>2. CASE u = t
    <3>1. decided'[u] = Append(decided[u], d)
      BY <1>0, <2>1, <2>2
    <3>2. Len(decided'[u]) = Len(decided[u]) + 1 /\ \A j \in 1..Len(decided[u]) : decided'[u][j] = decided[u][j]
      BY <1>0, <3>1, Appended
    <3> QED BY <1>0, <2>1, <3>2
  <2>3. CASE u # t
    BY <1>0, <2>1, <2>3
  <2> QED BY <2>2, <2>3
<1>3. ASSUME NEW t \in Turns, NEW tool \in Tools, Ask(t, tool)
      PROVE  k \in 1..Len(decided'[u]) /\ decided'[u][k] = decided[u][k] /\ asked'[u][k] = asked[u][k]
  <2>1. UNCHANGED decided /\ asked' = [asked EXCEPT ![t] = Append(asked[t], tool)]
    BY <1>3 DEF Ask
  <2>2. CASE u = t
    <3>1. asked'[u] = Append(asked[u], tool)
      BY <1>0, <2>1, <2>2
    <3>2. \A j \in 1..Len(asked[u]) : asked'[u][j] = asked[u][j]
      BY <1>0, <3>1, Appended
    <3>3. k \in 1..Len(asked[u])
      BY <1>0
    <3> QED BY <2>1, <3>2, <3>3
  <2>3. CASE u # t
    BY <1>0, <2>1, <2>3
  <2> QED BY <2>2, <2>3
<1> QED
  BY <1>1, <1>2, <1>3
  DEF Next, Client, Reply, ReadLoop, Task, Turn, permission, SendRequest, SendStop, SendExit,
    Close,
    ReceiveRequest, ReceiveStop, ReceiveReply, ReceiveExit, ReceiveEnd, Finish, Refuse,
      HandleCancel,
    HandleShutdown, HandlePlain, Acquire, Drained, DrainFails, Interrupted, BeginTurn,
      SendEvent, Decided,
    RunAllowed, ToolEnds, EndTurn

\* A decision taken into account is the client's answer to the last question.
LEMMA DecidedIs ==
  ASSUME Parts, NEW t \in Turns, Decided(t)
  PROVE  Len(asked[t]) \in 1..Len(decided[t]) /\ decided[t][Len(asked[t])] = future[t]
<1>0. t \in Requests /\ Len(asked[t]) \in Nat
  BY DEF Parts, Types, TalkTypes, Requests
<1>1. place[t] = "asking" /\ future[t] \in Decisions
  BY DEF Decided
<1>2. Asking(t)
  BY <1>0, <1>1 DEF Asking, Parts, Stages, Stage
<1>3. There(t) /\ asked[t] # <<>>
  BY <1>0, <1>1, <1>2 DEF Parts, Questions, Question, NotAnswered, OnItsWay, Decisions
<1>4. Len(asked[t]) # 0
  BY <1>0, <1>3, EmptySeq DEF Parts, Types, TalkTypes
<1> QED BY <1>0, <1>3, <1>4 DEF There

\* A step adds to what is always allowed only what the client decided so.
LEMMA AlwaysStep ==
  ASSUME Parts, Next, AlwaysAllowed
  PROVE  AlwaysAllowed'
<1>1. ASSUME NEW tool \in always
      PROVE  \E u \in Turns : \E k \in 1..Len(decided'[u]) : asked'[u][k] = tool /\ decided'[u][k] = "allow_always"
  BY <1>1, DecisionsStand DEF AlwaysAllowed
<1>2. ASSUME NEW t \in Turns, Decided(t), NEW tool \in always', tool \notin always
      PROVE  \E u \in Turns : \E k \in 1..Len(decided'[u]) : asked'[u][k] = tool /\ decided'[u][k] = "allow_always"
  <2>1. tool = asked[t][Len(asked[t])] /\ future[t] = "allow_always"
    BY <1>2 DEF Decided
  <2> QED BY <1>2, <2>1, DecidedIs, DecisionsStand
<1>3. always' = always \/ \E t \in Turns : Decided(t)
  BY DEF Next, Client, Reply, ReadLoop, Task, Turn, permission, SendRequest, SendStop,
    SendReply, SendExit, Close,
    ReceiveRequest, ReceiveStop, ReceiveReply, ReceiveExit, ReceiveEnd, Finish, Refuse,
      HandleCancel,
    HandleShutdown, HandlePlain, Acquire, Drained, DrainFails, Interrupted, BeginTurn,
      SendEvent,
    RunAllowed, ToolEnds, Ask, EndTurn
<1> QED BY <1>1, <1>2, <1>3 DEF AlwaysAllowed

\* A step runs only what the client allowed.
LEMMA ToolsStep ==
  ASSUME Parts, Next, AlwaysAllowed, ToolsRunOnlyAllowed
  PROVE  ToolsRunOnlyAllowed'
<1>0. ran \subseteq Turns \X Tools
  BY DEF Parts, Types, TalkTypes
<1>1. ASSUME NEW p \in ran PROVE Allowed(p[1], p[2])'
  BY <1>1, DecisionsStand DEF ToolsRunOnlyAllowed, Allowed
<1>2. ASSUME NEW t \in Turns, NEW tool \in Tools, RunAllowed(t, tool) PROVE Allowed(t, tool)'
  <2>1. tool \in always
    BY <1>2 DEF RunAllowed
  <2> QED BY <2>1, DecisionsStand DEF AlwaysAllowed, Allowed
<1>3. ASSUME NEW t \in Turns, Decided(t), NEW tool, tool = asked[t][Len(asked[t])],
  future[t] \in {"allow", "allow_always"}
      PROVE  Allowed(t, tool)'
  BY <1>3, DecidedIs, DecisionsStand DEF Allowed
<1>4. ASSUME NEW p \in ran', p \notin ran PROVE Allowed(p[1], p[2])'
  <2>1. CASE ran' = ran
    BY <1>4, <2>1
  <2>2. ASSUME NEW t \in Turns, NEW tool \in Tools, RunAllowed(t, tool)
        PROVE  Allowed(p[1], p[2])'
    <3>1. p = <<t, tool>>
      BY <1>4, <2>2 DEF RunAllowed
    <3> QED BY <1>2, <2>2, <3>1
  <2>3. ASSUME NEW t \in Turns, Decided(t) PROVE Allowed(p[1], p[2])'
    <3>1. PICK tool : tool = asked[t][Len(asked[t])]
      OBVIOUS
    <3>2. p = <<t, tool>> /\ future[t] \in {"allow", "allow_always"}
      BY <1>4, <2>3, <3>1 DEF Decided
    <3> QED BY <1>3, <2>3, <3>1, <3>2
  <2> QED
    BY <2>1, <2>2, <2>3
    DEF Next, Client, Reply, ReadLoop, Task, Turn, permission, SendRequest, SendStop,
      SendReply, SendExit, Close,
      ReceiveRequest, ReceiveStop, ReceiveReply, ReceiveExit, ReceiveEnd, Finish, Refuse,
        HandleCancel,
      HandleShutdown, HandlePlain, Acquire, Drained, DrainFails, Interrupted, BeginTurn,
        SendEvent,
      ToolEnds, Ask, EndTurn
<1> QED BY <1>1, <1>4 DEF ToolsRunOnlyAllowed

-----------------------------------------------------------------------------
(* The invariant holds. *)

\* The invariant holds at the start...
LEMMA InvInit ==
  ASSUME Init
  PROVE  IInv
<1> USE BridgeAssumption DEF Requests
<1>0. Types
  <2>1. TaskTypes
    <3>1. place = [r \in Requests |-> "unsent"] /\ sending = [r \in Requests |-> "nothing"]
          /\ must = [r \in Requests |-> FALSE] /\ written = [r \in Requests |-> <<>>]
      BY DEF Init
    <3> QED BY <3>1 DEF TaskTypes
  <2>5. QueueTypes
    <3>1. loop = "reading" /\ spawned = <<>> /\ waiters = <<>> /\ lock = Nobody /\ shuttingDown = FALSE
      BY DEF Init
    <3>2. loop \in {"reading", "draining", "closed"} /\ lock \in Requests \cup {Nobody}
      BY <3>1
    <3>3. <<>> \in Seq(Requests)
      OBVIOUS
    <3>4. shuttingDown \in BOOLEAN
      BY <3>1, Zenon
    <3> QED BY <3>1, <3>2, <3>3, <3>4 DEF QueueTypes
  <2>2. TalkTypes
    BY DEF Init, TalkTypes
  <2>3. MaxStops \in Nat
    OBVIOUS
  <2>4. WishTypes
    BY <2>3 DEF Init, WishTypes
  <2> QED BY <2>1, <2>2, <2>4, <2>5 DEF Types
<1>1. TypeOK
  BY <1>0 DEF Init, TypeOK, Registered, Types, TaskTypes, QueueTypes, TalkTypes, WishTypes
<1>2. WriterQueue
  BY DEF Init, WriterQueue
<1>3. Lines
  BY DEF Init, Lines, InInbox
<1>4. Stages
  BY DEF Init, Stages, Stage, Begun, Answers
<1>5. Order
  BY DEF Init, Order, Begun
<1>6. Wishes /\ Stops
  BY DEF Init, Wishes, Stops
<1>7. ASSUME NEW t \in Turns PROVE Question(t)
  <2>1. {k \in 1..Len(written[t]) : written[t][k] = "ask"} = {}
    BY DEF Init
  <2>2. Asks(t) = 0
    BY <2>1, FS_EmptySet DEF Asks
  <2> QED BY <2>2 DEF Init, Question, NoReply, InInbox, Busy, Asking, Begun
<1>8. RepliesDecided /\ AlwaysAllowed /\ ToolsRunOnlyAllowed /\ LateRequestsRefused /\ CancelledTurnsStop
  BY DEF Init, RepliesDecided, AlwaysAllowed, ToolsRunOnlyAllowed, LateRequestsRefused,
    CancelledTurnsStop
<1> QED BY <1>1, <1>2, <1>3, <1>4, <1>5, <1>6, <1>7, <1>8 DEF IInv, Questions

\* The next state is well typed.
LEMMA TypesAndMarks ==
  ASSUME Types', Marked', Stages', Questions'
  PROVE  TypeOK'
<1>1. ASSUME NEW t \in Turns, place'[t] = "asking" PROVE asked'[t] # <<>> /\ future'[t] # "none"
  <2>1. t \in Requests
    BY DEF Requests
  <2>2. Asking(t)'
    BY <1>1, <2>1 DEF Asking, Stages, Stage
  <2>3. Question(t)'
    BY DEF Questions
  <2> QED BY <2>2, <2>3 DEF Question, NotAnswered, OnItsWay, There, Decisions
<1> QED BY <1>1 DEF TypeOK, Types, TaskTypes, QueueTypes, TalkTypes, WishTypes, Marked

\* Stops keeps a cancelled turn from a result, because an answer is the last it sends.
LEMMA StoppedDoNotComplete ==
  ASSUME Types', Stages', Stops'
  PROVE  CancelledTurnsStop'
<1>1. ASSUME NEW t \in stopped', Wrote(t, "result")' PROVE FALSE
  <2>1. t \in Requests
    BY DEF Types, WishTypes, Requests
  <2>2. PICK k \in 1..Len(written'[t]) : written'[t][k] = "result"
    BY <1>1 DEF Wrote
  <2>3. sending'[t] = "result"
    BY <2>1, <2>2 DEF Stages, Stage, Answers
  <2> QED BY <2>3 DEF Stops
<1> QED BY <1>1 DEF CancelledTurnsStop

\* ...a step keeps it...
LEMMA InvStep ==
  ASSUME IInv, Next
  PROVE  IInv'
<1>1. Parts /\ AlwaysAllowed /\ ToolsRunOnlyAllowed /\ LateRequestsRefused
  BY PartsAre DEF IInv
<1>2. Types'
  BY TaskTypesStep, QueueTypesStep, TalkTypesStep, WishTypesStep DEF Types
<1>3. Stages' /\ Marked' /\ Questions'
  BY <1>1, StagesStep, MarkedStep, QuestionsStep
<1>4. TypeOK'
  BY <1>2, <1>3, TypesAndMarks
<1>5. WriterQueue' /\ Lines' /\ Order' /\ Wishes' /\ Stops' /\ RepliesDecided'
  BY <1>1, WriterQueueStep, LinesStep, OrderStep, WishesStep, StopsStep, RepliesDecidedStep
<1>6. AlwaysAllowed' /\ ToolsRunOnlyAllowed'
  BY <1>1, AlwaysStep, ToolsStep
<1>7. LateRequestsRefused'
  BY <1>1, <1>5, LateStep
<1>8. CancelledTurnsStop'
  BY <1>2, <1>3, <1>5, StoppedDoNotComplete
<1> QED BY <1>3, <1>4, <1>5, <1>6, <1>7, <1>8 DEF IInv

\* ...and so does no step...
LEMMA InvStutter ==
  ASSUME IInv, UNCHANGED vars
  PROVE  IInv'
<1> USE DEF vars, server, permission, wishes
<1>1. TypeOK'
  BY DEF IInv, TypeOK, Registered
<1>2. WriterQueue' /\ Lines'
  BY DEF IInv, WriterQueue, Lines, InInbox
<1>3. Stages'
  BY DEF IInv, Stages, Stage, Begun, Wrote
<1>4. Order'
  BY DEF IInv, Order, Ahead, Begun
<1>5. Wishes' /\ Stops'
  BY DEF IInv, Wishes, Stops, Begun
<1>6. ASSUME NEW t \in Turns PROVE Question(t)'
  <2>1. Asks(t)' = Asks(t)
    BY DEF Asks
  <2>2. (Begun(t)' <=> Begun(t)) /\ (Busy(t)' <=> Busy(t)) /\ (Asking(t)' <=> Asking(t)) /\ (NoReply(t)' <=> NoReply(t))
        /\ (NotAnswered(t)' <=> NotAnswered(t)) /\ (OnItsWay(t)' <=> OnItsWay(t)) /\ (There(t)' <=> There(t))
    BY DEF Begun, Busy, Asking, NoReply, NotAnswered, OnItsWay, OneReply, There, InInbox
  <2> QED BY <2>1, <2>2 DEF IInv, Questions, Question
<1>7. RepliesDecided' /\ AlwaysAllowed' /\ ToolsRunOnlyAllowed' /\ LateRequestsRefused' /\ CancelledTurnsStop'
  BY DEF IInv, RepliesDecided, AlwaysAllowed, ToolsRunOnlyAllowed, Allowed,
    LateRequestsRefused, CancelledTurnsStop, Wrote
<1> QED BY <1>1, <1>2, <1>3, <1>4, <1>5, <1>6, <1>7 DEF IInv, Questions

\* ...so it always holds.
LEMMA Invariance == Spec => []IInv
<1>1. IInv /\ [Next]_vars => IInv'
  BY InvStep, InvStutter
<1> QED BY <1>1, InvInit, PTL DEF Spec

(***************************************************************************)
(* Every variable has its type, only registered tasks have a               *)
(* CancelledError coming, and a turn that waits for a reply has asked for  *)
(* a tool and has its future (bridge/server.py, _inflight_by_request_id    *)
(* and _pending).                                                          *)
(***************************************************************************)
THEOREM TypeCorrect == Spec => []TypeOK
<1>1. IInv => TypeOK
  BY DEF IInv
<1> QED BY <1>1, Invariance, PTL

(***************************************************************************)
(* The write lock survives any cancellation at any point: whoever drains   *)
(* holds it and nobody else does, and who waits stands in its queue once.  *)
(***************************************************************************)
THEOREM OneWriterAtATime == Spec => []WriterQueue
<1>1. IInv => WriterQueue
  BY DEF IInv
<1> QED BY <1>1, Invariance, PTL

(***************************************************************************)
(* A tool runs only if the client allowed it for this turn, or always      *)
(* (BridgePermissionResolver), however late or crossed the replies are.    *)
(***************************************************************************)
THEOREM NoToolWithoutPermission == Spec => []ToolsRunOnlyAllowed
<1>1. IInv => ToolsRunOnlyAllowed
  BY DEF IInv
<1> QED BY <1>1, Invariance, PTL

(***************************************************************************)
(* A request the client sent after a shutdown gets nothing but the         *)
(* ShuttingDown error, although requests are dispatched in tasks of their  *)
(* own.                                                                    *)
(***************************************************************************)
THEOREM NothingAfterShutdown == Spec => []LateRequestsRefused
<1>1. IInv => LateRequestsRefused
  BY DEF IInv
<1> QED BY <1>1, Invariance, PTL

(***************************************************************************)
(* A turn cancelled before its answer, anywhere but in a tool, does not    *)
(* complete: the cancellation stays with it until it arrives, and no step  *)
(* of the turn comes in between.                                           *)
(***************************************************************************)
THEOREM CancelledTurnsDoNotComplete == Spec => []CancelledTurnsStop
<1>1. IInv => CancelledTurnsStop
  BY DEF IInv
<1> QED BY <1>1, Invariance, PTL

\* A session.cancel has its result in the step of its handler only.
LEMMA CancelHandled ==
  ASSUME Parts, Next, NEW c \in Cancels, place[c] = "spawned", sending'[c] = "result"
  PROVE  HandleCancel(c)
<1>0. Types /\ Lines /\ Stages /\ Marks /\ c \in Requests /\ c \notin Turns \cup Shutdowns \cup Plain
  BY BridgeAssumption DEF Parts, Requests
<1>1. sending'[c] # sending[c]
  BY <1>0 DEF Stages, Stage, Begun
<1>2. Task(c)
  <2>1. \E q \in Requests : Task(q) \/ (q \in Turns /\ Turn(q))
    BY <1>0, <1>1, Outside DEF Next, Requests
  <2> QED BY <1>0, <1>1, <2>1, Others
<1>3. ~must[c]
  BY <1>0 DEF Marks, Registered
<1>4. CASE Refuse(c)
  BY <1>0, <1>4, SubmitIs DEF Refuse
<1> QED BY <1>0, <1>2, <1>3, <1>4
    DEF Task, HandleShutdown, HandlePlain, Acquire, Drained, DrainFails, Interrupted

\* The handler of a session.cancel finds the turn begun.
LEMMA CancelReaches ==
  ASSUME Parts, NEW c \in Cancels, HandleCancel(c)
  PROVE  \/ must'[target[c]]
         \/ place[target[c]] = "over" \/ sending[target[c]] = "refused"
<1>0. Types /\ Lines /\ Order /\ c \in Requests
      /\ place \in [Requests -> {"unsent", "sent", "spawned", "running", "asking", "tool", "waiting", "draining", "over"}]
      /\ must \in [Requests -> BOOLEAN]
  BY DEF Parts, Requests, Types, TaskTypes
<1>1. Begins(c) /\ CancelTask(target[c])
  BY DEF HandleCancel
<1>2. target[c] \in Turns /\ Ahead(target[c], c)
  BY <1>0, <1>1, BeginsIs DEF Order
<1>3. target[c] \in Requests
  BY <1>2 DEF Requests
<1>4. Begun(target[c])
  BY <1>0, <1>1, <1>2, <1>3, AheadBegun
<1>5. CASE Registered(target[c])
  BY <1>0, <1>1, <1>3, <1>5 DEF CancelTask
<1>6. CASE ~Registered(target[c])
  BY <1>0, <1>3, <1>4, <1>6 DEF Registered, Begun
<1> QED BY <1>5, <1>6

(***************************************************************************)
(* A session.cancel finds its turn registered, over or refused: it cannot  *)
(* come too early, because tasks begin in the order they were created in.  *)
(***************************************************************************)
THEOREM CancelRequestsFindTheirTurn == Spec => CancelRequestsReach
<1>1. ASSUME IInv, Next, NEW c \in Cancels, place[c] = "spawned", sending'[c] = "result"
      PROVE  \/ must'[target[c]]
             \/ place[target[c]] = "over" \/ sending[target[c]] = "refused"
  BY <1>1, PartsAre, CancelHandled, CancelReaches
<1>2. IInv /\ [Next]_vars =>
        [\A c \in Cancels : place[c] = "spawned" /\ sending'[c] = "result" =>
           \/ must'[target[c]]
           \/ place[target[c]] = "over" \/ sending[target[c]] = "refused"]_vars
  BY <1>1
<1> QED BY <1>2, Invariance, PTL DEF Spec, CancelRequestsReach

-----------------------------------------------------------------------------
(* The server keeps the promise of Conversation: its initial states map to *)
(* the initial state, and each of its steps to a step of the conversation  *)
(* about one request, or to none.                                          *)

\* The status of the conversation about r, and the conversations as they are mapped.
Status(r) ==
  IF Answered(r) THEN "answered"
  ELSE IF place[r] = "over" THEN "dropped"
  ELSE IF place[r] \in {"unsent", "sent"} THEN "unsent" ELSE "open"

Statuses == [r \in Requests |-> Status(r)]
Talks == [r \in Requests |-> Len(written[r])]

\* Nothing new of a request leaves its status.
LEMMA StatusSame ==
  ASSUME NEW r \in Requests, place'[r] = place[r], written'[r] = written[r]
  PROVE  Status(r)' = Status(r)
BY DEF Status, Answered, Wrote

\* What a status is, given that nothing is written before a task begins.
LEMMA StatusIs ==
  ASSUME Types, Stages, NEW r \in Requests
  PROVE  /\ Answered(r) => Status(r) = "answered"
         /\ ~Answered(r) /\ place[r] = "over" => Status(r) = "dropped"
         /\ place[r] \in {"unsent", "sent"} => Status(r) = "unsent"
         /\ ~Answered(r) /\ place[r] \in Alive => Status(r) = "open"
         /\ Answered(r) <=> \E k \in 1..Len(written[r]) : written[r][k] \in Answers
<1>1. Answered(r) <=> \E k \in 1..Len(written[r]) : written[r][k] \in Answers
  BY DEF Answered, Wrote
<1>2. place[r] \in {"unsent", "sent"} => ~Answered(r)
  BY <1>1 DEF Stages, Stage, Begun
<1> QED BY <1>1, <1>2 DEF Status, Alive

\* The cases of a status...
LEMMA StatusRead ==
  ASSUME NEW r
  PROVE  /\ Answered(r) => Status(r) = "answered"
         /\ ~Answered(r) /\ place[r] = "over" => Status(r) = "dropped"
         /\ ~Answered(r) /\ place[r] \in {"unsent", "sent"} => Status(r) = "unsent"
         /\ ~Answered(r) /\ place[r] \in Alive => Status(r) = "open"
BY DEF Status, Alive

\* ...and of the next one.
LEMMA StatusReadNext ==
  ASSUME NEW r
  PROVE  /\ Answered(r)' => Status(r)' = "answered"
         /\ ~Answered(r)' /\ place'[r] = "over" => Status(r)' = "dropped"
         /\ ~Answered(r)' /\ place'[r] \in {"unsent", "sent"} => Status(r)' = "unsent"
         /\ ~Answered(r)' /\ place'[r] \in Alive => Status(r)' = "open"
BY DEF Status, Alive

\* The mapped conversation.
Mapped == <<Statuses, Talks, unwanted>>

\* The status of one request changes.
LEMMA StatusChanges ==
  ASSUME NEW q \in Requests, NEW st, Status(q)' = st,
         \A r \in Requests \ {q} : Status(r)' = Status(r)
  PROVE  Statuses' = [Statuses EXCEPT ![q] = st] /\ Statuses[q] = Status(q) /\ (st = Status(q) => Statuses' = Statuses)
BY DEF Statuses

\* There is one message more about one request.
LEMMA TalkChanges ==
  ASSUME Types, NEW q \in Requests, \A r \in Requests \ {q} : written'[r] = written[r]
  PROVE  /\ written'[q] = written[q] => Talks' = Talks
         /\ Len(written'[q]) = Len(written[q]) + 1 => Talks' = [Talks EXCEPT ![q] = Talks[q] + 1]
BY DEF Talks

\* An open conversation goes on, ends with its answer, or is dropped.
LEMMA PromiseSteps ==
  ASSUME NEW q \in Requests, Statuses[q] = "open"
  PROVE  /\ Statuses' = [Statuses EXCEPT ![q] = "answered"] /\ Talks' = [Talks EXCEPT ![q] = Talks[q] + 1]
              /\ UNCHANGED unwanted => Promise!Answer(q)
         /\ UNCHANGED <<Statuses, unwanted>> /\ Talks' = [Talks EXCEPT ![q] = Talks[q] + 1] => Promise!Tell(q)
         /\ q \in unwanted /\ Statuses' = [Statuses EXCEPT ![q] = "dropped"] /\ UNCHANGED <<Talks, unwanted>>
              => Promise!Drop(q)
BY DEF Promise!Answer, Promise!Tell, Promise!Drop, Statuses, Talks, Status

\* A conversation begins.
LEMMA TakeUpStep ==
  ASSUME NEW q \in Requests, Statuses[q] = "unsent",
         Statuses' = [Statuses EXCEPT ![q] = "open"],
         UNCHANGED <<Talks, unwanted>>
  PROVE  Promise!TakeUp(q)
BY DEF Promise!TakeUp, Statuses, Talks, Status

\* The client asks to cancel.
LEMMA UnwantStep ==
  ASSUME NEW q \in Requests, UNCHANGED <<Statuses, Talks>>, unwanted' = unwanted \cup {q}
  PROVE  Promise!Unwant(q)
BY DEF Promise!Unwant, Statuses, Talks, Status

\* The step of a task is a step of the conversation about its request, or none.
LEMMA TaskConverses ==
  ASSUME Parts, Stages', Types', NEW q \in Requests, Task(q) \/ (q \in Turns /\ Turn(q)),
         UNCHANGED unwanted
  PROVE  Promise!Next \/ UNCHANGED Mapped
<1>0. Types /\ Lines /\ Stages /\ Wishes /\ written \in [Requests -> Seq(Kinds)] /\ place[q] \in Alive
  BY TaskSteps DEF Parts, Types, TaskTypes
<1>1. \A r \in Requests \ {q} : place'[r] = place[r] /\ written'[r] = written[r]
  BY <1>0, Others
<1>2. \A r \in Requests \ {q} : Status(r)' = Status(r)
  BY <1>1, StatusSame
<1>3. Statuses[q] = Status(q)
  BY DEF Statuses
<1>4. Answered(q) <=> \E k \in 1..Len(written[q]) : written[q][k] \in Answers
  BY <1>0, StatusIs
<1>5. (Answered(q) <=> \E k \in 1..Len(written[q]) : written[q][k] \in Answers)'
  BY DEF Answered, Wrote
<1>6. CASE written'[q] = written[q]
  <2>1. Answered(q)' <=> Answered(q)
    BY <1>4, <1>5, <1>6
  <2>2. Talks' = Talks
    BY <1>0, <1>1, <1>6, TalkChanges
  <2>3. CASE Answered(q) \/ place'[q] # "over"
    <3>1. ASSUME Answered(q) PROVE Status(q)' = Status(q)
      BY <2>1, <3>1, StatusRead, StatusReadNext
    <3>2. ASSUME ~Answered(q), place'[q] # "over" PROVE Status(q)' = Status(q)
      <4>1. place'[q] \in Alive
        BY <3>2, TaskSteps DEF Silent, Says, Leaves, Alive
      <4> QED BY <1>0, <2>1, <3>2, <4>1, StatusRead, StatusReadNext
    <3>3. Status(q)' = Status(q)
      BY <2>3, <3>1, <3>2
    <3>4. Statuses' = Statuses
      BY <1>2, <3>3, StatusChanges
    <3> QED BY <2>2, <3>4 DEF Mapped
  <2>4. CASE ~Answered(q) /\ place'[q] = "over"
    <3>1. must[q]
      <4>1. Leaves(q)
        BY <1>6, <2>4, TaskSteps DEF Silent, Says, Alive
      <4>2. ~(place[q] = "draining" /\ sending[q] \in Answers)
        BY <1>0, <1>4, <2>4 DEF Stages, Stage, Wrote
      <4> QED BY <4>1, <4>2 DEF Leaves
    <3>2. q \in unwanted
      BY <1>0, <3>1 DEF Wishes
    <3>3. Status(q) = "open" /\ Status(q)' = "dropped"
      BY <1>0, <2>1, <2>4 DEF Status, Alive
    <3>4. Statuses' = [Statuses EXCEPT ![q] = "dropped"]
      BY <1>2, <3>3, StatusChanges
    <3>5. Promise!Drop(q)
      BY <1>3, <2>2, <3>2, <3>3, <3>4, PromiseSteps
    <3> QED BY <3>5 DEF Promise!Next
  <2> QED BY <2>3, <2>4
<1>7. CASE Says(q)
  <2>1. /\ Len(written'[q]) = Len(written[q]) + 1 /\ Len(written[q]) \in Nat
        /\ written'[q][Len(written[q]) + 1] = sending'[q]
        /\ \A k \in 1..Len(written[q]) : written'[q][k] = written[q][k]
    BY <1>0, <1>7, Appended DEF Says
  <2>2. \A k \in 1..Len(written[q]) : written[q][k] \notin Answers
    <3>1. ASSUME NEW k \in 1..Len(written[q]), written[q][k] \in Answers PROVE FALSE
      <4>1. k \in 1..Len(written'[q]) /\ written'[q][k] \in Answers /\ k # Len(written'[q])
        BY <2>1, <3>1
      <4> QED BY <4>1 DEF Stages, Stage
    <3> QED BY <3>1
  <2>3. Statuses[q] = "open"
    BY <1>0, <1>3, <1>4, <2>2, StatusIs
  <2>4. Talks' = [Talks EXCEPT ![q] = Talks[q] + 1]
    BY <1>0, <1>1, <2>1, TalkChanges
  <2>5. CASE sending'[q] \in Answers
    <3>1. Answered(q)'
      BY <1>5, <2>1, <2>5
    <3>2. Status(q)' = "answered"
      BY <3>1 DEF Status
    <3>3. Statuses' = [Statuses EXCEPT ![q] = "answered"]
      BY <1>2, <3>2, StatusChanges
    <3>4. Promise!Answer(q)
      BY <2>3, <2>4, <3>3, PromiseSteps
    <3> QED BY <3>4 DEF Promise!Next
  <2>6. CASE sending'[q] \notin Answers
    <3>1. ~Answered(q)'
      BY <1>5, <2>1, <2>2, <2>6
    <3>2. Status(q)' = "open"
      BY <1>7, <3>1 DEF Status, Says
    <3>3. Statuses' = Statuses
      BY <1>2, <1>3, <2>3, <3>2, StatusChanges
    <3>4. Promise!Tell(q)
      BY <2>3, <2>4, <3>3, PromiseSteps
    <3> QED BY <3>4 DEF Promise!Next
  <2> QED BY <2>5, <2>6
<1> QED BY <1>6, <1>7, TaskSteps DEF Silent, Leaves

\* Nothing written and no task moved: nothing new.
LEMMA Quiet ==
  ASSUME UNCHANGED <<place, written>>
  PROVE  UNCHANGED <<Statuses, Talks>>
<1>1. \A r \in Requests : Status(r)' = Status(r)
  BY StatusSame
<1> QED BY <1>1 DEF Statuses, Talks

\* Before its task begins a request has no answer.
LEMMA NothingWritten ==
  ASSUME Stages, NEW q \in Requests, ~Begun(q), UNCHANGED written
  PROVE  ~Answered(q) /\ ~Answered(q)'
BY DEF Stages, Stage, Answered, Wrote

\* What the client does asks to cancel a turn, or is nothing to the conversations.
LEMMA ClientConverses ==
  ASSUME Parts, Client
  PROVE  Promise!Next \/ UNCHANGED Mapped
<1>0. Types /\ Lines /\ Stages /\ place \in [Requests -> {"unsent", "sent", "spawned", "running", "asking", "tool", "waiting", "draining", "over"}]
  BY DEF Parts, Types, TaskTypes
<1>1. ASSUME NEW t \in Turns, UNCHANGED <<Statuses, Talks>>, unwanted' = unwanted \cup {t}
      PROVE  Promise!Next
  <2>1. t \in Requests
    BY DEF Requests
  <2> QED BY <1>1, <2>1, UnwantStep DEF Promise!Next
<1>2. ASSUME NEW q \in Requests, SendRequest(q)
      PROVE  Promise!Next \/ UNCHANGED Mapped
  <2>1. place[q] = "unsent" /\ place' = [place EXCEPT ![q] = "sent"] /\ UNCHANGED written
    BY <1>2 DEF SendRequest
  <2>2. place'[q] = "sent" /\ \A r \in Requests \ {q} : place'[r] = place[r]
    BY <1>0, <2>1
  <2>3. ~Answered(q) /\ ~Answered(q)'
    BY <1>0, <2>1, NothingWritten DEF Begun
  <2>4. Status(q)' = Status(q)
    BY <2>1, <2>2, <2>3, StatusRead, StatusReadNext
  <2>5. \A r \in Requests \ {q} : Status(r)' = Status(r)
    BY <2>1, <2>2, StatusSame
  <2>6. UNCHANGED <<Statuses, Talks>>
    BY <2>1, <2>4, <2>5, StatusChanges DEF Talks
  <2>7. UNCHANGED unwanted \/ \E t \in Turns : unwanted' = unwanted \cup {t}
    BY <1>2 DEF SendRequest
  <2> QED BY <1>1, <2>6, <2>7 DEF Mapped
<1>3. ASSUME NEW t \in Turns, SendStop(t)
      PROVE  Promise!Next \/ UNCHANGED Mapped
  BY <1>1, <1>3, Quiet DEF SendStop, server
<1>4. ASSUME UNCHANGED <<place, written, unwanted>>
      PROVE  UNCHANGED Mapped
  BY <1>4, Quiet DEF Mapped
<1> QED BY <1>2, <1>3, <1>4 DEF Client, Reply, SendReply, SendExit, Close, server

\* The read loop takes up a request, or does nothing to the conversations.
LEMMA LoopConverses ==
  ASSUME Parts, ReadLoop
  PROVE  Promise!Next \/ UNCHANGED Mapped
<1>0. Types /\ Lines /\ Stages /\ place \in [Requests -> {"unsent", "sent", "spawned", "running", "asking", "tool", "waiting", "draining", "over"}]
  BY DEF Parts, Types, TaskTypes
<1>1. CASE ReceiveRequest
  <2>1. PICK q \in Requests : place[q] = "sent" /\ place' = [place EXCEPT ![q] = "spawned"]
    BY <1>0, <1>1, ReceiveRequestIs
  <2>2. UNCHANGED <<written, unwanted>>
    BY <1>1 DEF ReceiveRequest
  <2>3. place'[q] = "spawned" /\ \A r \in Requests \ {q} : place'[r] = place[r]
    BY <1>0, <2>1
  <2>4. ~Answered(q) /\ ~Answered(q)'
    BY <1>0, <2>1, <2>2, NothingWritten DEF Begun
  <2>5. Status(q) = "unsent"
    BY <2>1, <2>4, StatusRead
  <2>6. Status(q)' = "open"
    BY <2>3, <2>4, StatusReadNext DEF Alive
  <2>7. \A r \in Requests \ {q} : Status(r)' = Status(r)
    BY <2>2, <2>3, StatusSame
  <2>8. Statuses[q] = "unsent" /\ Statuses' = [Statuses EXCEPT ![q] = "open"]
    BY <2>5, <2>6, <2>7, StatusChanges
  <2>9. UNCHANGED Talks
    BY <2>2 DEF Talks
  <2> QED BY <2>2, <2>8, <2>9, TakeUpStep DEF Promise!Next
<1>2. ASSUME UNCHANGED <<place, written, unwanted>>
      PROVE  UNCHANGED Mapped
  BY <1>2, Quiet DEF Mapped
<1> QED BY <1>1, <1>2 DEF ReadLoop, ReceiveStop, ReceiveReply, ReceiveExit, ReceiveEnd, Finish,
  server, wishes

\* Every step is a step of the conversations, or none.
LEMMA StepConverses ==
  ASSUME IInv, IInv', [Next]_vars
  PROVE  [Promise!Next]_Mapped
<1>0. Parts /\ Stages' /\ Types'
  BY PartsAre DEF IInv, TypeOK, Types, TaskTypes, QueueTypes, TalkTypes, WishTypes
<1>1. CASE UNCHANGED vars
  BY <1>1, Quiet DEF vars, server, wishes, Mapped
<1>2. ASSUME NEW q \in Requests, Task(q) \/ (q \in Turns /\ Turn(q))
      PROVE  Promise!Next \/ UNCHANGED Mapped
  <2>1. UNCHANGED unwanted
    BY <1>2 DEF Task, Turn, wishes, Refuse, HandleCancel, HandleShutdown, HandlePlain, Acquire,
      Drained,
       DrainFails, Interrupted, BeginTurn, SendEvent, Decided, RunAllowed, ToolEnds, Ask, EndTurn
  <2> QED BY <1>0, <1>2, <2>1, TaskConverses
<1> QED BY <1>0, <1>1, <1>2, ClientConverses, LoopConverses DEF Next, Requests

(***************************************************************************)
(* The server keeps the promise of Conversation: about each request any    *)
(* number of messages and then one answer, and an answer to all that the   *)
(* client did not ask to cancel.                                           *)
(***************************************************************************)
THEOREM ServerKeepsPromise == Spec => KeepsPromise
<1>1. Init => Promise!Init
  <2> SUFFICES ASSUME Init PROVE Promise!Init
    OBVIOUS
  <2>1. \A r \in Requests : place[r] = "unsent" /\ written[r] = <<>> /\ ~Answered(r)
    BY DEF Init, Answered, Wrote
  <2>2. \A r \in Requests : Status(r) = "unsent" /\ Len(written[r]) = 0
    BY <2>1, StatusRead
  <2>3. Statuses = [r \in Requests |-> "unsent"] /\ Talks = [r \in Requests |-> 0] /\ unwanted = {}
    BY <2>2 DEF Statuses, Talks, Init
  <2> QED BY <2>3 DEF Promise!Init, Statuses, Talks, Status
<1>2. IInv /\ IInv' /\ [Next]_vars => [Promise!Next]_Mapped
  BY StepConverses
<1> QED BY <1>1, <1>2, Invariance, PTL DEF Spec, KeepsPromise, Promise!Spec, Mapped, Statuses,
  Talks, Status

=============================================================================
