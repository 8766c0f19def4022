------------------------ MODULE BridgeClientProofs -------------------------
(***************************************************************************)
(* The TypeScript client with any server that keeps the promise of         *)
(* Conversation, for any finite set of requests and pipes of any length:   *)
(* what is heard of a turn, and whom its questions reach.                  *)
(***************************************************************************)
EXTENDS BridgeClient, TLAPS, FiniteSetTheorems, SequenceTheorems, WellFoundedInduction

(***************************************************************************)
(* The greatest of the ids of some requests, by well-founded induction on  *)
(* how far below the bound they are.                                       *)
(***************************************************************************)
Below == {p \in Nat \X Nat : p[1] < p[2]}

LEMMA BelowWellFounded == IsWellFoundedOn(Below, Nat)
<1>1. Below = OpToRel(<, Nat)
  BY DEF Below, OpToRel
<1> QED BY <1>1, NatLessThanWellFounded

LEMMA GreatestId ==
  ASSUME NEW S, S # {}, NEW n \in Nat, NEW f, \A u \in S : f[u] \in 0..n
  PROVE  \E t \in S : \A u \in S : f[u] <= f[t]
<1> DEFINE T == {n - f[u] : u \in S}
<1>1. T \subseteq Nat /\ T # {}
  OBVIOUS
<1>2. PICK x \in T : \A y \in T : ~(<<y, x>> \in Below)
  <2> HIDE DEF T
  <2> QED BY <1>1, BelowWellFounded, WFMin
<1>3. PICK t \in S : x = n - f[t]
  OBVIOUS
<1>4. ASSUME NEW u \in S PROVE f[u] <= f[t]
  <2>1. n - f[u] \in T /\ n - f[u] \in Nat /\ x \in Nat /\ f[u] \in Nat /\ f[t] \in Nat
    BY <1>3
  <2>2. ~(n - f[u] < x)
    BY <1>2, <2>1 DEF Below
  <2> QED BY <1>3, <2>1, <2>2
<1> QED BY <1>4

(***************************************************************************)
(* What goes through the two pipes.                                        *)
(***************************************************************************)
Sentence == [kind : {"request", "cancel", "reply", "exit"}, about : Requests \cup {Nobody}]
Message == [kind : {"resolved", "rejected", "event", "question"}, about : Requests]

(***************************************************************************)
(* The places of the pipe at which a message about t, not its answer, is   *)
(* still to come.                                                          *)
(***************************************************************************)
Coming(q, t) == {k \in 1..Len(q) : q[k].about = t /\ q[k].kind \in {"event", "question"}}

(***************************************************************************)
(* The pipes hold messages; a request in one was sent, and what a server   *)
(* tells is about turns.                                                   *)
(***************************************************************************)
Pipes ==
  /\ toServer \in Seq(Sentence) /\ toClient \in Seq(Message)
  /\ \A k \in 1..Len(toServer) :
       toServer[k].kind = "request" => toServer[k].about \in Requests /\ Sent(toServer[k].about)
  /\ \A k \in 1..Len(toClient) :
       toClient[k].kind \in {"event", "question"} => toClient[k].about \in turns

(***************************************************************************)
(* How many messages about t the server has sent, without the answer.      *)
(***************************************************************************)
Told(t) == IF status[t] = "answered" THEN talk[t] - 1 ELSE talk[t]

(***************************************************************************)
(* The server takes up requests that were sent, and talks no more than     *)
(* MaxTalk about a turn.                                                   *)
(***************************************************************************)
Served ==
  /\ status \in [Requests -> {"unsent", "open", "answered", "dropped"}]
  /\ talk \in [Requests -> Nat]
  /\ \A r \in Requests : /\ status[r] = "unsent" => talk[r] = 0
                         /\ status[r] = "answered" => talk[r] > 0
                         /\ status[r] # "unsent" => Sent(r)
  /\ \A t \in turns : Told(t) <= MaxTalk

(***************************************************************************)
(* Behind place k comes nothing about the same request.                    *)
(***************************************************************************)
Last(q, k) == \A j \in 1..Len(q) : j > k => q[j].about # q[k].about

(***************************************************************************)
(* What is still in the pipe is about requests not yet settled by an       *)
(* answer, and an answer is the last message about its request: the        *)
(* promise of Conversation, seen from the pipe.                            *)
(***************************************************************************)
Answers ==
  \A k \in 1..Len(toClient) :
    /\ status[toClient[k].about] # "unsent"
    /\ promise[toClient[k].about] \notin {"resolved", "rejected"}
    /\ toClient[k].kind \in {"resolved", "rejected"} =>
         status[toClient[k].about] = "answered" /\ Last(toClient, k)

(***************************************************************************)
(* A promise settled by an answer is of an answered request; `closed`      *)
(* means that the read loop has ended, so a loop that reads has closed     *)
(* nothing.                                                                *)
(***************************************************************************)
Settles ==
  \A r \in Requests :
    /\ promise[r] \in {"resolved", "rejected"} => status[r] = "answered"
    /\ promise[r] = "closed" => ~reading

(***************************************************************************)
(* What the server told of a turn was heard or is still to come.  Equality *)
(* holds as long as the handle is in the table, and for good once the      *)
(* answer was read: there nothing is to come any more, which is            *)
(* TurnsHearTheirOwn.                                                      *)
(***************************************************************************)
Hears ==
  \A t \in turns :
    /\ heard[t] + Cardinality(Coming(toClient, t)) <= Told(t)
    /\ promise[t] \in {"open", "resolved", "rejected"} =>
         heard[t] + Cardinality(Coming(toClient, t)) = Told(t)

(***************************************************************************)
(* QuestionsFindATurn, and both its turns have been sent.                  *)
(***************************************************************************)
Asked ==
  \A q \in questions :
    /\ Sent(q[1]) /\ (q[2] # Nobody => Sent(q[2]))
    /\ promise[q[1]] = "unwritten" \/ (q[2] # Nobody /\ id[q[1]] <= id[q[2]])

(***************************************************************************)
(* Counting what is to come: one more when a message is put in, one less   *)
(* when it is read.                                                        *)
(***************************************************************************)
LEMMA ComingType ==
  ASSUME NEW q \in Seq(Message), NEW t
  PROVE  IsFiniteSet(Coming(q, t)) /\ Cardinality(Coming(q, t)) \in Nat
<1>1. IsFiniteSet(1..Len(q))
  BY FS_Interval
<1>2. Coming(q, t) \in SUBSET (1..Len(q))
  BY DEF Coming
<1>3. IsFiniteSet(Coming(q, t))
  BY <1>1, <1>2, FS_Subset
<1> QED BY <1>3, FS_CardinalityType

LEMMA ComingAppend ==
  ASSUME NEW q \in Seq(Message), NEW m \in Message, NEW t
  PROVE  Cardinality(Coming(Append(q, m), t)) =
           IF m.about = t /\ m.kind \in {"event", "question"}
             THEN Cardinality(Coming(q, t)) + 1 ELSE Cardinality(Coming(q, t))
<1> DEFINE a == Append(q, m)
<1>1. /\ Len(a) = Len(q) + 1 /\ Len(q) \in Nat /\ a[Len(q) + 1] = m
      /\ \A k \in 1..Len(q) : a[k] = q[k]
  BY AppendProperties
<1> HIDE DEF a
<1>2. CASE m.about = t /\ m.kind \in {"event", "question"}
  <2>1. Coming(a, t) = Coming(q, t) \cup {Len(q) + 1} /\ Len(q) + 1 \notin Coming(q, t)
    BY <1>1, <1>2 DEF Coming
  <2>2. IsFiniteSet(Coming(q, t))
    BY ComingType
  <2>3. Cardinality(Coming(q, t) \cup {Len(q) + 1}) = Cardinality(Coming(q, t)) + 1
    BY <2>1, <2>2, FS_AddElement
  <2>4. Cardinality(Coming(a, t)) = Cardinality(Coming(q, t)) + 1
    BY <2>1, <2>3
  <2> QED BY <1>2, <2>4 DEF a
<1>3. CASE ~(m.about = t /\ m.kind \in {"event", "question"})
  <2>1. Coming(a, t) = Coming(q, t)
    BY <1>1, <1>3 DEF Coming
  <2> QED BY <1>3, <2>1 DEF a
<1> QED BY <1>2, <1>3

LEMMA ComingTail ==
  ASSUME NEW q \in Seq(Message), q # <<>>, NEW t
  PROVE  Cardinality(Coming(q, t)) =
           IF Head(q).about = t /\ Head(q).kind \in {"event", "question"}
             THEN Cardinality(Coming(Tail(q), t)) + 1 ELSE Cardinality(Coming(Tail(q), t))
<1> DEFINE a == Tail(q)
           S == Coming(a, t)
           T == Coming(q, t) \ {1}
           f == [k \in S |-> k + 1]
<1>1. /\ a \in Seq(Message) /\ Len(q) \in Nat \ {0} /\ Len(a) = Len(q) - 1
      /\ \A k \in 1..Len(a) : a[k] = q[k + 1]
      /\ Head(q) = q[1]
  BY HeadTailProperties, EmptySeq
<1>2. IsFiniteSet(S) /\ IsFiniteSet(Coming(q, t)) /\ IsFiniteSet(T)
  <2>1. IsFiniteSet(S) /\ IsFiniteSet(Coming(q, t))
    BY <1>1, ComingType
  <2> QED BY <2>1, FS_RemoveElement
<1> HIDE DEF a
<1>3. f \in Bijection(S, T)
  <2>1. \A k \in S : k + 1 \in T
    BY <1>1 DEF Coming
  <2>2. \A n \in T : n - 1 \in S /\ n = (n - 1) + 1
    <3>1. SUFFICES ASSUME NEW n \in T PROVE n - 1 \in S /\ n = (n - 1) + 1
      OBVIOUS
    <3>2. n \in 2..Len(q) /\ q[n].about = t /\ q[n].kind \in {"event", "question"}
      BY <1>1 DEF Coming
    <3>3. n - 1 \in 1..Len(a) /\ a[n - 1] = q[n]
      BY <1>1, <3>2
    <3> QED BY <3>2, <3>3 DEF Coming
  <2>3. \A k, j \in S : k + 1 = j + 1 => k = j
    BY DEF Coming
  <2> HIDE DEF S, T
  <2>4. f \in [S -> T]
    BY <2>1
  <2>5. f \in Injection(S, T)
    BY <2>3, <2>4 DEF Injection, IsInjective
  <2>6. f \in Surjection(S, T)
    BY <2>2, <2>4 DEF Surjection
  <2> QED BY <2>5, <2>6 DEF Bijection
<1>4. Cardinality(T) = Cardinality(S)
  <2> HIDE DEF S, T
  <2> QED BY <1>2, <1>3, FS_Bijection DEF ExistsBijection
<1>5. 1 \in Coming(q, t) <=> Head(q).about = t /\ Head(q).kind \in {"event", "question"}
  BY <1>1 DEF Coming
<1>6. Cardinality(T) = IF 1 \in Coming(q, t) THEN Cardinality(Coming(q, t)) - 1 ELSE Cardinality(Coming(q, t))
  BY <1>2, FS_RemoveElement
<1>7. Cardinality(Coming(q, t)) \in Nat
  BY ComingType
<1> HIDE DEF S, T
<1> QED BY <1>4, <1>5, <1>6, <1>7 DEF S, a

(***************************************************************************)
(* What is invariant besides the types.                                    *)
(***************************************************************************)
Talks == Pipes /\ Served /\ Answers /\ Settles /\ Hears /\ Asked

(***************************************************************************)
(* A step of the client that reads nothing, or one of the server that only *)
(* empties its input: a request begins or is settled by the client itself, *)
(* a question is answered, and the server's input loses its head or gains  *)
(* a sentence.                                                             *)
(***************************************************************************)
ClientMoves ==
  /\ UNCHANGED <<turns, status, talk, toClient, heard>>
  /\ questions' \subseteq questions
  /\ \A r \in Requests :
       /\ \/ promise'[r] = promise[r]
          \/ promise[r] = "none" /\ promise'[r] \in {"open", "unwritten"}
          \/ promise[r] = "open" /\ promise'[r] \in {"unwritten", "closed"}
       /\ promise'[r] = "closed" => promise[r] = "closed" \/ ~reading'
       /\ id'[r] = id[r] \/ (id[r] = 0 /\ id'[r] # 0)
  /\ reading' => reading
  /\ \/ toServer' = toServer
     \/ toServer # <<>> /\ toServer' = Tail(toServer)
     \/ \E m \in Sentence : /\ toServer' = Append(toServer, m)
                            /\ m.kind = "request" => m.about \in Requests /\ id'[m.about] # 0

LEMMA InTurns == TypeOK => turns \subseteq Requests
BY DEF TypeOK

LEMMA MessageIs ==
  ASSUME Pipes, NEW k \in 1..Len(toClient)
  PROVE  /\ toClient[k] \in Message /\ toClient[k].about \in Requests
         /\ toClient[k].kind \in {"resolved", "rejected", "event", "question"}
<1>1. toClient[k] \in Message
  BY DEF Pipes
<1> QED BY <1>1 DEF Message

(***************************************************************************)
(* The server's input holds requests that were sent.                       *)
(***************************************************************************)
LEMMA ToServerStep ==
  ASSUME Pipes, \A r \in Requests : Sent(r) => Sent(r)',
         \/ toServer' = toServer
         \/ toServer # <<>> /\ toServer' = Tail(toServer)
         \/ \E m \in Sentence : /\ toServer' = Append(toServer, m)
                                /\ m.kind = "request" => m.about \in Requests /\ id'[m.about] # 0
  PROVE  /\ toServer' \in Seq(Sentence)
         /\ \A k \in 1..Len(toServer') :
              toServer'[k].kind = "request" => toServer'[k].about \in Requests /\ id'[toServer'[k].about] # 0
<1> USE DEF Sent
<1>0. toServer \in Seq(Sentence)
  BY DEF Pipes
<1>1. CASE toServer' = toServer
  BY <1>0, <1>1 DEF Pipes
<1>2. CASE toServer # <<>> /\ toServer' = Tail(toServer)
  <2>1. /\ toServer' \in Seq(Sentence) /\ Len(toServer') = Len(toServer) - 1 /\ Len(toServer) \in Nat
        /\ \A k \in 1..Len(toServer') : toServer'[k] = toServer[k + 1]
    BY <1>0, <1>2, HeadTailProperties
  <2>2. ASSUME NEW k \in 1..Len(toServer'), toServer'[k].kind = "request"
        PROVE  toServer'[k].about \in Requests /\ id'[toServer'[k].about] # 0
    <3>1. k + 1 \in 1..Len(toServer) /\ toServer'[k] = toServer[k + 1]
      BY <2>1
    <3> QED BY <2>2, <3>1 DEF Pipes
  <2> QED BY <2>1, <2>2
<1>3. ASSUME NEW m \in Sentence, toServer' = Append(toServer, m),
             m.kind = "request" => m.about \in Requests /\ id'[m.about] # 0
      PROVE  /\ toServer' \in Seq(Sentence)
             /\ \A k \in 1..Len(toServer') :
                  toServer'[k].kind = "request" => toServer'[k].about \in Requests /\ id'[toServer'[k].about] # 0
  <2>1. /\ toServer' \in Seq(Sentence) /\ Len(toServer') = Len(toServer) + 1 /\ Len(toServer) \in Nat
        /\ \A k \in 1..Len(toServer) : toServer'[k] = toServer[k]
        /\ toServer'[Len(toServer) + 1] = m
    BY <1>0, <1>3, AppendProperties
  <2>2. ASSUME NEW k \in 1..Len(toServer'), toServer'[k].kind = "request"
        PROVE  toServer'[k].about \in Requests /\ id'[toServer'[k].about] # 0
    <3>1. CASE k \in 1..Len(toServer)
      BY <2>1, <2>2, <3>1 DEF Pipes
    <3>2. CASE k \notin 1..Len(toServer)
      <4>1. k = Len(toServer) + 1
        BY <2>1, <3>2
      <4> QED BY <1>3, <2>1, <2>2, <4>1
    <3> QED BY <3>1, <3>2
  <2> QED BY <2>1, <2>2
<1> QED BY <1>1, <1>2, <1>3

LEMMA ClientMovesKeep ==
  ASSUME TypeOK, Talks, ClientMoves
  PROVE  Talks'
<1> USE DEF Sent
<1>0. /\ UNCHANGED <<turns, status, talk, toClient, heard>>
      /\ questions' \subseteq questions
      /\ \A r \in Requests : Sent(r) => Sent(r)' /\ id'[r] = id[r]
  BY DEF ClientMoves
<1>1. Pipes'
  <2>1. /\ toServer' \in Seq(Sentence)
        /\ \A k \in 1..Len(toServer') :
              toServer'[k].kind = "request" => toServer'[k].about \in Requests /\ id'[toServer'[k].about] # 0
    BY <1>0, ToServerStep DEF Talks, ClientMoves
  <2> QED BY <1>0, <2>1 DEF Talks, Pipes
<1>2. Served'
  BY <1>0 DEF Talks, Served, Told
<1>3. Answers'
  <2> SUFFICES ASSUME NEW k \in 1..Len(toClient)
               PROVE  /\ status[toClient[k].about] # "unsent"
                      /\ promise'[toClient[k].about] \notin {"resolved", "rejected"}
                      /\ toClient[k].kind \in {"resolved", "rejected"} =>
                           status[toClient[k].about] = "answered" /\ Last(toClient, k)
    BY <1>0 DEF Answers, Last
  <2>1. toClient[k].about \in Requests
    BY MessageIs DEF Talks
  <2> QED BY <2>1 DEF Talks, Answers, ClientMoves
<1>4. Settles'
  BY <1>0 DEF Talks, Settles, ClientMoves
<1>5. Hears'
  <2> SUFFICES ASSUME NEW t \in turns
               PROVE  /\ heard[t] + Cardinality(Coming(toClient, t)) <= Told(t)
                      /\ promise'[t] \in {"open", "resolved", "rejected"} =>
                            heard[t] + Cardinality(Coming(toClient, t)) = Told(t)
    BY <1>0 DEF Hears, Told
  <2>1. t \in Requests
    BY InTurns
  <2>2. CASE promise'[t] = promise[t] \/ promise'[t] \notin {"open", "resolved", "rejected"}
    BY <2>2 DEF Talks, Hears
  <2>3. CASE promise[t] = "none"
    <3>1. talk[t] = 0 /\ status[t] = "unsent"
      BY <2>1, <2>3 DEF Talks, Served, TypeOK
    <3>2. Told(t) = 0 /\ heard[t] \in Nat /\ Cardinality(Coming(toClient, t)) \in Nat
      BY <3>1, ComingType DEF Told, TypeOK, Talks, Pipes
    <3>3. heard[t] + Cardinality(Coming(toClient, t)) <= Told(t)
      BY DEF Talks, Hears
    <3> QED BY <3>2, <3>3
  <2> QED BY <2>1, <2>2, <2>3 DEF ClientMoves
<1>6. Asked'
  <2> SUFFICES ASSUME NEW q \in questions'
               PROVE  /\ Sent(q[1])' /\ (q[2] # Nobody => Sent(q[2])')
                      /\ promise'[q[1]] = "unwritten" \/ (q[2] # Nobody /\ id'[q[1]] <= id'[q[2]])
    BY DEF Asked
  <2>1. /\ q \in questions /\ q[1] \in Requests /\ (q[2] # Nobody => q[2] \in Requests)
    BY <1>0, InTurns DEF TypeOK
  <2>2. /\ Sent(q[1]) /\ (q[2] # Nobody => Sent(q[2]))
        /\ promise[q[1]] = "unwritten" \/ (q[2] # Nobody /\ id[q[1]] <= id[q[2]])
    BY <2>1 DEF Talks, Asked
  <2>3. promise[q[1]] = "unwritten" => promise'[q[1]] = "unwritten"
    BY <2>1 DEF ClientMoves
  <2> QED BY <1>0, <2>1, <2>2, <2>3
<1> QED BY <1>1, <1>2, <1>3, <1>4, <1>5, <1>6 DEF Talks

(***************************************************************************)
(* The steps of the server: it takes up a request, tells, answers or       *)
(* drops.                                                                  *)
(***************************************************************************)
ServerMoves ==
  /\ UNCHANGED <<turns, id, promise, reading, heard, questions>>
  /\ toServer' = toServer \/ (toServer # <<>> /\ toServer' = Tail(toServer))

Takes(r) ==
  /\ Sent(r) /\ status[r] = "unsent" /\ status' = [status EXCEPT ![r] = "open"]
  /\ UNCHANGED <<talk, toClient>>

Tells(r, m) ==
  /\ r \in turns /\ status[r] = "open" /\ talk[r] < MaxTalk
  /\ m \in Message /\ m.about = r /\ m.kind \in {"event", "question"}
  /\ UNCHANGED status /\ talk' = [talk EXCEPT ![r] = @ + 1]
  /\ toClient' = Append(toClient, m)

AnswersIt(r, m) ==
  /\ status[r] = "open" /\ status' = [status EXCEPT ![r] = "answered"]
  /\ m \in Message /\ m.about = r /\ m.kind \in {"resolved", "rejected"}
  /\ talk' = [talk EXCEPT ![r] = @ + 1]
  /\ toClient' = Append(toClient, m)

Drops(r) ==
  /\ status[r] = "open" /\ status' = [status EXCEPT ![r] = "dropped"]
  /\ UNCHANGED <<talk, toClient>>

(***************************************************************************)
(* Of an open request the pipe holds no answer, nor has one been read.     *)
(***************************************************************************)
LEMMA OpenIsAnswerless ==
  ASSUME TypeOK, Talks, NEW r \in Requests, status[r] = "open"
  PROVE  /\ promise[r] \notin {"resolved", "rejected"} /\ Sent(r)
         /\ \A k \in 1..Len(toClient) : toClient[k].about = r => toClient[k].kind \notin {"resolved", "rejected"}
BY DEF Talks, Settles, Answers, Served

LEMMA PipesServer ==
  ASSUME TypeOK, Talks, ServerMoves,
         \/ toClient' = toClient
         \/ \E m \in Message : /\ toClient' = Append(toClient, m)
                               /\ m.kind \in {"event", "question"} => m.about \in turns
  PROVE  Pipes'
<1>0. UNCHANGED <<turns, id>>
  BY DEF ServerMoves
<1>1. /\ toServer' \in Seq(Sentence)
      /\ \A k \in 1..Len(toServer') :
           toServer'[k].kind = "request" => toServer'[k].about \in Requests /\ id'[toServer'[k].about] # 0
  BY <1>0, ToServerStep DEF Talks, ServerMoves, Sent
<1>2. CASE toClient' = toClient
  BY <1>0, <1>1, <1>2 DEF Talks, Pipes, Sent
<1>3. ASSUME NEW m \in Message, toClient' = Append(toClient, m), m.kind \in {"event", "question"} => m.about \in turns
      PROVE  Pipes'
  <2>0. toClient \in Seq(Message)
    BY DEF Talks, Pipes
  <2>1. /\ toClient' \in Seq(Message) /\ Len(toClient') = Len(toClient) + 1 /\ Len(toClient) \in Nat
        /\ \A k \in 1..Len(toClient) : toClient'[k] = toClient[k]
        /\ toClient'[Len(toClient) + 1] = m
    BY <2>0, <1>3, AppendProperties
  <2>2. ASSUME NEW k \in 1..Len(toClient'), toClient'[k].kind \in {"event", "question"}
        PROVE  toClient'[k].about \in turns
    <3>1. CASE k \in 1..Len(toClient)
      BY <2>1, <2>2, <3>1 DEF Talks, Pipes
    <3>2. CASE k \notin 1..Len(toClient)
      <4>1. k = Len(toClient) + 1
        BY <2>1, <3>2
      <4> QED BY <1>3, <2>1, <2>2, <4>1
    <3> QED BY <3>1, <3>2
  <2> QED BY <1>0, <1>1, <2>1, <2>2 DEF Pipes, Sent
<1> QED BY <1>2, <1>3

(***************************************************************************)
(* What was in the pipe stays, and behind it comes a message about a       *)
(* request nobody has answered.                                            *)
(***************************************************************************)
LEMMA AnswersAppend ==
  ASSUME TypeOK, Talks, NEW r \in Requests, status[r] = "open", NEW m \in Message, m.about = r,
         toClient' = Append(toClient, m), UNCHANGED promise,
         \A q \in Requests \ {r} : status'[q] = status[q],
         status'[r] # "unsent", m.kind \in {"resolved", "rejected"} => status'[r] = "answered"
  PROVE  Answers'
<1>0. toClient \in Seq(Message)
  BY DEF Talks, Pipes
<1>1. /\ Len(toClient') = Len(toClient) + 1 /\ Len(toClient) \in Nat
      /\ \A k \in 1..Len(toClient) : toClient'[k] = toClient[k]
      /\ toClient'[Len(toClient) + 1] = m
  BY <1>0, AppendProperties
<1>2. ASSUME NEW k \in 1..Len(toClient')
      PROVE  /\ status'[toClient'[k].about] # "unsent"
             /\ promise[toClient'[k].about] \notin {"resolved", "rejected"}
             /\ toClient'[k].kind \in {"resolved", "rejected"} =>
                  status'[toClient'[k].about] = "answered" /\ Last(toClient', k)
  <2>1. CASE k \in 1..Len(toClient)
    <3>1. toClient'[k] = toClient[k] /\ toClient[k].about \in Requests
      BY <1>1, <2>1, MessageIs DEF Talks
    <3>2. /\ status[toClient[k].about] # "unsent"
          /\ promise[toClient[k].about] \notin {"resolved", "rejected"}
          /\ toClient[k].kind \in {"resolved", "rejected"} =>
               status[toClient[k].about] = "answered" /\ Last(toClient, k)
      BY <2>1 DEF Talks, Answers
    <3>3. toClient[k].kind \in {"resolved", "rejected"} => toClient[k].about # r
      BY <3>2
    <3>4. toClient[k].kind \in {"resolved", "rejected"} => Last(toClient', k)
      <4> SUFFICES ASSUME toClient[k].kind \in {"resolved", "rejected"},
        NEW j \in 1..Len(toClient'), j > k
                   PROVE  toClient'[j].about # toClient'[k].about
        BY DEF Last
      <4>1. CASE j \in 1..Len(toClient)
        BY <1>1, <3>1, <3>2, <4>1 DEF Last
      <4>2. CASE j \notin 1..Len(toClient)
        <5>1. j = Len(toClient) + 1
          BY <1>1, <4>2
        <5> QED BY <1>1, <3>1, <3>3, <5>1
      <4> QED BY <4>1, <4>2
    <3> QED BY <3>1, <3>2, <3>3, <3>4
  <2>2. CASE k \notin 1..Len(toClient)
    <3>1. k = Len(toClient') /\ toClient'[k] = m
      BY <1>1, <2>2
    <3>2. Last(toClient', k)
      BY <1>1, <3>1 DEF Last
    <3> QED BY <3>1, <3>2, OpenIsAnswerless
  <2> QED BY <2>1, <2>2
<1> QED BY <1>2 DEF Answers, Last

LEMMA AskedKept ==
  ASSUME Talks, UNCHANGED <<id, promise, questions>>
  PROVE  Asked'
BY DEF Talks, Asked, Sent

LEMMA TakesKeep ==
  ASSUME TypeOK, Talks, ServerMoves, NEW r \in Requests, Takes(r)
  PROVE  Talks'
<1>0. UNCHANGED <<turns, id, promise, reading, heard, questions, talk, toClient>>
  BY DEF ServerMoves, Takes
<1>1. \A q \in Requests : (q # r => status'[q] = status[q]) /\ (q = r => status[q] = "unsent" /\ status'[q] = "open" /\ Sent(q))
  BY DEF Takes, Talks, Served
<1>2. Pipes'
  BY <1>0, PipesServer
<1>3. Served'
  <2>1. status' \in [Requests -> {"unsent", "open", "answered", "dropped"}]
    BY DEF Talks, Served, Takes
  <2>2. \A t \in turns : Told(t)' = Told(t)
    BY <1>0, <1>1, InTurns DEF Told
  <2> QED BY <1>0, <1>1, <2>1, <2>2 DEF Talks, Served, Sent
<1>4. Answers'
  <2> SUFFICES ASSUME NEW k \in 1..Len(toClient)
               PROVE  /\ status'[toClient[k].about] # "unsent"
                      /\ promise[toClient[k].about] \notin {"resolved", "rejected"}
                      /\ toClient[k].kind \in {"resolved", "rejected"} =>
                           status'[toClient[k].about] = "answered" /\ Last(toClient, k)
    BY <1>0 DEF Answers, Last
  <2>1. toClient[k].about \in Requests
    BY MessageIs DEF Talks
  <2> QED BY <1>1, <2>1 DEF Talks, Answers
<1>5. Settles'
  BY <1>0, <1>1 DEF Talks, Settles
<1>6. Hears'
  <2>1. \A t \in turns : Told(t)' = Told(t)
    BY <1>0, <1>1, InTurns DEF Told
  <2> QED BY <1>0, <2>1 DEF Talks, Hears
<1>7. Asked'
  BY <1>0, AskedKept
<1> QED BY <1>2, <1>3, <1>4, <1>5, <1>6, <1>7 DEF Talks

LEMMA DropsKeep ==
  ASSUME TypeOK, Talks, ServerMoves, NEW r \in Requests, Drops(r)
  PROVE  Talks'
<1>0. UNCHANGED <<turns, id, promise, reading, heard, questions, talk, toClient>>
  BY DEF ServerMoves, Drops
<1>1. \A q \in Requests : (q # r => status'[q] = status[q]) /\ (q = r => status[q] = "open" /\ status'[q] = "dropped")
  BY DEF Drops, Talks, Served
<1>2. Pipes'
  BY <1>0, PipesServer
<1>a. \A t \in turns : Told(t)' = Told(t)
  BY <1>0, <1>1, InTurns DEF Told
<1>3. Served'
  <2>1. status' \in [Requests -> {"unsent", "open", "answered", "dropped"}]
    BY DEF Talks, Served, Drops
  <2> QED BY <1>0, <1>1, <1>a, <2>1 DEF Talks, Served, Sent
<1>4. Answers'
  <2> SUFFICES ASSUME NEW k \in 1..Len(toClient)
               PROVE  /\ status'[toClient[k].about] # "unsent"
                      /\ promise[toClient[k].about] \notin {"resolved", "rejected"}
                      /\ toClient[k].kind \in {"resolved", "rejected"} =>
                           status'[toClient[k].about] = "answered" /\ Last(toClient, k)
    BY <1>0 DEF Answers, Last
  <2>1. toClient[k].about \in Requests
    BY MessageIs DEF Talks
  <2> QED BY <1>1, <2>1 DEF Talks, Answers
<1>5. Settles'
  BY <1>0, <1>1 DEF Talks, Settles
<1>6. Hears'
  BY <1>0, <1>a DEF Talks, Hears
<1>7. Asked'
  BY <1>0, AskedKept
<1> QED BY <1>2, <1>3, <1>4, <1>5, <1>6, <1>7 DEF Talks

LEMMA TellsKeep ==
  ASSUME TypeOK, Talks, ServerMoves, NEW r \in Requests, NEW m, Tells(r, m)
  PROVE  Talks'
<1>0. UNCHANGED <<turns, id, promise, reading, heard, questions, status>>
  BY DEF ServerMoves, Tells
<1>1. /\ r \in turns /\ status[r] = "open" /\ talk[r] < MaxTalk /\ m \in Message /\ m.about = r
      /\ m.kind \in {"event", "question"} /\ toClient' = Append(toClient, m)
      /\ talk' = [talk EXCEPT ![r] = @ + 1]
  BY DEF Tells
<1>2. /\ talk' \in [Requests -> Nat] /\ talk'[r] = talk[r] + 1
      /\ \A q \in Requests \ {r} : talk'[q] = talk[q]
      /\ talk \in [Requests -> Nat]
  BY <1>1 DEF Talks, Served
<1>3. Pipes'
  BY <1>1, PipesServer
<1>4. /\ Told(r)' = Told(r) + 1 /\ Told(r) = talk[r]
      /\ \A t \in turns \ {r} : Told(t)' = Told(t)
  BY <1>0, <1>1, <1>2, InTurns DEF Told
<1>5. Served'
  <2>1. \A t \in turns : Told(t)' <= MaxTalk
    <3>1. Told(r)' <= MaxTalk
      BY <1>1, <1>2, <1>4, BridgeClientAssumption
    <3> QED BY <1>4, <3>1 DEF Talks, Served
  <2>2. \A q \in Requests : /\ status[q] = "unsent" => talk'[q] = 0
                            /\ status[q] = "answered" => talk'[q] > 0
                            /\ status[q] # "unsent" => Sent(q)
    BY <1>1, <1>2 DEF Talks, Served
  <2> QED BY <1>0, <1>2, <2>1, <2>2 DEF Talks, Served, Sent
<1>6. Answers'
  BY <1>0, <1>1, AnswersAppend
<1>7. Settles'
  BY <1>0 DEF Talks, Settles
<1>8. Hears'
  <2>0. toClient \in Seq(Message)
    BY DEF Talks, Pipes
  <2> SUFFICES ASSUME NEW t \in turns
               PROVE  /\ heard[t] + Cardinality(Coming(toClient', t)) <= Told(t)'
                      /\ promise[t] \in {"open", "resolved", "rejected"} =>
                            heard[t] + Cardinality(Coming(toClient', t)) = Told(t)'
    BY <1>0 DEF Hears
  <2>1. /\ heard[t] + Cardinality(Coming(toClient, t)) <= Told(t)
        /\ promise[t] \in {"open", "resolved", "rejected"} =>
              heard[t] + Cardinality(Coming(toClient, t)) = Told(t)
        /\ heard[t] \in Nat /\ Cardinality(Coming(toClient, t)) \in Nat
    BY <2>0, ComingType DEF Talks, Hears, TypeOK
  <2>2. CASE t = r
    <3>1. Cardinality(Coming(toClient', t)) = Cardinality(Coming(toClient, t)) + 1
      BY <1>1, <2>0, <2>2, ComingAppend
    <3>2. Told(t) \in Nat
      BY <1>2, <1>4, <2>2
    <3> QED BY <1>4, <2>1, <2>2, <3>1, <3>2
  <2>3. CASE t # r
    <3>1. Cardinality(Coming(toClient', t)) = Cardinality(Coming(toClient, t))
      BY <1>1, <2>0, <2>3, ComingAppend
    <3> QED BY <1>4, <2>1, <2>3, <3>1
  <2> QED BY <2>2, <2>3
<1>9. Asked'
  BY <1>0, AskedKept
<1> QED BY <1>3, <1>5, <1>6, <1>7, <1>8, <1>9 DEF Talks

LEMMA AnswersItKeep ==
  ASSUME TypeOK, Talks, ServerMoves, NEW r \in Requests, NEW m, AnswersIt(r, m)
  PROVE  Talks'
<1>0. UNCHANGED <<turns, id, promise, reading, heard, questions>>
  BY DEF ServerMoves
<1>1. /\ status[r] = "open" /\ m \in Message /\ m.about = r
      /\ m.kind \in {"resolved", "rejected"} /\ toClient' = Append(toClient, m)
      /\ talk' = [talk EXCEPT ![r] = @ + 1] /\ status' = [status EXCEPT ![r] = "answered"]
  BY DEF AnswersIt
<1>2. /\ talk' \in [Requests -> Nat] /\ talk'[r] = talk[r] + 1
      /\ \A q \in Requests \ {r} : talk'[q] = talk[q]
      /\ talk \in [Requests -> Nat]
      /\ status' \in [Requests -> {"unsent", "open", "answered", "dropped"}]
      /\ status'[r] = "answered" /\ \A q \in Requests \ {r} : status'[q] = status[q]
  BY <1>1 DEF Talks, Served
<1>3. Pipes'
  BY <1>1, PipesServer
<1>4. \A t \in turns : Told(t)' = Told(t)
  BY <1>0, <1>1, <1>2, InTurns DEF Told
<1>5. Served'
  <2>1. \A t \in turns : Told(t)' <= MaxTalk
    BY <1>4 DEF Talks, Served
  <2>2. ASSUME NEW q \in Requests
        PROVE  /\ status'[q] = "unsent" => talk'[q] = 0
               /\ status'[q] = "answered" => talk'[q] > 0
               /\ status'[q] # "unsent" => Sent(q)
    <3>1. CASE q = r
      BY <1>2, <3>1, OpenIsAnswerless, <1>1
    <3>2. CASE q # r
      BY <1>2, <3>2 DEF Talks, Served
    <3> QED BY <3>1, <3>2
  <2> QED BY <1>0, <1>2, <2>1, <2>2 DEF Served, Sent
<1>6. Answers'
  BY <1>0, <1>1, <1>2, AnswersAppend
<1>7. Settles'
  BY <1>0, <1>1, <1>2 DEF Talks, Settles
<1>8. Hears'
  <2>0. toClient \in Seq(Message)
    BY DEF Talks, Pipes
  <2>1. \A t \in turns : Cardinality(Coming(toClient', t)) = Cardinality(Coming(toClient, t))
    BY <1>1, <2>0, ComingAppend
  <2> QED BY <1>0, <1>4, <2>1 DEF Talks, Hears
<1>9. Asked'
  BY <1>0, AskedKept
<1> QED BY <1>3, <1>5, <1>6, <1>7, <1>8, <1>9 DEF Talks

(***************************************************************************)
(* The first message of the pipe: its request was sent, and is open or its *)
(* write has failed.                                                       *)
(***************************************************************************)
LEMMA HeadIs ==
  ASSUME TypeOK, Talks, toClient # <<>>
  PROVE  LET m == Head(toClient) IN
         /\ 1 \in 1..Len(toClient) /\ m = toClient[1]
         /\ m \in Message /\ m.about \in Requests
         /\ m.kind \in {"resolved", "rejected", "event", "question"}
         /\ m.kind \in {"event", "question"} => m.about \in turns
         /\ status[m.about] # "unsent" /\ Sent(m.about)
         /\ promise[m.about] \notin {"none", "resolved", "rejected"}
         /\ m.kind \in {"resolved", "rejected"} => status[m.about] = "answered" /\ Last(toClient, 1)
<1>0. toClient \in Seq(Message)
  BY DEF Talks, Pipes
<1>1. 1 \in 1..Len(toClient) /\ Head(toClient) = toClient[1]
  BY <1>0, EmptySeq
<1>2. /\ toClient[1] \in Message /\ toClient[1].about \in Requests
      /\ toClient[1].kind \in {"resolved", "rejected", "event", "question"}
  BY <1>1, MessageIs DEF Talks
<1>3. toClient[1].kind \in {"event", "question"} => toClient[1].about \in turns
  BY <1>1 DEF Talks, Pipes
<1>4. /\ status[toClient[1].about] # "unsent"
      /\ promise[toClient[1].about] \notin {"resolved", "rejected"}
      /\ toClient[1].kind \in {"resolved", "rejected"} => status[toClient[1].about] = "answered" /\ Last(toClient, 1)
  BY <1>1 DEF Talks, Answers
<1>5. Sent(toClient[1].about)
  BY <1>2, <1>4 DEF Talks, Served
<1>6. promise[toClient[1].about] # "none"
  BY <1>2, <1>5 DEF TypeOK
<1> QED BY <1>1, <1>2, <1>3, <1>4, <1>5, <1>6

(***************************************************************************)
(* What stays in the pipe when its first message is read.                  *)
(***************************************************************************)
LEMMA TailIs ==
  ASSUME Pipes, toClient # <<>>
  PROVE  /\ Tail(toClient) \in Seq(Message) /\ Len(Tail(toClient)) \in Nat
         /\ \A k \in 1..Len(Tail(toClient)) :
              /\ k + 1 \in 1..Len(toClient) /\ Tail(toClient)[k] = toClient[k + 1]
              /\ Last(toClient, k + 1) => Last(Tail(toClient), k)
<1>0. toClient \in Seq(Message)
  BY DEF Pipes
<1> DEFINE a == Tail(toClient)
<1>1. /\ a \in Seq(Message) /\ Len(a) = Len(toClient) - 1 /\ Len(toClient) \in Nat /\ Len(a) \in Nat
      /\ \A k \in 1..Len(a) : a[k] = toClient[k + 1]
  BY <1>0, HeadTailProperties
<1> HIDE DEF a
<1>2. ASSUME NEW k \in 1..Len(a), Last(toClient, k + 1)
      PROVE  Last(a, k)
  <2> SUFFICES ASSUME NEW j \in 1..Len(a), j > k PROVE a[j].about # a[k].about
    BY DEF Last
  <2>1. j + 1 \in 1..Len(toClient) /\ j + 1 > k + 1 /\ a[j] = toClient[j + 1] /\ a[k] = toClient[k + 1]
    BY <1>1
  <2> QED BY <1>2, <2>1 DEF Last
<1>3. \A k \in 1..Len(a) : k + 1 \in 1..Len(toClient)
  BY <1>1
<1> QED BY <1>1, <1>2, <1>3 DEF a

(***************************************************************************)
(* Reading m: the promise, the handle or the question it is about.         *)
(***************************************************************************)
Reads(m) ==
  /\ toClient # <<>> /\ m = Head(toClient) /\ toClient' = Tail(toClient)
  /\ UNCHANGED <<turns, id, reading, status, talk, toServer>>
  /\ \A r \in Requests :
       promise'[r] = IF m.kind \in {"resolved", "rejected"} /\ r = m.about /\ r \in pending
                       THEN m.kind ELSE promise[r]
  /\ \A t \in turns :
       heard'[t] = IF m.kind \in {"event", "question"} /\ t = m.about /\ t \in inflight
                     THEN heard[t] + 1 ELSE heard[t]
  /\ questions' = IF m.kind = "question" THEN questions \cup {<<m.about, LastHandle>>} ELSE questions

LEMMA ReadIs ==
  ASSUME TypeOK, Talks, Read
  PROVE  Reads(Head(toClient)) /\ reading
<1> DEFINE m == Head(toClient)
<1>0. /\ toClient # <<>> /\ toClient' = Tail(toClient)
      /\ UNCHANGED <<turns, id, reading, status, talk, toServer>>
      /\ reading
  BY DEF Read, server
<1>1. Dispatch(m)
  BY DEF Read
<1>2. /\ m.about \in Requests
      /\ m.kind \in {"resolved", "rejected", "event", "question"}
      /\ m.kind \in {"event", "question"} => m.about \in turns
  BY <1>0, HeadIs
<1>3. promise \in [Requests -> {"none", "open", "resolved", "rejected", "closed", "unwritten"}]
      /\ heard \in [turns -> 0..MaxTalk]
  BY DEF TypeOK
<1> HIDE DEF m
<1>4. CASE m.kind \in {"resolved", "rejected"}
  <2>1. HandleResponse(m.about, m.kind)
    BY <1>1, <1>4 DEF Dispatch
  <2>2. questions' = questions /\ heard' = heard
    BY <2>1 DEF HandleResponse
  <2>3. promise' = IF m.about \in pending THEN [promise EXCEPT ![m.about] = m.kind] ELSE promise
    BY <2>1 DEF HandleResponse, tables
  <2>4. \A r \in Requests :
          promise'[r] = IF r = m.about /\ r \in pending THEN m.kind ELSE promise[r]
    BY <1>3, <2>3
  <2> QED BY <1>0, <1>4, <2>2, <2>4 DEF Reads, m
<1>5. CASE m.kind \in {"event", "question"}
  <2>1. /\ heard' = IF m.about \in inflight THEN [heard EXCEPT ![m.about] = @ + 1] ELSE heard
        /\ promise' = promise
        /\ questions' = IF m.kind = "question" THEN questions \cup {<<m.about, LastHandle>>} ELSE questions
    BY <1>1, <1>5 DEF Dispatch, HandleEvent, HandleIncomingRequest, tables
  <2>2. \A t \in turns : heard'[t] = IF t = m.about /\ t \in inflight THEN heard[t] + 1 ELSE heard[t]
    BY <1>3, <2>1
  <2> QED BY <1>0, <1>5, <2>1, <2>2 DEF Reads, m
<1> QED BY <1>2, <1>4, <1>5

(***************************************************************************)
(* The handle a question is put to was begun last of those in the table.   *)
(***************************************************************************)
LEMMA LastHandleIs ==
  ASSUME TypeOK, NEW t \in inflight
  PROVE  LastHandle \in inflight /\ LastHandle # Nobody /\ id[t] <= id[LastHandle]
<1>1. inflight \subseteq Requests /\ id \in [Requests -> 0..Cardinality(Requests)]
  BY DEF TypeOK
<1>2. Cardinality(Requests) \in Nat
  BY BridgeClientAssumption, FS_CardinalityType
<1>3. \E v \in inflight : \A u \in inflight : id[u] <= id[v]
  <2>1. \A u \in inflight : id[u] \in 0..Cardinality(Requests)
    BY <1>1
  <2> QED BY <1>2, <2>1, GreatestId
<1>4. LastHandle \in inflight /\ \A u \in inflight : id[u] <= id[LastHandle]
  BY <1>3 DEF LastHandle
<1> QED BY <1>1, <1>4, BridgeClientAssumption

(***************************************************************************)
(* Reading keeps the invariant.  A question's turn is open, unless its own *)
(* write has failed: then its handle is in the table, and the one begun    *)
(* last is not an earlier one.                                             *)
(***************************************************************************)
LEMMA ReadKeeps ==
  ASSUME TypeOK, Talks, Read
  PROVE  Talks'
<1> DEFINE m == Head(toClient)
<1>0. /\ toClient # <<>> /\ toClient' = Tail(toClient) /\ reading
      /\ UNCHANGED <<turns, id, reading, status, talk, toServer>>
  BY ReadIs DEF Reads
<1>1. \A r \in Requests :
        promise'[r] = IF m.kind \in {"resolved", "rejected"} /\ r = m.about /\ r \in pending
                        THEN m.kind ELSE promise[r]
  BY ReadIs DEF Reads
<1>2. \A t \in turns :
        heard'[t] = IF m.kind \in {"event", "question"} /\ t = m.about /\ t \in inflight
                      THEN heard[t] + 1 ELSE heard[t]
  BY ReadIs DEF Reads
<1>3. questions' = IF m.kind = "question" THEN questions \cup {<<m.about, LastHandle>>} ELSE questions
  BY ReadIs DEF Reads
<1>4. /\ 1 \in 1..Len(toClient) /\ m = toClient[1]
      /\ m \in Message /\ m.about \in Requests
      /\ m.kind \in {"resolved", "rejected", "event", "question"}
      /\ m.kind \in {"event", "question"} => m.about \in turns
      /\ status[m.about] # "unsent" /\ Sent(m.about)
      /\ promise[m.about] \notin {"none", "resolved", "rejected"}
      /\ m.kind \in {"resolved", "rejected"} => status[m.about] = "answered" /\ Last(toClient, 1)
  BY <1>0, HeadIs
<1>5. /\ Tail(toClient) \in Seq(Message) /\ Len(Tail(toClient)) \in Nat
      /\ \A k \in 1..Len(Tail(toClient)) :
           /\ k + 1 \in 1..Len(toClient) /\ Tail(toClient)[k] = toClient[k + 1]
           /\ Last(toClient, k + 1) => Last(Tail(toClient), k)
  BY <1>0, TailIs DEF Talks
<1>6. promise[m.about] \in {"open", "unwritten"}
  BY <1>0, <1>4 DEF Talks, Settles, TypeOK
<1>a. pending = {r \in Requests : promise[r] = "open"} /\ inflight = pending \cap turns /\ turns \subseteq Requests
  BY DEF TypeOK
<1> HIDE DEF m
<1>7. Pipes'
  <2>1. ASSUME NEW k \in 1..Len(toClient'), toClient'[k].kind \in {"event", "question"}
        PROVE  toClient'[k].about \in turns
    BY <1>0, <1>5, <2>1 DEF Talks, Pipes
  <2> QED BY <1>0, <1>5, <2>1 DEF Talks, Pipes, Sent
<1>8. Served'
  BY <1>0 DEF Talks, Served, Told, Sent
<1>9. Answers'
  <2> SUFFICES ASSUME NEW k \in 1..Len(Tail(toClient))
               PROVE  LET n == Tail(toClient)[k] IN
                      /\ status[n.about] # "unsent"
                      /\ promise'[n.about] \notin {"resolved", "rejected"}
                      /\ n.kind \in {"resolved", "rejected"} =>
                           status[n.about] = "answered" /\ Last(Tail(toClient), k)
    BY <1>0 DEF Answers, Last
  <2>1. k + 1 \in 1..Len(toClient) /\ Tail(toClient)[k] = toClient[k + 1]
        /\ (Last(toClient, k + 1) => Last(Tail(toClient), k))
    BY <1>5
  <2>2. /\ status[toClient[k + 1].about] # "unsent"
        /\ promise[toClient[k + 1].about] \notin {"resolved", "rejected"}
        /\ toClient[k + 1].kind \in {"resolved", "rejected"} =>
             status[toClient[k + 1].about] = "answered" /\ Last(toClient, k + 1)
    BY <2>1 DEF Talks, Answers
  <2>3. toClient[k + 1].about \in Requests
    BY <2>1, MessageIs DEF Talks
  <2>4. m.kind \in {"resolved", "rejected"} => toClient[k + 1].about # m.about
    BY <1>4, <2>1 DEF Last
  <2>5. promise'[toClient[k + 1].about] = promise[toClient[k + 1].about]
    BY <1>1, <2>3, <2>4
  <2> QED BY <2>1, <2>2, <2>5
<1>10. Settles'
  BY <1>0, <1>1, <1>4 DEF Talks, Settles
<1>11. Hears'
  <2>0. toClient \in Seq(Message)
    BY DEF Talks, Pipes
  <2> SUFFICES ASSUME NEW t \in turns
               PROVE  /\ heard'[t] + Cardinality(Coming(Tail(toClient), t)) <= Told(t)
                      /\ promise'[t] \in {"open", "resolved", "rejected"} =>
                            heard'[t] + Cardinality(Coming(Tail(toClient), t)) = Told(t)
    BY <1>0 DEF Hears, Told
  <2>1. /\ heard[t] + Cardinality(Coming(toClient, t)) <= Told(t)
        /\ promise[t] \in {"open", "resolved", "rejected"} =>
              heard[t] + Cardinality(Coming(toClient, t)) = Told(t)
        /\ heard[t] \in Nat
    BY DEF Talks, Hears, TypeOK
  <2>2. Cardinality(Coming(toClient, t)) \in Nat /\ Cardinality(Coming(Tail(toClient), t)) \in Nat
    BY <1>5, <2>0, ComingType
  <2>3. Told(t) \in Int
    BY <1>a DEF Talks, Served, Told
  <2>4. Cardinality(Coming(toClient, t)) =
           IF m.about = t /\ m.kind \in {"event", "question"}
             THEN Cardinality(Coming(Tail(toClient), t)) + 1 ELSE Cardinality(Coming(Tail(toClient), t))
    BY <1>0, <2>0, ComingTail DEF m
  <2>5. CASE m.kind \in {"event", "question"} /\ t = m.about
    <3>1. promise'[t] = promise[t]
      BY <1>1, <1>4, <2>5
    <3>2. promise[t] = "open" => heard'[t] = heard[t] + 1
      BY <1>2, <1>a, <2>5
    <3>3. heard'[t] <= heard[t] + 1
      BY <1>2, <2>1
    <3>4. promise[t] \in {"open", "unwritten"}
      BY <1>6, <2>5
    <3>5. heard'[t] \in Nat
      BY <1>2, <2>1
    <3>6. Cardinality(Coming(toClient, t)) = Cardinality(Coming(Tail(toClient), t)) + 1
      BY <2>4, <2>5
    <3> QED BY <2>1, <2>2, <2>3, <3>1, <3>2, <3>3, <3>4, <3>5, <3>6
  <2>6. CASE ~(m.kind \in {"event", "question"} /\ t = m.about)
    <3>1. heard'[t] = heard[t]
      BY <1>2, <2>6
    <3>2. promise'[t] \in {"open", "resolved", "rejected"} => promise[t] \in {"open", "resolved", "rejected"}
      BY <1>1, <1>a
    <3>3. Cardinality(Coming(toClient, t)) = Cardinality(Coming(Tail(toClient), t))
      BY <2>4, <2>6
    <3> QED BY <2>1, <3>1, <3>2, <3>3
  <2> QED BY <2>5, <2>6
<1>12. Asked'
  <2> SUFFICES ASSUME NEW q \in questions'
               PROVE  /\ Sent(q[1]) /\ (q[2] # Nobody => Sent(q[2]))
                      /\ promise'[q[1]] = "unwritten" \/ (q[2] # Nobody /\ id[q[1]] <= id[q[2]])
    BY <1>0 DEF Asked, Sent
  <2>0. \A r \in Requests : promise[r] = "unwritten" => promise'[r] = "unwritten"
    BY <1>1, <1>a
  <2>1. CASE q \in questions
    <3>1. q[1] \in Requests
      BY <2>1, <1>a DEF TypeOK
    <3> QED BY <2>0, <2>1, <3>1 DEF Talks, Asked
  <2>2. CASE q \notin questions
    <3>1. q = <<m.about, LastHandle>> /\ m.kind = "question"
      BY <1>3, <2>2
    <3>2. LastHandle = Nobody \/ (LastHandle \in inflight /\ Sent(LastHandle))
      <4>1. CASE inflight = {}
        BY <4>1 DEF LastHandle
      <4>2. ASSUME NEW t \in inflight PROVE LastHandle \in inflight
        BY LastHandleIs
      <4>3. \A u \in inflight : Sent(u)
        BY <1>a DEF TypeOK
      <4> QED BY <4>1, <4>2, <4>3
    <3>3. CASE promise[m.about] = "unwritten"
      BY <1>4, <2>0, <3>1, <3>2, <3>3
    <3>4. CASE promise[m.about] = "open"
      <4>1. m.about \in inflight
        BY <1>4, <1>a, <3>1, <3>4
      <4>2. LastHandle # Nobody /\ id[m.about] <= id[LastHandle]
        BY <4>1, LastHandleIs
      <4> QED BY <1>4, <3>1, <3>2, <4>2
    <3> QED BY <1>6, <3>3, <3>4
  <2> QED BY <2>1, <2>2
<1> QED BY <1>7, <1>8, <1>9, <1>10, <1>11, <1>12 DEF Talks

(***************************************************************************)
(* Ids count the requests sent, so they stay within their number.          *)
(***************************************************************************)
LEMMA RegisterIs ==
  ASSUME TypeOK, NEW r \in Requests, Register(r)
  PROVE  /\ id[r] = 0 /\ ~Sent(r) /\ promise[r] = "none" /\ id'[r] # 0
         /\ id' \in [Requests -> 0..Cardinality(Requests)]
         /\ \A q \in Requests \ {r} : id'[q] = id[q]
         /\ UNCHANGED turns
<1>1. /\ id \in [Requests -> 0..Cardinality(Requests)]
      /\ ~Sent(r) /\ promise[r] = "none"
      /\ id' = [id EXCEPT ![r] = 1 + Cardinality({q \in Requests : Sent(q)})]
      /\ UNCHANGED turns
  BY DEF Register, TypeOK
<1> DEFINE S == {q \in Requests : Sent(q)}
<1>2. IsFiniteSet(Requests \ {r}) /\ Cardinality(Requests \ {r}) = Cardinality(Requests) - 1
      /\ Cardinality(Requests) \in Nat
  BY BridgeClientAssumption, FS_RemoveElement, FS_CardinalityType
<1>3. S \subseteq Requests \ {r}
  BY <1>1
<1>4. IsFiniteSet(S) /\ Cardinality(S) <= Cardinality(Requests \ {r}) /\ Cardinality(S) \in Nat
  BY <1>2, <1>3, FS_Subset, FS_CardinalityType
<1> HIDE DEF S
<1>5. 1 + Cardinality(S) \in 1..Cardinality(Requests)
  BY <1>2, <1>4
<1>6. id' = [id EXCEPT ![r] = 1 + Cardinality(S)]
  BY <1>1 DEF S
<1>7. 1 + Cardinality(S) \in 0..Cardinality(Requests) /\ 1 + Cardinality(S) # 0
  BY <1>4, <1>5
<1> DEFINE n == 1 + Cardinality(S)
<1> HIDE DEF n
<1>8. n \in 0..Cardinality(Requests) /\ n # 0 /\ id' = [id EXCEPT ![r] = n]
  BY <1>6, <1>7 DEF n
<1>9. id' \in [Requests -> 0..Cardinality(Requests)] /\ id'[r] = n /\ \A q \in Requests \ {r} : id'[q] = id[q]
  BY <1>1, <1>8
<1> QED BY <1>1, <1>8, <1>9 DEF Sent

LEMMA WriteIs ==
  ASSUME NEW m, Write(m)
  PROVE  toServer' = toServer \/ toServer' = Append(toServer, m)
BY DEF Write

LEMMA Sentences ==
  /\ \A r \in Requests : {Msg("request", r), Msg("cancel", r), Msg("reply", r)} \subseteq Sentence
  /\ Msg("exit", Nobody) \in Sentence
BY DEF Msg, Sentence

(***************************************************************************)
(* A request begins: in the tables, or with its write failed.              *)
(***************************************************************************)
LEMMA BeginsKeep ==
  ASSUME TypeOK, Talks, NEW r \in Requests, Register(r), NEW p \in {"open", "unwritten"},
         promise' = [promise EXCEPT ![r] = p],
         UNCHANGED <<status, talk, toClient, heard, questions, reading>>,
         toServer' = toServer \/ toServer' = Append(toServer, Msg("request", r))
  PROVE  Talks'
<1>1. /\ id[r] = 0 /\ promise[r] = "none" /\ id'[r] # 0
      /\ \A q \in Requests \ {r} : id'[q] = id[q]
      /\ UNCHANGED turns
  BY RegisterIs
<1>2. promise'[r] = p /\ \A q \in Requests \ {r} : promise'[q] = promise[q]
  BY DEF TypeOK
<1>3. ASSUME NEW q \in Requests
      PROVE  /\ \/ promise'[q] = promise[q]
                \/ promise[q] = "none" /\ promise'[q] \in {"open", "unwritten"}
             /\ promise'[q] = "closed" => promise[q] = "closed"
             /\ id'[q] = id[q] \/ (id[q] = 0 /\ id'[q] # 0)
  BY <1>1, <1>2
<1>4. \/ toServer' = toServer
      \/ \E m \in Sentence : /\ toServer' = Append(toServer, m)
                             /\ m.kind = "request" => m.about \in Requests /\ id'[m.about] # 0
  <2>1. Msg("request", r) \in Sentence /\ Msg("request", r).about = r
    BY Sentences DEF Msg
  <2> QED BY <1>1, <2>1
<1>5. ClientMoves
  BY <1>1, <1>3, <1>4 DEF ClientMoves
<1> QED BY <1>5, ClientMovesKeep

(***************************************************************************)
(* A message that is no request, or none.                                  *)
(***************************************************************************)
LEMMA SaysKeep ==
  ASSUME TypeOK, Talks, UNCHANGED <<turns, id, promise, status, talk, toClient, heard, reading>>,
         questions' \subseteq questions,
         \/ toServer' = toServer
         \/ toServer # <<>> /\ toServer' = Tail(toServer)
         \/ \E m \in Sentence : m.kind # "request" /\ toServer' = Append(toServer, m)
  PROVE  Talks'
<1>1. ClientMoves
  BY DEF ClientMoves
<1> QED BY <1>1, ClientMovesKeep

(***************************************************************************)
(* Promises settled by the client itself.                                  *)
(***************************************************************************)
LEMMA SettlesKeep ==
  ASSUME TypeOK, Talks,
         UNCHANGED <<turns, id, status, talk, toClient, toServer, heard, questions>>,
         reading' => reading, NEW p \in {"unwritten", "closed"}, p = "closed" => ~reading',
         \A r \in Requests : promise'[r] = promise[r] \/ (promise[r] = "open" /\ promise'[r] = p)
  PROVE  Talks'
<1>1. ClientMoves
  BY DEF ClientMoves, Talks, Settles
<1> QED BY <1>1, ClientMovesKeep

(***************************************************************************)
(* The steps of the client...                                              *)
(***************************************************************************)
LEMMA ClientKeeps ==
  ASSUME TypeOK, Talks, ClientNext
  PROVE  Talks'
<1>1. ASSUME NEW r \in Requests, NEW waits, Send(r, waits) PROVE Talks'
  <2>1. /\ Register(r) /\ promise' = [promise EXCEPT ![r] = "open"] /\ Write(Msg("request", r))
        /\ UNCHANGED <<status, talk, toClient, heard, questions, reading>>
    BY <1>1 DEF Send, Open, server
  <2> QED BY <2>1, WriteIs, BeginsKeep
<1>2. ASSUME NEW r \in Requests, SendRequestFails(r) PROVE Talks'
  <2>1. /\ Register(r) /\ promise' = [promise EXCEPT ![r] = "open"]
        /\ UNCHANGED <<status, talk, toClient, heard, questions, reading, toServer>>
    BY <1>2 DEF SendRequestFails, Open, server
  <2> QED BY <2>1, BeginsKeep
<1>3. ASSUME NEW r \in Requests, SendMessageFails(r) PROVE Talks'
  <2>1. /\ Register(r) /\ promise' = [promise EXCEPT ![r] = "unwritten"]
        /\ UNCHANGED <<status, talk, toClient, heard, questions, reading, toServer>>
    BY <1>3 DEF SendMessageFails, server
  <2> QED BY <2>1, BeginsKeep
<1>4. ASSUME NEW t \in turns, Cancel(t) PROVE Talks'
  <2>1. /\ Write(Msg("cancel", t))
        /\ UNCHANGED <<turns, id, promise, status, talk, toClient, heard, reading, questions>>
    BY <1>4 DEF Cancel, calls, tables, server
  <2>2. Msg("cancel", t) \in Sentence /\ Msg("cancel", t).kind # "request"
    BY Sentences, InTurns DEF Msg
  <2> QED BY <2>1, <2>2, WriteIs, SaysKeep
<1>5. CASE Exit
  <2>1. /\ toServer' = toServer \/ Write(Msg("exit", Nobody))
        /\ UNCHANGED <<turns, id, promise, status, talk, toClient, heard, reading, questions>>
    <3>1. toServer' = toServer \/ Write(Msg("exit", Nobody))
      BY <1>5 DEF Exit
    <3>2. UNCHANGED <<turns, id, promise, status, talk, toClient, heard, reading, questions>>
      BY <1>5 DEF Exit, calls, tables, server
    <3> QED BY <3>1, <3>2
  <2>2. Msg("exit", Nobody) \in Sentence /\ Msg("exit", Nobody).kind # "request"
    BY Sentences DEF Msg
  <2> QED BY <2>1, <2>2, WriteIs, SaysKeep
<1>6. ASSUME NEW r, Drain(r) \/ RequestUnwritten(r) \/ WriteBreaks \/ NoticeExit PROVE Talks'
  <2>1. UNCHANGED <<turns, id, promise, status, talk, toClient, toServer, heard, reading, questions>>
    BY <1>6 DEF Drain, RequestUnwritten, WriteBreaks, NoticeExit, calls, tables, server
  <2> QED BY <2>1, SaysKeep
<1>7. ASSUME NEW t \in writing, MessageUnwritten(t) PROVE Talks'
  <2>1. /\ UNCHANGED <<turns, id, status, talk, toClient, toServer, heard, questions, reading>>
        /\ promise' = IF t \in pending THEN [promise EXCEPT ![t] = "unwritten"] ELSE promise
    BY <1>7 DEF MessageUnwritten, server
  <2>2. \A r \in Requests : promise'[r] = promise[r] \/ (promise[r] = "open" /\ promise'[r] = "unwritten")
    BY <2>1 DEF TypeOK
  <2> QED BY <2>1, <2>2, SettlesKeep
<1>8. ASSUME NEW q \in questions, HandlerAnswers(q) PROVE Talks'
  <2>1. /\ toServer' = toServer \/ Write(Msg("reply", q[1]))
        /\ UNCHANGED <<turns, id, promise, status, talk, toClient, heard, reading>>
        /\ questions' \subseteq questions
    BY <1>8 DEF HandlerAnswers, calls, tables, server
  <2>2. q[1] \in Requests
    BY InTurns DEF TypeOK
  <2>3. Msg("reply", q[1]) \in Sentence /\ Msg("reply", q[1]).kind # "request"
    BY <2>2, Sentences DEF Msg
  <2> QED BY <2>1, <2>3, WriteIs, SaysKeep
<1>9. CASE Read
  BY <1>9, ReadKeeps
<1>10. CASE ReadEnds \/ ReadFails
  <2>1. /\ UNCHANGED <<turns, id, status, talk, toClient, toServer, heard, questions>>
        /\ reading' = FALSE
        /\ promise' = [r \in Requests |-> IF r \in pending THEN "closed" ELSE promise[r]]
    BY <1>10 DEF ReadEnds, ReadFails, LoopEnds, FailAllPending, server
  <2>2. \A r \in Requests : promise'[r] = promise[r] \/ (promise[r] = "open" /\ promise'[r] = "closed")
    BY <2>1 DEF TypeOK
  <2> QED BY <2>1, <2>2, SettlesKeep
<1> QED BY <1>1, <1>2, <1>3, <1>4, <1>5, <1>6, <1>7, <1>8, <1>9, <1>10 DEF ClientNext

(***************************************************************************)
(* ...and of the server.                                                   *)
(***************************************************************************)
LEMMA ServerKeeps ==
  ASSUME TypeOK, Talks, ServerNext
  PROVE  Talks'
<1>1. CASE ServerTakes
  <2> DEFINE m == Head(toServer)
  <2>1. /\ toServer # <<>> /\ toServer' = Tail(toServer)
        /\ UNCHANGED <<turns, id, promise, toClient, heard, reading, questions>>
        /\ \/ m.kind = "request" /\ Server!TakeUp(m.about)
           \/ UNCHANGED <<status, talk>>
    BY <1>1 DEF ServerTakes, client, calls, tables, Server!Unwant
  <2>2. m.kind = "request" => m.about \in Requests /\ Sent(m.about)
    <3>1. toServer \in Seq(Sentence) /\ 1 \in 1..Len(toServer) /\ m = toServer[1]
      BY <2>1, EmptySeq DEF Talks, Pipes
    <3> QED BY <3>1 DEF Talks, Pipes
  <2> HIDE DEF m
  <2>3. CASE UNCHANGED <<status, talk>>
    BY <2>1, <2>3, SaysKeep
  <2>4. CASE m.kind = "request" /\ Server!TakeUp(m.about)
    <3>1. ServerMoves
      BY <2>1 DEF ServerMoves
    <3>2. m.about \in Requests /\ Takes(m.about)
      BY <2>1, <2>2, <2>4 DEF Takes, Server!TakeUp
    <3> QED BY <3>1, <3>2, TakesKeep
  <2> QED BY <2>1, <2>3, <2>4
<1>2. ASSUME NEW t \in turns, NEW kind \in {"event", "question"}, ServerTells(t, kind)
      PROVE  Talks'
  <2>1. ServerMoves
    BY <1>2 DEF ServerTells, ServerMoves, client, calls, tables
  <2>2. t \in Requests
    BY InTurns
  <2>3. Msg(kind, t) \in Message /\ Msg(kind, t).about = t /\ Msg(kind, t).kind = kind
    BY <2>2 DEF Msg, Message
  <2>4. Tells(t, Msg(kind, t))
    BY <1>2, <2>3 DEF ServerTells, Tells, Server!Tell
  <2> QED BY <2>1, <2>2, <2>4, TellsKeep
<1>3. ASSUME NEW r \in Requests, NEW outcome \in Outcomes(r), ServerAnswers(r, outcome)
      PROVE  Talks'
  <2>1. ServerMoves
    BY <1>3 DEF ServerAnswers, ServerMoves, client, calls, tables
  <2>2. outcome \in {"resolved", "rejected"}
    BY DEF Outcomes
  <2>3. Msg(outcome, r) \in Message /\ Msg(outcome, r).about = r /\ Msg(outcome, r).kind = outcome
    BY <2>2 DEF Msg, Message
  <2>4. AnswersIt(r, Msg(outcome, r))
    BY <1>3, <2>2, <2>3 DEF ServerAnswers, AnswersIt, Server!Answer
  <2> QED BY <2>1, <2>4, AnswersItKeep
<1>4. ASSUME NEW r \in Requests, ServerDrops(r) PROVE Talks'
  <2>1. ServerMoves
    BY <1>4 DEF ServerDrops, ServerMoves, client, calls, tables
  <2>2. Drops(r)
    BY <1>4 DEF ServerDrops, Drops, Server!Drop
  <2> QED BY <2>1, <2>2, DropsKeep
<1>5. CASE ServerEnds
  BY <1>5, SaysKeep DEF ServerEnds, client, calls, tables
<1> QED BY <1>1, <1>2, <1>3, <1>4, <1>5 DEF ServerNext

LEMMA StutterKeeps ==
  ASSUME TypeOK, Talks, UNCHANGED vars
  PROVE  Talks'
BY SaysKeep DEF vars, calls, tables, server

LEMMA InitTalks ==
  ASSUME Init
  PROVE  TypeOK /\ Talks
<1> USE DEF Init, Server!Init
<1>2. \A t : Coming(<<>>, t) = {}
  BY DEF Coming
<1>3. Cardinality({}) = 0
  BY FS_EmptySet
<1>4. Cardinality(Requests) \in Nat
  BY BridgeClientAssumption, FS_CardinalityType
<1>5. <<>> \in Seq(Sentence) /\ <<>> \in Seq(Message)
  OBVIOUS
<1>6. TypeOK
  <2>1. /\ turns \subseteq Requests
        /\ id \in [Requests -> 0..Cardinality(Requests)]
        /\ promise \in [Requests -> {"none", "open", "resolved", "rejected", "closed", "unwritten"}]
        /\ \A r \in Requests : promise[r] = "none" <=> ~Sent(r)
        /\ pending = {r \in Requests : promise[r] = "open"} /\ inflight = pending \cap turns
    BY <1>4 DEF Sent
  <2>2. InPipe(toServer) = {} /\ InPipe(toClient) = {}
    BY DEF InPipe
  <2>3. heard \in [turns -> 0..MaxTalk]
    BY BridgeClientAssumption
  <2> QED BY <2>1, <2>2, <2>3 DEF TypeOK
<1>7. Pipes
  BY <1>5 DEF Pipes
<1>8. Served
  BY BridgeClientAssumption DEF Served, Told
<1>9. Answers /\ Settles /\ Asked
  BY DEF Answers, Settles, Asked
<1>10. Hears
  <2> SUFFICES ASSUME NEW t \in turns
               PROVE  heard[t] = 0 /\ Cardinality(Coming(toClient, t)) = 0 /\ Told(t) = 0
    BY DEF Hears
  <2>1. t \in Requests /\ heard[t] = 0 /\ Told(t) = 0
    BY DEF Told
  <2>2. Cardinality(Coming(toClient, t)) = 0
    BY <1>2, <1>3
  <2> QED BY <2>1, <2>2
<1> QED BY <1>6, <1>7, <1>8, <1>9, <1>10 DEF Talks

(***************************************************************************)
(* Types, in three parts: the tables, the rest of the client, and what was *)
(* heard. The bound of the last follows from Hears and Served.             *)
(***************************************************************************)
CallTypes ==
  /\ turns \subseteq Requests
  /\ id \in [Requests -> 0..Cardinality(Requests)]
  /\ promise \in [Requests -> {"none", "open", "resolved", "rejected", "closed", "unwritten"}]
  /\ \A r \in Requests : promise[r] = "none" <=> ~Sent(r)
  /\ pending = {r \in Requests : promise[r] = "open"}
  /\ inflight = pending \cap turns

OtherTypes ==
  /\ writing \subseteq Requests /\ gone \subseteq Requests \ turns
  /\ questions \subseteq turns \X (turns \cup {Nobody})
  /\ transport \in {"running", "stopped", "closing"}
  /\ {reading, dead, up} \subseteq BOOLEAN /\ stdin \in {"open", "destroyed"}
  /\ asking \subseteq turns

HeardTypes == heard \in [turns -> Nat]

LEMMA TypesAre == CallTypes /\ OtherTypes /\ HeardTypes /\ Talks => TypeOK
<1> SUFFICES ASSUME CallTypes, OtherTypes, HeardTypes, Talks
             PROVE  TypeOK
  OBVIOUS
<1>1. \A m \in InPipe(toServer) : m.kind \in {"request", "cancel", "reply", "exit"}
  <2>1. toServer \in Seq(Sentence)
    BY DEF Talks, Pipes
  <2>2. \A k \in 1..Len(toServer) : toServer[k] \in Sentence
    BY <2>1
  <2>3. DOMAIN toServer = 1..Len(toServer)
    BY <2>1
  <2> QED BY <2>2, <2>3 DEF InPipe, Sentence
<1>2. \A m \in InPipe(toClient) : m.kind \in {"resolved", "rejected", "event", "question"}
  <2>1. toClient \in Seq(Message)
    BY DEF Talks, Pipes
  <2>2. \A k \in 1..Len(toClient) : toClient[k] \in Message
    BY <2>1
  <2>3. DOMAIN toClient = 1..Len(toClient)
    BY <2>1
  <2> QED BY <2>2, <2>3 DEF InPipe, Message
<1>3. heard \in [turns -> 0..MaxTalk]
  <2> SUFFICES ASSUME NEW t \in turns PROVE heard[t] \in 0..MaxTalk
    BY DEF HeardTypes
  <2>1. heard[t] \in Nat /\ t \in Requests
    BY DEF HeardTypes, CallTypes
  <2>2. toClient \in Seq(Message)
    BY DEF Talks, Pipes
  <2>3. Cardinality(Coming(toClient, t)) \in Nat
    BY <2>2, ComingType
  <2>4. heard[t] + Cardinality(Coming(toClient, t)) <= Told(t) /\ Told(t) <= MaxTalk
    BY DEF Talks, Hears, Served
  <2>5. Told(t) \in Int
    BY <2>1 DEF Talks, Served, Told
  <2> QED BY <2>1, <2>3, <2>4, <2>5, BridgeClientAssumption
<1> QED BY <1>1, <1>2, <1>3 DEF CallTypes, OtherTypes, TypeOK

LEMMA AreTypes ==
  TypeOK => CallTypes /\ OtherTypes /\ HeardTypes
<1> SUFFICES ASSUME TypeOK PROVE CallTypes /\ OtherTypes /\ HeardTypes
  OBVIOUS
<1>1. CallTypes /\ OtherTypes
  BY DEF TypeOK, CallTypes, OtherTypes
<1>2. heard \in [turns -> 0..MaxTalk]
  BY DEF TypeOK
<1> QED BY <1>1, <1>2 DEF HeardTypes

LEMMA CallTypesKept ==
  ASSUME TypeOK, UNCHANGED <<turns, id, promise, pending, inflight>>
  PROVE  CallTypes'
BY AreTypes DEF CallTypes, Sent

(***************************************************************************)
(* The two tables hold exactly the requests that wait.                     *)
(***************************************************************************)
LEMMA CallTypesStep ==
  ASSUME TypeOK, Talks, Next
  PROVE  CallTypes'
<1> USE AreTypes DEF calls, tables
<1>1. ASSUME NEW r \in Requests, Register(r), NEW p \in {"open", "unwritten"},
             promise' = [promise EXCEPT ![r] = p],
             pending' = IF p = "open" THEN pending \cup {r} ELSE pending,
             inflight' = IF p = "open" THEN inflight \cup ({r} \cap turns) ELSE inflight
      PROVE  CallTypes'
  <2>1. /\ id[r] = 0 /\ ~Sent(r) /\ promise[r] = "none" /\ id'[r] # 0
        /\ id' \in [Requests -> 0..Cardinality(Requests)]
        /\ \A q \in Requests \ {r} : id'[q] = id[q]
        /\ UNCHANGED turns
    BY <1>1, RegisterIs
  <2>2. /\ promise' \in [Requests -> {"none", "open", "resolved", "rejected", "closed", "unwritten"}]
        /\ promise'[r] = p /\ \A q \in Requests \ {r} : promise'[q] = promise[q]
    BY <1>1 DEF CallTypes
  <2>3. \A q \in Requests : promise'[q] = "none" <=> ~Sent(q)'
    BY <2>1, <2>2 DEF CallTypes, Sent
  <2>4. pending' = {q \in Requests : promise'[q] = "open"}
    BY <1>1, <2>1, <2>2 DEF CallTypes
  <2>5. inflight' = pending' \cap turns'
    BY <1>1, <2>1 DEF CallTypes
  <2> QED BY <2>1, <2>2, <2>3, <2>4, <2>5 DEF CallTypes
<1>2. ASSUME NEW p \in {"resolved", "rejected", "closed", "unwritten"},
  NEW S \in SUBSET Requests,
             UNCHANGED <<turns, id>>,
             promise' = [r \in Requests |-> IF r \in pending \cap S THEN p ELSE promise[r]],
             pending' = pending \ S, inflight' = inflight \ S
      PROVE  CallTypes'
  <2>1. promise' \in [Requests -> {"none", "open", "resolved", "rejected", "closed", "unwritten"}]
    BY <1>2 DEF CallTypes
  <2>2. \A q \in Requests : /\ q \in pending \cap S => promise'[q] = p /\ promise[q] = "open"
                            /\ q \notin pending \cap S => promise'[q] = promise[q]
    BY <1>2 DEF CallTypes
  <2>3. \A q \in Requests : promise'[q] = "none" <=> ~Sent(q)'
    BY <1>2, <2>2 DEF CallTypes, Sent
  <2>4. pending' = {q \in Requests : promise'[q] = "open"}
    BY <1>2, <2>2 DEF CallTypes
  <2>5. inflight' = pending' \cap turns'
    BY <1>2 DEF CallTypes
  <2> QED BY <1>2, <2>1, <2>3, <2>4, <2>5 DEF CallTypes
<1>3. ASSUME NEW r \in Requests, NEW waits, Send(r, waits) PROVE CallTypes'
  BY <1>1, <1>3 DEF Send, Open
<1>4. ASSUME NEW r \in Requests, SendRequestFails(r) PROVE CallTypes'
  BY <1>1, <1>4 DEF SendRequestFails, Open
<1>5. ASSUME NEW r \in Requests, SendMessageFails(r) PROVE CallTypes'
  BY <1>1, <1>5 DEF SendMessageFails
<1>6. ASSUME NEW t \in writing, MessageUnwritten(t) PROVE CallTypes'
  <2>1. /\ UNCHANGED <<turns, id>>
        /\ promise' = IF t \in pending THEN [promise EXCEPT ![t] = "unwritten"] ELSE promise
        /\ pending' = pending \ {t} /\ inflight' = inflight \ {t}
    BY <1>6 DEF MessageUnwritten
  <2>2. t \in Requests
    BY DEF OtherTypes
  <2>3. promise' = [r \in Requests |-> IF r \in pending \cap {t} THEN "unwritten" ELSE promise[r]]
    BY <2>1 DEF CallTypes
  <2> QED BY <1>2, <2>1, <2>2, <2>3
<1>7. CASE Read
  <2> DEFINE m == Head(toClient)
  <2>1. /\ m.about \in Requests /\ m.kind \in {"resolved", "rejected", "event", "question"}
    BY <1>7, HeadIs DEF Read
  <2>2. Dispatch(m) /\ UNCHANGED <<turns, id>>
    BY <1>7 DEF Read
  <2> HIDE DEF m
  <2>3. CASE UNCHANGED tables
    BY <2>2, <2>3, CallTypesKept
  <2>4. CASE ~UNCHANGED tables
    <3>1. m.kind \in {"resolved", "rejected"} /\ m.about \in pending
          /\ promise' = [promise EXCEPT ![m.about] = m.kind]
          /\ pending' = pending \ {m.about} /\ inflight' = inflight \ {m.about}
      BY <2>2, <2>4 DEF Dispatch, HandleResponse, HandleEvent, HandleIncomingRequest
    <3>2. promise' = [r \in Requests |-> IF r \in pending \cap {m.about} THEN m.kind ELSE promise[r]]
      BY <3>1 DEF CallTypes
    <3>3. {m.about} \in SUBSET Requests /\ m.kind \in {"resolved", "rejected", "closed", "unwritten"}
      BY <2>1, <3>1
    <3>4. UNCHANGED <<turns, id>> /\ pending' = pending \ {m.about} /\ inflight' = inflight \ {m.about}
      BY <2>2, <3>1
    <3> QED BY ONLY <1>2, <3>2, <3>3, <3>4
  <2> QED BY <2>3, <2>4
<1>8. CASE ReadEnds \/ ReadFails
  <2>1. /\ UNCHANGED <<turns, id>>
        /\ promise' = [r \in Requests |-> IF r \in pending THEN "closed" ELSE promise[r]]
        /\ pending' = {} /\ inflight' = {}
    BY <1>8 DEF ReadEnds, ReadFails, LoopEnds, FailAllPending
  <2>2. pending \subseteq Requests /\ inflight \subseteq Requests
    BY DEF CallTypes
  <2>3. /\ promise' = [r \in Requests |-> IF r \in pending \cap Requests THEN "closed" ELSE promise[r]]
        /\ pending' = pending \ Requests /\ inflight' = inflight \ Requests
    BY <2>1, <2>2
  <2> QED BY <1>2, <2>1, <2>3
<1>9. ASSUME NEW x, \/ Cancel(x) \/ Exit \/ Drain(x) \/ RequestUnwritten(x) \/ WriteBreaks
                    \/ NoticeExit \/ HandlerAnswers(x)
      PROVE  CallTypes'
  BY <1>9, CallTypesKept
     DEF Cancel, Exit, Drain, RequestUnwritten, WriteBreaks, NoticeExit, HandlerAnswers
<1>10. CASE ServerNext
  <2>1. UNCHANGED client
    BY <1>10 DEF ServerNext, ServerTakes, ServerTells, ServerAnswers, ServerDrops, ServerEnds
  <2> QED BY <2>1, CallTypesKept DEF client
<1> QED BY <1>3, <1>4, <1>5, <1>6, <1>7, <1>8, <1>9, <1>10 DEF Next, ClientNext

(***************************************************************************)
(* Who waits to write, whose write has failed and whose question is open.  *)
(***************************************************************************)
LEMMA OtherTypesStep ==
  ASSUME TypeOK, Talks, Next
  PROVE  OtherTypes'
<1> USE AreTypes DEF OtherTypes, calls, tables, server
<1>0. turns' = turns /\ turns \subseteq Requests
  <2>1. ClientNext => turns' = turns
    BY DEF ClientNext, Send, SendRequestFails, SendMessageFails, Register, Cancel, Exit, Drain,
           RequestUnwritten, MessageUnwritten, WriteBreaks, NoticeExit, HandlerAnswers, Read,
           ReadEnds, ReadFails, LoopEnds
  <2>2. ServerNext => turns' = turns
    BY DEF ServerNext, ServerTakes, ServerTells, ServerAnswers, ServerDrops, ServerEnds, client
  <2> QED BY <2>1, <2>2, InTurns DEF Next
<1>1. writing' \subseteq Requests
  <2>1. ClientNext => writing' \subseteq Requests
    BY DEF ClientNext, Send, SendRequestFails, SendMessageFails, Cancel, Exit, Drain,
           RequestUnwritten, MessageUnwritten, WriteBreaks, NoticeExit, HandlerAnswers, Read,
           ReadEnds, ReadFails, LoopEnds
  <2>2. ServerNext => writing' = writing
    BY DEF ServerNext, ServerTakes, ServerTells, ServerAnswers, ServerDrops, ServerEnds, client
  <2> QED BY <2>1, <2>2 DEF Next
<1>2. gone' \subseteq Requests \ turns
  <2>1. ClientNext => gone' \subseteq Requests \ turns
    BY DEF ClientNext, Send, SendRequestFails, SendMessageFails, Cancel, Exit, Drain,
           RequestUnwritten, MessageUnwritten, WriteBreaks, NoticeExit, HandlerAnswers, Read,
           ReadEnds, ReadFails, LoopEnds
  <2>2. ServerNext => gone' = gone
    BY DEF ServerNext, ServerTakes, ServerTells, ServerAnswers, ServerDrops, ServerEnds, client
  <2> QED BY <2>1, <2>2 DEF Next
<1>3. questions' \subseteq turns \X (turns \cup {Nobody})
  <2>1. ASSUME NEW t \in turns, questions' = questions \cup {<<t, LastHandle>>}
        PROVE  questions' \subseteq turns \X (turns \cup {Nobody})
    <3>1. LastHandle \in turns \cup {Nobody}
      <4>1. CASE inflight = {}
        BY <4>1 DEF LastHandle
      <4>2. ASSUME NEW u \in inflight PROVE LastHandle \in inflight
        BY LastHandleIs
      <4> QED BY <4>1, <4>2 DEF CallTypes
    <3> QED BY <2>1, <3>1
  <2>2. Read => questions' = questions \/ \E t \in turns : questions' = questions \cup {<<t, LastHandle>>}
    <3> SUFFICES ASSUME Read
                 PROVE  questions' = questions \/ \E t \in turns : questions' = questions \cup {<<t, LastHandle>>}
      OBVIOUS
    <3>1. toClient # <<>>
      BY DEF Read
    <3>2. Head(toClient).kind = "question" => Head(toClient).about \in turns
      BY <3>1, HeadIs
    <3> QED BY <3>2, ReadIs DEF Reads
  <2>3. ClientNext => Read \/ questions' \subseteq questions
    BY DEF ClientNext, Send, SendRequestFails, SendMessageFails, Cancel, Exit, Drain,
           RequestUnwritten, MessageUnwritten, WriteBreaks, NoticeExit, HandlerAnswers,
           ReadEnds, ReadFails, LoopEnds
  <2>4. ServerNext => questions' = questions
    BY DEF ServerNext, ServerTakes, ServerTells, ServerAnswers, ServerDrops, ServerEnds, client
  <2> QED BY <2>1, <2>2, <2>3, <2>4 DEF Next
<1>4. transport' \in {"running", "stopped", "closing"} /\ stdin' \in {"open", "destroyed"}
  <2>1. ClientNext => transport' \in {"running", "stopped", "closing"} /\ stdin' \in {"open", "destroyed"}
    BY DEF ClientNext, Send, SendRequestFails, SendMessageFails, Cancel, Exit, Drain,
           RequestUnwritten, MessageUnwritten, WriteBreaks, NoticeExit, HandlerAnswers, Read,
           ReadEnds, ReadFails, LoopEnds
  <2>2. ServerNext => UNCHANGED <<transport, stdin>>
    BY DEF ServerNext, ServerTakes, ServerTells, ServerAnswers, ServerDrops, ServerEnds, client
  <2> QED BY <2>1, <2>2 DEF Next
<1>5. reading' \in BOOLEAN /\ up' \in BOOLEAN
  <2>1. ClientNext => (reading' = reading \/ reading' = FALSE) /\ up' = up
    BY DEF ClientNext, Send, SendRequestFails, SendMessageFails, Cancel, Exit, Drain,
           RequestUnwritten, MessageUnwritten, WriteBreaks, NoticeExit, HandlerAnswers, Read,
           ReadEnds, ReadFails, LoopEnds
  <2>2. ServerNext => reading' = reading /\ (up' = up \/ up' = FALSE)
    BY DEF ServerNext, ServerTakes, ServerTells, ServerAnswers, ServerDrops, ServerEnds, client
  <2> QED BY <2>1, <2>2 DEF Next
<1>6. dead' \in BOOLEAN
  <2>1. ASSUME NEW m, Write(m) PROVE dead' = dead \/ dead' = TRUE
    BY <2>1 DEF Write
  <2>2. Read => dead' \in BOOLEAN
    BY DEF Read, Dispatch, HandleResponse, HandleEvent, HandleIncomingRequest
  <2>3. LoopEnds => dead' \in BOOLEAN
    BY DEF LoopEnds, FailAllPending
  <2>4. ClientNext => Read \/ LoopEnds \/ dead' = dead \/ dead' = TRUE
    BY <2>1 DEF ClientNext, Send, SendRequestFails, SendMessageFails, Cancel, Exit, Drain,
           RequestUnwritten, MessageUnwritten, WriteBreaks, NoticeExit, HandlerAnswers,
           ReadEnds, ReadFails
  <2>5. ServerNext => dead' = dead
    BY DEF ServerNext, ServerTakes, ServerTells, ServerAnswers, ServerDrops, ServerEnds, client
  <2> QED BY <2>2, <2>3, <2>4, <2>5 DEF Next
<1>7. asking' \subseteq turns
  <2>1. ClientNext => asking' = asking
    BY DEF ClientNext, Send, SendRequestFails, SendMessageFails, Cancel, Exit, Drain,
           RequestUnwritten, MessageUnwritten, WriteBreaks, NoticeExit, HandlerAnswers, Read,
           ReadEnds, ReadFails, LoopEnds
  <2>2. ServerNext => asking' \subseteq turns
    BY DEF ServerNext, ServerTakes, ServerTells, ServerAnswers, ServerDrops, ServerEnds
  <2> QED BY <2>1, <2>2 DEF Next
<1> QED BY <1>0, <1>1, <1>2, <1>3, <1>4, <1>5, <1>6, <1>7

LEMMA HeardTypesStep ==
  ASSUME TypeOK, Talks, Next
  PROVE  HeardTypes'
<1> USE AreTypes DEF HeardTypes
<1>0. turns' = turns
  <2>1. ClientNext => turns' = turns
    BY DEF ClientNext, Send, SendRequestFails, SendMessageFails, Register, Cancel, Exit, Drain,
           RequestUnwritten, MessageUnwritten, WriteBreaks, NoticeExit, HandlerAnswers, Read,
           ReadEnds, ReadFails, LoopEnds, calls
  <2>2. ServerNext => turns' = turns
    BY DEF ServerNext, ServerTakes, ServerTells, ServerAnswers, ServerDrops, ServerEnds,
      client, calls
  <2> QED BY <2>1, <2>2 DEF Next
<1>1. heard' = heard \/ \E t \in turns : heard' = [heard EXCEPT ![t] = @ + 1]
  <2>1. Read => heard' = heard \/ \E t \in turns : heard' = [heard EXCEPT ![t] = @ + 1]
    <3> SUFFICES ASSUME Read
                 PROVE  heard' = heard \/ \E t \in turns : heard' = [heard EXCEPT ![t] = @ + 1]
      OBVIOUS
    <3>1. inflight \subseteq turns
      BY DEF CallTypes
    <3> QED BY <3>1 DEF Read, Dispatch, HandleResponse, HandleEvent, HandleIncomingRequest
  <2>2. ClientNext => Read \/ heard' = heard
    BY DEF ClientNext, Send, SendRequestFails, SendMessageFails, Cancel, Exit, Drain,
           RequestUnwritten, MessageUnwritten, WriteBreaks, NoticeExit, HandlerAnswers,
           ReadEnds, ReadFails, LoopEnds
  <2>3. ServerNext => heard' = heard
    BY DEF ServerNext, ServerTakes, ServerTells, ServerAnswers, ServerDrops, ServerEnds, client
  <2> QED BY <2>1, <2>2, <2>3 DEF Next
<1> QED BY <1>0, <1>1

-----------------------------------------------------------------------------
LEMMA NextKeeps == TypeOK /\ Talks /\ [Next]_vars => (TypeOK /\ Talks)'
<1>1. ASSUME TypeOK, Talks, Next PROVE (TypeOK /\ Talks)'
  <2>1. Talks'
    BY <1>1, ClientKeeps, ServerKeeps DEF Next
  <2>2. CallTypes' /\ OtherTypes' /\ HeardTypes'
    BY <1>1, CallTypesStep, OtherTypesStep, HeardTypesStep
  <2> QED BY <2>1, <2>2, TypesAre, PTL
<1>2. ASSUME TypeOK, Talks, UNCHANGED vars PROVE (TypeOK /\ Talks)'
  <2>1. TypeOK'
    BY <1>2 DEF TypeOK, vars, calls, tables, server, InPipe, Sent
  <2> QED BY <1>2, <2>1, StutterKeeps
<1> QED BY <1>1, <1>2

(***************************************************************************)
(* The inductive invariant.                                                *)
(***************************************************************************)
IInv == TypeOK /\ Talks

LEMMA Invariant == Spec => []IInv
<1>1. Init => IInv
  BY InitTalks DEF IInv
<1>2. IInv /\ [Next]_vars => IInv'
  BY NextKeeps DEF IInv
<1> QED BY <1>1, <1>2, PTL DEF Spec

(***************************************************************************)
(* Types of the client, the pipes and the server; the table of resolvers   *)
(* holds exactly the open requests and the table of handles exactly the    *)
(* turns among them.                                                       *)
(***************************************************************************)
THEOREM TypeCorrect == Spec => []TypeOK
<1>1. IInv => TypeOK
  BY DEF IInv
<1> QED BY <1>1, Invariant, PTL

(***************************************************************************)
(* When `done` of a turn is settled by its answer (session.send_message in *)
(* client.ts), its handle has seen every event and question of the turn,   *)
(* for any number of requests, any pipe and any end of the server or the   *)
(* transport.                                                              *)
(***************************************************************************)
THEOREM AnsweredTurnsHeardAll == Spec => []TurnsHearTheirOwn
<1>1. IInv => TurnsHearTheirOwn
  <2> SUFFICES ASSUME TypeOK, Talks, NEW t \in turns, promise[t] \in {"resolved", "rejected"}
               PROVE  status[t] = "answered" /\ heard[t] = talk[t] - 1
    BY DEF IInv, TurnsHearTheirOwn
  <2>1. t \in Requests /\ status[t] = "answered"
    BY InTurns DEF Talks, Settles
  <2>2. Coming(toClient, t) = {}
    <3> SUFFICES ASSUME NEW k \in 1..Len(toClient), toClient[k].about = t PROVE FALSE
      BY DEF Coming
    <3> QED BY DEF Talks, Answers
  <2>3. heard[t] + Cardinality(Coming(toClient, t)) = Told(t) /\ heard[t] \in Nat
    BY DEF Talks, Hears, TypeOK
  <2>4. Cardinality(Coming(toClient, t)) = 0
    BY <2>2, FS_EmptySet
  <2> QED BY <2>1, <2>3, <2>4 DEF Told
<1> QED BY <1>1, Invariant, PTL

(***************************************************************************)
(* A permission question, which does not name its turn, is put to the      *)
(* handle of that turn or of one begun later; to none only when the turn's *)
(* own write has failed.                                                   *)
(***************************************************************************)
THEOREM QuestionsReachAHandle == Spec => []QuestionsFindATurn
<1>1. IInv => QuestionsFindATurn
  BY DEF IInv, Talks, Asked, QuestionsFindATurn
<1> QED BY <1>1, Invariant, PTL

=============================================================================
