-------------------------- MODULE MultiAgentProofs --------------------------
(***************************************************************************)
(* MultiAgent for any number of callers, children and calls.  Proved: the  *)
(* types, that nobody is cancelled without a cause, that a join which      *)
(* nobody stopped tells how its child ended, and that the backend          *)
(* implements ChildLife.                                                   *)
(***************************************************************************)
EXTENDS MultiAgent, TLAPS

(***************************************************************************)
(* The inductive invariant.  What a caller can rely on at each place: a    *)
(* call under way has no outcome yet; a CancelledError is on its way only  *)
(* to a caller told to cancel; a caller that waits for the end of a child  *)
(* has asked for it; a call that failed was about a child that is over or  *)
(* was never begun.                                                        *)
(***************************************************************************)
CallerOK(k) ==
  /\ place[k] # "free" => outcome[k] = "none"
  /\ must[k] => k \in stopped /\ place[k] # "free"
  /\ place[k] = "spawning" => child[on[k]] = "planned"
  /\ place[k] = "blocking" => on[k] \in sessions
  /\ place[k] \in {"expired", "cancelling"} => on[k] \in wanted
  /\ outcome[k] = "error" => on[k] # None /\ (child[on[k]] = "stillborn" \/ Over(on[k]))

\* A child that is being spawned, or runs inside its caller, has one caller only.
OneParent ==
  \A j, k \in Callers :
    /\ place[j] \in {"spawning", "blocking"} /\ place[k] \in {"spawning", "blocking"}
    /\ on[j] = on[k]
    => j = k

IInv ==
  /\ TypeOK /\ OneParent
  /\ \A k \in Callers : CallerOK(k)
  /\ ChildrenCancelledForCause /\ CallersCancelledForCause

(***************************************************************************)
(* Every step keeps it.                                                    *)
(***************************************************************************)
LEMMA IInvStep ==
  ASSUME IInv, [Next]_vars
  PROVE  IInv'
<1> USE MultiAgentAssumption DEF IInv, ChildrenCancelledForCause, CallersCancelledForCause,
  TypeOK, OneParent, CallerOK, Over, Ended, Waiting
<1>1. ASSUME NEW k \in Callers, NEW c \in Children, Spawn(k, c) PROVE IInv'
  BY <1>1 DEF Spawn, Enter
<1>2. ASSUME NEW k \in Callers, SpawnFails(k) PROVE IInv'
  BY <1>2 DEF SpawnFails, Return
<1>3. ASSUME NEW k \in Callers, RunBlocking(k) PROVE IInv'
  BY <1>3 DEF RunBlocking
<1>4. ASSUME NEW k \in Callers, RunDetached(k) PROVE IInv'
  BY <1>4 DEF RunDetached, Return
<1>5. ASSUME NEW k \in Callers, NEW how \in Ended, BlockingEnds(k, how) PROVE IInv'
  BY <1>5 DEF BlockingEnds, Return
<1>6. ASSUME NEW c \in Children, NEW how \in Ended, ChildEnds(c, how) PROVE IInv'
  BY <1>6 DEF ChildEnds, caller
<1>7. ASSUME NEW k \in Callers, NEW c \in Children, JoinStored(k, c) PROVE IInv'
  BY <1>7 DEF JoinStored, Immediate
<1>8. ASSUME NEW k \in Callers, NEW c \in Children, JoinUnknown(k, c) PROVE IInv'
  BY <1>8 DEF JoinUnknown, Immediate
<1>9. ASSUME NEW k \in Callers, NEW c \in Children, NEW timed \in BOOLEAN, Join(k, c, timed)
      PROVE  IInv'
  BY <1>9 DEF Join, Enter
<1>10. ASSUME NEW k \in Callers, JoinReturns(k) PROVE IInv'
  BY <1>10 DEF JoinReturns, Return, Verdict
<1>11. ASSUME NEW k \in Callers, JoinTimesOut(k) PROVE IInv'
  <2>1. CASE Over(on[k])
    <3>1. /\ place[k] = "timing" /\ ~must[k]
          /\ Return(k, "timeout") /\ wanted' = wanted \cup {on[k]}
          /\ UNCHANGED <<child, told, tasks, results, sessions>>
      BY <1>11, <2>1 DEF JoinTimesOut
    <3> QED BY <2>1, <3>1 DEF Return
  <2>2. CASE ~Over(on[k])
    BY <1>11, <2>2 DEF JoinTimesOut, Return
  <2> QED BY <2>1, <2>2
<1>12. ASSUME NEW k \in Callers, NEW c \in Children, CancelNothing(k, c) PROVE IInv'
  BY <1>12 DEF CancelNothing, Immediate
<1>13. ASSUME NEW k \in Callers, NEW c \in Children, Cancel(k, c) PROVE IInv'
  BY <1>13 DEF Cancel, Enter
<1>14. ASSUME NEW k \in Callers, Drained(k) PROVE IInv'
  BY <1>14 DEF Drained, Return
<1>15. ASSUME NEW k \in Callers, StopCaller(k) PROVE IInv'
  <2>1. CASE place[k] \in Waiting \ {"timing"} /\ ~Over(on[k])
    BY <1>15, <2>1 DEF StopCaller
  <2>2. CASE ~(place[k] \in Waiting \ {"timing"} /\ ~Over(on[k]))
    <3>1. /\ place[k] # "free" /\ k \notin stopped /\ stopped' = stopped \cup {k}
          /\ must' = [must EXCEPT ![k] = TRUE]
          /\ wanted' = IF place[k] = "joining" THEN wanted \cup {on[k]} ELSE wanted
          /\ UNCHANGED <<child, told, tasks, results, sessions, place, on, outcome, calls>>
      BY <1>15, <2>2 DEF StopCaller
    <3> QED BY <3>1
  <2> QED BY <2>1, <2>2
<1>16. ASSUME NEW k \in Callers, CallerCancelled(k) PROVE IInv'
  BY <1>16 DEF CallerCancelled, Return
<1>17. ASSUME UNCHANGED vars PROVE IInv'
  BY <1>17 DEF vars, caller
<1> HIDE DEF IInv
<1>18. ASSUME NEW k \in Callers, Call(k) PROVE IInv'
  BY <1>1, <1>7, <1>8, <1>9, <1>12, <1>13, <1>18 DEF Call
<1>19. ASSUME NEW k \in Callers, Proceed(k) PROVE IInv'
  BY <1>2, <1>3, <1>4, <1>10, <1>11, <1>14, <1>16, <1>19 DEF Proceed
<1>20. ASSUME AllDone PROVE IInv'
  BY <1>17, <1>20 DEF AllDone
<1> QED BY <1>5, <1>6, <1>15, <1>17, <1>18, <1>19, <1>20 DEF Next

LEMMA IInvInit == Init => IInv
BY MultiAgentAssumption
   DEF Init, IInv, TypeOK, OneParent, CallerOK, ChildrenCancelledForCause,
       CallersCancelledForCause, Over, Ended, Waiting

LEMMA Invariance == Spec => []IInv
<1>1. IInv /\ [Next]_vars => IInv'
  BY IInvStep
<1> QED BY <1>1, IInvInit, PTL DEF Spec

(***************************************************************************)
(* The states of children and callers, their tables and their calls fit    *)
(* together: whoever waits for a child waits for a task, whatever has a    *)
(* result has returned, and only stored children run.                      *)
(***************************************************************************)
THEOREM TypeCorrect == Spec => []TypeOK
<1>1. IInv => TypeOK
  BY DEF IInv
<1> QED BY <1>1, Invariance, PTL

(***************************************************************************)
(* A child is cancelled only if somebody wanted its end (cancel(), the     *)
(* timeout of a join, or the end of the caller it belongs to).             *)
(***************************************************************************)
THEOREM ChildrenEndForCause == Spec => []ChildrenCancelledForCause
<1>1. IInv => ChildrenCancelledForCause
  BY DEF IInv
<1> QED BY <1>1, Invariance, PTL

(***************************************************************************)
(* A CancelledError comes out of a call only if the caller was told to     *)
(* cancel, or out of the join of a child that was cancelled.               *)
(***************************************************************************)
THEOREM CallersEndForCause == Spec => []CallersCancelledForCause
<1>1. IInv => CallersCancelledForCause
  BY DEF IInv
<1> QED BY <1>1, Invariance, PTL

-----------------------------------------------------------------------------
(* What the CASE expressions of the model come to. *)

LEMMA StatusRead ==
  ASSUME NEW c \in Children
  PROVE  /\ Status(c) = IF c \in results THEN "succeeded"
                        ELSE IF c \notin tasks THEN "unknown"
                        ELSE IF child[c] = "cancelled" THEN "cancelled"
                        ELSE IF child[c] \in {"failed", "late"} THEN "failed"
                        ELSE IF child[c] = "returned" THEN "succeeded" ELSE "running"
         /\ Status(c)' = IF c \in results' THEN "succeeded"
                        ELSE IF c \notin tasks' THEN "unknown"
                        ELSE IF child'[c] = "cancelled" THEN "cancelled"
                        ELSE IF child'[c] \in {"failed", "late"} THEN "failed"
                        ELSE IF child'[c] = "returned" THEN "succeeded" ELSE "running"
BY Zenon DEF Status

LEMMA Told ==
  /\ Promise!Tellable("succeeded") = {"result", "timeout", "gone"}
  /\ Promise!Tellable("failed") = {"error", "timeout", "gone"}
  /\ Promise!Tellable("cancelled") = {"cancelled", "timeout", "gone"}
  /\ Promise!Tellable("unknown") = {"not_found", "gone"}
BY Zenon DEF Promise!Tellable

LEMMA VerdictGiven ==
  ASSUME NEW c \in Children, Over(c)
  PROVE  Verdict(c) = IF child[c] = "returned" THEN "result"
                      ELSE IF child[c] = "failed" THEN "error"
                      ELSE IF child[c] = "late" THEN "timeout" ELSE "cancelled"
BY Zenon DEF Verdict


(***************************************************************************)
(* Of all steps only JoinReturns ends the join of a caller nobody stopped. *)
(***************************************************************************)
LEMMA JoinEnds ==
  ASSUME IInv, [Next]_vars, NEW k \in Callers,
         place[k] = "joining", place'[k] = "free", k \notin stopped
  PROVE  JoinReturns(k)
<1> USE DEF IInv, TypeOK
<1>1. ASSUME NEW j \in Callers, Call(j) PROVE FALSE
  BY <1>1 DEF Call, Spawn, JoinStored, JoinUnknown, Join, CancelNothing, Cancel, Enter,
    Immediate
<1>2. ASSUME NEW j \in Callers, Proceed(j), ~JoinReturns(j) PROVE FALSE
  BY <1>2 DEF Proceed, SpawnFails, RunBlocking, RunDetached, JoinTimesOut, Drained,
              CallerCancelled, Return, CallerOK
<1>3. ASSUME NEW j \in Callers, j # k, JoinReturns(j) PROVE FALSE
  BY <1>3 DEF JoinReturns, Return
<1>4. ASSUME NEW j \in Callers, StopCaller(j) PROVE FALSE
  BY <1>4 DEF StopCaller
<1>5. ASSUME NEW j \in Callers, NEW how \in Ended, BlockingEnds(j, how) PROVE FALSE
  BY <1>5 DEF BlockingEnds, Return
<1>6. ASSUME NEW c \in Children, NEW how \in Ended, ChildEnds(c, how) PROVE FALSE
  BY <1>6 DEF ChildEnds, caller
<1>7. ~UNCHANGED vars
  BY DEF vars, caller
<1> QED BY <1>1, <1>2, <1>3, <1>4, <1>5, <1>6, <1>7 DEF Next, AllDone

(***************************************************************************)
(* A join without a timeout that nobody stopped ends with the result or    *)
(* the exception of its child, and the result is stored.                   *)
(***************************************************************************)
THEOREM JoinsTellHowTheyEnded == Spec => JoinsTell
<1> DEFINE Tells(k) ==
      place[k] = "joining" /\ place'[k] = "free" /\ k \notin stopped =>
        LET how == child[on[k]] IN
          /\ how = "returned" => outcome'[k] = "result" /\ on[k] \in results'
          /\ how = "failed" => outcome'[k] = "error"
          /\ outcome'[k] = "timeout" => how = "late"
<1>1. ASSUME IInv, [Next]_vars, NEW k \in Callers PROVE Tells(k)
  <2> SUFFICES ASSUME place[k] = "joining", place'[k] = "free", k \notin stopped
               PROVE  LET how == child[on[k]] IN
                        /\ how = "returned" => outcome'[k] = "result" /\ on[k] \in results'
                        /\ how = "failed" => outcome'[k] = "error"
                        /\ outcome'[k] = "timeout" => how = "late"
    OBVIOUS
  <2>1. JoinReturns(k)
    BY <1>1, JoinEnds
  <2>2. on[k] \in Children /\ Over(on[k])
    BY <1>1, <2>1 DEF JoinReturns, IInv, TypeOK, Waiting
  <2> QED BY <1>1, <2>1, <2>2, VerdictGiven DEF JoinReturns, Return, IInv, TypeOK
<1>2. IInv /\ [Next]_vars => \A k \in Callers : Tells(k)
  BY <1>1
<1> QED BY <1>2, Invariance, PTL DEF Spec, JoinsTell

-----------------------------------------------------------------------------
(***************************************************************************)
(* The refinement of ChildLife.  A step of the backend is, for its         *)
(* promise, a caller that asks or hears (the children stay as they are),   *)
(* or a child that begins or ends (the answers stay as they are).          *)
(***************************************************************************)
SameStatus == \A c \in Children : Status(c)' = Status(c)

SameAnswer(k) == Answer(k)' = Answer(k)

Hears(k) ==
  /\ SameStatus /\ \A j \in Callers \ {k} : SameAnswer(j)
  /\ \/ Answer(k)' = <<>>
     \/ /\ on'[k] \in Children
        /\ Answer(k)' = <<on'[k], outcome'[k]>>
        /\ outcome'[k] \in Promise!Tellable(Status(on'[k]))

Lives(c) ==
  /\ \A k \in Callers : SameAnswer(k)
  /\ \A d \in Children \ {c} : Status(d)' = Status(d)
  /\ \/ Status(c)' = Status(c)
     \/ Status(c) = "unknown" /\ Status(c)' \in {"running", "succeeded"}
     \/ Status(c) = "running" /\ Status(c)' \in Promise!Final

Mapped == <<[c \in Children |-> Status(c)], [k \in Callers |-> Answer(k)]>>

LEMMA HearsKept ==
  ASSUME NEW k \in Callers, Hears(k)
  PROVE  [Promise!Next]_Mapped
<1> DEFINE answer == [j \in Callers |-> Answer(j)]
<1>1. [c \in Children |-> Status(c)]' = [c \in Children |-> Status(c)]
  BY DEF Hears, SameStatus
<1>2. CASE Answer(k)' = <<>>
  <2>1. answer' = [answer EXCEPT ![k] = <<>>]
    BY <1>2 DEF Hears, SameAnswer
  <2>2. Promise!Ask(k)
    BY <1>1, <2>1 DEF Promise!Ask
  <2> QED BY <2>2 DEF Promise!Next
<1>3. CASE /\ on'[k] \in Children
           /\ Answer(k)' = <<on'[k], outcome'[k]>>
           /\ outcome'[k] \in Promise!Tellable(Status(on'[k]))
  <2>1. answer' = [answer EXCEPT ![k] = <<on'[k], outcome'[k]>>]
    BY <1>3 DEF Hears, SameAnswer
  <2>2. Promise!Hear(k, on'[k])
    BY <1>1, <1>3, <2>1 DEF Promise!Hear
  <2> QED BY <1>3, <2>2 DEF Promise!Next
<1> QED BY <1>2, <1>3 DEF Hears

LEMMA LivesKept ==
  ASSUME NEW c \in Children, Lives(c)
  PROVE  [Promise!Next]_Mapped
<1> DEFINE status == [d \in Children |-> Status(d)]
<1>1. [k \in Callers |-> Answer(k)]' = [k \in Callers |-> Answer(k)]
  BY DEF Lives, SameAnswer
<1>2. status' = [status EXCEPT ![c] = Status(c)']
  BY DEF Lives
<1>3. CASE Status(c)' = Status(c)
  <2>1. status' = status
    BY <1>2, <1>3
  <2> QED BY <1>1, <2>1 DEF Mapped
<1>4. CASE Status(c) = "unknown" /\ Status(c)' \in {"running", "succeeded"}
  <2>1. Promise!Begin(c) \/ Promise!BeginAndSucceed(c)
    BY <1>2, <1>4 DEF Promise!Begin, Promise!BeginAndSucceed
  <2> QED BY <1>1, <2>1 DEF Promise!Live, Promise!Next
<1>5. CASE Status(c) = "running" /\ Status(c)' \in Promise!Final
  <2>1. Promise!End(c)
    BY <1>2, <1>5 DEF Promise!End
  <2> QED BY <1>1, <2>1 DEF Promise!Live, Promise!Next
<1> QED BY <1>3, <1>4, <1>5 DEF Lives

LEMMA AnswerKept ==
  ASSUME IInv, NEW k \in Callers,
         outcome'[k] = outcome[k], on'[k] = on[k],
         outcome[k] # "none" => (k \in stopped' <=> k \in stopped),
         \/ tasks' = tasks
         \/ \E c \in Children : child[c] = "planned" /\ tasks' = tasks \cup {c}
  PROVE  SameAnswer(k)
<1>1. CASE outcome[k] \in {"none", "handle"}
  BY <1>1 DEF SameAnswer, Answer
<1>2. CASE outcome[k] \in {"error", "cancelled"}
  <2>1. (on[k] \in tasks' <=> on[k] \in tasks) \/ (outcome[k] = "cancelled" /\ k \in stopped)
    <3>1. child[on[k]] = "planned" => outcome[k] # "error"
      BY DEF IInv, CallerOK, Over, Ended
    <3>2. outcome[k] = "cancelled" => k \in stopped \/ on[k] \in tasks
      BY DEF IInv, CallersCancelledForCause
    <3> QED BY <1>2, <3>1, <3>2
  <2> QED BY <1>2, <2>1 DEF SameAnswer, Answer
<1>3. CASE outcome[k] \notin {"none", "handle", "error", "cancelled"}
  BY <1>3 DEF SameAnswer, Answer
<1> QED BY <1>1, <1>2, <1>3

LEMMA AnswersKept ==
  ASSUME IInv, UNCHANGED <<on, outcome, stopped, tasks>>
  PROVE  \A k \in Callers : SameAnswer(k)
BY DEF SameAnswer, Answer

LEMMA OthersKept ==
  ASSUME IInv, NEW k \in Callers, UNCHANGED tasks,
         \A j \in Callers \ {k} : outcome'[j] = outcome[j] /\ on'[j] = on[j] /\ (j \in stopped' <=> j \in stopped)
  PROVE  \A j \in Callers \ {k} : SameAnswer(j)
BY AnswerKept

LEMMA StatusKept ==
  ASSUME UNCHANGED <<child, tasks, results>>
  PROVE SameStatus
BY DEF SameStatus, Status, Over

LEMMA AsksKind ==
  ASSUME IInv, NEW k \in Callers, NEW c \in Children,
         \/ \E timed \in BOOLEAN : Join(k, c, timed) 
         \/ Cancel(k, c)
  PROVE Hears(k)
<1>1. SameStatus
  BY StatusKept DEF Join, Cancel
<1>2. \A j \in Callers \ {k} : SameAnswer(j)
  BY OthersKept DEF Join, Cancel, Enter, IInv, TypeOK
<1>3. outcome'[k] = "none"
  BY DEF Join, Cancel, Enter, IInv, TypeOK
<1>4. Answer(k)' = <<>>
  BY <1>3 DEF Answer
<1> QED BY <1>1, <1>2, <1>4 DEF Hears

LEMMA ImmediateKind ==
  ASSUME IInv, NEW k \in Callers, NEW c \in Children,
         JoinStored(k, c) \/ JoinUnknown(k, c) \/ CancelNothing(k, c)
  PROVE Hears(k)
<1>1. SameStatus /\ Status(c)' = Status(c)
  BY StatusKept DEF JoinStored, JoinUnknown, CancelNothing, SameStatus
<1>2. \A j \in Callers \ {k} : SameAnswer(j)
  BY OthersKept DEF JoinStored, JoinUnknown, CancelNothing, Immediate, IInv, TypeOK
<1>3. on'[k] = c
  BY DEF JoinStored, JoinUnknown, CancelNothing, Immediate, IInv, TypeOK
<1>4. outcome'[k] \in {"result", "not_found", "gone"}
  BY DEF JoinStored, JoinUnknown, CancelNothing, Immediate, IInv, TypeOK
<1>5. Answer(k)' = <<on'[k], outcome'[k]>>
  BY <1>4 DEF Answer
<1>6. outcome'[k] \in Promise!Tellable(Status(c))
  BY StatusRead, Told DEF JoinStored, JoinUnknown, CancelNothing, Immediate, IInv, TypeOK,
    Over, Ended
<1> QED BY <1>1, <1>2, <1>3, <1>5, <1>6 DEF Hears

LEMMA SpawnKind ==
  ASSUME IInv, NEW k \in Callers, 
      \/ \E c \in Children : Spawn(k, c) 
      \/ SpawnFails(k)
  PROVE Hears(k)
<1>1. SameStatus
  BY StatusRead DEF SameStatus, Spawn, SpawnFails, IInv, TypeOK, CallerOK, Over, Ended
<1>2. \A j \in Callers \ {k} : SameAnswer(j)
  BY OthersKept DEF Spawn, SpawnFails, Enter, Return, IInv, TypeOK
<1>3. Answer(k)' = <<>>
  BY DEF Answer, Spawn, SpawnFails, Enter, Return, IInv, TypeOK, CallerOK, Over, Ended
<1> QED BY <1>1, <1>2, <1>3 DEF Hears

LEMMA RunKind ==
  ASSUME IInv, NEW k \in Callers, RunBlocking(k) \/ RunDetached(k)
  PROVE \E c \in Children : Lives(c)
<1>1. on[k] \in Children /\ child[on[k]] = "planned" /\ place[k] = "spawning"
  BY DEF RunBlocking, RunDetached, IInv, TypeOK, CallerOK
<1>2. \A j \in Callers \ {k} : SameAnswer(j)
  BY <1>1, AnswerKept DEF RunBlocking, RunDetached, Return, IInv, TypeOK
<1>3. SameAnswer(k)
  <2>1. outcome[k] = "none" /\ outcome'[k] \in {"none", "handle"}
    BY <1>1 DEF RunBlocking, RunDetached, Return, IInv, TypeOK, CallerOK
  <2> QED BY <2>1 DEF SameAnswer, Answer
<1>4. PICK c \in Children : c = on[k]
  BY <1>1
<1>5. \A d \in Children \ {c} : Status(d)' = Status(d)
  BY <1>1, <1>4, StatusRead DEF RunBlocking, RunDetached, IInv, TypeOK, Over, Ended
<1>6. Status(c) = "unknown" /\ Status(c)' \in {"unknown", "running"}
  BY <1>1, <1>4, StatusRead DEF RunBlocking, RunDetached, IInv, TypeOK, Over, Ended
<1>7. Lives(c)
  BY <1>2, <1>3, <1>5, <1>6 DEF Lives
<1> QED BY <1>7

LEMMA BlockingEndsKind ==
  ASSUME IInv, NEW k \in Callers, NEW how \in Ended, BlockingEnds(k, how)
  PROVE \E c \in Children : Lives(c)
<1>1. on[k] \in Children /\ child[on[k]] = "running" /\ place[k] = "blocking" /\ on[k] \notin tasks
  BY DEF BlockingEnds, IInv, TypeOK, CallerOK
<1>2. \A j \in Callers \ {k} : SameAnswer(j)
  BY OthersKept DEF BlockingEnds, Return, IInv, TypeOK
<1>3. SameAnswer(k)
  <2>1. outcome[k] = "none" /\ outcome'[k] \in {"handle", "error"} /\ on'[k] = on[k] /\ on[k] \notin tasks'
    BY <1>1 DEF BlockingEnds, Return, IInv, TypeOK, CallerOK
  <2> QED BY <2>1 DEF SameAnswer, Answer
<1>4. PICK c \in Children : c = on[k]
  BY <1>1
<1>5. \A d \in Children \ {c} : Status(d)' = Status(d)
  BY <1>1, <1>4, StatusRead DEF BlockingEnds, IInv, TypeOK, Over, Ended
<1>6. Status(c) = "unknown" /\ Status(c)' \in {"unknown", "succeeded"}
  BY <1>1, <1>4, StatusRead DEF BlockingEnds, IInv, TypeOK, Over, Ended
<1>7. Lives(c)
  BY <1>2, <1>3, <1>5, <1>6 DEF Lives
<1> QED BY <1>7

LEMMA ChildEndsKind ==
  ASSUME IInv, NEW c \in Children, NEW how \in Ended, ChildEnds(c, how)
  PROVE Lives(c)
<1>1. \A j \in Callers : SameAnswer(j)
  BY AnswersKept DEF ChildEnds, caller
<1>2. \A d \in Children \ {c} : Status(d)' = Status(d)
  BY StatusRead DEF ChildEnds, IInv, TypeOK, Over, Ended
<1>3. Status(c) = "running" /\ Status(c)' \in Promise!Final
  BY StatusRead DEF ChildEnds, IInv, TypeOK, Over, Ended, Promise!Final
<1> QED BY <1>1, <1>2, <1>3 DEF Lives

LEMMA JoinReturnsKind ==
  ASSUME IInv, NEW k \in Callers, JoinReturns(k)
  PROVE Hears(k)
<1>1. on[k] \in tasks /\ on[k] \in Children /\ Over(on[k]) /\ on'[k] = on[k] /\ outcome'[k] = Verdict(on[k])
  BY DEF JoinReturns, IInv, TypeOK, Waiting, Return
<1>2. Verdict(on[k]) = "result" <=> child[on[k]] = "returned"
  BY <1>1, VerdictGiven
<1>3. SameStatus
  BY <1>1, <1>2, StatusRead DEF SameStatus, JoinReturns, IInv, TypeOK
<1>4. \A j \in Callers \ {k} : SameAnswer(j)
  BY OthersKept DEF JoinReturns, Return, IInv, TypeOK
<1>5. Answer(k)' = <<>> \/ Answer(k)' = <<on'[k], outcome'[k]>>
  BY DEF Answer
<1>6. outcome'[k] \in Promise!Tellable(Status(on[k]))
  BY <1>1, VerdictGiven, StatusRead, Told DEF IInv, TypeOK, Over, Ended
<1> QED BY <1>1, <1>3, <1>4, <1>5, <1>6 DEF Hears

LEMMA DrainedKind ==
  ASSUME IInv, NEW k \in Callers, Drained(k) \/ JoinTimesOut(k)
  PROVE Hears(k)
<1>1. on[k] \in tasks /\ on[k] \in Children /\ on'[k] = on[k]
  BY DEF Drained, JoinTimesOut, IInv, TypeOK, Waiting, Return
<1>2. SameStatus
  BY StatusKept DEF Drained, JoinTimesOut
<1>3. \A j \in Callers \ {k} : SameAnswer(j)
  BY OthersKept DEF Drained, JoinTimesOut, Return, IInv, TypeOK
<1>4. CASE ~Over(on[k])
  <2>1. outcome[k] = "none" /\ outcome'[k] = "none"
    BY <1>4 DEF Drained, JoinTimesOut, IInv, TypeOK, CallerOK
  <2>2. Answer(k)' = <<>>
    BY <2>1 DEF Answer
  <2> QED BY <1>2, <1>3, <2>2 DEF Hears
<1>5. CASE Over(on[k])
  <2>1. outcome'[k] \in {"timeout", "gone"}
    BY <1>5 DEF Drained, JoinTimesOut, Return, IInv, TypeOK
  <2>2. Answer(k)' = <<on'[k], outcome'[k]>>
    BY <2>1 DEF Answer
  <2>3. outcome'[k] \in Promise!Tellable(Status(on[k]))
    BY <1>1, <1>5, <2>1, StatusRead, Told DEF IInv, TypeOK, Over, Ended
  <2> QED BY <1>1, <1>2, <1>3, <2>2, <2>3 DEF Hears
<1> QED BY <1>4, <1>5

LEMMA StoppedKind ==
  ASSUME IInv, NEW k \in Callers, StopCaller(k) \/ CallerCancelled(k)
  PROVE Hears(k)
<1>1. CASE StopCaller(k)
  <2>1. SameStatus
    BY <1>1, StatusKept DEF StopCaller
  <2>2. \A j \in Callers \ {k} : SameAnswer(j)
    BY <1>1, OthersKept DEF StopCaller, IInv, TypeOK
  <2>3. outcome'[k] = "none"
    BY <1>1 DEF StopCaller, IInv, CallerOK
  <2>4. Answer(k)' = <<>>
    BY <2>3 DEF Answer
  <2> QED BY <2>1, <2>2, <2>4 DEF Hears
<1>2. CASE CallerCancelled(k)
  <2>1. \/ child' = child
        \/ /\ place[k] \in {"spawning", "blocking"}
           /\ child' = [child EXCEPT ![on[k]] = "stillborn"] \/ child' = [child EXCEPT ![on[k]] = "cancelled"]
    BY <1>2 DEF CallerCancelled
  <2>2. SameStatus
    BY <1>2, <2>1, StatusRead DEF CallerCancelled, SameStatus, IInv, TypeOK, CallerOK, Over,
      Ended
  <2>3. \A j \in Callers \ {k} : SameAnswer(j)
    BY <1>2, OthersKept DEF CallerCancelled, Return, IInv, TypeOK
  <2>4. outcome'[k] = "cancelled" /\ k \in stopped'
    BY <1>2 DEF CallerCancelled, Return, IInv, TypeOK, CallerOK
  <2>5. Answer(k)' = <<>>
    BY <2>4 DEF Answer
  <2> QED BY <2>2, <2>3, <2>5 DEF Hears
<1> QED BY <1>1, <1>2

LEMMA StepKind ==
  ASSUME IInv, [Next]_vars
  PROVE  [Promise!Next]_Mapped
<1>1. CASE UNCHANGED vars
  <2>1. SameStatus
    BY <1>1, StatusKept DEF vars
  <2>2. \A k \in Callers : SameAnswer(k)
    BY <1>1, AnswersKept DEF vars, caller
  <2> QED BY <2>1, <2>2 DEF SameStatus, SameAnswer, Mapped
<1>2. ASSUME NEW k \in Callers, Call(k) \/ Proceed(k) \/ StopCaller(k)
      PROVE  Hears(k) \/ \E c \in Children : Lives(c)
  BY <1>2, AsksKind, ImmediateKind, SpawnKind, RunKind, JoinReturnsKind, DrainedKind,
    StoppedKind DEF Call, Proceed
<1> QED 
  BY <1>1, <1>2, BlockingEndsKind, ChildEndsKind, HearsKept, LivesKept DEF Next, AllDone

(***************************************************************************)
(* The backend keeps the promise of ChildLife: the initial states map to   *)
(* its initial state, and every step to one of its steps or to none.       *)
(***************************************************************************)
THEOREM BackendKeepsPromise == Spec => ChildrenKeepPromise
<1>1. Init => Promise!Init
  BY StatusRead DEF Init, Promise!Init, Answer
<1>2. IInv /\ [Next]_vars => [Promise!Next]_Mapped
  BY StepKind
<1> QED BY <1>1, <1>2, Invariance, PTL DEF Spec, ChildrenKeepPromise, Promise!Spec, Mapped

=============================================================================
