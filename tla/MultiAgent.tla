----------------------------- MODULE MultiAgent -----------------------------
(***************************************************************************)
(* InProcessMultiAgentBackend (builtin/multi_agent/in_process.py): callers *)
(* (tools of parent turns, or anyone with the backend) spawn, join and     *)
(* cancel child agents.  A detached child is an asyncio task; a blocking   *)
(* child runs inside its caller.                                           *)
(*                                                                         *)
(* A step is the code from one suspension point to the next.  What a child *)
(* does in its turn is left to module Turn: here it runs, and ends in one  *)
(* of four ways.  asyncio's part is explicit: awaiting a task passes the   *)
(* awaiter's cancellation on to it, shield keeps it off, a cancelled task  *)
(* ends when its CancelledError has come through, a caller whose child has *)
(* ended runs later, and a timer may go off in between.                    *)
(***************************************************************************)
EXTENDS Naturals, FiniteSets

CONSTANTS Callers, Children, None,
          MaxCalls     \* bound: calls a caller makes

ASSUME MultiAgentAssumption == None \notin Children /\ MaxCalls \in Nat

VARIABLES
  child,      \* of each child: "unborn", "planned", "running" or how it ended
  told,       \* children whose task was told to cancel
  tasks,      \* _tasks: children with a task
  results,    \* _results: children with a stored result
  sessions,   \* children whose session is stored
  place,      \* where each caller is
  on,         \* the child its call is about
  must,       \* a CancelledError is on its way to the caller
  outcome,    \* what its last call came to
  calls,      \* calls it has made
  stopped,    \* ghost: callers told to cancel in their present or last call
  wanted      \* ghost: children whose end somebody has asked for

caller == <<place, on, must, outcome, calls, stopped>>
vars == <<child, told, tasks, results, sessions, caller, wanted>>

\* "late": the child raised asyncio.TimeoutError itself.
Ended == {"returned", "failed", "late", "cancelled"}

Over(c) == child[c] \in Ended

Waiting == {"joining", "timing", "expired", "cancelling"}

TypeOK ==
  /\ child \in [Children -> {"unborn", "planned", "stillborn", "running"} \cup Ended]
  /\ told \subseteq tasks /\ results \subseteq Children
  /\ tasks \cup results \subseteq sessions /\ sessions \subseteq Children
  /\ \A c \in tasks : child[c] = "running" \/ Over(c)
  /\ \A c \in results : child[c] = "returned"
  /\ place \in [Callers -> {"free", "spawning", "blocking"} \cup Waiting]
  /\ on \in [Callers -> Children \cup {None}]
  /\ \A k \in Callers : place[k] # "free" => on[k] # None
  /\ \A k \in Callers : place[k] \in Waiting => on[k] \in tasks
  /\ \A k \in Callers : place[k] = "blocking" => child[on[k]] = "running" /\ on[k] \notin tasks
  /\ must \in [Callers -> BOOLEAN]
  /\ outcome \in [Callers -> {"none", "handle", "result", "error", "cancelled",
                              "not_found", "timeout", "gone"}]
  /\ calls \in [Callers -> 0..MaxCalls]
  /\ stopped \subseteq Callers /\ wanted \subseteq Children

Init ==
  /\ child = [c \in Children |-> "unborn"]
  /\ told = {} /\ tasks = {} /\ results = {} /\ sessions = {}
  /\ place = [k \in Callers |-> "free"]
  /\ on = [k \in Callers |-> None]
  /\ must = [k \in Callers |-> FALSE]
  /\ outcome = [k \in Callers |-> "none"]
  /\ calls = [k \in Callers |-> 0]
  /\ stopped = {} /\ wanted = {}

-----------------------------------------------------------------------------
(* Calls begin and end. *)

\* Caller k calls, about child c, and is suspended at p.
Enter(k, c, p) ==
  /\ place[k] = "free" /\ calls[k] < MaxCalls
  /\ place' = [place EXCEPT ![k] = p]
  /\ on' = [on EXCEPT ![k] = c]
  /\ outcome' = [outcome EXCEPT ![k] = "none"]
  /\ calls' = [calls EXCEPT ![k] = @ + 1]
  /\ stopped' = stopped \ {k}
  /\ UNCHANGED must

\* A call that returns or raises o without being suspended.
Immediate(k, c, o) ==
  /\ place[k] = "free" /\ calls[k] < MaxCalls
  /\ on' = [on EXCEPT ![k] = c]
  /\ outcome' = [outcome EXCEPT ![k] = o]
  /\ calls' = [calls EXCEPT ![k] = @ + 1]
  /\ stopped' = stopped \ {k}
  /\ UNCHANGED <<place, must>>

\* The call of k returns or raises o.
Return(k, o) ==
  /\ place' = [place EXCEPT ![k] = "free"]
  /\ outcome' = [outcome EXCEPT ![k] = o]
  /\ must' = [must EXCEPT ![k] = FALSE]
  /\ UNCHANGED <<on, calls, stopped>>

-----------------------------------------------------------------------------
(* spawn() *)

\* The child's id is fresh; the parent's session is about to be loaded and the
\* child's to be saved.
Spawn(k, c) ==
  /\ child[c] = "unborn"
  /\ child' = [child EXCEPT ![c] = "planned"]
  /\ Enter(k, c, "spawning")
  /\ UNCHANGED <<told, tasks, results, sessions, wanted>>

\* load or save raises.
SpawnFails(k) ==
  /\ place[k] = "spawning" /\ ~must[k]
  /\ child' = [child EXCEPT ![on[k]] = "stillborn"]
  /\ Return(k, "error")
  /\ UNCHANGED <<told, tasks, results, sessions, wanted>>

\* The session is saved and the child's turn begins in the caller's own task.
RunBlocking(k) ==
  /\ place[k] = "spawning" /\ ~must[k]
  /\ sessions' = sessions \cup {on[k]}
  /\ child' = [child EXCEPT ![on[k]] = "running"]
  /\ place' = [place EXCEPT ![k] = "blocking"]
  /\ UNCHANGED <<told, tasks, results, on, must, outcome, calls, stopped, wanted>>

\* The session is saved, the child's task created, the handle returned.
RunDetachedUnsaved(k) ==
  /\ place[k] = "spawning" /\ ~must[k]
  /\ child' = [child EXCEPT ![on[k]] = "running"]
  /\ tasks' = tasks \cup {on[k]}
  /\ Return(k, "handle")
  /\ UNCHANGED <<told, results, sessions, wanted>>

RunDetached(k) ==
  /\ place[k] = "spawning" /\ ~must[k]
  /\ sessions' = sessions \cup {on[k]}
  /\ child' = [child EXCEPT ![on[k]] = "running"]
  /\ tasks' = tasks \cup {on[k]}
  /\ Return(k, "handle")
  /\ UNCHANGED <<told, results, wanted>>

\* A blocking child ends: only a result is stored, an exception goes to the caller.
BlockingEnds(k, how) ==
  /\ place[k] = "blocking" /\ ~must[k]
  /\ how \in {"returned", "failed", "late"}
  /\ child' = [child EXCEPT ![on[k]] = how]
  /\ results' = IF how = "returned" THEN results \cup {on[k]} ELSE results
  /\ Return(k, IF how = "returned" THEN "handle" ELSE "error")
  /\ UNCHANGED <<told, tasks, sessions, wanted>>

-----------------------------------------------------------------------------
(* _run_child, as the task of a detached child. *)

\* The child's turn ends.  A child that was told to cancel ends cancelled, or
\* in another way where the CancelledError was swallowed (wait_for of Python
\* 3.10 and 3.11 does so when a tool ends in the same moment).
ChildEnds(c, how) ==
  /\ child[c] = "running" /\ c \in tasks
  /\ how = "cancelled" => c \in told
  /\ child' = [child EXCEPT ![c] = how]
  /\ UNCHANGED <<told, tasks, results, sessions, caller, wanted>>

-----------------------------------------------------------------------------
(* join() *)

JoinStored(k, c) ==
  /\ c \in results
  /\ Immediate(k, c, "result")
  /\ UNCHANGED <<child, told, tasks, results, sessions, wanted>>

JoinUnknown(k, c) ==
  /\ c \notin results /\ c \notin tasks
  /\ Immediate(k, c, "not_found")
  /\ UNCHANGED <<child, told, tasks, results, sessions, wanted>>

\* Without a timeout the task itself is awaited, with one its shield.
Join(k, c, timed) ==
  /\ c \notin results /\ c \in tasks
  /\ Enter(k, c, IF timed THEN "timing" ELSE "joining")
  /\ UNCHANGED <<child, told, tasks, results, sessions, wanted>>

\* What the await of child c gives its caller.  The except clause takes every
\* asyncio.TimeoutError for its own.
VerdictForgetsFailures(c) == IF child[c] = "cancelled" THEN "cancelled" ELSE "result"

Verdict(c) ==
  CASE child[c] = "returned" -> "result"
    [] child[c] = "failed" -> "error"
    [] child[c] = "late" -> "timeout"
    [] OTHER -> "cancelled"

\* The child has ended and the caller runs.  wait_for of Python 3.10 and 3.11
\* returns even to a caller that was told to cancel.
JoinReturns(k) ==
  /\ place[k] \in {"joining", "timing"} /\ Over(on[k])
  /\ must[k] => place[k] = "timing"
  /\ Return(k, Verdict(on[k]))
  /\ results' = IF Verdict(on[k]) = "result" THEN results \cup {on[k]} ELSE results
  /\ UNCHANGED <<child, told, tasks, sessions, wanted>>

\* The time is up: the task is cancelled and awaited.  When it has ended in the
\* same moment, its result is passed over here and stays with the task.
JoinTimesOutWithoutWaiting(k) ==
  /\ place[k] = "timing" /\ ~must[k]
  /\ wanted' = wanted \cup {on[k]}
  /\ told' = IF Over(on[k]) THEN told ELSE told \cup {on[k]}
  /\ Return(k, "timeout")
  /\ UNCHANGED <<child, tasks, results, sessions>>

JoinTimesOutWithoutCancel(k) ==
  /\ place[k] = "timing" /\ ~must[k]
  /\ wanted' = wanted \cup {on[k]}
  /\ IF Over(on[k])
       THEN Return(k, "timeout")
       ELSE place' = [place EXCEPT ![k] = "expired"] /\ UNCHANGED <<on, must, outcome, calls, stopped>>
  /\ UNCHANGED <<child, told, tasks, results, sessions>>

JoinTimesOutAsCancelled(k) ==
  /\ place[k] = "timing" /\ ~must[k]
  /\ wanted' = wanted \cup {on[k]}
  /\ IF Over(on[k])
       THEN Return(k, "cancelled") /\ UNCHANGED told
       ELSE /\ told' = told \cup {on[k]}
            /\ place' = [place EXCEPT ![k] = "expired"]
            /\ UNCHANGED <<on, must, outcome, calls, stopped>>
  /\ UNCHANGED <<child, tasks, results, sessions>>

JoinTimesOut(k) ==
  /\ place[k] = "timing" /\ ~must[k]
  /\ wanted' = wanted \cup {on[k]}
  /\ IF Over(on[k])
       THEN Return(k, "timeout") /\ UNCHANGED told
       ELSE /\ told' = told \cup {on[k]}
            /\ place' = [place EXCEPT ![k] = "expired"]
            /\ UNCHANGED <<on, must, outcome, calls, stopped>>
  /\ UNCHANGED <<child, tasks, results, sessions>>

-----------------------------------------------------------------------------
(* cancel() and status() *)

\* No task, or one that is done.
CancelNothing(k, c) ==
  /\ c \in tasks => Over(c)
  /\ Immediate(k, c, "gone")
  /\ UNCHANGED <<child, told, tasks, results, sessions, wanted>>

Cancel(k, c) ==
  /\ c \in tasks /\ ~Over(c)
  /\ told' = told \cup {c}
  /\ wanted' = wanted \cup {c}
  /\ Enter(k, c, "cancelling")
  /\ UNCHANGED <<child, tasks, results, sessions>>

\* The task awaited after it was cancelled has ended.  Whatever it raises is
\* swallowed, and with it a CancelledError meant for the caller.
Drained(k) ==
  /\ place[k] \in {"expired", "cancelling"} /\ Over(on[k])
  /\ Return(k, IF place[k] = "expired" THEN "timeout" ELSE "gone")
  /\ UNCHANGED <<child, told, tasks, results, sessions, wanted>>

Status(c) ==
  CASE c \in results -> "succeeded"
    [] c \notin results /\ c \notin tasks -> "unknown"
    [] OTHER -> CASE child[c] = "cancelled" -> "cancelled"
                  [] child[c] \in {"failed", "late"} -> "failed"
                  [] child[c] = "returned" -> "succeeded"
                  [] OTHER -> "running"

-----------------------------------------------------------------------------
(* The caller's own task is told to cancel: its turn is cancelled, or the  *)
(* time of the tool that made the call is up.                              *)

StopCallerWithoutShield(k) ==
  /\ place[k] # "free" /\ k \notin stopped
  /\ stopped' = stopped \cup {k}
  /\ IF place[k] \in Waiting /\ ~Over(on[k])
       THEN told' = told \cup {on[k]} /\ UNCHANGED must
       ELSE must' = [must EXCEPT ![k] = TRUE] /\ UNCHANGED told
  /\ wanted' = IF place[k] = "joining" THEN wanted \cup {on[k]} ELSE wanted
  /\ UNCHANGED <<child, tasks, results, sessions, place, on, outcome, calls>>

\* A caller that awaits a running task has it cancelled in its stead; behind a
\* shield, and where the awaited task has ended, it is cancelled itself.
StopCaller(k) ==
  /\ place[k] # "free" /\ k \notin stopped
  /\ stopped' = stopped \cup {k}
  /\ IF place[k] \in Waiting \ {"timing"} /\ ~Over(on[k])
       THEN told' = told \cup {on[k]} /\ UNCHANGED must
       ELSE must' = [must EXCEPT ![k] = TRUE] /\ UNCHANGED told
  /\ wanted' = IF place[k] = "joining" THEN wanted \cup {on[k]} ELSE wanted
  /\ UNCHANGED <<child, tasks, results, sessions, place, on, outcome, calls>>

\* The CancelledError comes through.  A blocking child goes down with its
\* caller; a child that was being spawned may have had its session saved.
CallerCancelled(k) ==
  /\ must[k] /\ place[k] \in {"spawning", "blocking", "joining", "timing"}
  /\ CASE place[k] = "spawning" ->
            /\ child' = [child EXCEPT ![on[k]] = "stillborn"]
            /\ sessions' \in {sessions, sessions \cup {on[k]}}
       [] place[k] = "blocking" ->
            child' = [child EXCEPT ![on[k]] = "cancelled"] /\ UNCHANGED sessions
       [] OTHER -> UNCHANGED <<child, sessions>>
  /\ wanted' = IF place[k] = "blocking" THEN wanted \cup {on[k]} ELSE wanted
  /\ Return(k, "cancelled")
  /\ UNCHANGED <<told, tasks, results>>

-----------------------------------------------------------------------------
Call(k) ==
  \E c \in Children :
    \/ Spawn(k, c) \/ JoinStored(k, c) \/ JoinUnknown(k, c)
    \/ \E timed \in BOOLEAN : Join(k, c, timed)
    \/ CancelNothing(k, c) \/ Cancel(k, c)

\* A caller that can run does: its timer has gone off, or what it awaits is there.
Proceed(k) ==
  \/ SpawnFails(k) \/ RunBlocking(k) \/ RunDetached(k)
  \/ JoinReturns(k) \/ JoinTimesOut(k) \/ Drained(k) \/ CallerCancelled(k)

AllDone ==
  /\ \A k \in Callers : place[k] = "free" /\ calls[k] = MaxCalls
  /\ \A c \in Children : child[c] # "running"
  /\ UNCHANGED vars

Next ==
  \/ \E k \in Callers : Call(k) \/ Proceed(k) \/ StopCaller(k)
  \/ \E k \in Callers, how \in Ended : BlockingEnds(k, how)
  \/ \E c \in Children, how \in Ended : ChildEnds(c, how)
  \/ AllDone

Spec == Init /\ [][Next]_vars

(***************************************************************************)
(* Fairness: the event loop runs callers that can run, timers go off, and  *)
(* a child that was told to cancel ends (Turn: a cancelled turn ends).     *)
(* Nothing is assumed of a child that was not: its provider may hang.      *)
(***************************************************************************)
FairSpec ==
  /\ Spec
  /\ \A k \in Callers : WF_vars(Proceed(k))
  /\ \A c \in Children : WF_vars(c \in told /\ \E how \in Ended : ChildEnds(c, how))

-----------------------------------------------------------------------------
(* Properties. *)

(***************************************************************************)
(* The backend keeps the promise of ChildLife.  A child's status only goes *)
(* forward, whichever of _tasks and _results it is read from; and a caller *)
(* is never told anything about a child that is still running: not that    *)
(* its join timed out, not that it was cancelled (no leaked children).     *)
(* The answers are the return values and exceptions of join and cancel     *)
(* that are not the caller's own CancelledError.                           *)
(***************************************************************************)
Answer(k) ==
  IF outcome[k] \in {"none", "handle"} \/ (outcome[k] \in {"error", "cancelled"} /\ on[k] \notin tasks)
     \/ (outcome[k] = "cancelled" /\ k \in stopped)
    THEN <<>>
    ELSE <<on[k], outcome[k]>>

Promise == INSTANCE ChildLife WITH
  status <- [c \in Children |-> Status(c)],
  answer <- [k \in Callers |-> Answer(k)]

ChildrenKeepPromise == Promise!Spec

(***************************************************************************)
(* A child that returned is never lost: a join that nobody stopped and     *)
(* that has no timeout ends with the child's result or exception, also     *)
(* after an earlier join of the same child timed out.  Only a child's own  *)
(* asyncio.TimeoutError is reported as a timeout that never was.           *)
(***************************************************************************)
JoinsTell ==
  [][\A k \in Callers :
       place[k] = "joining" /\ place'[k] = "free" /\ k \notin stopped =>
         LET how == child[on[k]] IN
           /\ how = "returned" => outcome'[k] = "result" /\ on[k] \in results'
           /\ how = "failed" => outcome'[k] = "error"
           /\ outcome'[k] = "timeout" => how = "late"]_vars

(***************************************************************************)
(* A child is cancelled only if somebody wanted its end: cancel() was      *)
(* called, the time of a join ran out, or a caller was stopped that ran it *)
(* or joined it without a timeout.  A join with a timeout that is stopped  *)
(* leaves the child alone: that is what its shield is for.                 *)
(***************************************************************************)
ChildrenCancelledForCause ==
  \A c \in Children : child[c] = "cancelled" \/ c \in told => c \in wanted

(***************************************************************************)
(* A CancelledError comes out of a call only if the caller was told to     *)
(* cancel, or in the join of a child that was cancelled: then it ends a    *)
(* turn nobody cancelled.                                                  *)
(***************************************************************************)
CallersCancelledForCause ==
  \A k \in Callers :
    outcome[k] = "cancelled" => k \in stopped \/ (on[k] \in tasks /\ child[on[k]] = "cancelled")

(***************************************************************************)
(* A join with a timeout and a cancel() return, however long the child     *)
(* would have run.                                                         *)
(***************************************************************************)
TimedCallsReturn ==
  \A k \in Callers : place[k] \in {"timing", "expired", "cancelling"} ~> place[k] = "free"

=============================================================================
