---------------------------- MODULE Conversation ----------------------------
(***************************************************************************)
(* What the bridge promises its client, one request at a time, without     *)
(* tasks, locks and queues: a request that was taken up is followed by any *)
(* number of messages about it and then by one answer, the last message    *)
(* about it.  Only a request the client asked to cancel may end without an *)
(* answer.                                                                 *)
(***************************************************************************)
EXTENDS Naturals

CONSTANT Requests

VARIABLES
  status,     \* of each request
  talk,       \* number of messages about it, the answer included
  unwanted    \* the requests the client asked to cancel

Init ==
  /\ status = [r \in Requests |-> "unsent"]
  /\ talk = [r \in Requests |-> 0]
  /\ unwanted = {}

TakeUp(r) ==
  /\ status[r] = "unsent"
  /\ status' = [status EXCEPT ![r] = "open"]
  /\ UNCHANGED <<talk, unwanted>>

Unwant(r) ==
  /\ unwanted' = unwanted \cup {r}
  /\ UNCHANGED <<status, talk>>

Tell(r) ==
  /\ status[r] = "open"
  /\ talk' = [talk EXCEPT ![r] = @ + 1]
  /\ UNCHANGED <<status, unwanted>>

Answer(r) ==
  /\ status[r] = "open"
  /\ talk' = [talk EXCEPT ![r] = @ + 1]
  /\ status' = [status EXCEPT ![r] = "answered"]
  /\ UNCHANGED unwanted

Drop(r) ==
  /\ r \in unwanted /\ status[r] = "open"
  /\ status' = [status EXCEPT ![r] = "dropped"]
  /\ UNCHANGED <<talk, unwanted>>

Next == \E r \in Requests : TakeUp(r) \/ Unwant(r) \/ Tell(r) \/ Answer(r) \/ Drop(r)

Spec == Init /\ [][Next]_<<status, talk, unwanted>>

=============================================================================
