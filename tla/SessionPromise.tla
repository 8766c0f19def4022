--------------------------- MODULE SessionPromise ---------------------------
(***************************************************************************)
(* What a SessionStore promises its clients, without versions, copies or   *)
(* conflicts: a session is created once, for one tenant, and after that    *)
(* only gains edits.                                                       *)
(***************************************************************************)
CONSTANTS Sessions, Tenants, Edits, Absent

VARIABLE session

Init == session = [id \in Sessions |-> Absent]

Create(id, tenant) ==
  /\ session[id] = Absent
  /\ session' = [session EXCEPT ![id] = [tenant |-> tenant, edits |-> {}]]

Extend(id, new) ==
  /\ session[id] # Absent
  /\ session' = [session EXCEPT ![id].edits = @ \cup new]

Next ==
  \E id \in Sessions :
     \/ \E tenant \in Tenants : Create(id, tenant)
     \/ \E new \in SUBSET Edits : Extend(id, new)

Spec == Init /\ [][Next]_session

=============================================================================
