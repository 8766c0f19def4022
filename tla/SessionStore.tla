---------------------------- MODULE SessionStore ----------------------------
(***************************************************************************)
(* MemorySessionStore used by several clients: tools, engine turns and     *)
(* AgentRuntime.create_session.  A call of the store is atomic: it runs    *)
(* under one asyncio.Lock and never suspends inside it.  Between two calls *)
(* of a client anything may happen, since SessionStore is a protocol whose *)
(* other implementations do suspend.                                       *)
(*                                                                         *)
(* What a session holds is abstracted to the set of edits made to it; its  *)
(* owner is its tenant.                                                    *)
(***************************************************************************)
EXTENDS Session

CONSTANTS
  Sessions,   \* session ids
  Deletable,  \* the ids delete() may be called on
  Clients,    \* holders of loaded Session objects
  Tenants,
  AnyTenant,  \* a load without tenant filter
  Edits,      \* what a client may add to a session
  NoCopy,     \* a client that holds no Session object
  MaxVersion  \* bound: no save past this version

VARIABLES
  data,       \* MemorySessionStore._data
  copy,       \* the Session object each client holds
  creating,   \* create_session between its load and its save
  raised      \* whether the client's last call raised SessionConflictError

vars == <<data, copy, creating, raised>>

Record == [version : Nat, tenant : Tenants, edits : SUBSET Edits]
View == [tenant : Tenants, edits : SUBSET Edits]  \* what a client can see of it
Object == [id : Sessions, version : Nat, tenant : Tenants, edits : SUBSET Edits]

ASSUME SessionStoreAssumption ==
  /\ Deletable \subseteq Sessions
  /\ MaxVersion \in Nat
  /\ AnyTenant \notin Tenants
  /\ Absent \notin Record \cup View  \* sentinels are none of the values they stand beside
  /\ NoCopy \notin Object

\* load() with a tenant filter hides the sessions of the other tenants; without
\* one it hides nothing.
Visible(existing, tenant) ==
  /\ existing # Absent
  /\ tenant # AnyTenant => existing.tenant = tenant

\* model_copy(deep=True): the client's object is tagged with its id.
CopyOf(id, r) ==
  [id |-> id, version |-> r.version, tenant |-> r.tenant, edits |-> r.edits]

\* What _data keeps of a Session object: all of it but the key.
RecordWithKey(s) == s

RecordOf(s) == [version |-> s.version, tenant |-> s.tenant, edits |-> s.edits]

Fresh(id, tenant) == [id |-> id, version |-> 0, tenant |-> tenant, edits |-> {}]

TypeOK ==
  /\ data \in [Sessions -> Record \cup {Absent}]
  /\ copy \in [Clients -> Object \cup {NoCopy}]
  /\ creating \in [Clients -> Object \cup {NoCopy}]
  /\ raised \in [Clients -> BOOLEAN]

Init ==
  /\ data = [id \in Sessions |-> Absent]
  /\ copy = [c \in Clients |-> NoCopy]
  /\ creating = [c \in Clients |-> NoCopy]
  /\ raised = [c \in Clients |-> FALSE]

-----------------------------------------------------------------------------
Load(c, id, tenant) ==
  /\ creating[c] = NoCopy
  /\ copy' = [copy EXCEPT ![c] =
                IF Visible(data[id], tenant) THEN CopyOf(id, data[id]) ELSE NoCopy]
  /\ raised' = [raised EXCEPT ![c] = FALSE]
  /\ UNCHANGED <<data, creating>>

\* The client changes its object in memory; the store does not notice.
Edit(c, e) ==
  /\ creating[c] = NoCopy
  /\ copy[c] # NoCopy
  /\ copy' = [copy EXCEPT ![c].edits = @ \cup {e}]
  /\ UNCHANGED <<data, creating, raised>>

\* The store's save() of object s by client c, which then holds it.
Commit(c, s) ==
  /\ s.version < MaxVersion
  /\ CanSave(data[s.id], s)
  /\ data' = [data EXCEPT ![s.id] = RecordOf(Bumped(s))]
  /\ copy' = [copy EXCEPT ![c] = Bumped(s)]
  /\ raised' = [raised EXCEPT ![c] = FALSE]

\* The store's save() of object s by client c, refused.
Conflict(c, s) ==
  /\ ~CanSave(data[s.id], s)
  /\ raised' = [raised EXCEPT ![c] = TRUE]
  /\ UNCHANGED <<data, copy>>

Save(c) ==
  /\ creating[c] = NoCopy
  /\ copy[c] # NoCopy
  /\ Commit(c, copy[c]) \/ Conflict(c, copy[c])
  /\ UNCHANGED creating

\* create_session up to its load: an id in use raises, a free one goes on.
CreateCheck(c, id, tenant) ==
  /\ creating[c] = NoCopy
  /\ IF Visible(data[id], AnyTenant)
       THEN raised' = [raised EXCEPT ![c] = TRUE] /\ UNCHANGED creating
       ELSE /\ creating' = [creating EXCEPT ![c] = Fresh(id, tenant)]
            /\ raised' = [raised EXCEPT ![c] = FALSE]
  /\ UNCHANGED <<data, copy>>

\* create_session from its save on.
CreateSave(c) ==
  /\ creating[c] # NoCopy
  /\ Commit(c, creating[c]) \/ Conflict(c, creating[c])
  /\ creating' = [creating EXCEPT ![c] = NoCopy]

Delete(id) ==
  /\ data' = [data EXCEPT ![id] = Absent]
  /\ UNCHANGED <<copy, creating, raised>>

Next ==
  \/ \E c \in Clients :
       \/ \E id \in Sessions :
            \/ \E tenant \in Tenants \cup {AnyTenant} : Load(c, id, tenant)
            \/ \E tenant \in Tenants : CreateCheck(c, id, tenant)
       \/ \E e \in Edits : Edit(c, e)
       \/ Save(c)
       \/ CreateSave(c)
  \/ \E id \in Deletable : Delete(id)

Spec == Init /\ [][Next]_vars

-----------------------------------------------------------------------------
Kept == Sessions \ Deletable

(***************************************************************************)
(* The optimistic lock as an invariant.  For an id that is never deleted,  *)
(* a held object is never ahead of the store, and one that is level with   *)
(* the store is of the same tenant and has every edit the store has; so    *)
(* the save that the version check lets through drops nothing.  And no     *)
(* record is stored at version 0, the version create_session saves at, so  *)
(* the second of two racing creators conflicts.                            *)
(***************************************************************************)
Level(id, s) ==
  /\ data[id] # Absent
  /\ s.version <= data[id].version
  /\ s.version = data[id].version =>
       s.tenant = data[id].tenant /\ data[id].edits \subseteq s.edits

OptimisticLock ==
  /\ \A c \in Clients : creating[c] # NoCopy => creating[c].version = 0 /\ creating[c].edits = {}
  /\ \A id \in Sessions : data[id] # Absent => data[id].version > 0
  /\ \A c \in Clients :
       copy[c] # NoCopy /\ copy[c].id \in Kept => Level(copy[c].id, copy[c])

(***************************************************************************)
(* The promise of SessionStore.save: an edit that was saved in a session   *)
(* that is never deleted stays there, whoever saves next.                  *)
(***************************************************************************)
NoLostUpdate ==
  [][\A id \in Kept : data[id] # Absent =>
        data'[id] # Absent /\ data[id].edits \subseteq data'[id].edits]_vars

(***************************************************************************)
(* What a client of the store sees of it: of each session that is never    *)
(* deleted, its tenant and its edits, without versions.                    *)
(***************************************************************************)
Promise == INSTANCE SessionPromise WITH
  Sessions <- Kept,
  session <- [id \in Kept |->
                IF data[id] = Absent THEN Absent
                ELSE [tenant |-> data[id].tenant, edits |-> data[id].edits]]

(***************************************************************************)
(* The store with its versions and conflicts implements SessionPromise:    *)
(* racing creators make one session, racing saves lose no edit, and a      *)
(* session never changes tenant.                                           *)
(***************************************************************************)
KeepsPromise == Promise!Spec

=============================================================================
