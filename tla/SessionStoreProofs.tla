------------------------- MODULE SessionStoreProofs -------------------------
(***************************************************************************)
(* SessionStore for every set of sessions, clients, tenants and edits: the *)
(* optimistic lock is inductive, and from it follow that no edit is lost   *)
(* and that the store implements SessionPromise.                           *)
(***************************************************************************)
EXTENDS SessionStore, TLAPS

Inv == TypeOK /\ OptimisticLock

(***************************************************************************)
(* A save of a typed object, accepted or refused, keeps the types.         *)
(***************************************************************************)
LEMMA SaveTypes ==
  ASSUME TypeOK, NEW c \in Clients, NEW s \in Object, Commit(c, s) \/ Conflict(c, s)
  PROVE  /\ data' \in [Sessions -> Record \cup {Absent}]
         /\ copy' \in [Clients -> Object \cup {NoCopy}]
         /\ raised' \in [Clients -> BOOLEAN]
<1>1. Bumped(s) \in Object
  BY DEF Bumped, Object
<1>2. RecordOf(Bumped(s)) \in Record
  BY <1>1 DEF RecordOf, Record, Object
<1>3. CASE Commit(c, s)
  BY <1>1, <1>2, <1>3 DEF Commit, TypeOK
<1>4. CASE Conflict(c, s)
  BY <1>4 DEF Conflict, TypeOK
<1> QED BY <1>3, <1>4

(***************************************************************************)
(* Every variable keeps its type along every step.                         *)
(***************************************************************************)
LEMMA TypeStep == TypeOK /\ [Next]_vars => TypeOK'
<1> SUFFICES ASSUME TypeOK, [Next]_vars PROVE TypeOK'
  OBVIOUS
<1>1. ASSUME NEW c \in Clients, NEW id \in Sessions, NEW tenant \in Tenants \cup {AnyTenant},
             Load(c, id, tenant)
      PROVE  TypeOK'
  <2>1. data[id] # Absent => CopyOf(id, data[id]) \in Object
    BY DEF TypeOK, CopyOf, Record, Object
  <2> QED BY <1>1, <2>1 DEF Load, Visible, TypeOK
<1>2. ASSUME NEW c \in Clients, NEW id \in Sessions, NEW tenant \in Tenants,
             CreateCheck(c, id, tenant)
      PROVE  TypeOK'
  <2>1. Fresh(id, tenant) \in Object
    BY DEF Fresh, Object
  <2> QED BY <1>2, <2>1 DEF CreateCheck, TypeOK
<1>3. ASSUME NEW c \in Clients, NEW e \in Edits, Edit(c, e)
      PROVE  TypeOK'
  <2>1. [copy[c] EXCEPT !.edits = @ \cup {e}] \in Object
    BY <1>3 DEF Edit, TypeOK, Object
  <2> QED BY <1>3, <2>1 DEF Edit, TypeOK
<1>4. ASSUME NEW c \in Clients, Save(c)
      PROVE  TypeOK'
  BY <1>4, SaveTypes DEF Save, TypeOK
<1>5. ASSUME NEW c \in Clients, CreateSave(c)
      PROVE  TypeOK'
  BY <1>5, SaveTypes DEF CreateSave, TypeOK
<1>6. ASSUME NEW id \in Deletable, Delete(id)
      PROVE  TypeOK'
  BY <1>6, SessionStoreAssumption DEF Delete, TypeOK
<1>7. CASE UNCHANGED vars
  BY <1>7 DEF vars, TypeOK
<1> QED BY <1>1, <1>2, <1>3, <1>4, <1>5, <1>6, <1>7 DEF Next

(***************************************************************************)
(* Every reachable state of the store is well typed.                       *)
(***************************************************************************)
THEOREM TypeCorrect == Spec => []TypeOK
<1>1. Init => TypeOK
  BY DEF Init, TypeOK
<1> QED BY <1>1, TypeStep, PTL DEF Spec

(***************************************************************************)
(* An accepted save of an object that is level with the store or behind    *)
(* it, or is new, leaves every held object level or behind.                *)
(***************************************************************************)
LEMMA CommitKeepsLock ==
  ASSUME Inv, TypeOK', NEW c \in Clients, NEW s \in Object, Commit(c, s), s.version >= 0
  PROVE  /\ \A id \in Sessions : data'[id] # Absent => data'[id].version > 0
         /\ \A d \in Clients : copy'[d] # NoCopy /\ copy'[d].id \in Kept
                                 => Level(copy[d].id, copy[d])'
<1>1. /\ data' = [data EXCEPT ![s.id] = RecordOf(Bumped(s))]
      /\ copy' = [copy EXCEPT ![c] = Bumped(s)]
      /\ CanSave(data[s.id], s)
  BY DEF Commit
<1>2. /\ s.id \in Sessions
      /\ s.version \in Nat
      /\ Bumped(s) = [id |-> s.id, version |-> s.version + 1, tenant |-> s.tenant, edits |-> s.edits]
  BY DEF Object, Bumped
<1>3. /\ RecordOf(Bumped(s)) = [version |-> s.version + 1, tenant |-> s.tenant, edits |-> s.edits]
      /\ RecordOf(Bumped(s)) \in Record
  BY <1>2 DEF RecordOf, Object, Record
<1>4. /\ data'[s.id] = [version |-> s.version + 1, tenant |-> s.tenant, edits |-> s.edits]
      /\ \A id \in Sessions \ {s.id} : data'[id] = data[id]
      /\ copy'[c] = [id |-> s.id, version |-> s.version + 1, tenant |-> s.tenant, edits |-> s.edits]
      /\ \A d \in Clients \ {c} : copy'[d] = copy[d]
  BY <1>1, <1>2, <1>3 DEF Inv, TypeOK
<1>5. data'[s.id] # Absent
  BY <1>1, <1>2, <1>3, SessionStoreAssumption DEF Inv, TypeOK
<1>6. \A id \in Sessions : data'[id] # Absent => data'[id].version > 0
  BY <1>2, <1>4 DEF Inv, OptimisticLock
<1>7. ASSUME NEW d \in Clients, copy'[d] # NoCopy, copy'[d].id \in Kept
      PROVE  Level(copy[d].id, copy[d])'
  <2>1. CASE d = c
    BY <1>2, <1>4, <1>5, <2>1 DEF Level
  <2>2. CASE d # c /\ copy[d].id # s.id
    BY <1>4, <1>7, <2>2 DEF Level, Inv, OptimisticLock, Kept
  <2>3. CASE d # c /\ copy[d].id = s.id
    <3>1. /\ data[s.id] # Absent
          /\ copy[d].version <= data[s.id].version
      BY <1>4, <1>7, <2>3 DEF Level, Inv, OptimisticLock
    <3>2. data[s.id].version = s.version
      BY <1>1, <3>1 DEF CanSave
    <3>3. copy[d].version \in Nat
      BY <1>4, <1>7, <2>3 DEF Inv, TypeOK, Object
    <3>4. copy[d].version < data'[s.id].version
      BY <1>2, <1>4, <3>1, <3>2, <3>3
    <3>5. /\ copy'[d].version <= data'[copy'[d].id].version
          /\ copy'[d].version # data'[copy'[d].id].version
      BY <1>2, <1>4, <2>3, <3>3, <3>4
    <3> QED BY <1>4, <1>5, <2>3, <3>5 DEF Level
  <2> QED BY <2>1, <2>2, <2>3
<1> QED BY <1>6, <1>7

(***************************************************************************)
(* The optimistic lock survives every operation of every client.           *)
(***************************************************************************)
LEMMA LockStep == Inv /\ TypeOK' /\ [Next]_vars => OptimisticLock'
<1> SUFFICES ASSUME Inv, TypeOK', [Next]_vars PROVE OptimisticLock'
  OBVIOUS
<1> USE DEF Inv
<1>1. ASSUME NEW c \in Clients, NEW id \in Sessions, NEW tenant \in Tenants \cup {AnyTenant},
             Load(c, id, tenant)
      PROVE  OptimisticLock'
  <2>1. ASSUME NEW d \in Clients, copy'[d] # NoCopy, copy'[d].id \in Kept
        PROVE  Level(copy[d].id, copy[d])'
    <3>1. CASE d # c
      BY <1>1, <2>1, <3>1 DEF Load, OptimisticLock, Level, TypeOK
    <3>2. CASE d = c
      <4>1. /\ copy'[d] = CopyOf(id, data[id])
            /\ data[id] # Absent
            /\ data' = data
        BY <1>1, <2>1, <3>2 DEF Load, Visible, TypeOK
      <4>2. data[id].version \in Nat
        BY <4>1 DEF TypeOK, Record
      <4> QED BY <4>1, <4>2 DEF Level, CopyOf
    <3> QED BY <3>1, <3>2
  <2> QED BY <1>1, <2>1 DEF Load, OptimisticLock
<1>2. ASSUME NEW c \in Clients, NEW id \in Sessions, NEW tenant \in Tenants,
             CreateCheck(c, id, tenant)
      PROVE  OptimisticLock'
  BY <1>2 DEF CreateCheck, OptimisticLock, Level, Fresh, TypeOK
<1>3. ASSUME NEW c \in Clients, NEW e \in Edits, Edit(c, e)
      PROVE  OptimisticLock'
  <2>1. copy'[c] = [id |-> copy[c].id, version |-> copy[c].version, tenant |-> copy[c].tenant,
                    edits |-> copy[c].edits \cup {e}]
    BY <1>3 DEF Edit, TypeOK, Object
  <2>2. /\ \A d \in Clients \ {c} : copy'[d] = copy[d]
        /\ data' = data /\ creating' = creating /\ copy[c] # NoCopy
    BY <1>3 DEF Edit, TypeOK
  <2> QED BY <2>1, <2>2 DEF OptimisticLock, Level
<1>4. ASSUME NEW c \in Clients, Save(c)
      PROVE  OptimisticLock'
  <2>1. CASE Commit(c, copy[c])
    <3>1. copy[c] \in Object /\ copy[c].version >= 0
      BY <1>4 DEF Save, TypeOK, Object
    <3> QED BY <1>4, <2>1, <3>1, CommitKeepsLock DEF Save, OptimisticLock
  <2>2. CASE Conflict(c, copy[c])
    BY <1>4, <2>2 DEF Save, Conflict, OptimisticLock, Level
  <2> QED BY <1>4, <2>1, <2>2 DEF Save
<1>5. ASSUME NEW c \in Clients, CreateSave(c)
      PROVE  OptimisticLock'
  <2>1. \A d \in Clients : creating'[d] # NoCopy =>
            creating'[d].version = 0 /\ creating'[d].edits = {}
    BY <1>5 DEF CreateSave, OptimisticLock, TypeOK
  <2>2. CASE Commit(c, creating[c])
    <3>1. creating[c] \in Object /\ creating[c].version >= 0
      BY <1>5 DEF CreateSave, TypeOK, Object
    <3> QED BY <2>1, <2>2, <3>1, CommitKeepsLock DEF OptimisticLock
  <2>3. CASE Conflict(c, creating[c])
    BY <2>1, <2>3 DEF Conflict, OptimisticLock, Level
  <2> QED BY <1>5, <2>2, <2>3 DEF CreateSave
<1>6. ASSUME NEW id \in Deletable, Delete(id)
      PROVE  OptimisticLock'
  BY <1>6 DEF Delete, OptimisticLock, Level, Kept, TypeOK
<1>7. CASE UNCHANGED vars
  BY <1>7 DEF vars, OptimisticLock, Level
<1> QED BY <1>1, <1>2, <1>3, <1>4, <1>5, <1>6, <1>7 DEF Next

(***************************************************************************)
(* In every reachable state a held object that is level with its session   *)
(* has everything the session has.                                         *)
(***************************************************************************)
THEOREM LockHolds == Spec => []OptimisticLock
<1>1. Init => Inv
  BY DEF Init, Inv, TypeOK, OptimisticLock
<1>2. Inv /\ [Next]_vars => Inv'
  BY TypeStep, LockStep DEF Inv
<1>3. Inv => OptimisticLock
  BY DEF Inv
<1> QED BY <1>1, <1>2, <1>3, PTL DEF Spec

(***************************************************************************)
(* An accepted save drops no edit of a session that is never deleted: the  *)
(* saved object is level with the store, or the store has no such session. *)
(***************************************************************************)
LEMMA CommitExtends ==
  ASSUME Inv, NEW c \in Clients, NEW s \in Object, Commit(c, s), s.id \in Kept,
         \/ Level(s.id, s)
         \/ s.version = 0 /\ s.edits = {}
  PROVE  /\ data' = [data EXCEPT ![s.id] = [version |-> s.version + 1, tenant |-> s.tenant,
                                           edits |-> s.edits]]
         /\ data[s.id] = Absent => s.edits = {}
         /\ data[s.id] # Absent => /\ s.tenant = data[s.id].tenant
                                  /\ data[s.id].edits \subseteq s.edits
<1>1. data' = [data EXCEPT ![s.id] = RecordOf(Bumped(s))] /\ CanSave(data[s.id], s)
  BY DEF Commit
<1>2. RecordOf(Bumped(s)) = [version |-> s.version + 1, tenant |-> s.tenant, edits |-> s.edits]
  BY DEF RecordOf, Bumped, Object
<1>3. s.id \in Sessions /\ (data[s.id] # Absent => data[s.id].version = s.version)
  BY <1>1 DEF CanSave, Object
<1>4. CASE Level(s.id, s)
  BY <1>1, <1>2, <1>3, <1>4 DEF Level
<1>5. CASE s.version = 0 /\ s.edits = {}
  <2>1. data[s.id] = Absent
    BY <1>3, <1>5 DEF Inv, OptimisticLock, Object
  <2> QED BY <1>1, <1>2, <1>5, <2>1
<1> QED BY <1>4, <1>5

(***************************************************************************)
(* What a step does to the sessions that are never deleted: nothing, or    *)
(* the accepted save of one object that may be saved without loss.         *)
(***************************************************************************)
LEMMA StepKinds ==
  ASSUME Inv, [Next]_vars
  PROVE  \/ \A id \in Kept : data'[id] = data[id]
         \/ \E c \in Clients, s \in Object :
              /\ Commit(c, s)
              /\ s.id \in Kept
              /\ Level(s.id, s) \/ (s.version = 0 /\ s.edits = {})
<1> USE DEF Inv
<1>1. CASE data' = data
  BY <1>1
<1>2. ASSUME NEW c \in Clients, Save(c), Commit(c, copy[c])
      PROVE  \/ \A id \in Kept : data'[id] = data[id]
             \/ copy[c] \in Object /\ copy[c].id \in Kept /\ Level(copy[c].id, copy[c])
  <2>1. copy[c] # NoCopy /\ copy[c] \in Object
    BY <1>2 DEF Save, TypeOK
  <2>2. CASE copy[c].id \in Kept
    BY <2>1, <2>2 DEF OptimisticLock
  <2>3. CASE copy[c].id \notin Kept
    BY <1>2, <2>3 DEF Commit, TypeOK, Kept
  <2> QED BY <2>2, <2>3, <2>1
<1>3. ASSUME NEW c \in Clients, CreateSave(c), Commit(c, creating[c])
      PROVE  \/ \A id \in Kept : data'[id] = data[id]
             \/ /\ creating[c] \in Object /\ creating[c].id \in Kept
                /\ creating[c].version = 0 /\ creating[c].edits = {}
  <2>1. creating[c] # NoCopy /\ creating[c] \in Object
    BY <1>3 DEF CreateSave, TypeOK
  <2>2. CASE creating[c].id \in Kept
    BY <2>1, <2>2 DEF OptimisticLock
  <2>3. CASE creating[c].id \notin Kept
    BY <1>3, <2>3 DEF Commit, TypeOK, Kept
  <2> QED BY <2>2, <2>3, <2>1
<1>4. ASSUME NEW id \in Deletable, Delete(id)
      PROVE  \A k \in Kept : data'[k] = data[k]
  BY <1>4 DEF Delete, TypeOK, Kept
<1>5. \/ data' = data
      \/ \E c \in Clients : Save(c) /\ Commit(c, copy[c])
      \/ \E c \in Clients : CreateSave(c) /\ Commit(c, creating[c])
      \/ \E id \in Deletable : Delete(id)
  BY DEF Next, vars, Load, Edit, CreateCheck, Save, CreateSave, Conflict
<1> QED BY <1>1, <1>2, <1>3, <1>4, <1>5

(***************************************************************************)
(* No edit saved in a session that is never deleted is ever lost.          *)
(***************************************************************************)
THEOREM EditsAreKept == Spec => NoLostUpdate
<1> DEFINE Kept1 == \A id \in Kept : data[id] # Absent =>
                      data'[id] # Absent /\ data[id].edits \subseteq data'[id].edits
<1>1. Init => Inv
  BY DEF Init, Inv, TypeOK, OptimisticLock
<1>2. Inv /\ [Next]_vars => Inv'
  BY TypeStep, LockStep DEF Inv
<1>3. Inv /\ [Next]_vars => [Kept1]_vars
  <2> SUFFICES ASSUME Inv, [Next]_vars PROVE Kept1
    OBVIOUS
  <2>1. CASE \A id \in Kept : data'[id] = data[id]
    BY <2>1
  <2>2. ASSUME NEW c \in Clients, NEW s \in Object, Commit(c, s), s.id \in Kept,
               Level(s.id, s) \/ (s.version = 0 /\ s.edits = {})
        PROVE  Kept1
    <3>1. TypeOK'
      BY TypeStep DEF Inv
    <3>2. [version |-> s.version + 1, tenant |-> s.tenant, edits |-> s.edits] \in Record
      BY DEF Object, Record
    <3> QED BY <2>2, <3>1, <3>2, CommitExtends, SessionStoreAssumption DEF Inv, TypeOK, Kept
  <2> QED BY <2>1, <2>2, StepKinds
<1> QED BY <1>1, <1>2, <1>3, PTL DEF Spec, NoLostUpdate

(***************************************************************************)
(* The store implements SessionPromise: the first save of a session        *)
(* creates it, every other accepted save extends it, and nothing else      *)
(* changes what a client can see of it.                                    *)
(***************************************************************************)
THEOREM StoreKeepsPromise == Spec => KeepsPromise
<1> DEFINE seen == [id \in Kept |->
                      IF data[id] = Absent THEN Absent
                      ELSE [tenant |-> data[id].tenant, edits |-> data[id].edits]]
<1>1. Init => Inv
  BY DEF Init, Inv, TypeOK, OptimisticLock
<1>2. Inv /\ [Next]_vars => Inv'
  BY TypeStep, LockStep DEF Inv
<1>3. Init => Promise!Init
  BY DEF Init, Promise!Init, Kept
<1>4. Inv /\ [Next]_vars => [Promise!Next]_seen
  <2> SUFFICES ASSUME Inv, [Next]_vars PROVE Promise!Next \/ seen' = seen
    OBVIOUS
  <2>1. CASE \A id \in Kept : data'[id] = data[id]
    BY <2>1
  <2>2. ASSUME NEW c \in Clients, NEW s \in Object, Commit(c, s), s.id \in Kept,
               Level(s.id, s) \/ (s.version = 0 /\ s.edits = {})
        PROVE  Promise!Next
    <3> DEFINE r == [version |-> s.version + 1, tenant |-> s.tenant, edits |-> s.edits]
    <3>1. r \in Record /\ r # Absent /\ s.tenant \in Tenants /\ s.edits \in SUBSET Edits
      BY SessionStoreAssumption DEF Object, Record
    <3>2. data' = [data EXCEPT ![s.id] = r]
      BY <2>2, CommitExtends
    <3>3. seen' = [seen EXCEPT ![s.id] = [tenant |-> s.tenant, edits |-> s.edits]]
      BY <2>2, <3>1, <3>2 DEF Inv, TypeOK, Kept
    <3>4. CASE data[s.id] = Absent
      <4>1. s.edits = {} /\ seen[s.id] = Absent
        BY <2>2, <3>4, CommitExtends
      <4>2. Promise!Create(s.id, s.tenant)
        BY <3>3, <4>1 DEF Promise!Create
      <4> QED BY <2>2, <3>1, <4>2 DEF Promise!Next
    <3>5. CASE data[s.id] # Absent
      <4>1. s.tenant = data[s.id].tenant /\ data[s.id].edits \subseteq s.edits
        BY <2>2, <3>5, CommitExtends
      <4>2. seen[s.id] = [tenant |-> data[s.id].tenant, edits |-> data[s.id].edits]
        BY <2>2, <3>5
      <4>3. seen[s.id] # Absent
        BY <3>5, <2>2, <4>2, <4>1, <3>1, SessionStoreAssumption
          DEF Inv, TypeOK, Record, View, Kept
      <4>4. [seen[s.id] EXCEPT !.edits = @ \cup s.edits] = [tenant |-> s.tenant, edits |-> s.edits]
        <5>1. data[s.id].edits \cup s.edits = s.edits
          BY <4>1
        <5>2. ASSUME NEW old, NEW now, NEW tenant
              PROVE  [[tenant |-> tenant, edits |-> old] EXCEPT !.edits = @ \cup now]
                        = [tenant |-> tenant, edits |-> old \cup now]
          OBVIOUS
        <5> HIDE DEF seen
        <5> QED BY <4>1, <4>2, <5>1, <5>2
      <4>5. Promise!Extend(s.id, s.edits)
        BY <3>3, <4>3, <4>4 DEF Promise!Extend
      <4> QED BY <2>2, <3>1, <4>5 DEF Promise!Next
    <3> QED BY <3>4, <3>5
  <2> QED BY <2>1, <2>2, StepKinds
<1> QED BY <1>1, <1>2, <1>3, <1>4, PTL DEF Spec, KeepsPromise, Promise!Spec

=============================================================================
