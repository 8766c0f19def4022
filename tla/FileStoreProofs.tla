-------------------------- MODULE FileStoreProofs ---------------------------
(***************************************************************************)
(* FileStore for every set of sessions, clients, tenants and edits.  What  *)
(* is left of the optimistic lock when saves may fail half way is          *)
(* inductive: it holds of the clients whose last save did not.  From it    *)
(* follows whose saves alone can lose an edit, across restarts.            *)
(***************************************************************************)
EXTENDS FileStore, SessionStoreProofs

(***************************************************************************)
(* The inductive invariant.  Nothing is said of the objects of torn        *)
(* clients: they may be ahead of the file, or level with it and wrong.     *)
(***************************************************************************)
NewAtZero ==
  \A c \in Clients : creating[c] # NoCopy => creating[c].version = 0 /\ creating[c].edits = {}

NoneStoredAtZero == \A id \in Sessions : data[id] # Absent => data[id].version > 0

FileInv == TypeOK /\ NewAtZero /\ NoneStoredAtZero /\ FileLock

LEMMA FileTypeStep == TypeOK /\ [FileNext]_fileVars => TypeOK'
<1> SUFFICES ASSUME TypeOK, [FileNext]_fileVars PROVE TypeOK'
  OBVIOUS
<1>1. CASE [Next]_vars
  BY <1>1, TypeStep
<1>2. ASSUME NEW c \in Clients, WriteFails(c) PROVE TypeOK'
  <2>1. copy[c] \in Object
    BY <1>2 DEF WriteFails, TypeOK
  <2>2. Bumped(copy[c]) \in Object
    BY <2>1 DEF Bumped, Object
  <2> QED BY <1>2, <2>2 DEF WriteFails, TypeOK
<1>3. ASSUME NEW c \in Clients, CreateFails(c) PROVE TypeOK'
  BY <1>3 DEF CreateFails, TypeOK
<1>4. CASE Restart
  BY <1>4 DEF Restart, TypeOK
<1> QED
  BY <1>1, <1>2, <1>3, <1>4
     DEF FileNext, fileVars, Next, Read, Check, Change, Replace, Create, Unlink

(***************************************************************************)
(* An accepted save, of whatever object, leaves its own client level with  *)
(* the file and the others behind it or untouched.                         *)
(***************************************************************************)
LEMMA CommitLevels ==
  ASSUME FileInv, TypeOK', NEW c \in Clients, NEW s \in Object, Commit(c, s), torn' = torn \ {c}
  PROVE  NoneStoredAtZero' /\ FileLock'
<1>1. /\ data' = [data EXCEPT ![s.id] = RecordOf(Bumped(s))]
      /\ copy' = [copy EXCEPT ![c] = Bumped(s)]
      /\ CanSave(data[s.id], s)
  BY DEF Commit
<1>2. /\ s.id \in Sessions
      /\ s.version \in Nat
      /\ Bumped(s) = [id |-> s.id, version |-> s.version + 1, tenant |-> s.tenant, edits |-> s.edits]
  BY DEF Object, Bumped
<1>3. /\ RecordOf(Bumped(s)) = [version |-> s.version + 1, tenant |-> s.tenant, edits |-> s.edits]
      /\ RecordOf(Bumped(s)) \in Record
  BY <1>2 DEF RecordOf, Object, Record
<1>4. /\ data'[s.id] = [version |-> s.version + 1, tenant |-> s.tenant, edits |-> s.edits]
      /\ \A id \in Sessions \ {s.id} : data'[id] = data[id]
      /\ copy'[c] = [id |-> s.id, version |-> s.version + 1, tenant |-> s.tenant, edits |-> s.edits]
      /\ \A d \in Clients \ {c} : copy'[d] = copy[d]
  BY <1>1, <1>2, <1>3 DEF FileInv, TypeOK
<1>5. data'[s.id] # Absent
  BY <1>1, <1>2, <1>3, SessionStoreAssumption DEF FileInv, TypeOK
<1>6. NoneStoredAtZero'
  BY <1>2, <1>4 DEF FileInv, NoneStoredAtZero
<1>7. ASSUME NEW d \in Clients, copy'[d] # NoCopy, copy'[d].id \in Kept, d \notin torn'
      PROVE  Level(copy[d].id, copy[d])'
  <2>1. CASE d = c
    BY <1>2, <1>4, <1>5, <2>1 DEF Level
  <2>2. CASE d # c /\ copy[d].id # s.id
    BY <1>4, <1>7, <2>2 DEF Level, FileInv, FileLock, Kept
  <2>3. CASE d # c /\ copy[d].id = s.id
    <3>1. data[s.id] # Absent /\ copy[d].version <= data[s.id].version
      BY <1>4, <1>7, <2>3 DEF Level, FileInv, FileLock
    <3>2. data[s.id].version = s.version
      BY <1>1, <3>1 DEF CanSave
    <3>3. copy[d].version \in Nat
      BY <1>4, <1>7, <2>3 DEF FileInv, TypeOK, Object
    <3>4. copy'[d].version < data'[copy'[d].id].version
      BY <1>2, <1>4, <2>3, <3>1, <3>2, <3>3
    <3>5. /\ copy'[d].version <= data'[copy'[d].id].version
          /\ copy'[d].version # data'[copy'[d].id].version
      BY <1>2, <1>4, <2>3, <3>3, <3>4
    <3> QED BY <1>4, <1>5, <2>3, <3>5 DEF Level
  <2> QED BY <2>1, <2>2, <2>3
<1> QED BY <1>6, <1>7 DEF FileLock

LEMMA FileInvStep == FileInv /\ [FileNext]_fileVars => FileInv'
<1> SUFFICES ASSUME FileInv, [FileNext]_fileVars PROVE FileInv'
  OBVIOUS
<1>a. TypeOK'
  BY FileTypeStep DEF FileInv
<1> USE DEF FileInv
<1>1. ASSUME NEW c \in Clients, NEW id \in Sessions, NEW tenant \in Tenants \cup {AnyTenant},
             Read(c, id, tenant)
      PROVE  FileInv'
  <2>1. ASSUME NEW d \in Clients, copy'[d] # NoCopy, copy'[d].id \in Kept, d \notin torn'
        PROVE  Level(copy[d].id, copy[d])'
    <3>1. CASE d # c
      BY <1>1, <2>1, <3>1 DEF Read, Load, FileLock, Level, TypeOK
    <3>2. CASE d = c
      <4>1. /\ copy'[d] = CopyOf(id, data[id])
            /\ data[id] # Absent
            /\ data' = data
        BY <1>1, <2>1, <3>2 DEF Read, Load, Visible, TypeOK
      <4>2. data[id].version \in Nat
        BY <4>1 DEF TypeOK, Record
      <4> QED BY <4>1, <4>2 DEF Level, CopyOf
    <3> QED BY <3>1, <3>2
  <2> QED BY <1>a, <1>1, <2>1 DEF Read, Load, FileLock, NewAtZero, NoneStoredAtZero
<1>2. ASSUME NEW c \in Clients, NEW id \in Sessions, NEW tenant \in Tenants, Check(c, id, tenant)
      PROVE  FileInv'
  BY <1>a, <1>2 DEF Check, CreateCheck, Fresh, TypeOK, FileLock, Level, NewAtZero,
    NoneStoredAtZero
<1>3. ASSUME NEW c \in Clients, NEW e \in Edits, Change(c, e)
      PROVE  FileInv'
  <2>1. copy'[c] = [id |-> copy[c].id, version |-> copy[c].version, tenant |-> copy[c].tenant,
                    edits |-> copy[c].edits \cup {e}]
    BY <1>3 DEF Change, Edit, TypeOK, Object
  <2>2. /\ \A d \in Clients \ {c} : copy'[d] = copy[d]
        /\ UNCHANGED <<data, creating, torn>> /\ copy[c] # NoCopy
    BY <1>3 DEF Change, Edit, TypeOK
  <2>3. FileLock'
    BY <2>1, <2>2 DEF FileLock, Level
  <2> QED BY <1>a, <2>2, <2>3 DEF NewAtZero, NoneStoredAtZero
<1>4. ASSUME NEW c \in Clients, Replace(c)
      PROVE  FileInv'
  <2>1. NewAtZero'
    BY <1>4 DEF Replace, Save, NewAtZero
  <2>2. CASE Commit(c, copy[c])
    <3>1. copy[c] \in Object /\ torn' = torn \ {c}
      BY <1>4, <2>2 DEF Replace, Save, Commit, TypeOK
    <3> QED BY <1>a, <2>1, <2>2, <3>1, CommitLevels
  <2>3. CASE Conflict(c, copy[c])
    <3>1. UNCHANGED <<data, copy, torn>>
      BY <1>4, <2>3 DEF Replace, Conflict, TypeOK
    <3> QED BY <1>a, <2>1, <3>1 DEF FileLock, Level, NoneStoredAtZero
  <2> QED BY <1>4, <2>2, <2>3 DEF Replace, Save
<1>5. ASSUME NEW c \in Clients, WriteFails(c)
      PROVE  FileInv'
  <2>1. /\ \A d \in Clients : d \notin torn' => d \notin torn /\ copy'[d] = copy[d]
        /\ UNCHANGED <<data, creating>>
    BY <1>5 DEF WriteFails, TypeOK
  <2> QED BY <1>a, <2>1 DEF FileLock, Level, NewAtZero, NoneStoredAtZero
<1>6. ASSUME NEW c \in Clients, Create(c)
      PROVE  FileInv'
  <2>1. NewAtZero'
    BY <1>6 DEF Create, CreateSave, NewAtZero, TypeOK
  <2>2. CASE Commit(c, creating[c])
    <3>1. creating[c] \in Object /\ torn' = torn \ {c}
      BY <1>6, <2>2 DEF Create, CreateSave, Commit, TypeOK
    <3> QED BY <1>a, <2>1, <2>2, <3>1, CommitLevels
  <2>3. CASE Conflict(c, creating[c])
    <3>1. UNCHANGED <<data, copy, torn>>
      BY <1>6, <2>3 DEF Create, Conflict, TypeOK
    <3> QED BY <1>a, <2>1, <3>1 DEF FileLock, Level, NoneStoredAtZero
  <2> QED BY <1>6, <2>2, <2>3 DEF Create, CreateSave
<1>7. ASSUME NEW c \in Clients, CreateFails(c)
      PROVE  FileInv'
  BY <1>a, <1>7 DEF CreateFails, TypeOK, FileLock, Level, NewAtZero, NoneStoredAtZero
<1>8. ASSUME NEW id \in Deletable, Unlink(id)
      PROVE  FileInv'
  BY <1>a, <1>8 DEF Unlink, Delete, TypeOK, FileLock, Level, Kept, NewAtZero, NoneStoredAtZero
<1>9. CASE Restart
  BY <1>a, <1>9 DEF Restart, TypeOK, FileLock, NewAtZero, NoneStoredAtZero
<1>10. CASE UNCHANGED fileVars
  BY <1>a, <1>10 DEF fileVars, vars, FileLock, Level, NewAtZero, NoneStoredAtZero
<1> QED BY <1>1, <1>2, <1>3, <1>4, <1>5, <1>6, <1>7, <1>8, <1>9, <1>10 DEF FileNext

LEMMA FileInvariance == FileSpec => []FileInv
<1>1. FileInit => FileInv
  BY DEF FileInit, Init, FileInv, TypeOK, FileLock, NewAtZero, NoneStoredAtZero
<1> QED BY <1>1, FileInvStep, PTL DEF FileSpec

(***************************************************************************)
(* A client whose last save did not fail half way holds an object that is  *)
(* not ahead of its file and, level with it, has every edit the file has.  *)
(***************************************************************************)
THEOREM FileLockHolds == FileSpec => []FileLock
<1>1. FileInv => FileLock
  BY DEF FileInv
<1> QED BY <1>1, FileInvariance, PTL

(***************************************************************************)
(* An accepted save of a session that is not deleted keeps every edit the  *)
(* file has, or is the save of a torn client.                              *)
(***************************************************************************)
LEMMA CommitLoses ==
  ASSUME FileInv, NEW c \in Clients, NEW s \in Object, Commit(c, s),
         NEW id \in Kept, data[id] # Absent,
         \/ s = copy[c]
         \/ s.version = 0
  PROVE  /\ data'[id] # Absent
         /\ \/ data[id].edits \subseteq data'[id].edits
            \/ c \in torn /\ copy[c].id = id /\ data'[id].edits = copy[c].edits
<1>1. /\ RecordOf(Bumped(s)) = [version |-> s.version + 1, tenant |-> s.tenant, edits |-> s.edits]
      /\ RecordOf(Bumped(s)) \in Record
      /\ s.id \in Sessions /\ s \in Object
  BY DEF RecordOf, Bumped, Object, Record
<1>2. CASE s.id # id
  BY <1>2 DEF Commit, FileInv, TypeOK, Kept
<1>3. CASE s.id = id
  <2>1. data'[id] = RecordOf(Bumped(s)) /\ data'[id] # Absent
    BY <1>1, <1>3, SessionStoreAssumption DEF Commit, FileInv, TypeOK
  <2>2. data[id].version = s.version /\ data[id].version > 0
    BY <1>1, <1>3 DEF Commit, CanSave, FileInv, NoneStoredAtZero
  <2>3. s = copy[c] /\ copy[c] # NoCopy
    BY <1>1, <2>2, SessionStoreAssumption
  <2>4. c \notin torn => Level(id, s)
    BY <1>3, <2>3 DEF FileInv, FileLock
  <2> QED BY <1>1, <1>3, <2>1, <2>2, <2>3, <2>4 DEF Level
<1> QED BY <1>2, <1>3

(***************************************************************************)
(* A saved edit of a session that is never deleted is lost, restarts and   *)
(* failed writes included, only to the save of a client whose save before  *)
(* had failed half way.                                                    *)
(***************************************************************************)
THEOREM OnlyTornSavesLose == FileSpec => LostOnlyToTornSaves
<1> DEFINE Kept1(id) == data[id] # Absent =>
                          /\ data'[id] # Absent
                          /\ \/ data[id].edits \subseteq data'[id].edits
                             \/ \E c \in torn : copy[c].id = id /\ data'[id].edits = copy[c].edits
<1>1. ASSUME FileInv, [FileNext]_fileVars, NEW id \in Kept PROVE Kept1(id)
  <2>1. CASE data' = data
    BY <2>1
  <2>2. ASSUME NEW c \in Clients, Save(c), Commit(c, copy[c]) PROVE Kept1(id)
    <3>1. copy[c] \in Object
      BY <1>1, <2>2 DEF Save, FileInv, TypeOK
    <3> QED BY <1>1, <2>2, <3>1, CommitLoses
  <2>3. ASSUME NEW c \in Clients, CreateSave(c), Commit(c, creating[c]) PROVE Kept1(id)
    <3>1. creating[c] \in Object /\ creating[c].version = 0
      BY <1>1, <2>3 DEF CreateSave, FileInv, TypeOK, NewAtZero
    <3> QED BY <1>1, <2>3, <3>1, CommitLoses
  <2>4. ASSUME NEW other \in Deletable, Delete(other) PROVE Kept1(id)
    BY <1>1, <2>4 DEF Delete, FileInv, TypeOK, Kept
  <2>5. \/ data' = data
        \/ \E c \in Clients : Save(c) /\ Commit(c, copy[c])
        \/ \E c \in Clients : CreateSave(c) /\ Commit(c, creating[c])
        \/ \E other \in Deletable : Delete(other)
    BY <1>1 DEF FileNext, fileVars, vars, Read, Load, Check, CreateCheck, Change, Edit, Replace,
                Save, Create, CreateSave, Conflict, WriteFails, CreateFails, Unlink, Restart
  <2> QED BY <2>1, <2>2, <2>3, <2>4, <2>5
<1>2. FileInv /\ [FileNext]_fileVars => \A id \in Kept : Kept1(id)
  BY <1>1
<1> QED BY <1>2, FileInvariance, PTL DEF FileSpec, LostOnlyToTornSaves

=============================================================================
