----------------------------- MODULE FileStore ------------------------------
(***************************************************************************)
(* FileSessionStore: the operations of SessionStore on one file per        *)
(* session, `data` being the directory.  It opens, compares and replaces a *)
(* file without suspending, under an asyncio.Lock per session, so a call   *)
(* is one step here too.  What it adds are calls that fail half way and    *)
(* the restart of the process.                                             *)
(***************************************************************************)
EXTENDS SessionStore

VARIABLE torn  \* ghost: clients whose object was bumped by a save that failed

fileVars == <<vars, torn>>

FileInit == Init /\ torn = {}

Read(c, id, tenant) ==
  /\ Load(c, id, tenant)
  /\ torn' = torn \ {c}

Change(c, e) == Edit(c, e) /\ UNCHANGED torn

\* The temporary file is written and replaces the session's file.
Replace(c) ==
  /\ Save(c)
  /\ torn' = IF raised'[c] THEN torn ELSE torn \ {c}

\* Without the temporary file, a write that fails leaves no session.
WriteFailsInPlace(c) ==
  /\ creating[c] = NoCopy /\ copy[c] # NoCopy
  /\ copy[c].version < MaxVersion
  /\ CanSave(data[copy[c].id], copy[c])
  /\ data' = [data EXCEPT ![copy[c].id] = Absent]
  /\ copy' = [copy EXCEPT ![c] = Bumped(@)]
  /\ raised' = [raised EXCEPT ![c] = FALSE]
  /\ torn' = torn \cup {c}
  /\ UNCHANGED creating

\* The version check passes and the version is incremented; then writing the
\* temporary file raises, and the session's file stays as it was.
WriteFails(c) ==
  /\ creating[c] = NoCopy /\ copy[c] # NoCopy
  /\ copy[c].version < MaxVersion
  /\ CanSave(data[copy[c].id], copy[c])
  /\ copy' = [copy EXCEPT ![c] = Bumped(@)]
  /\ raised' = [raised EXCEPT ![c] = FALSE]
  /\ torn' = torn \cup {c}
  /\ UNCHANGED <<data, creating>>

Check(c, id, tenant) == CreateCheck(c, id, tenant) /\ UNCHANGED torn

Create(c) ==
  /\ CreateSave(c)
  /\ torn' = IF raised'[c] THEN torn ELSE torn \ {c}

\* The same failure in create_session: the object is dropped.
CreateFails(c) ==
  /\ creating[c] # NoCopy
  /\ CanSave(data[creating[c].id], creating[c])
  /\ creating' = [creating EXCEPT ![c] = NoCopy]
  /\ raised' = [raised EXCEPT ![c] = FALSE]
  /\ UNCHANGED <<data, copy, torn>>

Unlink(id) == Delete(id) /\ UNCHANGED torn

\* The process ends between two calls or inside one, and starts again: the
\* files are what is left.
Restart ==
  /\ copy' = [c \in Clients |-> NoCopy]
  /\ creating' = [c \in Clients |-> NoCopy]
  /\ raised' = [c \in Clients |-> FALSE]
  /\ torn' = {}
  /\ UNCHANGED data

FileNext ==
  \/ \E c \in Clients :
       \/ \E id \in Sessions :
            \/ \E tenant \in Tenants \cup {AnyTenant} : Read(c, id, tenant)
            \/ \E tenant \in Tenants : Check(c, id, tenant)
       \/ \E e \in Edits : Change(c, e)
       \/ Replace(c) \/ WriteFails(c) \/ Create(c) \/ CreateFails(c)
  \/ \E id \in Deletable : Unlink(id)
  \/ Restart

FileSpec == FileInit /\ [][FileNext]_fileVars

-----------------------------------------------------------------------------
(***************************************************************************)
(* The optimistic lock as far as it goes with files: a client whose last   *)
(* save did not fail half way holds an object that is not ahead of the     *)
(* file and, when level with it, has every edit the file has.              *)
(***************************************************************************)
FileLock ==
  \A c \in Clients :
    copy[c] # NoCopy /\ copy[c].id \in Kept /\ c \notin torn => Level(copy[c].id, copy[c])

(***************************************************************************)
(* An edit that was saved, restarts or not, is lost only to the save of a  *)
(* client whose save before had failed half way.                           *)
(***************************************************************************)
LostOnlyToTornSaves ==
  [][\A id \in Kept : data[id] # Absent =>
        /\ data'[id] # Absent
        /\ \/ data[id].edits \subseteq data'[id].edits
           \/ \E c \in torn : copy[c].id = id /\ data'[id].edits = copy[c].edits]_fileVars

=============================================================================
