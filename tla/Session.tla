------------------------------ MODULE Session ------------------------------
(***************************************************************************)
(* A session record and what the bundled stores do with it.  Every module  *)
(* that loads or saves a session (SessionStore, FileStore, Turn) uses      *)
(* these operators, so the optimistic lock is defined in one place.        *)
(*                                                                         *)
(* A record has at least a `version` field; Turn adds the messages and the *)
(* attributes, SessionStore a tenant and the edits it carries.             *)
(***************************************************************************)
EXTENDS Integers

(***************************************************************************)
(* What load() answers for an id that is not in the store (Python None).   *)
(***************************************************************************)
CONSTANT Absent

(***************************************************************************)
(* save() accepts a session when the store has none under its id, or has   *)
(* one of the same version; otherwise it raises SessionConflictError.      *)
(***************************************************************************)
CanSaveUnlessAhead(existing, s) == existing # Absent => existing.version >= s.version

CanSaveNew(existing, s) == s.version = 0 \/ (existing # Absent => existing.version = s.version)

CanSave(existing, s) == existing # Absent => existing.version = s.version

(***************************************************************************)
(* What an accepted save leaves both in the store and in the caller's      *)
(* object: the version is incremented in place, then copied.               *)
(***************************************************************************)
BumpedLater(s) == s

Bumped(s) == [s EXCEPT !.version = @ + 1]

=============================================================================
