---------------------------- MODULE FileRequests -----------------------------
(***************************************************************************)
(* The handlers that change files (tidewave-core/src/server.rs): write,    *)
(* delete, copy and move, each a request of its own that runs to its end   *)
(* beside the others.  A write may be exclusive (the file must not exist)  *)
(* or guarded (the contents must hash to what the client expects).         *)
(*                                                                         *)
(* A step is one system call as the file system orders them.  A path names *)
(* a file, and an open file outlives its name.  Contents are told apart by *)
(* who wrote them: the bytes of a request, or those a file had initially.  *)
(* Reads, stat, listdir and mkdir change no file and are left out.         *)
(***************************************************************************)
EXTENDS FiniteSets

CONSTANTS
    Path,      \* paths the requests name, in directories that exist
    Request,   \* requests to the server
    Op,        \* what a request may ask for: see Operations
    None

\* A file is named by its origin: the path that held it initially, or the request
\* that created it.  So are contents.
File == Path \cup Request

Operations ==
    [kind : {"write"}, path : Path, to : {None},
     exclusive : BOOLEAN, expected : File \cup {None}]
    \cup [kind : {"delete"}, path : Path, to : {None},
          exclusive : {FALSE}, expected : {None}]
    \cup [kind : {"copy", "move"}, path : Path, to : Path,
          exclusive : {FALSE}, expected : {None}]

ASSUME ConstantsAssumption ==
    /\ None \notin File
    /\ Path \cap Request = {}
    /\ Op \subseteq Operations

VARIABLES
    entry,     \* the file each path names, or None
    data,      \* whose bytes each file holds: none, one's, or a mixture
    op,        \* what each request asked for
    stage,     \* where its handler stands, or how it answered
    file,      \* the file it has opened for writing, or None
    source,    \* the file it reads, for a copy or the check, or None
    writing,   \* requests whose bytes a blocking thread has still to write
    stale      \* history: guarded writes whose path was touched since they opened
               \* it for the check

fsVars == <<entry, data>>
requestVars == <<entry, data, op, stage, file, source, writing, stale>>

Answers == {"ok", "mismatch", "conflict", "error"}
Stages == {"new", "check", "hash", "open", "write", "fill", "mtime", "gone"} \cup Answers

NoOp == [kind |-> "delete", path |-> None, to |-> None,
         exclusive |-> FALSE, expected |-> None]

\* The type invariant.
FileTypeOK ==
    /\ entry \in [Path -> File \cup {None}]
    /\ data \in [File -> SUBSET File]
    /\ op \in [Request -> Op \cup {NoOp}]
    /\ stage \in [Request -> Stages]
    /\ file \in [Request -> File \cup {None}]
    /\ source \in [Request -> File \cup {None}]
    /\ writing \in SUBSET Request
    /\ stale \in SUBSET Request

\* Any of the paths may exist, each holding a file of its own.
FileInit ==
    /\ entry \in {e \in [Path -> Path \cup {None}] : \A p \in Path : e[p] \in {p, None}}
    /\ data = [f \in File |-> IF f \in Path THEN {f} ELSE {}]
    /\ op = [r \in Request |-> NoOp]
    /\ stage = [r \in Request |-> "new"]
    /\ file = [r \in Request |-> None]
    /\ source = [r \in Request |-> None]
    /\ writing = {}
    /\ stale = {}

-----------------------------------------------------------------------------
\* State formulae

Exists(p) == entry[p] # None

IsGuarded(r) == op[r].expected # None

Advance(r, l) == stage' = [stage EXCEPT ![r] = l]

\* Request r changes what the paths in P name or hold.
Touch(r, P) ==
    stale' = stale \cup {q \in Request \ {r} :
                            /\ IsGuarded(q) /\ stage[q] \in {"hash", "open"}
                            /\ op[q].path \in P}

PathsOf(f) == {p \in Path : entry[p] = f}

\* Path p is opened with O_CREAT | O_TRUNC: a missing file is created, one that
\* exists is emptied.
OpenTruncated(r, p) ==
    LET f == IF Exists(p) THEN entry[p] ELSE r
    IN  /\ entry' = [entry EXCEPT ![p] = f]
        /\ data' = [data EXCEPT ![f] = {}]
        /\ file' = [file EXCEPT ![r] = f]
        /\ Touch(r, PathsOf(f) \cup {p})

-----------------------------------------------------------------------------
\* write_file_handler

\* A request arrives.  A guarded write is checked first.
Arrive(r, o) ==
    /\ stage[r] = "new"
    /\ op' = [op EXCEPT ![r] = o]
    /\ Advance(r, IF o.expected # None THEN "check" ELSE "open")
    /\ UNCHANGED <<fsVars, file, source, writing, stale>>

\* Faulty variant of CheckOpen: with no file there is nothing to protect.
CheckOpenLenient(r) ==
    /\ stage[r] = "check"
    /\ IF Exists(op[r].path)
       THEN source' = [source EXCEPT ![r] = entry[op[r].path]] /\ Advance(r, "hash")
       ELSE UNCHANGED source /\ Advance(r, "open")
    /\ UNCHANGED <<fsVars, op, file, writing, stale>>

\* check_file_hash opens the file.  A missing one counts as a mismatch.
CheckOpen(r) ==
    /\ stage[r] = "check"
    /\ IF Exists(op[r].path)
       THEN source' = [source EXCEPT ![r] = entry[op[r].path]] /\ Advance(r, "hash")
       ELSE UNCHANGED source /\ Advance(r, "mismatch")
    /\ UNCHANGED <<fsVars, op, file, writing, stale>>

\* It has read the open file to its end, whatever the path names by now.
CheckHash(r) ==
    /\ stage[r] = "hash"
    /\ Advance(r, IF data[source[r]] = {op[r].expected} THEN "open" ELSE "mismatch")
    /\ UNCHANGED <<fsVars, op, file, source, writing, stale>>

\* A plain write, tokio::fs::write: one blocking thread truncates the file and
\* writes it.  The handler waits for it.
OpenPlain(r) ==
    /\ stage[r] = "open" /\ op[r].kind = "write" /\ ~op[r].exclusive
    /\ OpenTruncated(r, op[r].path)
    /\ writing' = writing \cup {r}
    /\ Advance(r, "fill")
    /\ UNCHANGED <<op, source>>

\* Faulty variant of OpenNew: O_CREAT without O_EXCL.
OpenNewShared(r) ==
    LET f == IF Exists(op[r].path) THEN entry[op[r].path] ELSE r
    IN  /\ stage[r] = "open" /\ op[r].kind = "write" /\ op[r].exclusive
        /\ entry' = [entry EXCEPT ![op[r].path] = f]
        /\ file' = [file EXCEPT ![r] = f]
        /\ Touch(r, {op[r].path})
        /\ Advance(r, "write")
        /\ UNCHANGED <<data, op, source, writing>>

\* An exclusive write: O_CREAT | O_EXCL.
OpenNew(r) ==
    /\ stage[r] = "open" /\ op[r].kind = "write" /\ op[r].exclusive
    /\ IF Exists(op[r].path)
       THEN /\ Advance(r, "conflict")
            /\ UNCHANGED <<fsVars, file, stale>>
       ELSE /\ entry' = [entry EXCEPT ![op[r].path] = r]
            /\ file' = [file EXCEPT ![r] = r]
            /\ Touch(r, {op[r].path})
            /\ Advance(r, "write")
            /\ UNCHANGED data
    /\ UNCHANGED <<op, source, writing>>

\* write_all on a tokio file hands the bytes to a blocking thread and returns: the
\* file is not flushed, and its drop waits for nothing.
WriteNew(r) ==
    /\ stage[r] = "write"
    /\ writing' = writing \cup {r}
    /\ Advance(r, "mtime")
    /\ UNCHANGED <<fsVars, op, file, source, stale>>

\* Opening fails: no permission, a directory in the way.
OpenFails(r) ==
    /\ stage[r] \in {"check", "open"}
    /\ Advance(r, "error")
    /\ UNCHANGED <<fsVars, op, file, source, writing, stale>>

\* The bytes r has to write: its own, or what the file it copies holds.
Bytes(r) == IF op[r].kind = "copy" THEN data[source[r]] ELSE {r}

\* Faulty variant of WriteFails: a full disk goes unnoticed.
WriteFailsUnnoticed(r) ==
    /\ r \in writing
    /\ writing' = writing \ {r}
    /\ IF stage[r] = "fill" THEN Advance(r, "mtime") ELSE UNCHANGED stage
    /\ UNCHANGED <<fsVars, op, file, source, stale>>

\* The blocking thread cannot write.  Only a handler that waits for it is told.
WriteFails(r) ==
    /\ r \in writing
    /\ writing' = writing \ {r}
    /\ IF stage[r] = "fill" THEN Advance(r, "error") ELSE UNCHANGED stage
    /\ UNCHANGED <<fsVars, op, file, source, stale>>

\* The blocking thread writes its bytes over what another request wrote since the
\* file was emptied; the tail of longer contents stays.
WriteLands(r) ==
    /\ r \in writing
    /\ \E kept \in {{}, data[file[r]]} :
          data' = [data EXCEPT ![file[r]] = Bytes(r) \cup kept]
    /\ Touch(r, PathsOf(file[r]))
    /\ writing' = writing \ {r}
    /\ IF stage[r] # "fill" THEN UNCHANGED stage
       ELSE Advance(r, IF op[r].kind = "copy" THEN "ok" ELSE "mtime")
    /\ UNCHANGED <<entry, op, file, source>>

\* fetch_mtime looks the path up again.
AnswerWrite(r) ==
    /\ stage[r] = "mtime"
    /\ Advance(r, IF Exists(op[r].path) THEN "ok" ELSE "error")
    /\ UNCHANGED <<fsVars, op, file, source, writing, stale>>

-----------------------------------------------------------------------------
\* The other handlers, one call each

\* delete_file_handler: remove_file.
Delete(r) ==
    /\ stage[r] = "open" /\ op[r].kind = "delete"
    /\ Advance(r, IF Exists(op[r].path) THEN "ok" ELSE "error")
    /\ entry' = [entry EXCEPT ![op[r].path] = None]
    /\ Touch(r, {op[r].path})
    /\ UNCHANGED <<data, op, file, source, writing>>

\* move_handler: rename replaces what the target names.
Move(r) ==
    /\ stage[r] = "open" /\ op[r].kind = "move"
    /\ IF Exists(op[r].path)
       THEN /\ entry' = [entry EXCEPT ![op[r].path] = None,
                                      ![op[r].to] = entry[op[r].path]]
            /\ Touch(r, {op[r].path, op[r].to})
            /\ Advance(r, "ok")
       ELSE /\ Advance(r, "error")
            /\ UNCHANGED <<entry, stale>>
    /\ UNCHANGED <<data, op, file, source, writing>>

\* copy_handler: the source is opened, the target emptied; nothing keeps the two
\* from being one file.
CopyOpen(r) ==
    /\ stage[r] = "open" /\ op[r].kind = "copy"
    /\ IF Exists(op[r].path)
       THEN /\ source' = [source EXCEPT ![r] = entry[op[r].path]]
            /\ OpenTruncated(r, op[r].to)
            /\ writing' = writing \cup {r}
            /\ Advance(r, "fill")
       ELSE /\ Advance(r, "error")
            /\ UNCHANGED <<fsVars, file, source, writing, stale>>
    /\ UNCHANGED op

\* The client disconnects and the handler is dropped where it awaits; a blocking
\* thread goes on.
Cancel(r) ==
    /\ stage[r] \notin {"new", "gone"} \cup Answers
    /\ Advance(r, "gone")
    /\ UNCHANGED <<fsVars, op, file, source, writing, stale>>

-----------------------------------------------------------------------------

Write(r) ==
    \/ CheckOpen(r) \/ CheckHash(r) \/ OpenPlain(r) \/ OpenNew(r) \/ WriteNew(r)
    \/ OpenFails(r) \/ WriteFails(r) \/ WriteLands(r) \/ AnswerWrite(r)

FileNext ==
    \E r \in Request :
        \/ \E o \in Op : Arrive(r, o)
        \/ Write(r) \/ Delete(r) \/ Move(r) \/ CopyOpen(r) \/ Cancel(r)

FileSpec == FileInit /\ [][FileNext]_requestVars

-----------------------------------------------------------------------------
\* Safety

\* "Fails unless the file contents hash to expected_sha256": a guarded write empties
\* a file only if it holds what its client expects, unless another request touched
\* the path between the check and the write (server.rs:925, 952), where several
\* awaits lie and nothing is locked.
GuardedOverwritesExpected ==
    [][\A r \in Request :
         /\ IsGuarded(r) /\ stage[r] = "open" /\ stage'[r] = "fill"
         /\ r \notin stale
         => /\ Exists(op[r].path)
            /\ data[entry[op[r].path]] = {op[r].expected}]_requestVars

\* A request took the file away that path p named.
Released(p) ==
    \E m \in Request :
        /\ op[m].kind \in {"delete", "move"} /\ op[m].path = p /\ op[m].to # p
        /\ stage[m] = "ok"

\* The exclusive write r got its file.
Admitted(r) == op[r].exclusive /\ file[r] # None

\* "Atomic exclusive write": of the exclusive writes to a path one gets the file,
\* however they overlap, and the others fail, until the file is deleted or moved
\* away.  So clients may use such a file as a lock.
OneCreator ==
    \A r, q \in Request :
        Admitted(r) /\ Admitted(q) /\ op[r].path = op[q].path /\ r # q
            => Released(op[r].path)

\* What may leave file f empty: a write under way, one that failed or whose client
\* went away, an exclusive write (it is answered before its bytes are in the file,
\* server.rs:945-947, and does not hear of a failure), or a copy of nothing.
MayEmpty(r) ==
    \/ r \in writing
    \/ stage[r] \in {"error", "gone"}
    \/ op[r].exclusive
    \/ op[r].kind = "copy"

\* A file is never left empty by a plain write that was answered with success:
\* whoever emptied it is still responsible for it or has said so.
EmptyIsAccountedFor ==
    \A f \in File :
        data[f] = {} /\ PathsOf(f) # {} => \E r \in Request : file[r] = f /\ MayEmpty(r)
=============================================================================
