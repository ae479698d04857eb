------------------------------ MODULE Download -------------------------------
(***************************************************************************)
(* Downloads into the cache of the application                             *)
(* (tidewave-core/src/http_handlers.rs): requests for a key share one      *)
(* download, whose progress each of them streams to its client.            *)
(*                                                                         *)
(* One key, and so one file; its requests carry the same parameters.  The  *)
(* application may run several times (http_handlers.rs:163): each instance *)
(* has its own map of downloads, and all share the cache.  An instance may *)
(* crash and is started again at once.  Names of temporary files are       *)
(* unique; the removal of those a crash left behind, an hour later, is not *)
(* modelled.                                                               *)
(***************************************************************************)
EXTENDS Naturals, Sequences, FiniteSets

CONSTANTS
    Inst,      \* running instances of the application
    Request,   \* requests for the key
    Entry,     \* identities of ActiveDownload; one nobody refers to is used anew
    Capacity,  \* of the progress queue (100 in the code)
    None

ASSUME ConstantsAssumption ==
    /\ None \notin Entry /\ None \notin Inst
    /\ Capacity \in Nat \ {0}

VARIABLES
    extract,    \* parameter: "none", a "file" of the archive, or "all" of it
    executable, \* parameter
    file,       \* what the cache holds for the key; "plain" lacks the mode it needs
    downloads,  \* the entry of the key in the map of each instance, or None
    started,    \* entries whose `started' flag is set
    home,       \* the instance each entry belongs to
    task,       \* where the download of each entry stands
    temp,       \* entries whose temporary file exists
    panicked,   \* history: entries whose extraction panicked
    req,        \* where each request stands
    entry,      \* the entry each request found, or None
    rx,         \* progress each request has still to stream
    got         \* history: the file when the request was told it is done

vars == <<extract, executable, file, downloads, started, home, task, temp, panicked,
          req, entry, rx, got>>

params == <<extract, executable>>
temps  == <<temp, panicked>>

File == {"absent", "partial", "plain", "ready"}

\* The type invariant.
TypeOK ==
    /\ extract \in {"none", "file", "all"}
    /\ executable \in BOOLEAN
    /\ file \in File
    /\ downloads \in [Inst -> Entry \cup {None}]
    /\ started \in SUBSET Entry
    /\ home \in [Entry -> Inst \cup {None}]
    /\ task \in [Entry -> {"none", "exists", "request", "stream", "store", "extract",
                           "chmod", "failed", "remove", "ended"}]
    /\ temp \in SUBSET Entry /\ panicked \in SUBSET Entry
    /\ req \in [Request -> {"new", "found", "subscribed", "streaming",
                            "done", "error", "gone", "cut"}]
    /\ entry \in [Request -> Entry \cup {None}]
    /\ rx \in [Request -> Seq({"progress", "error"})]
    /\ got \in [Request -> File]

Init ==
    /\ extract \in {"none", "file", "all"}
    /\ executable \in BOOLEAN
    /\ file = "absent"
    /\ downloads = [i \in Inst |-> None]
    /\ started = {}
    /\ home = [e \in Entry |-> None]
    /\ task = [e \in Entry |-> "none"]
    /\ temp = {} /\ panicked = {}
    /\ req = [r \in Request |-> "new"]
    /\ entry = [r \in Request |-> None]
    /\ rx = [r \in Request |-> <<>>]
    /\ got = [r \in Request |-> "absent"]

Goto(e, l) == task' = [task EXCEPT ![e] = l]

-----------------------------------------------------------------------------
\* The progress queue of an entry

Subscribed(r, e) == entry[r] = e /\ req[r] \in {"subscribed", "streaming"}

\* A receiver that lags behind loses its oldest message.
Push(q, m) == IF Len(q) < Capacity THEN Append(q, m) ELSE Append(Tail(q), m)

Broadcast(e, m) ==
    rx' = [r \in Request |-> IF Subscribed(r, e) THEN Push(rx[r], m) ELSE rx[r]]

\* A request holds the entry, and with it a sender, until its response is built.
Holders(e) == {r \in Request : entry[r] = e /\ req[r] \in {"found", "subscribed"}}

\* Faulty variant of Closed: the stream keeps the entry it came from.
ClosedButForStreams(e) ==
    /\ home[e] # None => downloads[home[e]] # e
    /\ task[e] = "ended"
    /\ {r \in Request : entry[r] = e} = {}

\* Every sender is gone: the map's, the download's and those of the handlers.
Closed(e) ==
    /\ home[e] # None => downloads[home[e]] # e
    /\ task[e] = "ended"
    /\ Holders(e) = {}

-----------------------------------------------------------------------------
\* Requests: download_handler and the stream it returns

\* Nobody refers to entry e: it stands for one that is allocated now.
Fresh(e) ==
    /\ \A i \in Inst : downloads[i] # e
    /\ task[e] \in {"none", "ended"}
    /\ \A r \in Request : entry[r] # e

\* downloads.entry(key).or_insert_with(..).clone().
Find(r, i) ==
    /\ req[r] = "new"
    /\ \/ /\ downloads[i] # None
          /\ entry' = [entry EXCEPT ![r] = downloads[i]]
          /\ UNCHANGED <<downloads, started, home, task, temps>>
       \/ /\ downloads[i] = None
          /\ \E e \in Entry :
                /\ Fresh(e)
                /\ entry' = [entry EXCEPT ![r] = e]
                /\ downloads' = [downloads EXCEPT ![i] = e]
                /\ started' = started \ {e}
                /\ home' = [home EXCEPT ![e] = i]
                /\ task' = [task EXCEPT ![e] = "none"]
                /\ temp' = temp \ {e} /\ panicked' = panicked \ {e}
    /\ req' = [req EXCEPT ![r] = "found"]
    /\ UNCHANGED <<params, file, rx, got>>

\* tx.subscribe.
Subscribe(r) ==
    /\ req[r] = "found"
    /\ req' = [req EXCEPT ![r] = "subscribed"]
    /\ UNCHANGED <<params, file, downloads, started, home, task, temps, entry, rx, got>>

\* Whoever sets the flag starts the download; the response is returned.
Start(r) ==
    /\ req[r] = "subscribed"
    /\ started' = started \cup {entry[r]}
    /\ task' = IF entry[r] \in started THEN task ELSE [task EXCEPT ![entry[r]] = "exists"]
    /\ req' = [req EXCEPT ![r] = "streaming"]
    /\ UNCHANGED <<params, file, downloads, home, temps, entry, rx, got>>

\* The stream of request r ends as `outcome' says.
End(r, outcome) ==
    /\ req' = [req EXCEPT ![r] = outcome]
    /\ entry' = [entry EXCEPT ![r] = None]
    /\ rx' = [rx EXCEPT ![r] = <<>>]

\* Progress is passed on; an error ends the stream.
Receive(r) ==
    /\ req[r] = "streaming" /\ rx[r] # <<>>
    /\ \/ /\ Head(rx[r]) = "progress"
          /\ rx' = [rx EXCEPT ![r] = Tail(@)]
          /\ UNCHANGED <<req, entry>>
       \/ /\ Head(rx[r]) = "error"
          /\ End(r, "error")
    /\ UNCHANGED <<params, file, downloads, started, home, task, temps, got>>

\* The queue is closed: done if the file is there, an error if not.
Conclude(r) ==
    /\ req[r] = "streaming" /\ rx[r] = <<>> /\ Closed(entry[r])
    /\ IF file = "absent"
       THEN End(r, "error") /\ UNCHANGED got
       ELSE End(r, "done") /\ got' = [got EXCEPT ![r] = file]
    /\ UNCHANGED <<params, file, downloads, started, home, task, temps>>

\* The client is gone and the stream dropped; the download goes on.
Disconnect(r) ==
    /\ req[r] = "streaming"
    /\ End(r, "gone")
    /\ UNCHANGED <<params, file, downloads, started, home, task, temps, got>>

-----------------------------------------------------------------------------
\* The download of an entry: the spawned task and perform_download

\* A file that exists is taken to be complete.
CheckExists(e) ==
    /\ task[e] = "exists"
    /\ Goto(e, IF file = "absent" THEN "request" ELSE "remove")
    /\ UNCHANGED <<params, file, downloads, started, home, temps, req, entry, rx, got>>

\* Faulty variant of SendRequest: the body is written to the final path.
SendRequestInPlace(e) ==
    /\ task[e] = "request"
    /\ file' = "partial"
    /\ Goto(e, "stream")
    /\ UNCHANGED <<params, downloads, started, home, temps, req, entry, rx, got>>

\* Directories are made, the request is answered and the temporary file opened; or
\* one of these fails.
SendRequest(e) ==
    /\ task[e] = "request"
    /\ \/ Goto(e, "stream") /\ temp' = temp \cup {e}
       \/ Goto(e, "failed") /\ UNCHANGED temp
    /\ UNCHANGED <<params, panicked, file, downloads, started, home, req, entry, rx, got>>

\* A chunk is written, and its progress reported.
Chunk(e) ==
    /\ task[e] = "stream"
    /\ Broadcast(e, "progress")
    /\ UNCHANGED <<params, file, downloads, started, home, task, temps, req, entry, got>>

\* Faulty variant of EndStream: a failure leaves the temporary file.
EndStreamLeaving(e) ==
    /\ task[e] = "stream"
    /\ Goto(e, "store") \/ Goto(e, "failed")
    /\ UNCHANGED <<params, file, downloads, started, home, temps, req, entry, rx, got>>

\* The end of the body; or a failure or half a minute without a chunk.
EndStream(e) ==
    /\ task[e] = "stream"
    /\ \/ Goto(e, "store") /\ UNCHANGED temp
       \/ Goto(e, "failed") /\ temp' = temp \ {e}
    /\ UNCHANGED <<params, panicked, file, downloads, started, home, req, entry, rx, got>>

\* What is stored needs a change of mode: a file, not a directory.
NeedsMode == executable /\ extract # "all"

\* The file is in place.
Placed(e) ==
    /\ file' = IF NeedsMode THEN "plain" ELSE "ready"
    /\ Goto(e, IF NeedsMode THEN "chmod" ELSE "remove")

\* The temporary file becomes the file; or, if it is an archive, the extraction to
\* the final path begins; or something fails before.
Store(e) ==
    /\ task[e] = "store"
    /\ \/ /\ extract = "none"
          /\ Placed(e)
          /\ temp' = temp \ {e}
       \/ /\ extract # "none"
          /\ file' = "partial"
          /\ Goto(e, "extract")
          /\ UNCHANGED temp
       \/ /\ Goto(e, "failed")
          /\ temp' = temp \ {e}
          /\ UNCHANGED file
    /\ UNCHANGED <<params, panicked, downloads, started, home, req, entry, rx, got>>

\* The extraction succeeds, or fails and leaves what it has written.  If it panics, the
\* download fails before it removes the temporary file.
Extract(e) ==
    /\ task[e] = "extract"
    /\ \/ Placed(e) /\ temp' = temp \ {e} /\ UNCHANGED panicked
       \/ Goto(e, "failed") /\ temp' = temp \ {e} /\ UNCHANGED <<file, panicked>>
       \/ Goto(e, "failed") /\ panicked' = panicked \cup {e} /\ UNCHANGED <<file, temp>>
    /\ UNCHANGED <<params, downloads, started, home, req, entry, rx, got>>

\* set_permissions, which may fail.
Chmod(e) ==
    /\ task[e] = "chmod"
    /\ \/ /\ file' = IF file = "plain" THEN "ready" ELSE file
          /\ Goto(e, "remove")
       \/ Goto(e, "failed") /\ UNCHANGED file
    /\ UNCHANGED <<params, downloads, started, home, temps, req, entry, rx, got>>

\* The error is broadcast.
TellError(e) ==
    /\ task[e] = "failed"
    /\ Broadcast(e, "error")
    /\ Goto(e, "remove")
    /\ UNCHANGED <<params, file, downloads, started, home, temps, req, entry, got>>

\* The sender of the task is dropped and the entry of the key removed.
Remove(e) ==
    /\ task[e] = "remove"
    /\ downloads' = [downloads EXCEPT ![home[e]] = None]
    /\ Goto(e, "ended")
    /\ UNCHANGED <<params, file, started, home, temps, req, entry, rx, got>>

-----------------------------------------------------------------------------
\* Instance i crashes and starts again: its streams are cut and its downloads stop
\* where they are.  The files stay.
Crash(i) ==
    LET mine  == {e \in Entry : home[e] = i}
        cut   == {r \in Request : entry[r] \in mine}
    IN  /\ downloads' = [downloads EXCEPT ![i] = None]
        /\ started' = started \ mine
        /\ home' = [e \in Entry |-> IF e \in mine THEN None ELSE home[e]]
        /\ task' = [e \in Entry |-> IF e \in mine THEN "none" ELSE task[e]]
        /\ req' = [r \in Request |-> IF r \in cut THEN "cut" ELSE req[r]]
        /\ entry' = [r \in Request |-> IF r \in cut THEN None ELSE entry[r]]
        /\ rx' = [r \in Request |-> IF r \in cut THEN <<>> ELSE rx[r]]
        /\ UNCHANGED <<params, file, temps, got>>

Next ==
    \/ \E r \in Request :
          \/ \E i \in Inst : Find(r, i)
          \/ Subscribe(r) \/ Start(r) \/ Receive(r) \/ Conclude(r) \/ Disconnect(r)
    \/ \E e \in Entry :
          \/ CheckExists(e) \/ SendRequest(e) \/ Chunk(e) \/ EndStream(e) \/ Store(e)
          \/ Extract(e) \/ Chmod(e) \/ TellError(e) \/ Remove(e)
    \/ \E i \in Inst : Crash(i)

Spec == Init /\ [][Next]_vars

\* Tasks that can run do run, and a client reads what is streamed to it or disconnects.
\* Of the server downloaded from: it answers or fails, and a body that keeps coming ends.
Fairness ==
    /\ \A r \in Request :
          WF_vars(Subscribe(r)) /\ WF_vars(Start(r)) /\ WF_vars(Receive(r) \/ Conclude(r))
    /\ \A e \in Entry :
          WF_vars(CheckExists(e) \/ SendRequest(e) \/ EndStream(e) \/ Store(e)
                  \/ Extract(e) \/ Chmod(e) \/ TellError(e) \/ Remove(e))

FairSpec == Spec /\ Fairness

-----------------------------------------------------------------------------
\* Without an archive and without a mode to set, a client is told "done" only of a
\* complete file, whatever fails, whoever crashes and however many instances write:
\* the file appears under its name by one rename (http_handlers.rs:634).
PlainDownloadsComplete ==
    extract = "none" /\ ~executable =>
        \A r \in Request : req[r] = "done" => got[r] = "ready"

\* A download that is over left no temporary file, whichever of its exits it took
\* (http_handlers.rs:603, 628, 638).  There are two exceptions: a crash, and an extraction
\* that panicked, whose error is returned before the file is removed
\* (http_handlers.rs:625).
NoTempLeft ==
    \A e \in temp \ panicked : task[e] \notin {"chmod", "failed", "remove", "ended"}

\* A request is answered: the last sender goes although its own handler held one, and
\* although it may have found an entry that is about to be removed
\* (http_handlers.rs:324-327, 360-382).
RequestAnswered ==
    \A r \in Request : req[r] = "found" ~> req[r] \in {"done", "error", "gone", "cut"}

\* What the code says of a file that exists (http_handlers.rs:291, 293): it was
\* completed previously, so that a client may be told it is done.  It need not be:
\* an extraction writes to the final path, and leaves there what it has written when
\* it fails.
DoneMeansComplete ==
    \A r \in Request : req[r] = "done" => got[r] = "ready"
=============================================================================
