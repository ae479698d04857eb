--------------------------- MODULE Download_proof ----------------------------
(***************************************************************************)
(* Proofs about Download, for any number of instances, requests and        *)
(* entries and any capacity of the progress queue.                         *)
(***************************************************************************)
EXTENDS Download, TLAPS

\* What a stage of a download says of its temporary file.  Only one that a crash
\* stopped has a file and no stage, and nobody will start its entry again; and only one
\* whose extraction panicked has a file when it is over.
TempInv ==
    \A e \in temp :
        /\ \/ task[e] \in {"none", "stream", "store", "extract"}
           \/ e \in panicked /\ task[e] \in {"failed", "remove", "ended"}
        /\ task[e] = "none" => /\ \A r \in Request : entry[r] # e
                               /\ \A i \in Inst : downloads[i] # e

\* Without an archive and a mode to set, the file is never seen incomplete.
PlainInv ==
    extract = "none" /\ ~executable =>
        /\ file \in {"absent", "ready"}
        /\ \A e \in Entry : task[e] # "extract"
        /\ \A r \in Request : req[r] = "done" => got[r] = "ready"

\* A request that is being served has an entry, and what is being downloaded has a
\* home.
ServedInv ==
    /\ \A r \in Request :
          req[r] \in {"found", "subscribed", "streaming"} => entry[r] \in Entry
    /\ \A e \in Entry : task[e] # "none" => home[e] \in Inst /\ e \in started
    /\ \A e \in started : task[e] # "none"
    /\ \A r \in Request : entry[r] # None => home[entry[r]] \in Inst
    /\ \A i \in Inst : downloads[i] # None => home[downloads[i]] = i

DownloadInv == TypeOK /\ ServedInv /\ TempInv /\ PlainInv

-----------------------------------------------------------------------------
\* A broadcast keeps every queue well typed.
LEMMA PushKeepsType ==
    ASSUME NEW q \in Seq({"progress", "error"}), NEW m \in {"progress", "error"}
    PROVE  Push(q, m) \in Seq({"progress", "error"})
<1>1. CASE Len(q) < Capacity
  BY <1>1 DEF Push
<1>2. CASE ~(Len(q) < Capacity)
  <2>1. q # <<>>
    BY <1>2, ConstantsAssumption
  <2>2. Tail(q) \in Seq({"progress", "error"})
    BY <2>1
  <2> QED
    BY <1>2, <2>2 DEF Push
<1> QED
  BY <1>1, <1>2

\* A broadcast leaves the queues well-typed.
LEMMA BroadcastKeepsType ==
    ASSUME TypeOK, NEW e \in Entry, NEW m \in {"progress", "error"}, Broadcast(e, m)
    PROVE  rx' \in [Request -> Seq({"progress", "error"})]
<1>1. ASSUME NEW r \in Request PROVE Push(rx[r], m) \in Seq({"progress", "error"})
  BY PushKeepsType DEF TypeOK
<1> QED
  BY <1>1 DEF Broadcast, TypeOK

\* The end of a request keeps the queues well typed.
LEMMA EndKeepsType ==
    ASSUME TypeOK, NEW r \in Request, NEW o, End(r, o)
    PROVE  rx' \in [Request -> Seq({"progress", "error"})]
<1>1. <<>> \in Seq({"progress", "error"})
  OBVIOUS
<1> QED
  BY <1>1 DEF End, TypeOK

\* No request has come in, and the cache is empty.
LEMMA DownloadInit == Init => DownloadInv
  BY ConstantsAssumption
  DEF Init, DownloadInv, TypeOK, ServedInv, TempInv, temps, PlainInv, File

\* A download that goes from one stage to the next: what has to be shown of the stage.
LEMMA StageStep ==
    ASSUME DownloadInv, NEW e \in Entry, task[e] # "none",
           NEW l \in {"exists", "request", "stream", "store", "extract",
                      "chmod", "failed", "remove", "ended"},
           Goto(e, l),
           temp' \in {temp, temp \cup {e}, temp \ {e}},
           panicked' \in {panicked, panicked \cup {e}},
           e \in temp' => \/ l \in {"stream", "store", "extract"}
                          \/ e \in panicked' /\ l \in {"failed", "remove"},
           file' \in File,
           extract = "none" /\ ~executable => file' \in {"absent", "ready"} /\ l # "extract",
           rx' \in [Request -> Seq({"progress", "error"})],
           UNCHANGED <<params, downloads, started, home, req, entry, got>>
    PROVE  DownloadInv'
<1> USE DEF DownloadInv
<1>1. TypeOK'
  BY DEF TypeOK, Goto, params, temps
<1>2. ServedInv'
  BY DEF TypeOK, ServedInv, Goto
<1>3. TempInv'
  BY DEF TypeOK, TempInv, temps, Goto
<1>4. PlainInv'
  BY DEF TypeOK, PlainInv, Goto, params, temps
<1> QED
  BY <1>1, <1>2, <1>3, <1>4

\* What requests do leaves the file and its temporary copies alone.
LEMMA RequestStep ==
    ASSUME DownloadInv, NEW r \in Request,
           UNCHANGED <<params, file, downloads, started, home, task, temps>>,
           \/ /\ req' = req /\ entry' = entry /\ got' = got
              /\ rx' \in [Request -> Seq({"progress", "error"})]
           \/ \E o \in {"done", "error", "gone"} :
                 /\ End(r, o)
                 /\ IF o = "done"
                    THEN file # "absent" /\ got' = [got EXCEPT ![r] = file]
                    ELSE UNCHANGED got
    PROVE  DownloadInv'
<1> USE DEF DownloadInv
<1>1. CASE /\ req' = req /\ entry' = entry /\ got' = got
           /\ rx' \in [Request -> Seq({"progress", "error"})]
  BY <1>1 DEF TypeOK, ServedInv, TempInv, PlainInv, params, temps
<1>2. ASSUME NEW o \in {"done", "error", "gone"}, End(r, o),
             IF o = "done"
             THEN file # "absent" /\ got' = [got EXCEPT ![r] = file]
             ELSE UNCHANGED got
      PROVE  DownloadInv'
  <2>1. rx' \in [Request -> Seq({"progress", "error"})]
    BY <1>2, EndKeepsType
  <2>2. req' = [req EXCEPT ![r] = o] /\ entry' = [entry EXCEPT ![r] = None]
    BY <1>2 DEF End
  <2>3. got' \in [Request -> File] /\ (o # "done" => got' = got)
    BY <1>2 DEF TypeOK
  <2>4. TypeOK'
    BY <2>1, <2>2, <2>3 DEF TypeOK, params, temps
  <2>5. ServedInv'
    BY <2>2, ConstantsAssumption DEF TypeOK, ServedInv
  <2>6. TempInv'
    BY <2>2, ConstantsAssumption DEF TypeOK, TempInv, temps
  <2>7. PlainInv'
    BY <1>2, <2>2, <2>3 DEF TypeOK, PlainInv, params, temps
  <2> QED
    BY <2>4, <2>5, <2>6, <2>7
<1> QED
  BY <1>1, <1>2

\* Every step of a request, a download or an instance keeps the invariant.
LEMMA DownloadStep == DownloadInv /\ [Next]_vars => DownloadInv'
<1> SUFFICES ASSUME DownloadInv, [Next]_vars PROVE DownloadInv'
  OBVIOUS
<1>0. TypeOK /\ rx \in [Request -> Seq({"progress", "error"})] /\ file \in File
  BY DEF DownloadInv, TypeOK
<1>1. ASSUME NEW r \in Request, NEW i \in Inst, Find(r, i) PROVE DownloadInv'
  <2> USE DEF DownloadInv
  <2>1. CASE downloads[i] # None
    <3>1. /\ entry' = [entry EXCEPT ![r] = downloads[i]]
          /\ req' = [req EXCEPT ![r] = "found"]
          /\ UNCHANGED <<params, file, downloads, started, home, task, temps, rx, got>>
      BY <1>1, <2>1 DEF Find
    <3>2. TypeOK'
      BY <2>1, <3>1 DEF TypeOK, params, temps
    <3>3. ServedInv' /\ TempInv' /\ PlainInv'
      BY <2>1, <3>1 DEF TypeOK, ServedInv, TempInv, PlainInv, params, temps
    <3> QED
      BY <3>2, <3>3
  <2>2. CASE downloads[i] = None
    <3>1. PICK e \in Entry :
             /\ Fresh(e)
             /\ entry' = [entry EXCEPT ![r] = e]
             /\ downloads' = [downloads EXCEPT ![i] = e]
             /\ started' = started \ {e}
             /\ home' = [home EXCEPT ![e] = i]
             /\ task' = [task EXCEPT ![e] = "none"]
             /\ temp' = temp \ {e} /\ panicked' = panicked \ {e}
      BY <1>1, <2>2 DEF Find
    <3>2. req' = [req EXCEPT ![r] = "found"] /\ UNCHANGED <<params, file, rx, got>>
      BY <1>1 DEF Find
    <3>3. TypeOK'
      BY <3>1, <3>2 DEF TypeOK, params, temps
    <3>4. ServedInv'
      BY <3>1, <3>2, ConstantsAssumption DEF TypeOK, ServedInv, Fresh
    <3>5. TempInv'
      BY <3>1 DEF TypeOK, TempInv, temps
    <3>6. PlainInv'
      BY <3>1, <3>2 DEF TypeOK, PlainInv, params, temps
    <3> QED
      BY <3>3, <3>4, <3>5, <3>6
  <2> QED
    BY <2>1, <2>2
<1>2. ASSUME NEW r \in Request, Subscribe(r) PROVE DownloadInv'
  BY <1>2 DEF Subscribe, DownloadInv, TypeOK, ServedInv, TempInv, PlainInv, params, temps
<1>3. ASSUME NEW r \in Request, Start(r) PROVE DownloadInv'
  <2> USE DEF DownloadInv
  <2>1. entry[r] \in Entry /\ entry[r] # None /\ home[entry[r]] \in Inst
    BY <1>3, ConstantsAssumption DEF Start, ServedInv
  <2>2. /\ \/ entry[r] \in started /\ task' = task
           \/ entry[r] \notin started /\ task' = [task EXCEPT ![entry[r]] = "exists"]
        /\ started' = started \cup {entry[r]}
        /\ req' = [req EXCEPT ![r] = "streaming"]
        /\ UNCHANGED <<params, file, downloads, home, temps, entry, rx, got>>
    BY <1>3 DEF Start
  <2>3. TypeOK'
    BY <2>1, <2>2 DEF TypeOK, params, temps
  <2>4. ServedInv'
    BY <2>1, <2>2 DEF TypeOK, ServedInv
  <2>5. entry[r] \notin started => task[entry[r]] = "none"
    BY <2>1 DEF ServedInv
  <2>6. TempInv'
    BY <2>1, <2>2, <2>5 DEF TypeOK, TempInv, temps
  <2>7. PlainInv'
    BY <2>1, <2>2 DEF TypeOK, PlainInv, params, temps
  <2> QED
    BY <2>3, <2>4, <2>6, <2>7
<1>4. ASSUME NEW r \in Request, Receive(r) PROVE DownloadInv'
  <2>1. CASE Head(rx[r]) = "progress"
    <3>1. Tail(rx[r]) \in Seq({"progress", "error"})
      BY <1>0, <1>4 DEF Receive
    <3>2. /\ rx' = [rx EXCEPT ![r] = Tail(@)]
          /\ UNCHANGED <<params, file, downloads, started, home, task, temps, req, entry, got>>
      BY <1>4, <2>1 DEF Receive
    <3>3. rx' \in [Request -> Seq({"progress", "error"})]
      BY <1>0, <3>1, <3>2
    <3> QED
      BY <3>2, <3>3, RequestStep
  <2>2. CASE Head(rx[r]) = "error"
    BY <1>4, <2>2, RequestStep DEF Receive
  <2> QED
    BY <1>4, <2>1, <2>2 DEF Receive
<1>5. ASSUME NEW r \in Request, Conclude(r) PROVE DownloadInv'
  BY <1>5, RequestStep DEF Conclude
<1>6. ASSUME NEW r \in Request, Disconnect(r) PROVE DownloadInv'
  BY <1>6, RequestStep DEF Disconnect
<1>7. ASSUME NEW e \in Entry, CheckExists(e) PROVE DownloadInv'
  BY <1>0, <1>7, StageStep DEF CheckExists, DownloadInv, TempInv, temps, PlainInv
<1>8. ASSUME NEW e \in Entry, SendRequest(e) PROVE DownloadInv'
  BY <1>0, <1>8, StageStep DEF SendRequest, DownloadInv, TempInv, temps, PlainInv
<1>9. ASSUME NEW e \in Entry, Chunk(e) PROVE DownloadInv'
  <2>1. rx' \in [Request -> Seq({"progress", "error"})]
    BY <1>0, <1>9, BroadcastKeepsType DEF Chunk
  <2> QED
    BY <1>9, <2>1 DEF Chunk, DownloadInv, TypeOK, ServedInv, TempInv, PlainInv, params, temps
<1>10. ASSUME NEW e \in Entry, EndStream(e) PROVE DownloadInv'
  BY <1>0, <1>10, StageStep DEF EndStream, DownloadInv, TempInv, temps, PlainInv
<1>11. ASSUME NEW e \in Entry, Store(e) PROVE DownloadInv'
  BY <1>0, <1>11, StageStep DEF Store, Placed, NeedsMode, File,
     DownloadInv, TempInv, temps, PlainInv
<1>12. ASSUME NEW e \in Entry, Extract(e) PROVE DownloadInv'
  BY <1>0, <1>12, StageStep DEF Extract, Placed, NeedsMode, File,
     DownloadInv, TempInv, temps, PlainInv
<1>13. ASSUME NEW e \in Entry, Chmod(e) PROVE DownloadInv'
  BY <1>0, <1>13, StageStep DEF Chmod, File, DownloadInv, TempInv, temps, PlainInv
<1>14. ASSUME NEW e \in Entry, TellError(e) PROVE DownloadInv'
  <2>1. rx' \in [Request -> Seq({"progress", "error"})]
    BY <1>0, <1>14, BroadcastKeepsType DEF TellError
  <2> QED
    BY <1>0, <1>14, <2>1, StageStep DEF TellError, DownloadInv, TempInv, temps, PlainInv
<1>15. ASSUME NEW e \in Entry, Remove(e) PROVE DownloadInv'
  <2> USE DEF DownloadInv
  <2>1. /\ downloads' = [downloads EXCEPT ![home[e]] = None]
        /\ task' = [task EXCEPT ![e] = "ended"] /\ task[e] = "remove"
        /\ UNCHANGED <<params, file, started, home, temps, req, entry, rx, got>>
    BY <1>15 DEF Remove, Goto
  <2>2. home[e] \in Inst /\ (e \in temp => e \in panicked)
    BY <2>1 DEF ServedInv, TempInv
  <2>3. TypeOK'
    BY <2>1, <2>2 DEF TypeOK, params, temps
  <2>4. ServedInv'
    BY <2>1, <2>2 DEF TypeOK, ServedInv
  <2>5. TempInv'
    BY <2>1, <2>2, ConstantsAssumption DEF TypeOK, TempInv, temps
  <2>6. PlainInv'
    BY <2>1 DEF TypeOK, PlainInv, params, temps
  <2> QED
    BY <2>3, <2>4, <2>5, <2>6
<1>16. ASSUME NEW i \in Inst, Crash(i) PROVE DownloadInv'
  <2> USE DEF DownloadInv
  <2> DEFINE mine == {e \in Entry : home[e] = i}
             cut  == {r \in Request : entry[r] \in mine}
  <2>1. /\ downloads' = [downloads EXCEPT ![i] = None]
        /\ started' = started \ mine
        /\ home' = [e \in Entry |-> IF e \in mine THEN None ELSE home[e]]
        /\ task' = [e \in Entry |-> IF e \in mine THEN "none" ELSE task[e]]
        /\ req' = [r \in Request |-> IF r \in cut THEN "cut" ELSE req[r]]
        /\ entry' = [r \in Request |-> IF r \in cut THEN None ELSE entry[r]]
        /\ rx' = [r \in Request |-> IF r \in cut THEN <<>> ELSE rx[r]]
        /\ UNCHANGED <<params, file, temps, got>>
    BY <1>16 DEF Crash
  <2>2. <<>> \in Seq({"progress", "error"})
    OBVIOUS
  <2>3. TypeOK'
    BY <2>1, <2>2 DEF TypeOK, params, temps
  <2>4. ServedInv'
    BY <2>1, ConstantsAssumption DEF TypeOK, ServedInv
  <2>5. TempInv'
    <3> SUFFICES ASSUME NEW e \in temp
                 PROVE  /\ \/ task'[e] \in {"none", "stream", "store", "extract"}
                           \/ e \in panicked' /\ task'[e] \in {"failed", "remove", "ended"}
                        /\ task'[e] = "none" => /\ \A r \in Request : entry'[r] # e
                                                /\ \A j \in Inst : downloads'[j] # e
      BY <2>1 DEF TempInv, temps
    <3>1. e \in Entry /\ e # None
      BY ConstantsAssumption DEF TypeOK
    <3>2. CASE e \in mine
      <4>1. \A r \in Request : entry'[r] # e
        BY <2>1, <3>1, <3>2
      <4>2. \A j \in Inst : downloads'[j] # e
        BY <2>1, <3>1, <3>2 DEF TypeOK, ServedInv
      <4> QED
        BY <2>1, <3>1, <3>2, <4>1, <4>2
    <3>3. CASE e \notin mine
      <4>1. task'[e] = task[e]
        BY <2>1, <3>1, <3>3
      <4>2. \A r \in Request : entry[r] # e => entry'[r] # e
        BY <2>1, <3>1
      <4>3. \A j \in Inst : downloads[j] # e => downloads'[j] # e
        BY <2>1, <3>1 DEF TypeOK
      <4> QED
        BY <2>1, <4>1, <4>2, <4>3 DEF TempInv, temps
    <3> QED
      BY <3>2, <3>3
  <2>6. PlainInv'
    BY <2>1 DEF TypeOK, PlainInv, params, temps
  <2> QED
    BY <2>3, <2>4, <2>5, <2>6
<1>17. ASSUME UNCHANGED vars PROVE DownloadInv'
  BY <1>17 DEF vars, DownloadInv, TypeOK, ServedInv, TempInv, PlainInv, params, temps
<1> QED
  BY <1>1, <1>2, <1>3, <1>4, <1>5, <1>6, <1>7, <1>8, <1>9, <1>10, <1>11, <1>12,
     <1>13, <1>14, <1>15, <1>16, <1>17 DEF Next

-----------------------------------------------------------------------------
\* The type invariant of Download.
THEOREM TypeCorrect == Spec => []TypeOK
<1>1. DownloadInv => TypeOK
  BY DEF DownloadInv
<1> QED
  BY <1>1, DownloadInit, DownloadStep, PTL DEF Spec

\* Downloads that need no extraction and no mode are announced only when complete,
\* with any number of instances, crashes and failures.
THEOREM PlainNeverPartial == Spec => []PlainDownloadsComplete
<1>1. DownloadInv => PlainDownloadsComplete
  BY DEF DownloadInv, PlainInv, PlainDownloadsComplete
<1> QED
  BY <1>1, DownloadInit, DownloadStep, PTL DEF Spec

\* Every exit of a download removes its temporary file, but for that of an extraction that
\* panicked.
THEOREM TempRemoved == Spec => []NoTempLeft
<1>1. DownloadInv => NoTempLeft
  BY DEF DownloadInv, TempInv, NoTempLeft
<1> QED
  BY <1>1, DownloadInit, DownloadStep, PTL DEF Spec

-----------------------------------------------------------------------------
\* What RequestAnswered needs of the model besides fairness

\* A streaming request has a download that was started, and a download that has ended
\* has left the map.
EndedInv ==
    /\ \A r \in Request : req[r] = "streaming" => entry[r] \in started
    /\ \A e \in Entry : task[e] = "ended" => \A i \in Inst : downloads[i] # e

\* A download leaves the map before it ends, and requests use one that was started.
LEMMA EndedStep == DownloadInv /\ EndedInv /\ [Next]_vars => EndedInv'
<1> SUFFICES ASSUME DownloadInv, EndedInv, [Next]_vars PROVE EndedInv'
  OBVIOUS
<1> USE DEF DownloadInv, TypeOK, ServedInv, EndedInv
<1>1. ASSUME NEW r \in Request, NEW i \in Inst, Find(r, i) PROVE EndedInv'
  <2>1. \A q \in Request : req'[q] = "streaming" => req[q] = "streaming" /\ q # r
    BY <1>1 DEF Find
  <2>2. CASE downloads[i] # None
    BY <1>1, <2>1, <2>2 DEF Find
  <2>3. CASE downloads[i] = None
    <3>1. PICK e \in Entry :
             /\ Fresh(e)
             /\ entry' = [entry EXCEPT ![r] = e]
             /\ downloads' = [downloads EXCEPT ![i] = e]
             /\ started' = started \ {e}
             /\ task' = [task EXCEPT ![e] = "none"]
      BY <1>1, <2>3 DEF Find
    <3>2. \A q \in Request : req'[q] = "streaming" => entry'[q] \in started'
      BY <2>1, <3>1 DEF Fresh
    <3>3. \A f \in Entry : task'[f] = "ended" => f # e /\ task[f] = "ended"
      BY <3>1
    <3>4. \A f \in Entry : task'[f] = "ended" => \A j \in Inst : downloads'[j] # f
      BY <3>1, <3>3
    <3> QED BY <3>2, <3>4
  <2> QED BY <2>2, <2>3
<1>2. ASSUME NEW r \in Request, Subscribe(r) PROVE EndedInv'
  BY <1>2 DEF Subscribe
<1>3. ASSUME NEW r \in Request, Start(r) PROVE EndedInv'
  BY <1>3 DEF Start
<1>4. ASSUME NEW r \in Request, Receive(r) \/ Conclude(r) \/ Disconnect(r) PROVE EndedInv'
  <2>1. UNCHANGED <<downloads, started, task>>
    BY <1>4 DEF Receive, Conclude, Disconnect
  <2>2. \A q \in Request : req'[q] = "streaming" => req[q] = "streaming" /\ entry'[q] = entry[q]
    <3>1. ASSUME NEW o \in {"done", "error", "gone"}, End(r, o)
          PROVE  \A q \in Request :
                    req'[q] = "streaming" => req[q] = "streaming" /\ entry'[q] = entry[q]
      BY <3>1 DEF End
    <3> QED BY <1>4, <3>1 DEF Receive, Conclude, Disconnect
  <2> QED BY <2>1, <2>2
<1>5. ASSUME NEW e \in Entry, Remove(e) PROVE EndedInv'
  BY <1>5, ConstantsAssumption DEF Remove, Goto
<1>6. ASSUME NEW e \in Entry,
             CheckExists(e) \/ SendRequest(e) \/ Chunk(e) \/ EndStream(e) \/ Store(e)
               \/ Extract(e) \/ Chmod(e) \/ TellError(e)
      PROVE  EndedInv'
  BY <1>6 DEF CheckExists, SendRequest, Chunk, EndStream, Store, Extract, Chmod, TellError,
     Placed, Goto
<1>7. ASSUME NEW i \in Inst, Crash(i) PROVE EndedInv'
  BY <1>7, ConstantsAssumption DEF Crash
<1>8. CASE UNCHANGED vars
  BY <1>8 DEF vars
<1> QED BY <1>1, <1>2, <1>3, <1>4, <1>5, <1>6, <1>7, <1>8 DEF Next

\* That invariant holds in every reachable state.
LEMMA EndedCorrect == Spec => []EndedInv
<1>1. Init => EndedInv
  BY DEF Init, EndedInv
<1> QED BY <1>1, DownloadInit, DownloadStep, EndedStep, PTL DEF Spec

\* The task of e has its next step before it; each of its stages has one that is enabled.
Running(e) ==
    task[e] \in {"exists", "request", "stream", "store", "extract", "chmod", "failed", "remove"}

\* A request whose response streams has something to read, or is at the end of its queue,
\* or its download runs, or a handler that holds a sender is about to let go of it.
RequestOwed ==
    \A r \in Request :
        req[r] = "streaming" => \/ rx[r] # <<>>
                                \/ Closed(entry[r])
                                \/ Running(entry[r])
                                \/ Holders(entry[r]) # {}

\* No response hangs: neither for a download that nobody started or that another
\* instance took with it, nor for a sender that stays in the map.
THEOREM RequestsAreOwed == Spec => []RequestOwed
<1>1. DownloadInv /\ EndedInv => RequestOwed
  <2> SUFFICES ASSUME DownloadInv, EndedInv, NEW r \in Request, req[r] = "streaming",
                      ~Running(entry[r]), Holders(entry[r]) = {}
               PROVE  Closed(entry[r])
    BY DEF RequestOwed
  <2>1. entry[r] \in Entry /\ task[entry[r]] # "none"
    BY DEF DownloadInv, ServedInv, EndedInv
  <2>2. task[entry[r]] = "ended"
    BY <2>1 DEF DownloadInv, TypeOK, Running
  <2>3. home[entry[r]] \in Inst
    BY <2>1 DEF DownloadInv, ServedInv
  <2> QED BY <2>1, <2>2, <2>3 DEF EndedInv, Closed
<1> QED BY <1>1, DownloadInit, DownloadStep, EndedCorrect, PTL DEF Spec

\* The stages a download has before it, along its longest way.
StageRank(l) ==
    CASE l = "exists" -> 8 [] l = "request" -> 7 [] l = "stream" -> 6
      [] l = "store" -> 5 [] l = "extract" -> 4 [] l = "chmod" -> 3
      [] l = "failed" -> 2 [] l = "remove" -> 1 [] l = "ended" -> 0

\* The download of an entry that requests use goes through its stages once: it goes on,
\* or its instance crashes and cuts the requests, and it is not started again.
RunsOnce ==
    [][\A r \in Request :
          LET e == entry[r]
          IN  req[r] = "streaming" /\ entry'[r] = e
                => task'[e] = task[e] \/ StageRank(task'[e]) < StageRank(task[e])]_vars

\* A request is answered after finitely many stages of one download: one that finds the
\* entry as it is about to be removed does not start it again.
THEOREM DownloadsRunOnce == Spec => RunsOnce
<1> DEFINE A == \A r \in Request :
                   LET e == entry[r]
                   IN  req[r] = "streaming" /\ entry'[r] = e
                         => task'[e] = task[e] \/ StageRank(task'[e]) < StageRank(task[e])
<1>1. DownloadInv /\ EndedInv /\ [Next]_vars => [A]_vars
  <2> SUFFICES ASSUME DownloadInv, EndedInv, Next, NEW r \in Request, NEW e, e = entry[r],
                      req[r] = "streaming", entry'[r] = e
               PROVE  task'[e] = task[e] \/ StageRank(task'[e]) < StageRank(task[e])
    BY DEF vars
  <2>1. e \in Entry /\ e \in started /\ task[e] # "none"
    BY DEF DownloadInv, ServedInv, EndedInv
  <2> USE <2>1 DEF DownloadInv, TypeOK, ServedInv
  <2>2. ASSUME NEW q \in Request, NEW i \in Inst, Find(q, i) PROVE task'[e] = task[e]
    BY <2>2 DEF Find, Fresh
  <2>3. ASSUME NEW q \in Request, Start(q) PROVE task'[e] = task[e]
    BY <2>3 DEF Start
  <2>4. ASSUME NEW q \in Request, Subscribe(q) \/ Receive(q) \/ Conclude(q) \/ Disconnect(q)
        PROVE  task'[e] = task[e]
    BY <2>4 DEF Subscribe, Receive, Conclude, Disconnect
  <2>5. ASSUME NEW f \in Entry,
               CheckExists(f) \/ SendRequest(f) \/ Chunk(f) \/ EndStream(f) \/ Store(f)
                 \/ Extract(f) \/ Chmod(f) \/ TellError(f) \/ Remove(f)
        PROVE  task'[e] = task[e] \/ StageRank(task'[e]) < StageRank(task[e])
    <3>1. CASE f # e
      BY <2>5, <3>1 DEF CheckExists, SendRequest, Chunk, EndStream, Store, Extract, Chmod,
         TellError, Remove, Placed, Goto
    <3>2. CASE f = e
      <4>1. \/ task'[e] = task[e]
            \/ task[e] = "exists" /\ task'[e] \in {"request", "remove"}
            \/ task[e] = "request" /\ task'[e] \in {"stream", "failed"}
            \/ task[e] = "stream" /\ task'[e] \in {"store", "failed"}
            \/ task[e] = "store" /\ task'[e] \in {"extract", "chmod", "remove", "failed"}
            \/ task[e] = "extract" /\ task'[e] \in {"chmod", "remove", "failed"}
            \/ task[e] = "chmod" /\ task'[e] \in {"remove", "failed"}
            \/ task[e] = "failed" /\ task'[e] = "remove"
            \/ task[e] = "remove" /\ task'[e] = "ended"
        BY <2>5, <3>2 DEF CheckExists, SendRequest, Chunk, EndStream, Store, Extract, Chmod,
           TellError, Remove, Placed, Goto
      <4> QED BY <4>1 DEF StageRank
    <3> QED BY <3>1, <3>2
  <2>6. ASSUME NEW i \in Inst, Crash(i) PROVE task'[e] = task[e]
    BY <2>6, ConstantsAssumption DEF Crash
  <2> QED BY <2>2, <2>3, <2>4, <2>5, <2>6 DEF Next
<1> QED BY <1>1, DownloadInit, DownloadStep, EndedCorrect, PTL DEF Spec, RunsOnce
=============================================================================
