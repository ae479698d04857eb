----------------------------- MODULE AcpSession -----------------------------
(***************************************************************************)
(* Who owns a session of a shared agent process, and how sessions that     *)
(* lost their client are closed (tidewave-core/src/ws/acp.rs).             *)
(*                                                                         *)
(* One process and one session id: entries of `sessions' and of            *)
(* `session_lifecycle_locks' with different ids are independent.  Tasks:   *)
(* the channels, each handling one client message at a time, the stdout    *)
(* task that handles the agent's answers one by one, and the reapers that  *)
(* wait out the grace period of a session that lost its channel.  Messages *)
(* inside a session are the subject of AcpOutbox.                          *)
(***************************************************************************)
EXTENDS Integers, FiniteSets

CONSTANTS
    Channel,    \* channel ids; a client that reconnects is another channel
    None,       \* no owner
    MaxRequests,\* bound: requests the clients send in all
    MaxReapers, \* bound: reapers that exist at the same time
    MaxInst     \* bound: entries ever created for the session id

ASSUME ConstantsAssumption ==
    /\ None \notin Channel \cup Int
    /\ IsFiniteSet(Channel) /\ Channel \cap Int = {}
    /\ MaxRequests \in Nat /\ MaxReapers \in Nat /\ MaxInst \in Nat

Reaper == 1 .. MaxReapers
Inst   == 1 .. MaxInst
Task   == Channel \cup Reaper

VARIABLES
    exit,       \* what the exit monitor of the process has cleared so far
    canClose,   \* AgentCapabilities.supports_session_close
    inst,       \* which SessionState the entry of `sessions' holds, 0 for none
    owner,      \* its channel_id
    counter,    \* cancel_counter of each SessionState
    cancelled,  \* cancelled of each SessionState
    created,    \* how many SessionStates were created
    lockMap,    \* the mutex in session_lifecycle_locks, 0 for none
    lockRef,    \* the mutex a task got from the map and still uses, 0 for none
    holding,    \* tasks that hold the mutex they refer to
    pc,         \* where each channel's handler or cleanup stands
    using,      \* the SessionState a load handler works with
    inflight,   \* requests the agent has not answered
    sent,       \* number of requests so far
    stdout,     \* what the stdout task is doing
    reaper,     \* the reapers
    minted,     \* the agent has used the id: it will not answer session/new with it
    refused,    \* history: the owner was last lost to a refused load
    forked      \* history: a mutex left the map while a task still used it

sessionVars == <<inst, owner, counter, cancelled, created>>
lockVars    == <<lockMap, lockRef, holding>>
vars == <<exit, canClose, sessionVars, lockVars, pc, using, inflight, sent,
          stdout, reaper, minted, refused, forked>>

-----------------------------------------------------------------------------

LockId  == 1 .. Cardinality(Task) + 1
Kinds   == {"new", "load", "close"}
Request == [ch : Channel, kind : Kinds, created : BOOLEAN]

IdleStdout == [stage |-> "idle", ch |-> None]
FreeReaper == [stage |-> "free", inst |-> 0, counter |-> 0]

\* The type invariant.
TypeOK ==
    /\ exit \in {"running", "sessions", "locks", "unregistered"}
    /\ canClose \in BOOLEAN
    /\ minted \in BOOLEAN /\ refused \in BOOLEAN /\ forked \in BOOLEAN
    /\ inst \in Inst \cup {0}
    /\ owner \in Channel \cup {None}
    /\ inst = 0 => owner = None
    /\ counter \in [Inst -> Nat]
    /\ cancelled \in [Inst -> BOOLEAN]
    /\ created \in 0 .. MaxInst
    /\ lockMap \in LockId \cup {0}
    /\ lockRef \in [Task -> LockId \cup {0}]
    /\ holding \in SUBSET Task
    /\ pc \in [Channel -> {"idle", "loadWait", "loadCheck", "loadMap", "claimWait",
                           "leaving", "left"}]
    /\ using \in [Channel -> Inst \cup {0}]
    /\ inflight \in SUBSET Request
    /\ sent \in 0 .. MaxRequests
    /\ stdout \in [stage : {"idle", "mapped", "schedule", "close", "dropLock"},
                   ch : Channel \cup {None}]
    /\ reaper \in [Reaper -> [stage : {"free", "sleeping", "waiting", "acting"},
                              inst : Inst \cup {0}, counter : Nat]]

Init ==
    /\ exit = "running"
    /\ canClose \in BOOLEAN
    /\ inst = 0 /\ owner = None /\ created = 0
    /\ counter = [i \in Inst |-> 0]
    /\ cancelled = [i \in Inst |-> FALSE]
    /\ lockMap = 0
    /\ lockRef = [t \in Task |-> 0]
    /\ holding = {}
    /\ pc = [c \in Channel |-> "idle"]
    /\ using = [c \in Channel |-> 0]
    /\ inflight = {} /\ sent = 0
    /\ stdout = IdleStdout
    /\ reaper = [r \in Reaper |-> FreeReaper]
    /\ minted = FALSE /\ refused = FALSE /\ forked = FALSE

-----------------------------------------------------------------------------
\* State formulae and the operations of ProcessState

\* The process is in the registry, and ensure_process finds it.
Registered == exit # "unregistered"

\* channel_senders.contains_key(c)
HasSender(c) == pc[c] \notin {"leaving", "left"}

HasSessionChannel == owner # None

Goto(c, l) == pc' = [pc EXCEPT ![c] = l]

\* session_lifecycle_lock: the mutex of the map, or a new one put there.  A
\* mutex nobody refers to any more may be named again.
LockOf == IF lockMap # 0 THEN lockMap
          ELSE CHOOSE l \in LockId : \A t \in Task : lockRef[t] # l

GetLock(t) ==
    /\ lockMap' = LockOf
    /\ lockRef' = [lockRef EXCEPT ![t] = LockOf]

MutexFree(t) == \A u \in holding : lockRef[u] # lockRef[t]

Acquire(t) == MutexFree(t) /\ holding' = holding \cup {t}

\* The guard is dropped, and the Arc with it.
Release(t) ==
    /\ holding' = holding \ {t}
    /\ lockRef' = [lockRef EXCEPT ![t] = 0]

\* session_lifecycle_locks.remove, by a task that may use the mutex itself.
DropMutex(user) ==
    /\ lockMap' = 0
    /\ forked' = (forked \/ \E t \in Task \ {user} : lockRef[t] \in {lockMap} \ {0})

\* A new entry with a fresh SessionState.
Insert(c) ==
    /\ created < MaxInst
    /\ created' = created + 1
    /\ inst' = created + 1
    /\ owner' = c

\* claim_or_insert_session_channel, unless another channel owns the session.
ClaimOrInsert(c, isNew) ==
    \/ /\ ~isNew /\ inst # 0 /\ ~HasSessionChannel
       /\ owner' = c
       /\ UNCHANGED <<inst, created>>
    \/ /\ isNew /\ inst = 0
       /\ Insert(c)

\* unmap_session_if_owned_by, for the owner.
UnmapIfOwnedBy(c) == owner = c /\ owner' = None

\* The entry of the session leaves the map.
RemoveEntry == inst' = 0 /\ owner' = None /\ refused' = FALSE

\* remove_session_if_unowned_or_owned_by, for such a session.
RemoveIfUnownedOrOwnedBy(c) == inst # 0 /\ owner \in {None, c} /\ RemoveEntry

\* schedule_unmapped_sessions_reap, for the session and its counter just read.
Schedule(i, n) ==
    LET free == {r \in Reaper : reaper[r].stage = "free"}
    IN  /\ free # {}
        /\ reaper' = [reaper EXCEPT ![CHOOSE r \in free : TRUE] =
                        [stage |-> "sleeping", inst |-> i, counter |-> n]]

-----------------------------------------------------------------------------
\* _tidewave.ai/session/load

LoadBegin(c) ==
    /\ pc[c] = "idle" /\ Registered
    /\ sent < MaxRequests
    /\ sent' = sent + 1
    /\ GetLock(c)
    /\ Goto(c, "loadWait")
    /\ UNCHANGED <<exit, canClose, sessionVars, holding, using, inflight, stdout,
                   reaper, minted, refused, forked>>

\* With the lock: an unknown session is refused, of a known one the counter goes
\* up.
LoadLock(c) ==
    /\ pc[c] = "loadWait"
    /\ MutexFree(c)
    /\ \/ /\ inst # 0
          /\ Acquire(c)
          /\ counter' = [counter EXCEPT ![inst] = @ + 1]
          /\ using' = [using EXCEPT ![c] = inst]
          /\ Goto(c, "loadCheck")
          /\ UNCHANGED lockRef
       \/ /\ inst = 0
          /\ Release(c)
          /\ Goto(c, "idle")
          /\ UNCHANGED <<counter, using>>
    /\ UNCHANGED <<exit, canClose, inst, owner, cancelled, created, lockMap,
                   inflight, sent, stdout, reaper, minted, refused, forked>>

\* ensure_session_not_active; the cancelled flag is taken.
LoadCheck(c) ==
    /\ pc[c] = "loadCheck"
    /\ \/ /\ HasSessionChannel
          /\ Release(c)
          /\ using' = [using EXCEPT ![c] = 0]
          /\ Goto(c, "idle")
          /\ UNCHANGED cancelled
       \/ /\ ~HasSessionChannel
          /\ cancelled' = [cancelled EXCEPT ![using[c]] = FALSE]
          /\ Goto(c, "loadMap")
          /\ UNCHANGED <<lockRef, holding, using>>
    /\ UNCHANGED <<exit, canClose, inst, owner, counter, created, lockMap,
                   inflight, sent, stdout, reaper, minted, refused, forked>>

\* map_session_channel, under the buffer lock; then the answer.
LoadMap(c) ==
    /\ pc[c] = "loadMap"
    /\ owner' = IF inst # 0 THEN c ELSE owner
    /\ refused' = (inst = 0 /\ refused)
    /\ Release(c)
    /\ using' = [using EXCEPT ![c] = 0]
    /\ Goto(c, "idle")
    /\ UNCHANGED <<exit, canClose, inst, counter, cancelled, created, lockMap,
                   inflight, sent, stdout, reaper, minted, forked>>

-----------------------------------------------------------------------------
\* session/load and session/resume, session/new and session/fork, session/close

ClaimBegin(c) ==
    /\ pc[c] = "idle" /\ Registered
    /\ sent < MaxRequests
    /\ sent' = sent + 1
    /\ GetLock(c)
    /\ Goto(c, "claimWait")
    /\ UNCHANGED <<exit, canClose, sessionVars, holding, using, inflight, stdout,
                   reaper, minted, refused, forked>>

\* forward_request_to_process: once the child is dead nothing is answered.
SendLoad(c, isNew) ==
    inflight' = IF exit = "running"
                THEN inflight \cup {[ch |-> c, kind |-> "load", created |-> isNew]}
                ELSE inflight

\* Under the lock the session is claimed, and the request forwarded; or the client
\* is told that another owns it.
Claim(c) ==
    /\ pc[c] = "claimWait"
    /\ MutexFree(c)
    /\ \/ /\ HasSessionChannel
          /\ UNCHANGED <<inst, owner, created, inflight, refused>>
       \/ /\ \E isNew \in BOOLEAN : ClaimOrInsert(c, isNew) /\ SendLoad(c, isNew)
          /\ refused' = FALSE
    /\ Release(c)
    /\ Goto(c, "idle")
    /\ UNCHANGED <<exit, canClose, counter, cancelled, lockMap, using, sent,
                   stdout, reaper, minted, forked>>

\* handle_regular_request: only the pending record is kept, nothing is checked.
Forward(c) ==
    /\ pc[c] = "idle" /\ exit = "running"
    /\ sent < MaxRequests
    /\ sent' = sent + 1
    /\ \E k \in {"new", "close"} :
          inflight' = inflight \cup {[ch |-> c, kind |-> k, created |-> FALSE]}
    /\ UNCHANGED <<exit, canClose, sessionVars, lockVars, pc, using, stdout,
                   reaper, minted, refused, forked>>

\* handle_client_request, for the requests that concern sessions.
ClientRequest(c) == LoadBegin(c) \/ ClaimBegin(c) \/ Forward(c)

-----------------------------------------------------------------------------
\* The channel ends

\* channel_senders.remove
Leave(c) ==
    /\ pc[c] = "idle"
    /\ Goto(c, "leaving")
    /\ UNCHANGED <<exit, canClose, sessionVars, lockVars, using, inflight, sent,
                   stdout, reaper, minted, refused, forked>>

\* Faulty variant of Unmap: only agents that can close sessions get a reaper.
UnmapUnreaped(c) ==
    /\ pc[c] = "leaving"
    /\ \/ /\ owner = c
          /\ owner' = None
          /\ \/ canClose /\ Schedule(inst, counter[inst])
             \/ ~canClose /\ UNCHANGED reaper
       \/ /\ owner # c
          /\ UNCHANGED <<owner, reaper>>
    /\ Goto(c, "left")
    /\ UNCHANGED <<exit, canClose, inst, counter, cancelled, created, lockVars,
                   using, inflight, sent, stdout, minted, refused, forked>>

\* unmap_sessions_for_channel, and the reaper for what was unmapped.
Unmap(c) ==
    /\ pc[c] = "leaving"
    /\ \/ /\ owner = c
          /\ owner' = None
          /\ Schedule(inst, counter[inst])
       \/ /\ owner # c
          /\ UNCHANGED <<owner, reaper>>
    /\ Goto(c, "left")
    /\ UNCHANGED <<exit, canClose, inst, counter, cancelled, created, lockVars,
                   using, inflight, sent, stdout, minted, refused, forked>>

-----------------------------------------------------------------------------
\* The agent's answers, handled by the stdout task

\* create_session_from_agent_response: without its process nothing happens;
\* otherwise the session is inserted for the channel unless it is known.
CreateSession(c) ==
    \/ /\ ~Registered
       /\ UNCHANGED <<inst, owner, created, refused, stdout>>
    \/ /\ Registered
       /\ stdout' = [stage |-> "mapped", ch |-> c]
       /\ \/ inst = 0 /\ Insert(c) /\ refused' = FALSE
          \/ inst # 0 /\ UNCHANGED <<inst, owner, created, refused>>

\* The answer to session/new or session/fork names the session.  Agents draw
\* fresh ids, but a client can learn the id (session/list) before this answer is
\* handled.
NewAnswered(m) ==
    /\ m.kind = "new"
    /\ ~minted
    /\ minted' = TRUE
    /\ CreateSession(m.ch)

\* session/new is refused, or names a session other than ours.
NewElsewhere(m) ==
    /\ m.kind = "new"
    /\ UNCHANGED <<inst, owner, created, stdout, minted, refused>>

\* A load or resume succeeded: confirm_claimed_session_response.
LoadAccepted(m) ==
    /\ m.kind = "load"
    /\ stdout' = [stage |-> "mapped", ch |-> m.ch]
    /\ UNCHANGED <<inst, owner, created, minted, refused>>

\* A load or resume failed: remove_session_if_unowned_or_owned_by for a session
\* the request created, unmap_session_if_owned_by for one that was known.
LoadRefused(m) ==
    /\ m.kind = "load"
    /\ \/ /\ m.created /\ RemoveIfUnownedOrOwnedBy(m.ch)
          /\ stdout' = [stage |-> "dropLock", ch |-> m.ch]
       \/ /\ ~m.created /\ UnmapIfOwnedBy(m.ch)
          /\ refused' = TRUE
          /\ UNCHANGED <<inst, stdout>>
       \/ /\ owner # m.ch /\ ~(m.created /\ inst # 0 /\ owner = None)
          /\ UNCHANGED <<inst, owner, refused, stdout>>
    /\ minted' = TRUE
    /\ UNCHANGED created

\* session/close was answered, with a result or an error.
CloseAnswered(m) ==
    /\ m.kind = "close"
    /\ stdout' = [stage |-> "close", ch |-> m.ch]
    /\ minted' = TRUE
    /\ UNCHANGED <<inst, owner, created, refused>>

\* handle_process_response: the inflight record is taken, then the answer acts.
Answer ==
    /\ stdout.stage = "idle"
    /\ \E m \in inflight :
          /\ inflight' = inflight \ {m}
          /\ \/ NewAnswered(m) \/ NewElsewhere(m)
             \/ LoadAccepted(m) \/ LoadRefused(m)
             \/ CloseAnswered(m)
    /\ UNCHANGED <<exit, canClose, counter, cancelled, lockVars, pc, using, sent,
                   reaper, forked>>

\* Faulty variant of ConfirmOwner: the requesting channel is taken to be alive.
ConfirmBlindly ==
    /\ stdout.stage = "mapped"
    /\ stdout' = IdleStdout
    /\ UNCHANGED <<exit, canClose, sessionVars, lockVars, pc, using, inflight,
                   sent, reaper, minted, refused, forked>>

\* The requesting channel may have died meanwhile: then it loses the session.
ConfirmOwner ==
    /\ stdout.stage = "mapped"
    /\ \/ /\ ~HasSender(stdout.ch)
          /\ UnmapIfOwnedBy(stdout.ch)
          /\ stdout' = [stdout EXCEPT !.stage = "schedule"]
       \/ /\ HasSender(stdout.ch) \/ owner # stdout.ch
          /\ stdout' = IdleStdout
          /\ UNCHANGED owner
    /\ UNCHANGED <<exit, canClose, inst, counter, cancelled, created, lockVars,
                   pc, using, inflight, sent, reaper, minted, refused, forked>>

\* schedule_reap_if_unmapped
ScheduleLate ==
    /\ stdout.stage = "schedule"
    /\ \/ inst # 0 /\ Schedule(inst, counter[inst])
       \/ inst = 0 /\ UNCHANGED reaper
    /\ stdout' = IdleStdout
    /\ UNCHANGED <<exit, canClose, sessionVars, lockVars, pc, using, inflight,
                   sent, minted, refused, forked>>

\* remove_session after a session/close answer: first the entry ...
RemoveClosed ==
    /\ stdout.stage = "close"
    /\ RemoveEntry
    /\ stdout' = [stdout EXCEPT !.stage = "dropLock"]
    /\ UNCHANGED <<exit, canClose, counter, cancelled, created, lockVars, pc,
                   using, inflight, sent, reaper, minted, forked>>

\* ... then its mutex, which the stdout task does not hold.
DropLock ==
    /\ stdout.stage = "dropLock"
    /\ DropMutex(None)
    /\ stdout' = IdleStdout
    /\ UNCHANGED <<exit, canClose, sessionVars, lockRef, holding, pc, using,
                   inflight, sent, reaper, minted, refused>>

-----------------------------------------------------------------------------
\* The reapers

\* has_session_channel, session_state and the counter of the disconnection.
StillDisconnected(r) ==
    ~HasSessionChannel /\ inst # 0 /\ counter[inst] = reaper[r].counter

\* The grace period is over: unless the session has an owner again, is gone, or
\* was loaded meanwhile, the reaper asks for its lock.
ReaperWakes(r) ==
    /\ reaper[r].stage = "sleeping"
    /\ \/ /\ StillDisconnected(r)
          /\ reaper' = [reaper EXCEPT ![r].stage = "waiting", ![r].inst = inst]
          /\ GetLock(r)
       \/ /\ ~StillDisconnected(r)
          /\ reaper' = [reaper EXCEPT ![r] = FreeReaper]
          /\ UNCHANGED <<lockMap, lockRef>>
    /\ UNCHANGED <<exit, canClose, sessionVars, holding, pc, using, inflight,
                   sent, stdout, minted, refused, forked>>

\* Faulty variant of ReaperLocks: the owner is not looked for again.
ReaperLocksBlindly(r) ==
    /\ reaper[r].stage = "waiting"
    /\ Acquire(r)
    /\ reaper' = [reaper EXCEPT ![r].stage = "acting"]
    /\ UNCHANGED <<exit, canClose, sessionVars, lockMap, lockRef, pc, using,
                   inflight, sent, stdout, minted, refused, forked>>

\* With the lock, it looks for an owner once more.
ReaperLocks(r) ==
    /\ reaper[r].stage = "waiting"
    /\ MutexFree(r)
    /\ \/ /\ ~HasSessionChannel
          /\ Acquire(r)
          /\ reaper' = [reaper EXCEPT ![r].stage = "acting"]
          /\ UNCHANGED lockRef
       \/ /\ HasSessionChannel
          /\ Release(r)
          /\ reaper' = [reaper EXCEPT ![r] = FreeReaper]
    /\ UNCHANGED <<exit, canClose, sessionVars, lockMap, pc, using, inflight,
                   sent, stdout, minted, refused, forked>>

\* session/close and remove_session, or session/cancel and the flag.
Reap(r) ==
    /\ reaper[r].stage = "acting"
    /\ \/ /\ canClose
          /\ RemoveEntry
          /\ DropMutex(r)
          /\ UNCHANGED cancelled
       \/ /\ ~canClose
          /\ cancelled' = [cancelled EXCEPT ![reaper[r].inst] = TRUE]
          /\ UNCHANGED <<inst, owner, lockMap, refused, forked>>
    /\ Release(r)
    /\ reaper' = [reaper EXCEPT ![r] = FreeReaper]
    /\ UNCHANGED <<exit, canClose, counter, created, pc, using, inflight, sent,
                   stdout, minted>>

\* The exit monitor clears `sessions' ...
ClearSessions ==
    /\ exit = "running"
    /\ exit' = "sessions"
    /\ RemoveEntry
    /\ UNCHANGED <<canClose, counter, cancelled, created, lockVars, pc, using,
                   inflight, sent, stdout, reaper, minted, forked>>

\* ... then `session_lifecycle_locks' ...
ClearLocks ==
    /\ exit = "sessions"
    /\ exit' = "locks"
    /\ DropMutex(None)
    /\ UNCHANGED <<canClose, sessionVars, lockRef, holding, pc, using, inflight,
                   sent, stdout, reaper, minted, refused>>

\* ... and unregisters the process.
Unregister ==
    /\ exit = "locks"
    /\ exit' = "unregistered"
    /\ UNCHANGED <<canClose, sessionVars, lockVars, pc, using, inflight, sent,
                   stdout, reaper, minted, refused, forked>>

-----------------------------------------------------------------------------

LoadStep(c)  == LoadLock(c) \/ LoadCheck(c) \/ LoadMap(c) \/ Claim(c)
StdoutStep   == ConfirmOwner \/ ScheduleLate \/ RemoveClosed \/ DropLock
ReaperStep(r) == ReaperWakes(r) \/ ReaperLocks(r) \/ Reap(r)

Next ==
    \/ \E c \in Channel :
          ClientRequest(c) \/ LoadStep(c) \/ Leave(c) \/ Unmap(c)
    \/ Answer \/ StdoutStep
    \/ \E r \in Reaper : ReaperStep(r)
    \/ ClearSessions \/ ClearLocks \/ Unregister

Spec == Init /\ [][Next]_vars

-----------------------------------------------------------------------------
\* Safety

\* A session is never left to a dead channel: if its owner is past the unmapping
\* of its cleanup, the stdout task has just inserted the session for it and is
\* about to notice.
OwnerLive ==
    owner # None /\ pc[owner] = "left"
        => stdout = [stage |-> "mapped", ch |-> owner]

\* A session without owner that is neither cancelled nor just being loaded has a
\* reaper that will act on it, whose counter is current.
Attended ==
    \/ stdout.stage = "schedule"
    \/ \E c \in Channel : pc[c] \in {"loadCheck", "loadMap"} /\ using[c] = inst
    \/ \E r \in Reaper :
          \/ reaper[r].stage = "sleeping" /\ reaper[r].counter = counter[inst]
          \/ reaper[r].stage \in {"waiting", "acting"}

\* No session is forgotten ("each session that is still unmapped ... is closed or
\* cancelled so agent-side sessions are never leaked"), except one whose load the
\* agent refused: the claim is given back without a reaper (acp.rs:2152).
UnownedAttended ==
    inst # 0 /\ owner = None /\ ~cancelled[inst] /\ ~refused => Attended

\* Whoever maps or reaps the session of a running process under its mutex finds
\* it unowned: claims are exclusive, and no client is cut off by a reaper, as long
\* as no mutex was dropped from the map while in use.
LockProtectsUnowned ==
    exit = "running" /\ ~forked =>
        /\ \A c \in Channel : pc[c] = "loadMap" => owner = None
        /\ \A r \in Reaper : reaper[r].stage = "acting" => owner = None
=============================================================================
