---------------------------- MODULE AcpLifecycle ----------------------------
(***************************************************************************)
(* The life of the agent processes that ACP channels share                 *)
(* (tidewave-core/src/ws/acp.rs).  Every channel that joins with the same  *)
(* command and directory shares one entry of `processes'; different keys   *)
(* never touch the same entry, so one key is modelled.                     *)
(*                                                                         *)
(* Tasks: one per channel (`init'), one exit monitor per started process   *)
(* (`start_acp_process'), and one inactivity timer per channel that left   *)
(* as the last one.  A step is a stretch of code between two awaits at     *)
(* which another task can interfere; what clients and agent say to each    *)
(* other apart from `initialize' is the subject of AcpSession.             *)
(***************************************************************************)
EXTENDS Integers

CONSTANTS
    Channel,   \* channel ids: each joins at most once (init draws a fresh id)
    Proc,      \* incarnations of the process that may be started for the key
    None       \* no process, or no holder

ASSUME ConstantsAssumption ==
    /\ None \notin Channel \cup Proc
    /\ Channel \cap Proc = {}

VARIABLES
    processes,      \* the registry's entry for the key: a process or None
    lifecycleLock,  \* who holds process_lifecycle_locks[key]
    monitor,        \* where the exit monitor of each process stands
    exitSignal,     \* first message in exit_tx: "none", "client", "idle"
    connectEpoch,   \* connect_epoch of each process
    initState,      \* init_state of each process
    initSent,       \* how many initialize requests reached the agent
    resuming,       \* AgentCapabilities.supports_resuming, once Complete
    pc,             \* where each channel's task stands
    sub,            \* the process whose exit_broadcast a channel subscribes to
    own,            \* the process_state the channel's loop works with
    initProc,       \* the process an initialize being handled was looked up as
    exitPending,    \* channels whose subscription holds an unread exit event
    timer           \* the inactivity timer a departed channel left behind

registryVars == <<processes, lifecycleLock>>
procVars     == <<monitor, exitSignal, connectEpoch>>
initVars     == <<initState, initSent, resuming>>
channelVars  == <<pc, sub, own, initProc, exitPending>>
vars == <<registryVars, procVars, initVars, channelVars, timer>>

-----------------------------------------------------------------------------

PCs == {"idle", "joining", "start", "register", "bump", "subscribe", "lookup",
        "active", "initSend", "initWait",
        "drop", "check", "epoch", "arm", "done"}

MonitorStages == {"none", "watching", "exited", "broadcast", "failed", "done"}

TimerRecords == [stage : {"none", "awaitInit", "sleeping"},
                 proc  : Proc \cup {None},
                 epoch : Nat]

NoTimer == [stage |-> "none", proc |-> None, epoch |-> 0]

\* The type invariant.
TypeOK ==
    /\ processes \in Proc \cup {None}
    /\ lifecycleLock \in Channel \cup Proc \cup {None}
    /\ monitor \in [Proc -> MonitorStages]
    /\ exitSignal \in [Proc -> {"none", "client", "idle"}]
    /\ connectEpoch \in [Proc -> Nat]
    /\ initState \in [Proc -> {"NotStarted", "InFlight", "Complete", "Failed"}]
    /\ initSent \in [Proc -> Nat]
    /\ resuming \in [Proc -> BOOLEAN]
    /\ pc \in [Channel -> PCs]
    /\ sub \in [Channel -> Proc \cup {None}]
    /\ own \in [Channel -> Proc \cup {None}]
    /\ initProc \in [Channel -> Proc \cup {None}]
    /\ exitPending \in SUBSET Channel
    /\ timer \in [Channel -> TimerRecords]

Init ==
    /\ processes = None
    /\ lifecycleLock = None
    /\ monitor = [p \in Proc |-> "none"]
    /\ exitSignal = [p \in Proc |-> "none"]
    /\ connectEpoch = [p \in Proc |-> 0]
    /\ initState = [p \in Proc |-> "NotStarted"]
    /\ initSent = [p \in Proc |-> 0]
    /\ resuming = [p \in Proc |-> FALSE]
    /\ pc = [c \in Channel |-> "idle"]
    /\ sub = [c \in Channel |-> None]
    /\ own = [c \in Channel |-> None]
    /\ initProc = [c \in Channel |-> None]
    /\ exitPending = {}
    /\ timer = [c \in Channel |-> NoTimer]

-----------------------------------------------------------------------------
\* State formulae

LockFree == lifecycleLock = None

\* The cleanup keeps the DashMap guard returned by processes.get until its
\* timer is armed; a writer of the entry blocks until the guard is dropped.
RegistryWritable == \A c \in Channel : pc[c] \notin {"epoch", "arm"}

\* exit_broadcast.receiver_count() of p.
Receivers(p) == {c \in Channel : sub[c] = p}

\* init_state.begin, for the one that finds the init not started.
Begin(p) ==
    /\ initState[p] = "NotStarted"
    /\ initState' = [initState EXCEPT ![p] = "InFlight"]

InFlight(p) == initState[p] = "InFlight"

\* complete_if_current: only one request is ever in flight.
CompleteIfCurrent(p) ==
    /\ InFlight(p)
    /\ initState' = [initState EXCEPT ![p] = "Complete"]

\* init_state.fail, whatever the state was.
Fail(p) == initState' = [initState EXCEPT ![p] = "Failed"]

\* What wait_for_completion waits for.
Settled(p) == initState[p] \in {"Complete", "Failed"}

\* capabilities().is_some_and(|c| c.supports_resuming)
SupportsResuming(p) == initState[p] = "Complete" /\ resuming[p]

Goto(c, l) == pc' = [pc EXCEPT ![c] = l]

\* Dropping exit_rx also drops what it had not read yet.
DropSubscription(c) ==
    /\ sub' = [sub EXCEPT ![c] = None]
    /\ exitPending' = exitPending \ {c}

\* exit_tx.send(()): only the first message can matter, the monitor stops
\* reading after it.
Signal(p, why) ==
    exitSignal' = [exitSignal EXCEPT ![p] = IF @ = "none" THEN why ELSE @]

-----------------------------------------------------------------------------
\* A channel joins: `init' up to its main loop

\* The join arrives: the channel's sender is stored and the lock awaited.
Join(c) ==
    /\ pc[c] = "idle"
    /\ Goto(c, "joining")
    /\ UNCHANGED <<registryVars, procVars, initVars, sub, own, initProc,
                   exitPending, timer>>

\* Faulty variant of JoinLock: the registry is consulted without the lock.
JoinUnlocked(c) ==
    /\ pc[c] = "joining"
    /\ lifecycleLock' = c
    /\ Goto(c, IF processes = None THEN "start" ELSE "bump")
    /\ UNCHANGED <<processes, procVars, initVars, sub, own, initProc,
                   exitPending, timer>>

\* The lock is obtained; contains_key decides whether a process is started.
JoinLock(c) ==
    /\ pc[c] = "joining"
    /\ LockFree
    /\ lifecycleLock' = c
    /\ Goto(c, IF processes = None THEN "start" ELSE "bump")
    /\ UNCHANGED <<processes, procVars, initVars, sub, own, initProc,
                   exitPending, timer>>

\* start_acp_process succeeds: the child runs and its monitor is spawned.
StartOk(c, p) ==
    /\ pc[c] = "start"
    /\ monitor[p] = "none"
    /\ monitor' = [monitor EXCEPT ![p] = "watching"]
    /\ own' = [own EXCEPT ![c] = p]
    /\ Goto(c, "register")
    /\ UNCHANGED <<registryVars, exitSignal, connectEpoch, initVars, sub,
                   initProc, exitPending, timer>>

\* Faulty variant of StartFail: the error path keeps the guard.
StartFailHoldingLock(c) ==
    /\ pc[c] = "start"
    /\ Goto(c, "done")
    /\ UNCHANGED <<registryVars, procVars, initVars, sub, own, initProc,
                   exitPending, timer>>

\* start_acp_process fails (always possible, and the only outcome once the
\* incarnations in Proc are used up): the join is refused.
StartFail(c) ==
    /\ pc[c] = "start"
    /\ lifecycleLock' = None
    /\ Goto(c, "done")
    /\ UNCHANGED <<processes, procVars, initVars, sub, own, initProc,
                   exitPending, timer>>

\* processes.insert(key, new_process)
Register(c) ==
    /\ pc[c] = "register"
    /\ RegistryWritable
    /\ processes' = own[c]
    /\ Goto(c, "bump")
    /\ UNCHANGED <<lifecycleLock, procVars, initVars, sub, own, initProc,
                   exitPending, timer>>

\* The process is looked up and its connect_epoch bumped.  The second disjunct
\* is the "Process already gone" branch.
BumpEpoch(c) ==
    /\ pc[c] = "bump"
    /\ \/ /\ processes # None
          /\ connectEpoch' = [connectEpoch EXCEPT ![processes] = @ + 1]
          /\ own' = [own EXCEPT ![c] = processes]
          /\ Goto(c, "subscribe")
          /\ UNCHANGED lifecycleLock
       \/ /\ processes = None
          /\ lifecycleLock' = None
          /\ Goto(c, "done")
          /\ UNCHANGED <<connectEpoch, own>>
    /\ UNCHANGED <<processes, monitor, exitSignal, initVars, sub, initProc,
                   exitPending, timer>>

\* exit_broadcast.subscribe(), then the lock is dropped.
Subscribe(c) ==
    /\ pc[c] = "subscribe"
    /\ sub' = [sub EXCEPT ![c] = own[c]]
    /\ lifecycleLock' = None
    /\ Goto(c, "lookup")
    /\ UNCHANGED <<processes, procVars, initVars, own, initProc, exitPending,
                   timer>>

\* The registry is read again without the lock: the process may be gone, or be
\* another one than the channel subscribed to.
Lookup(c) ==
    /\ pc[c] = "lookup"
    /\ \/ /\ processes # None
          /\ own' = [own EXCEPT ![c] = processes]
          /\ Goto(c, "active")
          /\ UNCHANGED <<sub, exitPending>>
       \/ /\ processes = None
          /\ DropSubscription(c)
          /\ Goto(c, "done")
          /\ UNCHANGED own
    /\ UNCHANGED <<registryVars, procVars, initVars, initProc, timer>>

-----------------------------------------------------------------------------
\* The main loop: initialize, exit, the exit event and leaving

\* Faulty variant of InitBegin: a request already in flight is not waited for.
InitBeginAgain(c) ==
    /\ pc[c] = "active"
    /\ processes # None
    /\ initState[processes] \in {"NotStarted", "InFlight"}
    /\ initState' = [initState EXCEPT ![processes] = "InFlight"]
    /\ Goto(c, "initSend")
    /\ initProc' = [initProc EXCEPT ![c] = processes]
    /\ UNCHANGED <<registryVars, procVars, initSent, resuming, sub, own,
                   exitPending, timer>>

\* handle_initialize_request: begin() decides under the mutex of init_state.
\* Complete, Failed and a missing process are answered on the spot.
InitBegin(c) ==
    /\ pc[c] = "active"
    /\ processes # None
    /\ \/ /\ Begin(processes)
          /\ Goto(c, "initSend")
       \/ /\ InFlight(processes)
          /\ Goto(c, "initWait")
          /\ UNCHANGED initState
    /\ initProc' = [initProc EXCEPT ![c] = processes]
    /\ UNCHANGED <<registryVars, procVars, initSent, resuming, sub, own,
                   exitPending, timer>>

\* Faulty variant of InitSend: a failed send does not fail the init.
InitSendUnreported(c) ==
    /\ pc[c] = "initSend"
    /\ initSent' \in {initSent, [initSent EXCEPT ![initProc[c]] = @ + 1]}
    /\ initProc' = [initProc EXCEPT ![c] = None]
    /\ Goto(c, "active")
    /\ UNCHANGED <<registryVars, procVars, initState, resuming, sub, own,
                   exitPending, timer>>

\* The request is handed to the stdin task.  That fails when the task has
\* ended, which a child that closed its stdin can cause at any time.
InitSend(c) ==
    /\ pc[c] = "initSend"
    /\ \/ /\ initSent' = [initSent EXCEPT ![initProc[c]] = @ + 1]
          /\ UNCHANGED initState
       \/ /\ Fail(initProc[c])
          /\ UNCHANGED initSent
    /\ initProc' = [initProc EXCEPT ![c] = None]
    /\ Goto(c, "active")
    /\ UNCHANGED <<registryVars, procVars, resuming, sub, own, exitPending,
                   timer>>

\* wait_for_completion returns once the init completed or failed; until then
\* the channel's loop handles nothing else.
InitWaitDone(c) ==
    /\ pc[c] = "initWait"
    /\ Settled(initProc[c])
    /\ initProc' = [initProc EXCEPT ![c] = None]
    /\ Goto(c, "active")
    /\ UNCHANGED <<registryVars, procVars, initVars, sub, own, exitPending,
                   timer>>

\* handle_exit_request: the registered process is told to stop.
ExitRequest(c) ==
    /\ pc[c] = "active"
    /\ processes # None
    /\ Signal(processes, "client")
    /\ UNCHANGED <<registryVars, monitor, connectEpoch, initVars, channelVars,
                   timer>>

\* The loop reads the exit event, pushes agent_exit and ends.
ChannelExit(c) ==
    /\ pc[c] = "active"
    /\ c \in exitPending
    /\ exitPending' = exitPending \ {c}
    /\ Goto(c, "drop")
    /\ UNCHANGED <<registryVars, procVars, initVars, sub, own, initProc, timer>>

\* incoming_rx returns None: the client left or its connection is gone.
Leave(c) ==
    /\ pc[c] = "active"
    /\ Goto(c, "drop")
    /\ UNCHANGED <<registryVars, procVars, initVars, sub, own, initProc,
                   exitPending, timer>>

-----------------------------------------------------------------------------
\* Cleanup and the inactivity timer

\* drop(exit_rx), before the receivers are counted.
DropReceiver(c) ==
    /\ pc[c] = "drop"
    /\ DropSubscription(c)
    /\ Goto(c, "check")
    /\ UNCHANGED <<registryVars, procVars, initVars, own, initProc, timer>>

\* The process registered now has no receivers left?
CheckReceivers(c) ==
    /\ pc[c] = "check"
    /\ \/ /\ processes # None
          /\ Receivers(processes) = {}
          /\ own' = [own EXCEPT ![c] = processes]
          /\ Goto(c, "epoch")
       \/ /\ processes = None \/ Receivers(processes) # {}
          /\ Goto(c, "done")
          /\ UNCHANGED own
    /\ UNCHANGED <<registryVars, procVars, initVars, sub, initProc,
                   exitPending, timer>>

\* connect_epoch.load: the epoch the timer will carry.
LoadEpoch(c) ==
    /\ pc[c] = "epoch"
    /\ timer' = [timer EXCEPT ![c] = [stage |-> "none", proc |-> own[c],
                                      epoch |-> connectEpoch[own[c]]]]
    /\ Goto(c, "arm")
    /\ UNCHANGED <<registryVars, procVars, initVars, sub, own, initProc,
                   exitPending>>

\* Faulty variant of ArmTimer: an init in flight is not waited for.
ArmTimerNow(c) ==
    /\ pc[c] = "arm"
    /\ timer' = [timer EXCEPT ![c] =
         IF SupportsResuming(@.proc) THEN [@ EXCEPT !.stage = "sleeping"]
         ELSE NoTimer]
    /\ Goto(c, "done")
    /\ UNCHANGED <<registryVars, procVars, initVars, sub, own, initProc,
                   exitPending>>

\* While the init is in flight the timer waits for it; otherwise it starts if
\* the agent can resume its sessions after a restart.
ArmTimer(c) ==
    /\ pc[c] = "arm"
    /\ timer' = [timer EXCEPT ![c] =
         IF InFlight(@.proc) THEN [@ EXCEPT !.stage = "awaitInit"]
         ELSE IF SupportsResuming(@.proc) THEN [@ EXCEPT !.stage = "sleeping"]
         ELSE NoTimer]
    /\ Goto(c, "done")
    /\ UNCHANGED <<registryVars, procVars, initVars, sub, own, initProc,
                   exitPending>>

\* The init a timer waited for completed or failed.
TimerInit(c) ==
    /\ timer[c].stage = "awaitInit"
    /\ Settled(timer[c].proc)
    /\ timer' = [timer EXCEPT ![c] =
         IF SupportsResuming(@.proc) THEN [@ EXCEPT !.stage = "sleeping"]
         ELSE NoTimer]
    /\ UNCHANGED <<registryVars, procVars, initVars, channelVars>>

\* What the timer checks once it holds the lock.
StillIdle(t) == connectEpoch[t.proc] = t.epoch /\ SupportsResuming(t.proc)

\* Faulty variant of TimerFire: the timer does not take the lifecycle lock.
TimerFireUnlocked(c) ==
    /\ timer[c].stage = "sleeping"
    /\ StillIdle(timer[c])
    /\ RegistryWritable
    /\ processes' = None
    /\ Signal(timer[c].proc, "idle")
    /\ timer' = [timer EXCEPT ![c] = NoTimer]
    /\ UNCHANGED <<lifecycleLock, monitor, connectEpoch, initVars, channelVars>>

\* The minute is over.  Check, removal by key and exit signal form one critical
\* section of the lifecycle lock, so they are one step.
TimerFire(c) ==
    /\ timer[c].stage = "sleeping"
    /\ LockFree
    /\ \/ /\ StillIdle(timer[c])
          /\ RegistryWritable
          /\ processes' = None
          /\ Signal(timer[c].proc, "idle")
       \/ /\ ~StillIdle(timer[c])
          /\ UNCHANGED <<processes, exitSignal>>
    /\ timer' = [timer EXCEPT ![c] = NoTimer]
    /\ UNCHANGED <<lifecycleLock, monitor, connectEpoch, initVars, channelVars>>

-----------------------------------------------------------------------------
\* The agent and its exit monitor

\* Faulty variant of AgentInit: the answer counts whatever the state is.
AgentInitLate(p) ==
    /\ initSent[p] > 0
    /\ initState' = [initState EXCEPT ![p] = "Complete"]
    /\ \E r \in BOOLEAN : resuming' = [resuming EXCEPT ![p] = r]
    /\ UNCHANGED <<registryVars, procVars, initSent, channelVars, timer>>

\* The initialize response arrives: the first one completes the init.  It may
\* still be read from the pipe after the child is gone.
AgentInit(p) ==
    /\ initSent[p] > 0
    /\ CompleteIfCurrent(p)
    /\ \E r \in BOOLEAN : resuming' = [resuming EXCEPT ![p] = r]
    /\ UNCHANGED <<registryVars, procVars, initSent, channelVars, timer>>

\* The child exits by itself, or the monitor reads the exit signal and kills it.
ChildExit(p) ==
    /\ monitor[p] = "watching"
    /\ monitor' = [monitor EXCEPT ![p] = "exited"]
    /\ UNCHANGED <<registryVars, exitSignal, connectEpoch, initVars,
                   channelVars, timer>>

\* ChildExit when the signal is what ends it: this one the scheduler owes us.
Killed(p) == exitSignal[p] # "none" /\ ChildExit(p)

\* AgentInit of an agent that is alive to answer.
Answers(p) == monitor[p] = "watching" /\ AgentInit(p)

\* Faulty variant of MonitorBroadcast: the exit is broadcast before the lock is
\* obtained.
BroadcastUnlocked(p) ==
    /\ monitor[p] = "exited"
    /\ exitPending' = exitPending \cup Receivers(p)
    /\ monitor' = [monitor EXCEPT ![p] = "broadcast"]
    /\ UNCHANGED <<registryVars, exitSignal, connectEpoch, initVars, pc, sub,
                   own, initProc, timer>>

\* The monitor takes the lifecycle lock and broadcasts the exit.
MonitorBroadcast(p) ==
    /\ monitor[p] = "exited"
    /\ LockFree
    /\ lifecycleLock' = p
    /\ exitPending' = exitPending \cup Receivers(p)
    /\ monitor' = [monitor EXCEPT ![p] = "broadcast"]
    /\ UNCHANGED <<processes, exitSignal, connectEpoch, initVars, pc, sub, own,
                   initProc, timer>>

\* Still with the lock, the monitor fails the init.
MonitorFail(p) ==
    /\ monitor[p] = "broadcast"
    /\ Fail(p)
    /\ monitor' = [monitor EXCEPT ![p] = "failed"]
    /\ UNCHANGED <<registryVars, exitSignal, connectEpoch, initSent, resuming,
                   channelVars, timer>>

\* processes.remove(&key): the entry goes, whichever process it holds.
MonitorRemove(p) ==
    /\ monitor[p] = "failed"
    /\ RegistryWritable
    /\ processes' = None
    /\ lifecycleLock' = None
    /\ monitor' = [monitor EXCEPT ![p] = "done"]
    /\ UNCHANGED <<exitSignal, connectEpoch, initVars, channelVars, timer>>

-----------------------------------------------------------------------------

\* Steps of a channel's task that the scheduler owes it; Join, InitBegin,
\* ExitRequest and Leave are the client's choice.
ChannelStep(c) ==
    \/ StartFail(c) \/ (\E p \in Proc : StartOk(c, p))
    \/ Register(c) \/ BumpEpoch(c) \/ Subscribe(c) \/ Lookup(c)
    \/ InitSend(c) \/ InitWaitDone(c)
    \/ DropReceiver(c) \/ CheckReceivers(c) \/ LoadEpoch(c) \/ ArmTimer(c)

ClientStep(c) ==
    \/ Join(c) \/ InitBegin(c) \/ ExitRequest(c) \/ Leave(c)

TimerStep(c) == TimerInit(c) \/ TimerFire(c)

MonitorStep(p) == MonitorBroadcast(p) \/ MonitorFail(p) \/ MonitorRemove(p)

Next ==
    \/ \E c \in Channel :
          \/ ClientStep(c) \/ JoinLock(c) \/ ChannelStep(c)
          \/ ChannelExit(c) \/ TimerStep(c)
    \/ \E p \in Proc : AgentInit(p) \/ ChildExit(p) \/ MonitorStep(p)

Spec == Init /\ [][Next]_vars

\* Tokio polls every task that is ready.  Weak fairness is enough: its mutex is
\* first-come first-served and each task of the model takes the lifecycle lock a
\* bounded number of times.  A running agent answers initialize or exits (the one
\* assumption about the environment); nothing obliges clients.
Fairness ==
    /\ \A c \in Channel :
          WF_vars(JoinLock(c) \/ ChannelStep(c)) /\ WF_vars(ChannelExit(c))
                                                /\ WF_vars(TimerStep(c))
    /\ \A p \in Proc :
          WF_vars(Answers(p)) /\ WF_vars(Killed(p) \/ MonitorStep(p))

FairSpec == Spec /\ Fairness

-----------------------------------------------------------------------------
\* Safety

\* A joining channel that holds the lifecycle lock past contains_key or insert
\* finds a process: the "process already gone" branch of init is dead code,
\* because every removal takes the lock too.
JoinFindsProcess ==
    \A c \in Channel : pc[c] \in {"bump", "subscribe"} => processes \in Proc

PastBroadcast == {"broadcast", "failed", "done"}

\* No subscriber misses the exit of its process: once the monitor has broadcast,
\* every channel still subscribed holds the event or is reading it.  ("broadcast
\* + remove is atomic with respect to new clients subscribing".)
NoMissedExit ==
    \A c \in Channel :
        sub[c] # None /\ monitor[sub[c]] \in PastBroadcast /\ pc[c] # "drop"
            => c \in exitPending

\* One channel never replaces the process another one registered: between two
\* processes the entry is empty, so no child is orphaned by an insert.
RegistryNeverOverwritten ==
    [][processes # None /\ processes' # None => processes' = processes]_vars

\* The clients that share a process initialize it once between them, whatever
\* the order of their requests (InitState::begin).
OneInitPerProcess == \A p \in Proc : initSent[p] <= 1

\* After the monitor failed its init a process never looks initialized again,
\* not even if the agent's answer is read from the pipe late: nobody is served a
\* cached init, or armed a timer, on behalf of a dead process.
DeadProcessFailed ==
    \A p \in Proc : monitor[p] \in {"failed", "done"} => initState[p] = "Failed"

\* As long as no process of the key was told to stop, every client of a running
\* process reaches it through the registry, however joins, crashes and timers
\* interleave.  After a stop it need not: the entry goes before the process does, and
\* the exit monitor of the stopped process removes by key whatever a new client has
\* registered meanwhile (acp.rs:1909).
NoEvictionWithoutStop ==
    (\A p \in Proc : exitSignal[p] = "none") =>
        \A c \in Channel :
            pc[c] = "active" /\ monitor[own[c]] = "watching" => processes = own[c]

-----------------------------------------------------------------------------
\* Liveness, under FairSpec

\* Whoever waits for another client's initialize is released, also when the agent
\* dies first ("Notify any waiters for init response so they don't hang forever").
InitWaiterReleased ==
    \A c \in Channel : pc[c] = "initWait" ~> pc[c] # "initWait"

\* The exit of a process ends every channel subscribed to it.
ExitReachesClients ==
    \A c \in Channel, p \in Proc :
        sub[c] = p /\ monitor[p] # "watching" ~> pc[c] = "done"

\* Every join is answered: nobody keeps the lifecycle lock.
JoinAnswered == \A c \in Channel : pc[c] = "joining" ~> pc[c] \in {"active", "done"}

Gone(c) == pc[c] \in {"idle", "done"}

\* A registered, resumable process nobody is connected to is stopped unless a
\* client comes back: the last channel to leave always arms a timer whose epoch
\* is still current.
IdleProcessStopped ==
    \A p \in Proc :
        /\ processes = p
        /\ SupportsResuming(p)
        /\ \A c \in Channel : Gone(c)
        ~> monitor[p] # "watching" \/ \E c \in Channel : ~Gone(c)

-----------------------------------------------------------------------------
\* What the code promises and does not keep

\* "Epoch counter bumped each time a client connects.  Used to invalidate pending
\* inactivity timers when a new client arrives": the timer never stops a process
\* a channel is subscribed to.
IdleStopSparesClients ==
    [][\A p \in Proc :
         exitSignal[p] = "none" /\ exitSignal'[p] = "idle"
             => Receivers(p) = {}]_vars
=============================================================================
