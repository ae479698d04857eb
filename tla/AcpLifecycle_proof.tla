------------------------- MODULE AcpLifecycle_proof -------------------------
(***************************************************************************)
(* Proofs about AcpLifecycle, for any number of channels and of process    *)
(* incarnations: types, the joining protocol around the lifecycle lock,    *)
(* the delivery of the exit event, the shared initialize, what a client    *)
(* reaches, and who is owed a step: waiters of the lock and of initialize, *)
(* and the timer of an idle process.                                       *)
(***************************************************************************)
EXTENDS AcpLifecycle, TLAPS

USE ConstantsAssumption

-----------------------------------------------------------------------------
\* Types

\* TypeOK alone is not inductive: loading the epoch needs a process to load it
\* from.
TypeInv ==
    /\ TypeOK
    /\ \A c \in Channel : pc[c] = "epoch" => own[c] \in Proc

\* The registry, the processes and the channels start out well-typed.
LEMMA TypeInit == Init => TypeInv
  BY DEF Init, TypeInv, TypeOK, PCs, MonitorStages, TimerRecords, NoTimer

\* Every step of a task keeps the types; only loading the epoch uses the second
\* conjunct.
LEMMA TypeStep == TypeInv /\ [Next]_vars => TypeInv'
<1> SUFFICES ASSUME TypeInv, [Next]_vars PROVE TypeInv'
  OBVIOUS
<1> USE DEF TypeInv, TypeOK, PCs, MonitorStages, TimerRecords, NoTimer, vars,
            registryVars, procVars, initVars, channelVars, Goto,
            DropSubscription, Signal
<1>1. ASSUME NEW c \in Channel, ClientStep(c) PROVE TypeInv'
  <2>1. CASE Join(c) BY <2>1 DEF Join
  <2>2. CASE InitBegin(c)
    <3>1. processes \in Proc
      BY <2>2 DEF InitBegin, Begin, InFlight
    <3>2. initState' \in [Proc -> {"NotStarted", "InFlight", "Complete", "Failed"}]
      BY <2>2, <3>1 DEF InitBegin, Begin, InFlight
    <3>3. /\ pc' \in [Channel -> PCs]
          /\ \A d \in Channel : pc'[d] = "epoch" => pc[d] = "epoch"
      BY <2>2 DEF InitBegin, Begin, InFlight
    <3>4. /\ initProc' = [initProc EXCEPT ![c] = processes]
          /\ UNCHANGED <<registryVars, procVars, initSent, resuming, sub, own,
                         exitPending, timer>>
      BY <2>2 DEF InitBegin, Begin, InFlight
    <3> QED BY <3>1, <3>2, <3>3, <3>4
  <2>3. CASE ExitRequest(c) BY <2>3 DEF ExitRequest
  <2>4. CASE Leave(c) BY <2>4 DEF Leave
  <2> QED BY <1>1, <2>1, <2>2, <2>3, <2>4 DEF ClientStep
<1>2. ASSUME NEW c \in Channel, JoinLock(c) PROVE TypeInv'
  BY <1>2 DEF JoinLock
<1>3. ASSUME NEW c \in Channel, ChannelStep(c) PROVE TypeInv'
  <2>1. CASE StartFail(c) BY <2>1 DEF StartFail
  <2>2. ASSUME NEW p \in Proc, StartOk(c, p) PROVE TypeInv'
    BY <2>2 DEF StartOk
  <2>3. CASE Register(c) BY <2>3 DEF Register
  <2>4. CASE BumpEpoch(c)
    <3>1. CASE processes # None
      <4>1. processes \in Proc
        BY <3>1
      <4>2. connectEpoch' \in [Proc -> Nat]
        BY <2>4, <4>1 DEF BumpEpoch
      <4>3. /\ own' = [own EXCEPT ![c] = processes]
            /\ pc' = [pc EXCEPT ![c] = "subscribe"]
            /\ UNCHANGED <<registryVars, monitor, exitSignal, initVars,
                           sub, initProc, exitPending, timer>>
        BY <2>4, <3>1 DEF BumpEpoch
      <4> QED BY <4>1, <4>2, <4>3
    <3>2. CASE processes = None BY <2>4, <3>2 DEF BumpEpoch
    <3> QED BY <3>1, <3>2
  <2>5. CASE Subscribe(c) BY <2>5 DEF Subscribe
  <2>6. CASE Lookup(c)
    <3>1. CASE processes # None
      <4>1. /\ own' = [own EXCEPT ![c] = processes]
            /\ pc' = [pc EXCEPT ![c] = "active"]
            /\ UNCHANGED <<registryVars, procVars, initVars, sub, initProc,
                           exitPending, timer>>
        BY <2>6, <3>1 DEF Lookup
      <4> QED BY <3>1, <4>1
    <3>2. CASE processes = None BY <2>6, <3>2 DEF Lookup
    <3> QED BY <3>1, <3>2
  <2>7. CASE InitSend(c) BY <2>7 DEF InitSend, Fail
  <2>8. CASE InitWaitDone(c) BY <2>8 DEF InitWaitDone, Settled
  <2>9. CASE DropReceiver(c) BY <2>9 DEF DropReceiver
  <2>10. CASE CheckReceivers(c)
    <3>1. CASE processes # None /\ Receivers(processes) = {}
      <4>1. own' = [own EXCEPT ![c] = processes] /\ processes \in Proc
        BY <2>10, <3>1 DEF CheckReceivers
      <4>2. pc' \in [Channel -> PCs]
        BY <2>10, <3>1 DEF CheckReceivers
      <4>3. \A d \in Channel : pc'[d] = "epoch" => own'[d] \in Proc
        BY <2>10, <3>1, <4>1 DEF CheckReceivers
      <4> QED BY <2>10, <4>1, <4>2, <4>3 DEF CheckReceivers
    <3>2. CASE ~(processes # None /\ Receivers(processes) = {})
      BY <2>10, <3>2 DEF CheckReceivers
    <3> QED BY <3>1, <3>2
  <2>11. CASE LoadEpoch(c) BY <2>11 DEF LoadEpoch
  <2>12. CASE ArmTimer(c) BY <2>12 DEF ArmTimer
  <2> QED BY <1>3, <2>1, <2>2, <2>3, <2>4, <2>5, <2>6, <2>7, <2>8, <2>9,
             <2>10, <2>11, <2>12 DEF ChannelStep
<1>4. ASSUME NEW c \in Channel, ChannelExit(c) PROVE TypeInv'
  BY <1>4 DEF ChannelExit
<1>5. ASSUME NEW c \in Channel, TimerStep(c) PROVE TypeInv'
  <2>1. CASE TimerInit(c) BY <2>1 DEF TimerInit, Settled
  <2>2. CASE TimerFire(c) BY <2>2 DEF TimerFire
  <2> QED BY <1>5, <2>1, <2>2 DEF TimerStep
<1>6. ASSUME NEW p \in Proc, AgentInit(p) PROVE TypeInv'
  BY <1>6 DEF AgentInit, CompleteIfCurrent, InFlight
<1>7. ASSUME NEW p \in Proc, ChildExit(p) PROVE TypeInv'
  BY <1>7 DEF ChildExit
<1>8. ASSUME NEW p \in Proc, MonitorStep(p) PROVE TypeInv'
  BY <1>8 DEF MonitorStep, MonitorBroadcast, MonitorFail, Fail, MonitorRemove, Receivers
<1>9. CASE UNCHANGED vars
  BY <1>9
<1> QED BY <1>1, <1>2, <1>3, <1>4, <1>5, <1>6, <1>7, <1>8, <1>9 DEF Next

\* Every variable keeps its type, whatever the constants.
THEOREM TypeCorrect == Spec => []TypeOK
<1>1. TypeInv => TypeOK BY DEF TypeInv
<1> QED BY <1>1, TypeInit, TypeStep, PTL DEF Spec

-----------------------------------------------------------------------------
\* The joining protocol

\* A task inside a critical section of the lifecycle lock holds the lock.
LockInv ==
    /\ \A c \in Channel :
          pc[c] \in {"start", "register", "bump", "subscribe"} => lifecycleLock = c
    /\ \A p \in Proc :
          monitor[p] \in {"broadcast", "failed"} => lifecycleLock = p

\* What the holder of the lock knows of the registry.
JoinInv ==
    \A c \in Channel :
        /\ pc[c] = "start" => processes = None
        /\ pc[c] = "register" =>
              processes = None /\ own[c] \in Proc
                               /\ monitor[own[c]] \in {"watching", "exited"}
        /\ pc[c] = "bump" => processes \in Proc
        /\ pc[c] = "subscribe" => processes \in Proc /\ own[c] = processes

\* A registered process has a monitor that has not finished yet.
RegistryInv == processes \in Proc => monitor[processes] \notin {"none", "done"}

ProtocolInv == LockInv /\ JoinInv /\ RegistryInv /\ NoMissedExit

\* Nobody has joined and nothing is registered at the start.
LEMMA ProtocolInit == Init => ProtocolInv
  BY DEF Init, ProtocolInv, LockInv, JoinInv, RegistryInv, NoMissedExit

\* No step of a channel, a timer or a monitor breaks the joining protocol.
LEMMA ProtocolStep == TypeOK /\ ProtocolInv /\ [Next]_vars => ProtocolInv'
<1> SUFFICES ASSUME TypeOK, ProtocolInv, [Next]_vars PROVE ProtocolInv'
  OBVIOUS
<1> USE DEF TypeOK, ProtocolInv, LockInv, JoinInv, RegistryInv, NoMissedExit,
            PastBroadcast, vars, registryVars, procVars, initVars, channelVars,
            Goto, DropSubscription, Signal, LockFree
<1>1. ASSUME NEW c \in Channel, ClientStep(c) PROVE ProtocolInv'
  <2>1. CASE Join(c) BY <2>1 DEF Join
  <2>2. CASE InitBegin(c) BY <2>2 DEF InitBegin, Begin, InFlight
  <2>3. CASE ExitRequest(c) BY <2>3 DEF ExitRequest
  <2>4. CASE Leave(c) BY <2>4 DEF Leave
  <2> QED BY <1>1, <2>1, <2>2, <2>3, <2>4 DEF ClientStep
<1>2. ASSUME NEW c \in Channel, JoinLock(c) PROVE ProtocolInv'
  BY <1>2 DEF JoinLock
<1>3. ASSUME NEW c \in Channel, ChannelStep(c) PROVE ProtocolInv'
  <2>1. CASE StartFail(c) BY <2>1 DEF StartFail
  <2>2. ASSUME NEW p \in Proc, StartOk(c, p) PROVE ProtocolInv'
    BY <2>2 DEF StartOk
  <2>3. CASE Register(c) BY <2>3 DEF Register
  <2>4. CASE BumpEpoch(c) BY <2>4 DEF BumpEpoch
  <2>5. CASE Subscribe(c) BY <2>5 DEF Subscribe
  <2>6. CASE Lookup(c) BY <2>6 DEF Lookup
  <2>7. CASE InitSend(c) BY <2>7 DEF InitSend, Fail
  <2>8. CASE InitWaitDone(c) BY <2>8 DEF InitWaitDone, Settled
  <2>9. CASE DropReceiver(c) BY <2>9 DEF DropReceiver
  <2>10. CASE CheckReceivers(c) BY <2>10 DEF CheckReceivers
  <2>11. CASE LoadEpoch(c) BY <2>11 DEF LoadEpoch
  <2>12. CASE ArmTimer(c) BY <2>12 DEF ArmTimer
  <2> QED BY <1>3, <2>1, <2>2, <2>3, <2>4, <2>5, <2>6, <2>7, <2>8, <2>9,
             <2>10, <2>11, <2>12 DEF ChannelStep
<1>4. ASSUME NEW c \in Channel, ChannelExit(c) PROVE ProtocolInv'
  BY <1>4 DEF ChannelExit
<1>5. ASSUME NEW c \in Channel, TimerStep(c) PROVE ProtocolInv'
  <2>1. CASE TimerInit(c) BY <2>1 DEF TimerInit, Settled
  <2>2. CASE TimerFire(c) BY <2>2 DEF TimerFire
  <2> QED BY <1>5, <2>1, <2>2 DEF TimerStep
<1>6. ASSUME NEW p \in Proc, AgentInit(p) PROVE ProtocolInv'
  BY <1>6 DEF AgentInit, CompleteIfCurrent, InFlight
<1>7. ASSUME NEW p \in Proc, ChildExit(p) PROVE ProtocolInv'
  BY <1>7 DEF ChildExit
<1>8. ASSUME NEW p \in Proc, MonitorStep(p) PROVE ProtocolInv'
  <2>1. CASE MonitorBroadcast(p) BY <2>1 DEF MonitorBroadcast, Receivers
  <2>2. CASE MonitorFail(p) BY <2>2 DEF MonitorFail, Fail
  <2>3. CASE MonitorRemove(p) BY <2>3 DEF MonitorRemove
  <2> QED BY <1>8, <2>1, <2>2, <2>3 DEF MonitorStep
<1>9. CASE UNCHANGED vars
  BY <1>9
<1> QED BY <1>1, <1>2, <1>3, <1>4, <1>5, <1>6, <1>7, <1>8, <1>9 DEF Next

\* The protocol invariant holds in every reachable state.
THEOREM ProtocolCorrect == Spec => []ProtocolInv
  BY TypeCorrect, ProtocolInit, ProtocolStep, PTL DEF Spec

\* The "process already gone" branch of init is unreachable.
THEOREM JoinAlwaysFindsProcess == Spec => []JoinFindsProcess
<1>1. ProtocolInv => JoinFindsProcess
  BY DEF ProtocolInv, JoinInv, JoinFindsProcess
<1> QED BY <1>1, ProtocolCorrect, PTL

\* No channel, however many there are, misses the exit of the process it
\* subscribed to.
THEOREM ExitNeverMissed == Spec => []NoMissedExit
<1>1. ProtocolInv => NoMissedExit
  BY DEF ProtocolInv
<1> QED BY <1>1, ProtocolCorrect, PTL

\* No insert replaces a registered process: only Register writes a process, and
\* it does so while holding a lock under which it saw the entry empty.
THEOREM NeverOverwritten == Spec => RegistryNeverOverwritten
<1> DEFINE A == processes # None /\ processes' # None => processes' = processes
<1>1. ProtocolInv /\ [Next]_vars => [A]_vars
  <2> SUFFICES ASSUME ProtocolInv, Next, processes # None, processes' # None
               PROVE  processes' = processes
    BY DEF vars, registryVars
  <2>1. \A c \in Channel : ~Register(c)
    BY DEF ProtocolInv, JoinInv, Register
  <2> QED
    BY <2>1 DEF Next, ClientStep, Join, InitBegin, ExitRequest, Leave, JoinLock,
       ChannelStep, StartOk, StartFail, BumpEpoch, Subscribe, Lookup, InitSend,
       InitWaitDone, DropReceiver, CheckReceivers, LoadEpoch, ArmTimer,
       ChannelExit, TimerStep, TimerInit, TimerFire, AgentInit, ChildExit,
       MonitorStep, MonitorBroadcast, MonitorFail, MonitorRemove,
       registryVars, channelVars, procVars, initVars
<1> QED BY <1>1, ProtocolCorrect, PTL DEF Spec, RegistryNeverOverwritten

-----------------------------------------------------------------------------
\* The shared initialize

Sending(c, p) == pc[c] = "initSend" /\ initProc[c] = p

\* Until its init begins nothing is sent to a process, one channel at a time is
\* about to send, and it is the first to do so.
InitInv ==
    /\ \A p \in Proc :
          /\ initSent[p] \in {0, 1}
          /\ initState[p] = "NotStarted" =>
                initSent[p] = 0 /\ \A c \in Channel : ~Sending(c, p)
    /\ \A c \in Channel, p \in Proc : Sending(c, p) => initSent[p] = 0
    /\ \A c, d \in Channel, p \in Proc : Sending(c, p) /\ Sending(d, p) => c = d
    /\ DeadProcessFailed

\* No step sends a second initialize or revives a failed process.
LEMMA InitInvStep == TypeOK /\ InitInv /\ [Next]_vars => InitInv'
<1> SUFFICES ASSUME TypeOK, InitInv, [Next]_vars PROVE InitInv'
  OBVIOUS
<1> USE DEF TypeOK, InitInv, DeadProcessFailed, Sending, vars, registryVars,
            procVars, initVars, channelVars, Goto, DropSubscription, Signal
<1>1. ASSUME NEW c \in Channel, ClientStep(c) PROVE InitInv'
  <2>1. CASE Join(c) BY <2>1 DEF Join
  <2>2. CASE InitBegin(c) BY <2>2 DEF InitBegin, Begin, InFlight
  <2>3. CASE ExitRequest(c) BY <2>3 DEF ExitRequest
  <2>4. CASE Leave(c) BY <2>4 DEF Leave
  <2> QED BY <1>1, <2>1, <2>2, <2>3, <2>4 DEF ClientStep
<1>2. ASSUME NEW c \in Channel, JoinLock(c) PROVE InitInv'
  BY <1>2 DEF JoinLock
<1>3. ASSUME NEW c \in Channel, ChannelStep(c) PROVE InitInv'
  <2>1. CASE StartFail(c) BY <2>1 DEF StartFail
  <2>2. ASSUME NEW p \in Proc, StartOk(c, p) PROVE InitInv'
    BY <2>2 DEF StartOk
  <2>3. CASE Register(c) BY <2>3 DEF Register
  <2>4. CASE BumpEpoch(c) BY <2>4 DEF BumpEpoch
  <2>5. CASE Subscribe(c) BY <2>5 DEF Subscribe
  <2>6. CASE Lookup(c) BY <2>6 DEF Lookup
  <2>7. CASE InitSend(c) BY <2>7 DEF InitSend, Fail
  <2>8. CASE InitWaitDone(c) BY <2>8 DEF InitWaitDone, Settled
  <2>9. CASE DropReceiver(c) BY <2>9 DEF DropReceiver
  <2>10. CASE CheckReceivers(c) BY <2>10 DEF CheckReceivers
  <2>11. CASE LoadEpoch(c) BY <2>11 DEF LoadEpoch
  <2>12. CASE ArmTimer(c) BY <2>12 DEF ArmTimer
  <2> QED BY <1>3, <2>1, <2>2, <2>3, <2>4, <2>5, <2>6, <2>7, <2>8, <2>9,
             <2>10, <2>11, <2>12 DEF ChannelStep
<1>4. ASSUME NEW c \in Channel, ChannelExit(c) PROVE InitInv'
  BY <1>4 DEF ChannelExit
<1>5. ASSUME NEW c \in Channel, TimerStep(c) PROVE InitInv'
  BY <1>5 DEF TimerStep, TimerInit, TimerFire
<1>6. ASSUME NEW p \in Proc, AgentInit(p) PROVE InitInv'
  BY <1>6 DEF AgentInit, CompleteIfCurrent, InFlight
<1>7. ASSUME NEW p \in Proc, ChildExit(p) PROVE InitInv'
  BY <1>7 DEF ChildExit
<1>8. ASSUME NEW p \in Proc, MonitorStep(p) PROVE InitInv'
  <2>1. CASE MonitorBroadcast(p) BY <2>1 DEF MonitorBroadcast
  <2>2. CASE MonitorFail(p) BY <2>2 DEF MonitorFail, Fail
  <2>3. CASE MonitorRemove(p) BY <2>3 DEF MonitorRemove
  <2> QED BY <1>8, <2>1, <2>2, <2>3 DEF MonitorStep
<1>9. CASE UNCHANGED vars
  BY <1>9
<1> QED BY <1>1, <1>2, <1>3, <1>4, <1>5, <1>6, <1>7, <1>8, <1>9 DEF Next

\* The bookkeeping of the shared initialize holds in every reachable state.
LEMMA InitInvCorrect == Spec => []InitInv
<1>1. Init => InitInv
  BY DEF Init, InitInv, DeadProcessFailed, Sending
<1> QED BY <1>1, TypeCorrect, InitInvStep, PTL DEF Spec

\* One initialize per process, whatever the number of clients asking for it.
THEOREM InitializedOnce == Spec => []OneInitPerProcess
<1>1. InitInv => OneInitPerProcess
  BY DEF InitInv, OneInitPerProcess
<1> QED BY <1>1, InitInvCorrect, PTL

\* A process whose exit was handled stays failed: no late answer revives it.
THEOREM DeadStaysFailed == Spec => []DeadProcessFailed
<1>1. InitInv => DeadProcessFailed
  BY DEF InitInv
<1> QED BY <1>1, InitInvCorrect, PTL

-----------------------------------------------------------------------------
\* Reaching the process

\* The child is there, or its monitor has not removed the entry yet.
Present(p) == monitor[p] \in {"watching", "exited", "broadcast", "failed"}

Registering(c, p) == pc[c] = "register" /\ own[c] = p

NoStop == \A p \in Proc : exitSignal[p] = "none"

\* A timer knows its process; it runs when its channel is done.
TimerKnows ==
    \A c \in Channel :
        /\ timer[c].stage # "none" => pc[c] = "done" /\ timer[c].proc \in Proc
        /\ pc[c] = "arm" => timer[c].proc \in Proc

\* Nobody has a process that was not started, and only its starter has one that is
\* not registered yet.
OwnInv ==
    /\ \A c \in Channel : own[c] # None => monitor[own[c]] # "none"
    /\ \A c, d \in Channel : pc[d] = "register" /\ own[c] = own[d] => c = d
    /\ \A c \in Channel :
          pc[c] \in {"active", "initSend", "initWait"} => own[c] # None

\* Until one is stopped, a process that is present is registered or about to be.
PresentInv ==
    NoStop => \A p \in Proc :
        Present(p) => processes = p \/ \E c \in Channel : Registering(c, p)

ReachInv == TimerKnows /\ OwnInv /\ PresentInv

\* A channel may take the registered process for its own: then nobody is registering.
LEMMA OwnRegistered ==
    ASSUME TypeInv, ProtocolInv, OwnInv, NEW c \in Channel,
           UNCHANGED monitor,
           pc' = [pc EXCEPT ![c] = pc'[c]], pc'[c] # "register", pc[c] # "register",
           \/ processes \in Proc /\ own' = [own EXCEPT ![c] = processes]
           \/ own' = own /\ pc'[c] \notin {"active", "initSend", "initWait"}
    PROVE  OwnInv'
<1> USE DEF TypeInv, TypeOK, OwnInv, ProtocolInv, JoinInv, RegistryInv
<1>1. \A d \in Channel : pc'[d] = "register" => pc[d] = "register" /\ processes = None
  OBVIOUS
<1>2. CASE processes \in Proc /\ own' = [own EXCEPT ![c] = processes]
  <2>1. \A d \in Channel : pc'[d] # "register"
    BY <1>1, <1>2
  <2>2. monitor[processes] # "none"
    BY <1>2
  <2> QED BY <1>2, <2>1, <2>2
<1>3. CASE own' = own /\ pc'[c] \notin {"active", "initSend", "initWait"}
  BY <1>1, <1>3
<1> QED BY <1>2, <1>3

\* Only a timer removes the entry of a process that is present, and it stops it.
LEMMA ReachStep == TypeInv /\ ProtocolInv /\ ReachInv /\ [Next]_vars => ReachInv'
<1> SUFFICES ASSUME TypeInv, ProtocolInv, ReachInv, [Next]_vars PROVE ReachInv'
  OBVIOUS
<1> USE DEF TypeInv, TypeOK, ReachInv, TimerKnows, OwnInv, PresentInv, Present,
            Registering, NoStop, NoTimer, TimerRecords, vars, registryVars,
            procVars, initVars, channelVars, Goto, DropSubscription
<1>1. ASSUME NEW c \in Channel, ClientStep(c) PROVE ReachInv'
  <2>1. CASE Join(c) BY <2>1 DEF Join
  <2>2. CASE InitBegin(c) BY <2>2 DEF InitBegin, Begin, InFlight
  <2>3. CASE ExitRequest(c) BY <2>3 DEF ExitRequest, Signal
  <2>4. CASE Leave(c) BY <2>4 DEF Leave
  <2> QED BY <1>1, <2>1, <2>2, <2>3, <2>4 DEF ClientStep
<1>2. ASSUME NEW c \in Channel, JoinLock(c) PROVE ReachInv'
  BY <1>2 DEF JoinLock
<1>3. ASSUME NEW c \in Channel, ChannelStep(c) PROVE ReachInv'
  <2>1. CASE StartFail(c) BY <2>1 DEF StartFail
  <2>2. ASSUME NEW p \in Proc, StartOk(c, p) PROVE ReachInv'
    BY <2>2, ProtocolInv DEF StartOk, ProtocolInv, LockInv
  <2>3. CASE Register(c)
    <3>1. /\ pc[c] = "register" /\ pc' = [pc EXCEPT ![c] = "bump"]
          /\ processes' = own[c]
          /\ UNCHANGED <<monitor, exitSignal, own, timer>>
      BY <2>3 DEF Register
    <3>2. processes = None /\ \A d \in Channel : pc[d] = "register" => d = c
      BY <3>1, ProtocolInv DEF ProtocolInv, JoinInv, LockInv
    <3>3. TimerKnows' /\ OwnInv'
      BY <3>1
    <3>4. PresentInv'
      BY <3>1, <3>2
    <3> QED BY <3>3, <3>4
  <2>4. CASE BumpEpoch(c)
    <3>1. UNCHANGED <<processes, monitor, exitSignal, timer>>
      BY <2>4 DEF BumpEpoch
    <3>2. /\ pc[c] = "bump" /\ pc' = [pc EXCEPT ![c] = pc'[c]]
          /\ pc'[c] \in {"subscribe", "done"}
      BY <2>4 DEF BumpEpoch
    <3>3. \/ processes \in Proc /\ own' = [own EXCEPT ![c] = processes]
          \/ own' = own
      BY <2>4 DEF BumpEpoch
    <3>4. OwnInv'
      BY <3>1, <3>2, <3>3, OwnRegistered
    <3>5. \A d \in Channel : pc[d] = "register" => pc'[d] = pc[d] /\ own'[d] = own[d]
      BY <3>2, <3>3
    <3> QED BY <3>1, <3>2, <3>4, <3>5
  <2>5. CASE Subscribe(c) BY <2>5 DEF Subscribe
  <2>6. CASE Lookup(c)
    <3>1. UNCHANGED <<processes, monitor, exitSignal, timer>>
      BY <2>6 DEF Lookup
    <3>2. /\ pc[c] = "lookup" /\ pc' = [pc EXCEPT ![c] = pc'[c]]
          /\ pc'[c] \in {"active", "done"}
      BY <2>6 DEF Lookup
    <3>3. \/ processes \in Proc /\ own' = [own EXCEPT ![c] = processes]
          \/ own' = own /\ pc'[c] = "done"
      BY <2>6 DEF Lookup
    <3>4. OwnInv'
      BY <3>1, <3>2, <3>3, OwnRegistered
    <3>5. \A d \in Channel : pc[d] = "register" => pc'[d] = pc[d] /\ own'[d] = own[d]
      BY <3>2, <3>3
    <3> QED BY <3>1, <3>2, <3>4, <3>5
  <2>7. CASE InitSend(c) BY <2>7 DEF InitSend, Fail
  <2>8. CASE InitWaitDone(c) BY <2>8 DEF InitWaitDone, Settled
  <2>9. CASE DropReceiver(c) BY <2>9 DEF DropReceiver
  <2>10. CASE CheckReceivers(c)
    <3>1. UNCHANGED <<processes, monitor, exitSignal, timer>>
      BY <2>10 DEF CheckReceivers
    <3>2. /\ pc[c] = "check" /\ pc' = [pc EXCEPT ![c] = pc'[c]]
          /\ pc'[c] \in {"epoch", "done"}
      BY <2>10 DEF CheckReceivers
    <3>3. \/ processes \in Proc /\ own' = [own EXCEPT ![c] = processes]
          \/ own' = own
      BY <2>10 DEF CheckReceivers
    <3>4. OwnInv'
      BY <3>1, <3>2, <3>3, OwnRegistered
    <3>5. \A d \in Channel : pc[d] = "register" => pc'[d] = pc[d] /\ own'[d] = own[d]
      BY <3>2, <3>3
    <3> QED BY <3>1, <3>2, <3>4, <3>5
  <2>11. CASE LoadEpoch(c) BY <2>11 DEF LoadEpoch
  <2>12. CASE ArmTimer(c) BY <2>12 DEF ArmTimer
  <2> QED BY <1>3, <2>1, <2>2, <2>3, <2>4, <2>5, <2>6, <2>7, <2>8, <2>9,
             <2>10, <2>11, <2>12 DEF ChannelStep
<1>4. ASSUME NEW c \in Channel, ChannelExit(c) PROVE ReachInv'
  BY <1>4 DEF ChannelExit
<1>5. ASSUME NEW c \in Channel, TimerStep(c) PROVE ReachInv'
  <2>1. TimerKnows'
    <3>1. pc' = pc /\ pc[c] = "done" /\ timer[c].proc \in Proc
      BY <1>5 DEF TimerStep, TimerInit, TimerFire
    <3>2. \/ timer' = [timer EXCEPT ![c] = NoTimer]
          \/ timer' = [timer EXCEPT ![c].stage = "sleeping"]
      BY <1>5 DEF TimerStep, TimerInit, TimerFire
    <3>3. CASE timer' = [timer EXCEPT ![c] = NoTimer]
      BY <3>1, <3>3
    <3>4. CASE timer' = [timer EXCEPT ![c].stage = "sleeping"]
      BY <3>1, <3>4
    <3> QED BY <3>2, <3>3, <3>4
  <2>2. OwnInv'
    <3>1. UNCHANGED <<monitor, pc, own>>
      BY <1>5 DEF TimerStep, TimerInit, TimerFire
    <3> QED BY <3>1
  <2>3. PresentInv'
    <3>1. CASE TimerFire(c) /\ StillIdle(timer[c])
      <4>1. exitSignal'[timer[c].proc] # "none" /\ timer[c].proc \in Proc
        BY <3>1 DEF TimerFire, Signal
      <4> QED BY <4>1
    <3>2. CASE ~(TimerFire(c) /\ StillIdle(timer[c]))
      <4>1. UNCHANGED <<processes, monitor, exitSignal, pc, own>>
        BY <1>5, <3>2 DEF TimerStep, TimerInit, TimerFire
      <4> QED BY <4>1
    <3> QED BY <3>1, <3>2
  <2> QED BY <2>1, <2>2, <2>3
<1>6. ASSUME NEW p \in Proc, AgentInit(p) PROVE ReachInv'
  BY <1>6 DEF AgentInit, CompleteIfCurrent
<1>7. ASSUME NEW p \in Proc, ChildExit(p) PROVE ReachInv'
  BY <1>7 DEF ChildExit
<1>8. ASSUME NEW p \in Proc, MonitorStep(p) PROVE ReachInv'
  <2>1. CASE MonitorBroadcast(p) BY <2>1 DEF MonitorBroadcast
  <2>2. CASE MonitorFail(p) BY <2>2 DEF MonitorFail, Fail
  <2>3. CASE MonitorRemove(p)
    <3>1. \A c \in Channel : pc[c] # "register"
      BY <2>3, ProtocolInv DEF MonitorRemove, ProtocolInv, LockInv
    <3>2. NoStop => \A q \in Proc : Present(q) => q = p
      BY <2>3, <3>1 DEF MonitorRemove
    <3> QED BY <2>3, <3>2 DEF MonitorRemove
  <2> QED BY <1>8, <2>1, <2>2, <2>3 DEF MonitorStep
<1>9. CASE UNCHANGED vars
  BY <1>9
<1> QED BY <1>1, <1>2, <1>3, <1>4, <1>5, <1>6, <1>7, <1>8, <1>9 DEF Next

\* Timers, owners and what is present are known in every reachable state.
LEMMA ReachCorrect == Spec => []ReachInv
<1>1. Init => ReachInv
  BY DEF Init, ReachInv, TimerKnows, OwnInv, PresentInv, NoTimer, Present, NoStop
<1> QED BY <1>1, TypeInit, TypeStep, ProtocolCorrect, ReachStep, PTL DEF Spec

\* Clients reach the process they use as long as none of the key was told to stop.
THEOREM ReachedWithoutStop == Spec => []NoEvictionWithoutStop
<1>1. TypeOK /\ ReachInv => NoEvictionWithoutStop
  BY DEF TypeOK, ReachInv, OwnInv, PresentInv, NoStop, Present, Registering,
     NoEvictionWithoutStop
<1> QED BY <1>1, TypeCorrect, ReachCorrect, PTL

-----------------------------------------------------------------------------
\* Nobody waits for the lifecycle lock, or for the registry entry, in vain

\* Whoever holds the lock is in one of its critical sections.
HoldInv ==
    /\ \A c \in Channel :
          lifecycleLock = c => pc[c] \in {"start", "register", "bump", "subscribe"}
    /\ \A p \in Proc : lifecycleLock = p => monitor[p] \in {"broadcast", "failed"}

\* No step leaves a critical section and keeps the lock.
LEMMA HoldStep == TypeOK /\ HoldInv /\ [Next]_vars => HoldInv'
<1> SUFFICES ASSUME TypeOK, HoldInv, [Next]_vars PROVE HoldInv'
  OBVIOUS
<1> USE DEF TypeOK, HoldInv, vars, registryVars, procVars, initVars, channelVars,
            Goto, DropSubscription, LockFree
<1>1. ASSUME NEW c \in Channel, ClientStep(c) PROVE HoldInv'
  BY <1>1 DEF ClientStep, Join, InitBegin, ExitRequest, Leave
<1>2. ASSUME NEW c \in Channel, JoinLock(c) PROVE HoldInv'
  BY <1>2 DEF JoinLock
<1>3. ASSUME NEW c \in Channel, ChannelStep(c) PROVE HoldInv'
  <2>1. CASE StartFail(c) BY <2>1 DEF StartFail
  <2>2. ASSUME NEW p \in Proc, StartOk(c, p) PROVE HoldInv'
    BY <2>2 DEF StartOk
  <2>3. CASE Register(c) BY <2>3 DEF Register
  <2>4. CASE BumpEpoch(c) BY <2>4 DEF BumpEpoch
  <2>5. CASE Subscribe(c) BY <2>5 DEF Subscribe
  <2>6. CASE Lookup(c) BY <2>6 DEF Lookup
  <2>7. CASE InitSend(c) BY <2>7 DEF InitSend, Fail
  <2>8. CASE InitWaitDone(c) BY <2>8 DEF InitWaitDone
  <2>9. CASE DropReceiver(c) BY <2>9 DEF DropReceiver
  <2>10. CASE CheckReceivers(c) BY <2>10 DEF CheckReceivers
  <2>11. CASE LoadEpoch(c) BY <2>11 DEF LoadEpoch
  <2>12. CASE ArmTimer(c) BY <2>12 DEF ArmTimer
  <2> QED BY <1>3, <2>1, <2>2, <2>3, <2>4, <2>5, <2>6, <2>7, <2>8, <2>9,
             <2>10, <2>11, <2>12 DEF ChannelStep
<1>4. ASSUME NEW c \in Channel, ChannelExit(c) \/ TimerStep(c) PROVE HoldInv'
  BY <1>4 DEF ChannelExit, TimerStep, TimerInit, TimerFire
<1>5. ASSUME NEW p \in Proc, AgentInit(p) \/ ChildExit(p) PROVE HoldInv'
  BY <1>5 DEF AgentInit, ChildExit
<1>6. ASSUME NEW p \in Proc, MonitorStep(p) PROVE HoldInv'
  BY <1>6 DEF MonitorStep, MonitorBroadcast, MonitorFail, MonitorRemove
<1>7. CASE UNCHANGED vars
  BY <1>7
<1> QED BY <1>1, <1>2, <1>3, <1>4, <1>5, <1>6, <1>7 DEF Next

\* The next step of the holder is enabled: only a write to the registry may have to wait.
HolderCanStep ==
    \/ \E c \in Channel : /\ lifecycleLock = c
                          /\ \/ pc[c] \in {"start", "bump", "subscribe"}
                             \/ pc[c] = "register" /\ RegistryWritable
    \/ \E p \in Proc : /\ lifecycleLock = p
                       /\ \/ monitor[p] = "broadcast"
                          \/ monitor[p] = "failed" /\ RegistryWritable

\* A cleanup that keeps the guard of the registry entry waits for nothing.
GuardCanStep == \E c \in Channel : pc[c] \in {"epoch", "arm"}

NoCircularWait == LockFree \/ HolderCanStep \/ GuardCanStep

\* The lifecycle lock and the guard that a cleanup keeps while it loads the epoch (a
\* DashMap Ref kept across an await) are never waited for in a circle: joins, monitors
\* and timers that wait for the lock wait for a task that can go on.
THEOREM LockIsPassedOn == Spec => []NoCircularWait
<1>1. Init => HoldInv
  BY DEF Init, HoldInv
<1>2. TypeOK /\ HoldInv => NoCircularWait
  BY DEF TypeOK, HoldInv, NoCircularWait, LockFree, HolderCanStep, GuardCanStep,
     RegistryWritable
<1> QED BY <1>1, <1>2, TypeCorrect, HoldStep, PTL DEF Spec

-----------------------------------------------------------------------------
\* Nobody waits for an initialize in vain

\* An initialize in flight was sent or is about to be; a process that was not started
\* has none; who sends or waits does so for one that began.
WaitInv ==
    /\ \A p \in Proc : monitor[p] = "none" => initState[p] = "NotStarted"
    /\ \A p \in Proc :
          InFlight(p) => initSent[p] > 0 \/ \E c \in Channel : Sending(c, p)
    /\ \A c \in Channel :
          pc[c] \in {"initSend", "initWait"} =>
              initProc[c] \in Proc /\ initState[initProc[c]] # "NotStarted"

\* Sending what is in flight, or failing it, leaves nobody's wait without a reason.
LEMMA WaitStep == TypeOK /\ ProtocolInv /\ WaitInv /\ [Next]_vars => WaitInv'
<1> SUFFICES ASSUME TypeOK, ProtocolInv, WaitInv, [Next]_vars PROVE WaitInv'
  OBVIOUS
<1> USE DEF TypeOK, WaitInv, InFlight, Sending, vars, registryVars, procVars, initVars,
            channelVars, Goto, DropSubscription
<1>1. ASSUME NEW c \in Channel, ClientStep(c) PROVE WaitInv'
  <2>1. CASE Join(c) BY <2>1 DEF Join
  <2>2. CASE InitBegin(c)
    BY <2>2 DEF InitBegin, Begin, ProtocolInv, RegistryInv
  <2>3. CASE ExitRequest(c) BY <2>3 DEF ExitRequest
  <2>4. CASE Leave(c) BY <2>4 DEF Leave
  <2> QED BY <1>1, <2>1, <2>2, <2>3, <2>4 DEF ClientStep
<1>2. ASSUME NEW c \in Channel, JoinLock(c) PROVE WaitInv'
  BY <1>2 DEF JoinLock
<1>3. ASSUME NEW c \in Channel, ChannelStep(c) PROVE WaitInv'
  <2>1. CASE StartFail(c) BY <2>1 DEF StartFail
  <2>2. ASSUME NEW p \in Proc, StartOk(c, p) PROVE WaitInv'
    BY <2>2 DEF StartOk
  <2>3. CASE Register(c) BY <2>3 DEF Register
  <2>4. CASE BumpEpoch(c) BY <2>4 DEF BumpEpoch
  <2>5. CASE Subscribe(c) BY <2>5 DEF Subscribe
  <2>6. CASE Lookup(c) BY <2>6 DEF Lookup
  <2>7. CASE InitSend(c)
    <3>1. PICK p \in Proc : p = initProc[c] /\ monitor[p] # "none"
      BY <2>7 DEF InitSend
    <3>2. UNCHANGED monitor /\ pc' = [pc EXCEPT ![c] = "active"]
          /\ initProc' = [initProc EXCEPT ![c] = None]
      BY <2>7 DEF InitSend
    <3>3. CASE initSent' = [initSent EXCEPT ![p] = @ + 1] /\ UNCHANGED initState
      BY <3>1, <3>2, <3>3
    <3>4. CASE initState' = [initState EXCEPT ![p] = "Failed"] /\ UNCHANGED initSent
      BY <3>1, <3>2, <3>4
    <3> QED BY <2>7, <3>1, <3>3, <3>4 DEF InitSend, Fail
  <2>8. CASE InitWaitDone(c) BY <2>8 DEF InitWaitDone, Settled
  <2>9. CASE DropReceiver(c) BY <2>9 DEF DropReceiver
  <2>10. CASE CheckReceivers(c) BY <2>10 DEF CheckReceivers
  <2>11. CASE LoadEpoch(c) BY <2>11 DEF LoadEpoch
  <2>12. CASE ArmTimer(c) BY <2>12 DEF ArmTimer
  <2> QED BY <1>3, <2>1, <2>2, <2>3, <2>4, <2>5, <2>6, <2>7, <2>8, <2>9,
             <2>10, <2>11, <2>12 DEF ChannelStep
<1>4. ASSUME NEW c \in Channel, ChannelExit(c) \/ TimerStep(c) PROVE WaitInv'
  BY <1>4 DEF ChannelExit, TimerStep, TimerInit, TimerFire
<1>5. ASSUME NEW p \in Proc, AgentInit(p) PROVE WaitInv'
  BY <1>5 DEF AgentInit, CompleteIfCurrent
<1>6. ASSUME NEW p \in Proc, ChildExit(p) PROVE WaitInv'
  BY <1>6 DEF ChildExit
<1>7. ASSUME NEW p \in Proc, MonitorStep(p) PROVE WaitInv'
  <2>1. CASE MonitorBroadcast(p) BY <2>1 DEF MonitorBroadcast
  <2>2. CASE MonitorFail(p) BY <2>2 DEF MonitorFail, Fail
  <2>3. CASE MonitorRemove(p) BY <2>3 DEF MonitorRemove
  <2> QED BY <1>7, <2>1, <2>2, <2>3 DEF MonitorStep
<1>8. CASE UNCHANGED vars
  BY <1>8
<1> QED BY <1>1, <1>2, <1>3, <1>4, <1>5, <1>6, <1>7, <1>8 DEF Next

\* Who waits for an initialize is released already, or owed it: by the channel that is
\* about to send it, by an agent that runs and was asked, or by the monitor of one that
\* has exited, which is about to fail the init.
WaiterOwed ==
    \A c \in Channel :
        pc[c] = "initWait" =>
            \/ Settled(initProc[c])
            \/ \E d \in Channel : Sending(d, initProc[c])
            \/ monitor[initProc[c]] = "watching" /\ initSent[initProc[c]] = 1
            \/ monitor[initProc[c]] \in {"exited", "broadcast"}

\* "Notify any waiters for init response so they don't hang forever": whatever fails and
\* whoever leaves, a waiter has somebody to wait for.
THEOREM WaitersAreOwed == Spec => []WaiterOwed
<1>1. Init => WaitInv
  BY DEF Init, WaitInv, InFlight
<1>2. TypeOK /\ InitInv /\ WaitInv => WaiterOwed
  <2> SUFFICES ASSUME TypeOK, InitInv, WaitInv, NEW c \in Channel, pc[c] = "initWait",
                      NEW p \in Proc, p = initProc[c], ~Settled(p),
                      ~ \E d \in Channel : Sending(d, p)
               PROVE  \/ monitor[p] = "watching" /\ initSent[p] = 1
                      \/ monitor[p] \in {"exited", "broadcast"}
    BY DEF WaitInv, WaiterOwed
  <2>1. initState[p] = "InFlight"
    BY DEF TypeOK, WaitInv, Settled
  <2>2. initSent[p] = 1
    BY <2>1 DEF WaitInv, InitInv, InFlight
  <2>3. monitor[p] \notin {"none", "failed", "done"}
    BY <2>1 DEF WaitInv, InitInv, DeadProcessFailed
  <2> QED BY <2>2, <2>3 DEF TypeOK, MonitorStages
<1> QED BY <1>1, <1>2, TypeCorrect, ProtocolCorrect, InitInvCorrect, WaitStep, PTL
        DEF Spec

-----------------------------------------------------------------------------
\* No idle process is left without a timer

\* A channel that will look at the registry once more before it is done.
Connected == {"lookup", "active", "initSend", "initWait", "drop", "check"}

Current(c, p) == timer[c].proc = p /\ timer[c].epoch = connectEpoch[p]

\* The timer that channel c left behind will stop p, unless somebody joins before.
Armed(c, p) == timer[c].stage \in {"awaitInit", "sleeping"} /\ Current(c, p)

\* Channel c sees to it that p gets a timer, or it has one by c.
Attends(c, p) ==
    \/ pc[c] \in {"bump", "subscribe"} \cup Connected
    \/ pc[c] = "epoch" /\ own[c] = p
    \/ pc[c] = "arm" /\ Current(c, p)
    \/ Armed(c, p)

\* The agent was not initialized, or cannot resume its sessions after a restart.
KeptRunning(p) == ~InFlight(p) /\ ~SupportsResuming(p)

\* Who is subscribed has its cleanup before it, a timer sleeps only when the init is
\* settled, and a registered process has somebody who attends to it.
AttendInv ==
    /\ \A c \in Channel :
          /\ sub[c] # None => pc[c] \in Connected \ {"check"}
          /\ timer[c].stage = "sleeping" => Settled(timer[c].proc)
    /\ processes \in Proc =>
          KeptRunning(processes) \/ \E c \in Channel : Attends(c, processes)

\* A channel in the states named last attends to every process.
LEMMA AttendsAll ==
    ASSUME TypeOK, AttendInv, NEW c \in Channel, UNCHANGED timer,
           pc' = [pc EXCEPT ![c] = pc'[c]],
           pc'[c] \in {"bump", "subscribe"} \cup Connected,
           \A d \in Channel : d # c => sub'[d] = sub[d],
           sub'[c] # None => pc'[c] \in Connected \ {"check"},
           \A d \in Channel : timer[d].stage = "sleeping" => Settled(timer[d].proc)'
    PROVE  AttendInv'
<1>1. \A p : Attends(c, p)'
  BY DEF Attends
<1>2. \A d \in Channel : sub'[d] # None => pc'[d] \in Connected \ {"check"}
  BY DEF AttendInv, TypeOK
<1>3. \A d \in Channel : timer'[d].stage = "sleeping" => Settled(timer[d].proc)'
  OBVIOUS
<1> QED BY <1>1, <1>2, <1>3 DEF AttendInv, Settled

\* A channel that stops attending, because it sees another subscriber or because its
\* timer finds its epoch outdated, leaves the process to one that attends.
LEMMA AttendStep ==
    TypeInv /\ ProtocolInv /\ TimerKnows /\ AttendInv /\ [Next]_vars => AttendInv'
<1> SUFFICES ASSUME TypeInv, ProtocolInv, TimerKnows, AttendInv, [Next]_vars
             PROVE  AttendInv'
  OBVIOUS
<1> USE DEF TypeInv, TypeOK, AttendInv, Attends, Armed, Current, Connected, KeptRunning,
            Settled, InFlight, SupportsResuming, TimerRecords, NoTimer, vars,
            registryVars, procVars, initVars, channelVars, Goto, DropSubscription
<1>1. ASSUME NEW c \in Channel, ClientStep(c) PROVE AttendInv'
  <2>1. CASE Join(c) BY <2>1 DEF Join
  <2>2. CASE InitBegin(c)
    <3>1. /\ pc[c] = "active" /\ pc' = [pc EXCEPT ![c] = pc'[c]]
          /\ pc'[c] \in {"initSend", "initWait"} /\ UNCHANGED <<sub, timer>>
      BY <2>2 DEF InitBegin
    <3>2. \A p \in Proc : initState'[p] = initState[p] \/ initState[p] = "NotStarted"
      BY <2>2 DEF InitBegin, Begin
    <3>3. \A d \in Channel : timer[d].stage = "sleeping" => Settled(timer[d].proc)'
      BY <3>1, <3>2 DEF TimerKnows
    <3> QED BY <3>1, <3>3, AttendsAll
  <2>3. CASE ExitRequest(c) BY <2>3 DEF ExitRequest
  <2>4. CASE Leave(c) BY <2>4 DEF Leave
  <2> QED BY <1>1, <2>1, <2>2, <2>3, <2>4 DEF ClientStep
<1>2. ASSUME NEW c \in Channel, JoinLock(c) PROVE AttendInv'
  BY <1>2 DEF JoinLock
<1>3. ASSUME NEW c \in Channel, ChannelStep(c) PROVE AttendInv'
  <2>1. CASE StartFail(c) BY <2>1 DEF StartFail
  <2>2. ASSUME NEW p \in Proc, StartOk(c, p) PROVE AttendInv'
    BY <2>2 DEF StartOk
  <2>3. CASE Register(c) BY <2>3 DEF Register
  <2>4. CASE BumpEpoch(c)
    <3>1. UNCHANGED <<processes, initState, sub, timer>> /\ pc' = [pc EXCEPT ![c] = pc'[c]]
      BY <2>4 DEF BumpEpoch
    <3>2. pc[c] = "bump" /\ pc'[c] = "subscribe"
      BY <2>4 DEF BumpEpoch, ProtocolInv, JoinInv
    <3> QED BY <3>1, <3>2, AttendsAll
  <2>5. CASE Subscribe(c)
    <3>1. /\ UNCHANGED <<processes, initState, timer>> /\ pc' = [pc EXCEPT ![c] = "lookup"]
          /\ \A d \in Channel : d # c => sub'[d] = sub[d]
      BY <2>5 DEF Subscribe
    <3> QED BY <3>1, AttendsAll
  <2>6. CASE Lookup(c)
    <3>1. CASE processes = None
      BY <2>6, <3>1 DEF Lookup
    <3>2. CASE processes # None
      <4>1. /\ UNCHANGED <<processes, initState, sub, timer>>
            /\ pc' = [pc EXCEPT ![c] = "active"]
        BY <2>6, <3>2 DEF Lookup
      <4> QED BY <4>1, AttendsAll
    <3> QED BY <3>1, <3>2
  <2>7. CASE InitSend(c)
    <3>1. /\ UNCHANGED <<processes, sub, timer>> /\ pc' = [pc EXCEPT ![c] = "active"]
      BY <2>7 DEF InitSend
    <3>2. \A p \in Proc : initState'[p] \in {initState[p], "Failed"}
      BY <2>7 DEF InitSend, Fail
    <3>3. \A d \in Channel : timer[d].stage = "sleeping" => Settled(timer[d].proc)'
      BY <3>1, <3>2 DEF TimerKnows
    <3> QED BY <3>1, <3>3, AttendsAll
  <2>8. CASE InitWaitDone(c)
    <3>1. /\ UNCHANGED <<processes, initState, sub, timer>>
          /\ pc' = [pc EXCEPT ![c] = "active"]
      BY <2>8 DEF InitWaitDone
    <3> QED BY <3>1, AttendsAll
  <2>9. CASE DropReceiver(c) BY <2>9 DEF DropReceiver
  <2>10. CASE CheckReceivers(c)
    <3>1. UNCHANGED <<processes, initState, resuming, connectEpoch, sub, timer>>
      BY <2>10 DEF CheckReceivers
    <3>2. /\ pc[c] = "check" /\ sub[c] = None /\ pc' = [pc EXCEPT ![c] = pc'[c]]
          /\ pc'[c] \in {"epoch", "done"}
          /\ \A d \in Channel : d # c => own'[d] = own[d]
      BY <2>10 DEF CheckReceivers
    <3>3. \A d \in Channel : sub'[d] # None => pc'[d] \in Connected \ {"check"}
      BY <3>1, <3>2
    <3>4. CASE processes # None /\ Receivers(processes) = {}
      <4>1. Attends(c, processes)'
        BY <2>10, <3>4 DEF CheckReceivers
      <4> QED BY <3>1, <3>3, <4>1
    <3>5. CASE processes # None /\ Receivers(processes) # {}
      <4>1. PICK d \in Channel : sub[d] = processes
        BY <3>5 DEF Receivers
      <4>2. d # c /\ pc'[d] = pc[d] /\ pc[d] \in Connected
        BY <3>2, <3>5, <4>1
      <4>3. Attends(d, processes)'
        BY <4>2
      <4> QED BY <3>1, <3>3, <4>3
    <3>6. CASE processes = None
      BY <3>1, <3>3, <3>6
    <3> QED BY <3>4, <3>5, <3>6
  <2>11. CASE LoadEpoch(c) BY <2>11 DEF LoadEpoch, TimerKnows
  <2>12. CASE ArmTimer(c) BY <2>12 DEF ArmTimer, TimerKnows
  <2> QED BY <1>3, <2>1, <2>2, <2>3, <2>4, <2>5, <2>6, <2>7, <2>8, <2>9,
             <2>10, <2>11, <2>12 DEF ChannelStep
<1>4. ASSUME NEW c \in Channel, ChannelExit(c) PROVE AttendInv'
  BY <1>4 DEF ChannelExit
<1>5. ASSUME NEW c \in Channel, TimerInit(c) PROVE AttendInv'
  <2>1. UNCHANGED <<processes, initState, resuming, connectEpoch, pc, own, sub>>
    BY <1>5 DEF TimerInit
  <2>2. CASE SupportsResuming(timer[c].proc)
    <3>1. timer' = [timer EXCEPT ![c].stage = "sleeping"] /\ timer[c].stage = "awaitInit"
      BY <1>5, <2>2 DEF TimerInit
    <3>2. \A d \in Channel : Attends(d, processes) => Attends(d, processes)'
      BY <2>1, <3>1
    <3> QED BY <2>1, <2>2, <3>1, <3>2
  <2>3. CASE ~SupportsResuming(timer[c].proc)
    <3>1. /\ timer' = [timer EXCEPT ![c] = NoTimer] /\ Settled(timer[c].proc)
          /\ timer[c].stage = "awaitInit" /\ pc[c] = "done"
      BY <1>5, <2>3 DEF TimerInit, TimerKnows
    <3>2. Attends(c, processes) => KeptRunning(processes)
      BY <2>3, <3>1
    <3>3. \A d \in Channel : d # c /\ Attends(d, processes) => Attends(d, processes)'
      BY <2>1, <3>1
    <3>4. KeptRunning(processes) => KeptRunning(processes)'
      BY <2>1
    <3> QED BY <2>1, <3>1, <3>2, <3>3, <3>4
  <2> QED BY <2>2, <2>3
<1>6. ASSUME NEW c \in Channel, TimerFire(c) PROVE AttendInv'
  BY <1>6 DEF TimerFire, StillIdle
<1>7. ASSUME NEW p \in Proc, AgentInit(p) PROVE AttendInv'
  BY <1>7 DEF AgentInit, CompleteIfCurrent
<1>8. ASSUME NEW p \in Proc, ChildExit(p) PROVE AttendInv'
  BY <1>8 DEF ChildExit
<1>9. ASSUME NEW p \in Proc, MonitorStep(p) PROVE AttendInv'
  <2>1. CASE MonitorBroadcast(p) BY <2>1 DEF MonitorBroadcast
  <2>2. CASE MonitorFail(p) BY <2>2 DEF MonitorFail, Fail
  <2>3. CASE MonitorRemove(p) BY <2>3 DEF MonitorRemove
  <2> QED BY <1>9, <2>1, <2>2, <2>3 DEF MonitorStep
<1>10. CASE UNCHANGED vars
  BY <1>10
<1> QED BY <1>1, <1>2, <1>3, <1>4, <1>5, <1>6, <1>7, <1>8, <1>9, <1>10
        DEF Next, TimerStep

\* When no client is connected or about to be, a registered process that can resume its
\* sessions has a timer whose epoch is still the current one.
IdleHasTimer ==
    \A p \in Proc :
        processes = p /\ SupportsResuming(p) /\ (\A c \in Channel : Gone(c))
            => \E c \in Channel : Armed(c, p)

\* However joins, departures and timers interleave, the last client to leave leaves a
\* timer that will find the epoch it carries: none is invalidated by a join whose own
\* cleanup then sees a subscriber and arms none.
THEOREM IdleIsTimed == Spec => []IdleHasTimer
<1>1. Init => AttendInv
  BY DEF Init, AttendInv, NoTimer, Settled
<1>2. AttendInv => IdleHasTimer
  BY DEF AttendInv, IdleHasTimer, KeptRunning, Attends, Connected, Gone
<1>3. ReachInv => TimerKnows
  BY DEF ReachInv
<1> QED BY <1>1, <1>2, <1>3, TypeInit, TypeStep, ProtocolCorrect, ReachCorrect,
           AttendStep, PTL DEF Spec
=============================================================================
