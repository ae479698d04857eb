-------------------------- MODULE AcpSession_proof ---------------------------
(***************************************************************************)
(* Proofs about AcpSession, for any finite set of channels and any number  *)
(* of requests, reapers and entries: types, the owner of a session, the    *)
(* reapers of sessions without one, and what the lock of a session         *)
(* protects.                                                               *)
(***************************************************************************)
EXTENDS AcpSession, FiniteSetTheorems, TLAPS

USE ConstantsAssumption

-----------------------------------------------------------------------------
\* Operators of the model

\* There are finitely many tasks.
LEMMA TaskFinite == IsFiniteSet(Task) /\ Cardinality(Task) \in Nat
<1>1. IsFiniteSet(Reaper)
  BY FS_Interval DEF Reaper
<1>2. IsFiniteSet(Task)
  BY <1>1, FS_Union DEF Task
<1> QED BY <1>2, FS_CardinalityType

\* One mutex more than tasks: there is always one that nobody refers to.
LEMMA FreshMutex ==
    ASSUME NEW f \in [Task -> LockId \cup {0}]
    PROVE  \E l \in LockId : \A t \in Task : f[t] # l
<1> DEFINE R == {f[t] : t \in Task}
<1>1. f \in Surjection(Task, R)
  BY DEF Surjection
<1>2. IsFiniteSet(R) /\ Cardinality(R) <= Cardinality(Task)
  BY <1>1, TaskFinite, FS_Surjection
<1>3. Cardinality(LockId) = Cardinality(Task) + 1
  BY TaskFinite, FS_Interval DEF LockId
<1>4. ~(LockId \subseteq R)
  <2>1. SUFFICES ASSUME LockId \subseteq R PROVE FALSE
    OBVIOUS
  <2>2. Cardinality(LockId) <= Cardinality(R)
    BY <1>2, <2>1, FS_Subset
  <2>3. Cardinality(R) \in Nat
    BY <1>2, FS_CardinalityType
  <2> QED BY <1>2, <1>3, <2>2, <2>3, TaskFinite
<1> QED BY <1>4

\* GetLock takes the mutex of the map, or puts one there that nobody refers to.
LEMMA GetLockResult ==
    ASSUME TypeOK, NEW t \in Task, GetLock(t)
    PROVE  /\ lockMap' \in LockId /\ lockMap \in {0, lockMap'}
           /\ lockRef' = [lockRef EXCEPT ![t] = lockMap']
           /\ lockMap' # 0
<1>1. LockOf \in LockId /\ lockMap \in {0, LockOf}
  <2>1. CASE lockMap = 0
    <3>1. \E l \in LockId : \A u \in Task : lockRef[u] # l
      BY FreshMutex DEF TypeOK
    <3> QED BY <2>1, <3>1 DEF LockOf
  <2>2. CASE lockMap # 0
    BY <2>2 DEF LockOf, TypeOK
  <2> QED BY <2>1, <2>2
<1>2. 0 \notin LockId
  BY TaskFinite DEF LockId
<1> QED BY <1>1, <1>2 DEF GetLock

\* Insert numbers the entries.
LEMMA InsertResult ==
    ASSUME TypeOK, NEW c \in Channel, Insert(c)
    PROVE  inst' \in Inst /\ inst' # 0 /\ owner' = c /\ created' \in 0 .. MaxInst
<1>1. created \in 0 .. MaxInst /\ created < MaxInst /\ MaxInst \in Nat
  BY DEF TypeOK, Insert
<1>2. created + 1 \in 1 .. MaxInst
  BY <1>1
<1> QED BY <1>2 DEF Insert, Inst

\* Schedule turns a free reaper into a sleeping one.
LEMMA ScheduleResult ==
    ASSUME TypeOK, NEW i, NEW n, Schedule(i, n)
    PROVE  \E r \in Reaper :
              /\ reaper[r].stage = "free"
              /\ reaper' = [reaper EXCEPT ![r] =
                               [stage |-> "sleeping", inst |-> i, counter |-> n]]
  BY DEF Schedule

-----------------------------------------------------------------------------
\* Types

\* Nothing is known of the session at the start.
LEMMA TypeInit == Init => TypeOK
<1> SUFFICES ASSUME Init PROVE TypeOK
  OBVIOUS
<1>1. 0 \in 0 .. MaxInst /\ 0 \in 0 .. MaxRequests
  OBVIOUS
<1>2. /\ inflight \in SUBSET Request /\ holding \in SUBSET Task
      /\ stdout \in [stage : {"idle", "mapped", "schedule", "close", "dropLock"},
                     ch : Channel \cup {None}]
  BY DEF Init, IdleStdout
<1>3. reaper \in [Reaper -> [stage : {"free", "sleeping", "waiting", "acting"},
                            inst : Inst \cup {0}, counter : Nat]]
  BY DEF Init, FreeReaper
<1> QED BY <1>1, <1>2, <1>3 DEF Init, TypeOK

\* Every step of a channel, the stdout task, a reaper or the exit monitor keeps
\* the types.
LEMMA TypeStep == TypeOK /\ [Next]_vars => TypeOK'
<1> SUFFICES ASSUME TypeOK, [Next]_vars PROVE TypeOK'
  OBVIOUS
<1> USE DEF TypeOK, vars, sessionVars, lockVars, Goto, Release, Acquire, Request, Kinds,
            IdleStdout, FreeReaper, Registered, HasSessionChannel
<1>0. Channel \subseteq Task /\ Reaper \subseteq Task /\ Channel \cap Reaper = {}
  BY DEF Task, Reaper
<1>a. Inst \subseteq Nat \ {0} /\ MaxInst \in Nat /\ MaxRequests \in Nat
  BY DEF Inst
<1>b. \A n \in 0 .. MaxRequests : n < MaxRequests => n + 1 \in 0 .. MaxRequests
  BY <1>a
<1>1. ASSUME NEW c \in Channel, LoadBegin(c) PROVE TypeOK'
  BY <1>1, <1>0, <1>b, GetLockResult DEF LoadBegin
<1>2. ASSUME NEW c \in Channel, ClaimBegin(c) PROVE TypeOK'
  BY <1>2, <1>0, <1>b, GetLockResult DEF ClaimBegin
<1>3. ASSUME NEW c \in Channel, Forward(c) PROVE TypeOK'
  <2>1. inflight' \in SUBSET Request
    <3>1. PICK k \in {"new", "close"} :
              inflight' = inflight \cup {[ch |-> c, kind |-> k, created |-> FALSE]}
      BY <1>3 DEF Forward
    <3>2. [ch |-> c, kind |-> k, created |-> FALSE] \in Request
      OBVIOUS
    <3> QED BY <3>1, <3>2
  <2> QED BY <1>3, <1>b, <2>1 DEF Forward
<1>4. ASSUME NEW c \in Channel, LoadLock(c) PROVE TypeOK'
  BY <1>4, <1>0 DEF LoadLock
<1>5. ASSUME NEW c \in Channel, LoadCheck(c) PROVE TypeOK'
  <2>1. CASE HasSessionChannel BY <1>5, <2>1, <1>0 DEF LoadCheck
  <2>2. CASE ~HasSessionChannel
    <3>1. cancelled' \in [Inst -> BOOLEAN]
      BY <1>5, <2>2 DEF LoadCheck
    <3> QED BY <1>5, <2>2, <3>1 DEF LoadCheck
  <2> QED BY <2>1, <2>2
<1>6. ASSUME NEW c \in Channel, LoadMap(c) PROVE TypeOK'
  BY <1>6, <1>0 DEF LoadMap
<1>7. ASSUME NEW c \in Channel, Claim(c) PROVE TypeOK'
  <2>1. inflight' \in SUBSET Request
    <3>1. \/ inflight' = inflight
          \/ \E b \in BOOLEAN :
                inflight' = inflight \cup {[ch |-> c, kind |-> "load", created |-> b]}
      BY <1>7 DEF Claim, SendLoad
    <3> QED BY <3>1
  <2>2. /\ inst' \in Inst \cup {0} /\ owner' \in Channel \cup {None}
        /\ inst' = 0 => owner' = None
        /\ created' \in 0 .. MaxInst /\ refused' \in BOOLEAN
    <3>1. CASE HasSessionChannel BY <1>7, <3>1 DEF Claim, ClaimOrInsert
    <3>2. CASE \E isNew \in BOOLEAN : ClaimOrInsert(c, isNew) /\ refused' = FALSE
      <4>1. \/ inst # 0 /\ owner' = c /\ UNCHANGED <<inst, created>>
            \/ Insert(c)
        BY <3>2 DEF ClaimOrInsert
      <4> QED BY <3>2, <4>1, InsertResult
    <3> QED BY <1>7, <3>1, <3>2 DEF Claim
  <2> QED BY <1>7, <1>0, <2>1, <2>2 DEF Claim
<1>8. ASSUME NEW c \in Channel, Leave(c) PROVE TypeOK'
  BY <1>8 DEF Leave
<1>9. ASSUME NEW c \in Channel, Unmap(c) PROVE TypeOK'
  <2>1. CASE owner = c
    <3>1. inst \in Inst /\ counter[inst] \in Nat
      BY <2>1
    <3>2. reaper' \in [Reaper -> [stage : {"free", "sleeping", "waiting", "acting"},
                                  inst : Inst \cup {0}, counter : Nat]]
      BY <1>9, <2>1, <3>1, ScheduleResult DEF Unmap
    <3> QED BY <1>9, <2>1, <3>2 DEF Unmap
  <2>2. CASE owner # c BY <1>9, <2>2 DEF Unmap
  <2> QED BY <2>1, <2>2
<1>10. CASE Answer
  <2>1. PICK m \in inflight :
            /\ inflight' = inflight \ {m}
            /\ \/ NewAnswered(m) \/ NewElsewhere(m) \/ LoadAccepted(m)
               \/ LoadRefused(m) \/ CloseAnswered(m)
    BY <1>10 DEF Answer
  <2>2. m.ch \in Channel
    BY <2>1
  <2>3. /\ inst' \in Inst \cup {0} /\ owner' \in Channel \cup {None}
        /\ inst' = 0 => owner' = None
        /\ created' \in 0 .. MaxInst
        /\ minted' \in BOOLEAN /\ refused' \in BOOLEAN
        /\ stdout' \in [stage : {"idle", "mapped", "schedule", "close", "dropLock"},
                        ch : Channel \cup {None}]
    <3>1. CASE NewAnswered(m)
      <4>1. CASE Registered
        <5>1. stdout' = [stage |-> "mapped", ch |-> m.ch] /\ minted' = TRUE
          BY <3>1, <4>1 DEF NewAnswered, CreateSession
        <5>2. /\ inst' \in Inst \cup {0} /\ owner' \in Channel \cup {None}
              /\ inst' = 0 => owner' = None
              /\ created' \in 0 .. MaxInst /\ refused' \in BOOLEAN
          <6>1. \/ UNCHANGED <<inst, owner, created, refused>>
                \/ Insert(m.ch) /\ refused' = FALSE
            BY <3>1, <4>1 DEF NewAnswered, CreateSession
          <6> QED BY <2>2, <6>1, InsertResult
        <5> QED BY <2>2, <5>1, <5>2
      <4>2. CASE ~Registered BY <3>1, <4>2 DEF NewAnswered, CreateSession
      <4> QED BY <4>1, <4>2
    <3>2. CASE NewElsewhere(m) BY <3>2 DEF NewElsewhere
    <3>3. CASE LoadAccepted(m) BY <2>2, <3>3 DEF LoadAccepted
    <3>4. CASE LoadRefused(m)
      <4>1. stdout' \in {stdout, [stage |-> "dropLock", ch |-> m.ch]}
        BY <3>4 DEF LoadRefused
      <4>2. inst' \in {inst, 0} /\ owner' \in {owner, None} /\ refused' \in BOOLEAN
        BY <3>4 DEF LoadRefused, RemoveIfUnownedOrOwnedBy, RemoveEntry, UnmapIfOwnedBy
      <4>3. inst' = 0 => owner' = None
        BY <3>4 DEF LoadRefused, RemoveIfUnownedOrOwnedBy, RemoveEntry, UnmapIfOwnedBy
      <4>4. created' = created /\ minted' = TRUE
        BY <3>4 DEF LoadRefused
      <4> QED BY <2>2, <4>1, <4>2, <4>3, <4>4
    <3>5. CASE CloseAnswered(m) BY <2>2, <3>5 DEF CloseAnswered
    <3> QED BY <2>1, <3>1, <3>2, <3>3, <3>4, <3>5
  <2> QED BY <1>10, <2>1, <2>3 DEF Answer
<1>11. CASE ConfirmOwner
  BY <1>11 DEF ConfirmOwner, UnmapIfOwnedBy
<1>12. CASE ScheduleLate
  <2>1. CASE inst # 0
    <3>1. inst \in Inst /\ counter[inst] \in Nat
      BY <2>1
    <3>2. reaper' \in [Reaper -> [stage : {"free", "sleeping", "waiting", "acting"},
                                  inst : Inst \cup {0}, counter : Nat]]
      BY <1>12, <2>1, <3>1, ScheduleResult DEF ScheduleLate
    <3> QED BY <1>12, <3>2 DEF ScheduleLate
  <2>2. CASE inst = 0 BY <1>12, <2>2 DEF ScheduleLate
  <2> QED BY <2>1, <2>2
<1>13. CASE RemoveClosed
  BY <1>13 DEF RemoveClosed, RemoveEntry
<1>14. CASE DropLock
  BY <1>14 DEF DropLock, DropMutex
<1>15. ASSUME NEW r \in Reaper, ReaperWakes(r) PROVE TypeOK'
  <2>1. CASE StillDisconnected(r)
    <3>1. inst \in Inst
      BY <2>1 DEF StillDisconnected
    <3>2. reaper' \in [Reaper -> [stage : {"free", "sleeping", "waiting", "acting"},
                                  inst : Inst \cup {0}, counter : Nat]]
      BY <1>15, <2>1, <3>1 DEF ReaperWakes
    <3>3. GetLock(r) /\ r \in Task
      BY <1>15, <2>1, <1>0 DEF ReaperWakes
    <3>4. lockMap' \in LockId \cup {0} /\ lockRef' \in [Task -> LockId \cup {0}]
      BY <3>3, GetLockResult
    <3> QED BY <1>15, <2>1, <3>2, <3>4 DEF ReaperWakes
  <2>2. CASE ~StillDisconnected(r) BY <1>15, <2>2 DEF ReaperWakes
  <2> QED BY <2>1, <2>2
<1>16. ASSUME NEW r \in Reaper, ReaperLocks(r) PROVE TypeOK'
  BY <1>16, <1>0 DEF ReaperLocks
<1>17. ASSUME NEW r \in Reaper, Reap(r) PROVE TypeOK'
  BY <1>17, <1>0 DEF Reap, RemoveEntry, DropMutex
<1>18. CASE ClearSessions
  BY <1>18 DEF ClearSessions, RemoveEntry
<1>19. CASE ClearLocks
  BY <1>19 DEF ClearLocks, DropMutex
<1>20. CASE Unregister
  BY <1>20 DEF Unregister
<1>21. CASE UNCHANGED vars
  BY <1>21
<1> QED
  BY <1>1, <1>2, <1>3, <1>4, <1>5, <1>6, <1>7, <1>8, <1>9, <1>10, <1>11, <1>12, <1>13,
     <1>14, <1>15, <1>16, <1>17, <1>18, <1>19, <1>20, <1>21
  DEF Next, ClientRequest, LoadStep, StdoutStep, ReaperStep

\* Every variable keeps its type, whatever the constants.
THEOREM TypeCorrect == Spec => []TypeOK
  BY TypeInit, TypeStep, PTL DEF Spec

-----------------------------------------------------------------------------
\* The owner

\* A channel that dies loses its session, and a dead one that is given a session is
\* noticed by the stdout task.
LEMMA OwnerStep == TypeOK /\ OwnerLive /\ [Next]_vars => OwnerLive'
<1> SUFFICES ASSUME TypeOK, OwnerLive, [Next]_vars PROVE OwnerLive'
  OBVIOUS
<1> USE DEF TypeOK, OwnerLive, vars, sessionVars, lockVars, Goto
<1>1. ASSUME NEW c \in Channel, ClientRequest(c) PROVE OwnerLive'
  BY <1>1 DEF ClientRequest, LoadBegin, ClaimBegin, Forward
<1>2. ASSUME NEW c \in Channel, LoadLock(c) PROVE OwnerLive'
  BY <1>2 DEF LoadLock
<1>3. ASSUME NEW c \in Channel, LoadCheck(c) PROVE OwnerLive'
  BY <1>3 DEF LoadCheck
<1>4. ASSUME NEW c \in Channel, LoadMap(c) PROVE OwnerLive'
  BY <1>4 DEF LoadMap
<1>5. ASSUME NEW c \in Channel, Claim(c) PROVE OwnerLive'
  BY <1>5 DEF Claim, ClaimOrInsert, Insert
<1>6. ASSUME NEW c \in Channel, Leave(c) PROVE OwnerLive'
  BY <1>6 DEF Leave
<1>7. ASSUME NEW c \in Channel, Unmap(c) PROVE OwnerLive'
  BY <1>7 DEF Unmap
<1>8. CASE Answer
  <2>1. stdout.stage = "idle" /\ pc' = pc
    BY <1>8 DEF Answer
  <2>2. owner' \in {owner, None} \/ stdout' = [stage |-> "mapped", ch |-> owner']
    BY <1>8 DEF Answer, NewAnswered, CreateSession, Insert, NewElsewhere, LoadAccepted,
       LoadRefused, RemoveIfUnownedOrOwnedBy, RemoveEntry, UnmapIfOwnedBy, CloseAnswered
  <2>3. owner # None => pc[owner] # "left"
    BY <2>1
  <2> QED BY <2>1, <2>2, <2>3
<1>9. CASE StdoutStep
  BY <1>9 DEF StdoutStep, ConfirmOwner, HasSender, UnmapIfOwnedBy, ScheduleLate,
     RemoveClosed, RemoveEntry, DropLock
<1>10. ASSUME NEW r \in Reaper, ReaperStep(r) PROVE OwnerLive'
  BY <1>10 DEF ReaperStep, ReaperWakes, ReaperLocks, Reap, RemoveEntry
<1>11. CASE ClearSessions \/ ClearLocks \/ Unregister
  BY <1>11 DEF ClearSessions, RemoveEntry, ClearLocks, Unregister
<1>12. CASE UNCHANGED vars
  BY <1>12
<1> QED
  BY <1>1, <1>2, <1>3, <1>4, <1>5, <1>6, <1>7, <1>8, <1>9, <1>10, <1>11, <1>12
  DEF Next, LoadStep

\* No session is left to a dead channel.
THEOREM OwnerIsLive == Spec => []OwnerLive
<1>1. Init => OwnerLive
  BY DEF Init, OwnerLive
<1> QED BY <1>1, TypeCorrect, OwnerStep, PTL DEF Spec

-----------------------------------------------------------------------------
\* Sessions without owner

\* Who takes care of the session: as Attended, but a reaper that is awake is after
\* the very entry.
AttendedBy(r) ==
    \/ reaper[r].stage = "sleeping" /\ reaper[r].counter = counter[inst]
    \/ reaper[r].stage \in {"waiting", "acting"} /\ reaper[r].inst = inst

Loading(c) == pc[c] \in {"loadCheck", "loadMap"} /\ using[c] = inst

AttendInv ==
    inst # 0 /\ owner = None /\ ~cancelled[inst] /\ ~refused =>
        \/ stdout.stage = "schedule"
        \/ \E c \in Channel : Loading(c)
        \/ \E r \in Reaper : AttendedBy(r)

\* A step that leaves the session, its loads and the reapers alone.
LEMMA AttendKept ==
    ASSUME TypeOK, AttendInv,
           UNCHANGED <<inst, owner, counter, cancelled, refused, reaper, using>>,
           stdout.stage = "schedule" => stdout'.stage = "schedule",
           \A c \in Channel : Loading(c) => pc'[c] = pc[c]
    PROVE  AttendInv'
  BY DEF AttendInv, AttendedBy, Loading

\* Whoever takes the session from its owner sees to a reaper, and only a load or
\* another cancellation dismisses one.
LEMMA AttendStep == TypeOK /\ AttendInv /\ [Next]_vars => AttendInv'
<1> SUFFICES ASSUME TypeOK, AttendInv, [Next]_vars PROVE AttendInv'
  OBVIOUS
<1> USE DEF vars, sessionVars, lockVars, Goto, HasSessionChannel
<1>1. ASSUME NEW c \in Channel, ClientRequest(c) PROVE AttendInv'
  BY <1>1, AttendKept
  DEF ClientRequest, LoadBegin, ClaimBegin, Forward, TypeOK, Loading
<1>2. ASSUME NEW c \in Channel, LoadLock(c) PROVE AttendInv'
  <2>1. CASE inst # 0
    <3>1. pc'[c] = "loadCheck" /\ using'[c] = inst /\ inst' = inst
      BY <1>2, <2>1 DEF LoadLock, TypeOK
    <3> QED BY <3>1 DEF AttendInv, Loading
  <2>2. CASE inst = 0
    BY <1>2, <2>2 DEF LoadLock, AttendInv
  <2> QED BY <2>1, <2>2
<1>3. ASSUME NEW c \in Channel, LoadCheck(c) PROVE AttendInv'
  <2>1. CASE owner # None
    BY <1>3, <2>1 DEF LoadCheck, AttendInv
  <2>2. CASE owner = None
    <3>1. /\ pc' = [pc EXCEPT ![c] = "loadMap"]
          /\ cancelled' = [cancelled EXCEPT ![using[c]] = FALSE]
          /\ UNCHANGED <<inst, owner, counter, refused, reaper, using, stdout>>
      BY <1>3, <2>2 DEF LoadCheck
    <3>2. CASE using[c] = inst
      BY <3>1, <3>2 DEF AttendInv, Loading, TypeOK
    <3>3. CASE using[c] # inst
      <4>1. inst # 0 => cancelled'[inst] = cancelled[inst]
        BY <3>1, <3>3 DEF TypeOK
      <4>2. \A d \in Channel : Loading(d) => Loading(d)'
        BY <3>1, <3>3 DEF Loading, TypeOK
      <4> QED BY <3>1, <4>1, <4>2 DEF AttendInv, AttendedBy
    <3> QED BY <3>2, <3>3
  <2> QED BY <2>1, <2>2
<1>4. ASSUME NEW c \in Channel, LoadMap(c) PROVE AttendInv'
  <2>1. inst' = inst /\ (inst # 0 => owner' = c)
    BY <1>4 DEF LoadMap
  <2> QED BY <2>1 DEF AttendInv
<1>5. ASSUME NEW c \in Channel, Claim(c) PROVE AttendInv'
  <2>1. owner' # None
    BY <1>5 DEF Claim, ClaimOrInsert, Insert
  <2> QED BY <2>1 DEF AttendInv
<1>6. ASSUME NEW c \in Channel, Leave(c) PROVE AttendInv'
  BY <1>6, AttendKept DEF Leave, TypeOK, Loading
<1>7. ASSUME NEW c \in Channel, Unmap(c) PROVE AttendInv'
  <2>1. CASE owner = c
    <3>1. UNCHANGED <<inst, counter>> /\ Schedule(inst, counter[inst])
      BY <1>7, <2>1 DEF Unmap
    <3>2. PICK r \in Reaper : reaper'[r] = [stage |-> "sleeping", inst |-> inst,
                                          counter |-> counter[inst]]
      BY <3>1, ScheduleResult DEF TypeOK
    <3>3. AttendedBy(r)'
      BY <3>1, <3>2 DEF AttendedBy
    <3> QED BY <3>3 DEF AttendInv
  <2>2. CASE owner # c
    BY <1>7, <2>2, AttendKept DEF Unmap, TypeOK, Loading
  <2> QED BY <2>1, <2>2
<1>8. CASE Answer
  <2>1. /\ stdout.stage = "idle"
        /\ UNCHANGED <<counter, cancelled, reaper, using, pc>>
    BY <1>8 DEF Answer
  <2>2. \/ UNCHANGED <<inst, owner, refused>>
        \/ owner' # None \/ inst' = 0 \/ refused' = TRUE
    BY <1>8 DEF Answer, NewAnswered, CreateSession, Insert, NewElsewhere, LoadAccepted,
       LoadRefused, RemoveIfUnownedOrOwnedBy, RemoveEntry, UnmapIfOwnedBy, CloseAnswered,
       TypeOK, Request
  <2>3. CASE UNCHANGED <<inst, owner, refused>>
    BY <2>1, <2>3, AttendKept
  <2>4. CASE owner' # None \/ inst' = 0 \/ refused' = TRUE
    BY <2>4 DEF AttendInv
  <2> QED BY <2>2, <2>3, <2>4
<1>9. CASE ConfirmOwner
  <2>1. CASE UNCHANGED owner
    BY <1>9, <2>1, AttendKept DEF ConfirmOwner
  <2>2. CASE stdout' = [stdout EXCEPT !.stage = "schedule"]
    BY <2>2 DEF AttendInv, TypeOK
  <2> QED BY <1>9, <2>1, <2>2 DEF ConfirmOwner
<1>10. CASE ScheduleLate
  <2>1. CASE inst # 0
    <3>1. UNCHANGED <<inst, counter>> /\ Schedule(inst, counter[inst])
      BY <1>10, <2>1 DEF ScheduleLate
    <3>2. PICK r \in Reaper : reaper'[r] = [stage |-> "sleeping", inst |-> inst,
                                          counter |-> counter[inst]]
      BY <3>1, ScheduleResult DEF TypeOK
    <3>3. AttendedBy(r)'
      BY <3>1, <3>2 DEF AttendedBy
    <3> QED BY <3>3 DEF AttendInv
  <2>2. CASE inst = 0
    BY <1>10, <2>2 DEF ScheduleLate, AttendInv
  <2> QED BY <2>1, <2>2
<1>11. CASE RemoveClosed \/ ClearSessions
  BY <1>11 DEF RemoveClosed, ClearSessions, RemoveEntry, AttendInv
<1>12. CASE DropLock
  BY <1>12, AttendKept DEF DropLock
<1>13. ASSUME NEW r \in Reaper, ReaperWakes(r) PROVE AttendInv'
  <2>1. /\ UNCHANGED <<inst, owner, counter, cancelled, refused, pc, using, stdout>>
        /\ \A q \in Reaper : q # r => reaper'[q] = reaper[q]
    BY <1>13 DEF ReaperWakes, TypeOK
  <2>2. \A q \in Reaper : q # r /\ AttendedBy(q) => AttendedBy(q)'
    BY <2>1 DEF AttendedBy
  <2>3. AttendedBy(r) /\ inst # 0 /\ owner = None => AttendedBy(r)'
    <3>1. SUFFICES ASSUME AttendedBy(r), inst # 0, owner = None PROVE AttendedBy(r)'
      OBVIOUS
    <3>2. StillDisconnected(r)
      BY <1>13, <3>1 DEF ReaperWakes, StillDisconnected, AttendedBy
    <3>3. reaper' = [reaper EXCEPT ![r].stage = "waiting", ![r].inst = inst]
      BY <1>13, <3>2 DEF ReaperWakes
    <3> QED BY <2>1, <3>3 DEF AttendedBy, TypeOK
  <2> QED BY <2>1, <2>2, <2>3 DEF AttendInv, Loading
<1>14. ASSUME NEW r \in Reaper, ReaperLocks(r) PROVE AttendInv'
  <2>1. CASE owner # None
    BY <1>14, <2>1 DEF ReaperLocks, AttendInv
  <2>2. CASE owner = None
    <3>1. /\ UNCHANGED <<inst, owner, counter, cancelled, refused, pc, using, stdout>>
          /\ reaper[r].stage = "waiting"
          /\ reaper' = [reaper EXCEPT ![r].stage = "acting"]
      BY <1>14, <2>2 DEF ReaperLocks
    <3>2. \A q \in Reaper : AttendedBy(q) => AttendedBy(q)'
      BY <3>1 DEF AttendedBy, TypeOK
    <3> QED BY <3>1, <3>2 DEF AttendInv, Loading
  <2> QED BY <2>1, <2>2
<1>15. ASSUME NEW r \in Reaper, Reap(r) PROVE AttendInv'
  <2>1. CASE canClose
    BY <1>15, <2>1 DEF Reap, RemoveEntry, AttendInv
  <2>2. CASE ~canClose
    <3>1. /\ reaper[r].stage = "acting"
          /\ cancelled' = [cancelled EXCEPT ![reaper[r].inst] = TRUE]
          /\ reaper' = [reaper EXCEPT ![r] = FreeReaper]
          /\ UNCHANGED <<inst, owner, counter, refused, pc, using, stdout>>
      BY <1>15, <2>2 DEF Reap
    <3>2. CASE reaper[r].inst = inst
      BY <3>1, <3>2 DEF AttendInv, TypeOK
    <3>3. CASE reaper[r].inst # inst
      <4>1. inst # 0 => cancelled'[inst] = cancelled[inst]
        BY <3>1, <3>3 DEF TypeOK
      <4>2. \A q \in Reaper : AttendedBy(q) => AttendedBy(q)'
        BY <3>1, <3>3 DEF AttendedBy, TypeOK
      <4> QED BY <3>1, <4>1, <4>2 DEF AttendInv, Loading
    <3> QED BY <3>2, <3>3
  <2> QED BY <2>1, <2>2
<1>16. CASE ClearLocks \/ Unregister
  BY <1>16, AttendKept DEF ClearLocks, Unregister
<1>17. CASE UNCHANGED vars
  BY <1>17, AttendKept
<1> QED
  BY <1>1, <1>2, <1>3, <1>4, <1>5, <1>6, <1>7, <1>8, <1>9, <1>10, <1>11, <1>12, <1>13,
     <1>14, <1>15, <1>16, <1>17
  DEF Next, LoadStep, StdoutStep, ReaperStep

\* No session is forgotten, however often it is lost and loaded again.
THEOREM NoneForgotten == Spec => []UnownedAttended
<1>1. Init => AttendInv
  BY DEF Init, AttendInv
<1>2. AttendInv => UnownedAttended
  BY DEF AttendInv, AttendedBy, Loading, UnownedAttended, Attended
<1> QED BY <1>1, <1>2, TypeCorrect, AttendStep, PTL DEF Spec

-----------------------------------------------------------------------------
\* The lock of a session

\* Tasks that hold a mutex, and those that wait for one.
Inside(t) ==
    \/ t \in Channel /\ pc[t] \in {"loadCheck", "loadMap"}
    \/ t \in Reaper /\ reaper[t].stage = "acting"

Waiting(t) ==
    \/ t \in Channel /\ pc[t] \in {"loadWait", "claimWait"}
    \/ t \in Reaper /\ reaper[t].stage = "waiting"

\* Who holds a mutex refers to it, and alone; until one is dropped in use, everyone
\* refers to the one in the map.
MutexInv ==
    /\ \A t \in Task : t \in holding <=> Inside(t)
    /\ \A t \in Task : Inside(t) \/ Waiting(t) <=> lockRef[t] # 0
    /\ \A t, u \in holding : lockRef[t] = lockRef[u] => t = u
    /\ ~forked => \A t \in Task : lockRef[t] \in {0, lockMap}

\* A step that leaves the mutexes and their users alone.
LEMMA MutexKept ==
    ASSUME MutexInv, UNCHANGED <<holding, lockRef>>, lockMap' = lockMap,
           forked' = forked,
           \A t \in Task : (Inside(t)' <=> Inside(t)) /\ (Waiting(t)' <=> Waiting(t))
    PROVE  MutexInv'
  BY DEF MutexInv

\* A task outside asks for the mutex of the session.
LEMMA MutexAsked ==
    ASSUME TypeOK, MutexInv, NEW t \in Task, GetLock(t), UNCHANGED <<holding, forked>>,
           ~Inside(t), ~Inside(t)', Waiting(t)',
           \A u \in Task \ {t} :
              (Inside(u)' <=> Inside(u)) /\ (Waiting(u)' <=> Waiting(u))
    PROVE  MutexInv'
<1>1. /\ lockMap \in {0, lockMap'} /\ lockMap' # 0
      /\ lockRef' = [lockRef EXCEPT ![t] = lockMap']
  BY GetLockResult
<1>2. \A u \in Task \ {t} : lockRef'[u] = lockRef[u]
  BY <1>1 DEF TypeOK
<1>3. lockRef'[t] = lockMap'
  BY <1>1 DEF TypeOK
<1>4. t \notin holding /\ holding \subseteq Task
  BY DEF MutexInv, TypeOK
<1>5. \A u \in Task : u \in holding' <=> Inside(u)'
  BY <1>4 DEF MutexInv
<1>6. \A u \in Task : Inside(u)' \/ Waiting(u)' <=> lockRef'[u] # 0
  BY <1>1, <1>2, <1>3 DEF MutexInv
<1>7. \A u, v \in holding' : lockRef'[u] = lockRef'[v] => u = v
  BY <1>2, <1>4 DEF MutexInv
<1>8. ~forked' => \A u \in Task : lockRef'[u] \in {0, lockMap'}
  BY <1>1, <1>2, <1>3 DEF MutexInv
<1> QED BY <1>5, <1>6, <1>7, <1>8 DEF MutexInv

\* It obtains the mutex.
LEMMA MutexTaken ==
    ASSUME TypeOK, MutexInv, NEW t \in Task, Acquire(t),
           UNCHANGED <<lockRef, lockMap, forked>>,
           Waiting(t), Inside(t)', ~Waiting(t)',
           \A u \in Task \ {t} :
              (Inside(u)' <=> Inside(u)) /\ (Waiting(u)' <=> Waiting(u))
    PROVE  MutexInv'
  BY DEF MutexInv, Acquire, MutexFree, TypeOK

\* It is done with the mutex.
LEMMA MutexLeft ==
    ASSUME TypeOK, MutexInv, NEW t \in Task, Release(t),
           UNCHANGED <<lockMap, forked>>,
           ~Inside(t)', ~Waiting(t)',
           \A u \in Task \ {t} :
              (Inside(u)' <=> Inside(u)) /\ (Waiting(u)' <=> Waiting(u))
    PROVE  MutexInv'
<1>1. \A u \in Task \ {t} : lockRef'[u] = lockRef[u] /\ (u \in holding' <=> u \in holding)
  BY DEF Release, TypeOK
<1>2. lockRef'[t] = 0 /\ t \notin holding' /\ holding' \subseteq Task
  BY DEF Release, TypeOK
<1> QED BY <1>1, <1>2 DEF MutexInv

\* No step lets two tasks hold one mutex, or refer to an old one unnoticed.
LEMMA MutexStep == TypeOK /\ MutexInv /\ [Next]_vars => MutexInv'
<1> SUFFICES ASSUME TypeOK, MutexInv, [Next]_vars PROVE MutexInv'
  OBVIOUS
<1> USE DEF vars, sessionVars, lockVars, Goto, Inside, Waiting
<1>0. Channel \subseteq Task /\ Reaper \subseteq Task /\ Channel \cap Reaper = {}
  BY DEF Task, Reaper
<1>1. ASSUME NEW c \in Channel, LoadBegin(c) \/ ClaimBegin(c) PROVE MutexInv'
  BY <1>1, <1>0, MutexAsked DEF LoadBegin, ClaimBegin, TypeOK
<1>2. ASSUME NEW c \in Channel, Forward(c) PROVE MutexInv'
  BY <1>2, MutexKept DEF Forward
<1>3. ASSUME NEW c \in Channel, LoadLock(c) PROVE MutexInv'
  <2>1. CASE inst # 0
    BY <1>3, <2>1, <1>0, MutexTaken DEF LoadLock, TypeOK
  <2>2. CASE inst = 0
    BY <1>3, <2>2, <1>0, MutexLeft DEF LoadLock, TypeOK
  <2> QED BY <2>1, <2>2
<1>4. ASSUME NEW c \in Channel, LoadCheck(c) PROVE MutexInv'
  <2>1. CASE HasSessionChannel
    BY <1>4, <2>1, <1>0, MutexLeft DEF LoadCheck, TypeOK
  <2>2. CASE ~HasSessionChannel
    BY <1>4, <2>2, MutexKept DEF LoadCheck, TypeOK
  <2> QED BY <2>1, <2>2
<1>5. ASSUME NEW c \in Channel, LoadMap(c) \/ Claim(c) PROVE MutexInv'
  BY <1>5, <1>0, MutexLeft DEF LoadMap, Claim, TypeOK
<1>6. ASSUME NEW c \in Channel, Leave(c) PROVE MutexInv'
  BY <1>6, MutexKept DEF Leave, TypeOK
<1>7. ASSUME NEW i, NEW n, Schedule(i, n),
             UNCHANGED <<lockVars, forked>>,
             \A c \in Channel : Inside(c)' = Inside(c) /\ Waiting(c)' = Waiting(c)
      PROVE  MutexInv'
  <2>1. PICK r \in Reaper :
            /\ reaper[r].stage = "free"
            /\ reaper' = [reaper EXCEPT ![r] =
                             [stage |-> "sleeping", inst |-> i, counter |-> n]]
    BY <1>7, ScheduleResult
  <2>2. \A q \in Reaper :
            (Inside(q)' <=> Inside(q)) /\ (Waiting(q)' <=> Waiting(q))
    BY <2>1, <1>0 DEF TypeOK
  <2> QED BY <1>7, <2>2, MutexKept DEF Task
<1>8. ASSUME NEW c \in Channel, Unmap(c) PROVE MutexInv'
  <2>1. \A d \in Channel : Inside(d)' = Inside(d) /\ Waiting(d)' = Waiting(d)
    BY <1>8, <1>0 DEF Unmap, TypeOK
  <2>2. UNCHANGED <<lockVars, forked>>
    BY <1>8 DEF Unmap
  <2>3. CASE owner = c
    BY <1>8, <2>1, <2>2, <2>3, <1>7 DEF Unmap
  <2>4. CASE owner # c
    BY <1>8, <2>1, <2>2, <2>4, MutexKept DEF Unmap, Task
  <2> QED BY <2>3, <2>4
<1>9. CASE Answer \/ ConfirmOwner \/ RemoveClosed \/ ClearSessions \/ Unregister
            \/ UNCHANGED vars
  <2>1. UNCHANGED <<lockVars, forked, pc, reaper>>
    BY <1>9 DEF Answer, ConfirmOwner, RemoveClosed, ClearSessions, Unregister
  <2> QED BY <2>1, MutexKept
<1>10. CASE ScheduleLate
  <2>1. CASE inst # 0
    <3>1. /\ Schedule(inst, counter[inst]) /\ pc' = pc
          /\ UNCHANGED <<lockVars, forked>>
      BY <1>10, <2>1 DEF ScheduleLate
    <3>2. \A c \in Channel : Inside(c)' = Inside(c) /\ Waiting(c)' = Waiting(c)
      BY <3>1, <1>0
    <3> QED BY <3>1, <3>2, <1>7
  <2>2. CASE inst = 0
    BY <1>10, <2>2, MutexKept DEF ScheduleLate
  <2> QED BY <2>1, <2>2
<1>11. CASE DropLock \/ ClearLocks
  <2>1. /\ UNCHANGED <<lockRef, holding, pc, reaper>> /\ lockMap' = 0
        /\ forked' = (forked \/ \E t \in Task \ {None} : lockRef[t] \in {lockMap} \ {0})
    BY <1>11 DEF DropLock, ClearLocks, DropMutex
  <2>2. None \notin Task
    BY DEF Task, Reaper
  <2>3. ~forked' => \A t \in Task : lockRef[t] = 0
    BY <2>1, <2>2 DEF MutexInv
  <2> QED BY <2>1, <2>3 DEF MutexInv
<1>12. ASSUME NEW r \in Reaper, ReaperWakes(r) PROVE MutexInv'
  <2>1. CASE StillDisconnected(r)
    BY <1>12, <2>1, <1>0, MutexAsked DEF ReaperWakes, TypeOK
  <2>2. CASE ~StillDisconnected(r)
    BY <1>12, <2>2, <1>0, MutexKept DEF ReaperWakes, FreeReaper, TypeOK
  <2> QED BY <2>1, <2>2
<1>13. ASSUME NEW r \in Reaper, ReaperLocks(r) PROVE MutexInv'
  <2>1. CASE ~HasSessionChannel
    BY <1>13, <2>1, <1>0, MutexTaken DEF ReaperLocks, TypeOK
  <2>2. CASE HasSessionChannel
    BY <1>13, <2>2, <1>0, MutexLeft DEF ReaperLocks, FreeReaper, TypeOK
  <2> QED BY <2>1, <2>2
<1>14. ASSUME NEW r \in Reaper, Reap(r) PROVE MutexInv'
  <2>1. CASE ~canClose
    BY <1>14, <2>1, <1>0, MutexLeft DEF Reap, FreeReaper, TypeOK
  <2>2. CASE canClose
    <3>1. /\ lockMap' = 0 /\ Release(r) /\ pc' = pc
          /\ forked' = (forked \/ \E t \in Task \ {r} : lockRef[t] \in {lockMap} \ {0})
          /\ reaper' = [reaper EXCEPT ![r] = FreeReaper]
      BY <1>14, <2>2 DEF Reap, DropMutex
    <3>2. \A t \in Task \ {r} : /\ lockRef'[t] = lockRef[t]
                                /\ t \in holding' <=> t \in holding
                                /\ (Inside(t)' <=> Inside(t)) /\ (Waiting(t)' <=> Waiting(t))
      BY <3>1 DEF Release, TypeOK
    <3>3. lockRef'[r] = 0 /\ r \notin holding' /\ ~Inside(r)' /\ ~Waiting(r)'
      BY <3>1, <1>0 DEF Release, FreeReaper, TypeOK
    <3>4. ~forked' => \A t \in Task : lockRef'[t] = 0
      BY <3>1, <3>2, <3>3 DEF MutexInv
    <3>5. \A t \in Task : t \in holding' <=> Inside(t)'
      BY <3>2, <3>3 DEF MutexInv
    <3>6. \A t \in Task : Inside(t)' \/ Waiting(t)' <=> lockRef'[t] # 0
      BY <3>2, <3>3 DEF MutexInv
    <3>7. \A t, u \in holding' : lockRef'[t] = lockRef'[u] => t = u
      <4>1. holding' \subseteq holding \ {r} /\ holding \subseteq Task
        BY <3>1 DEF Release, TypeOK
      <4> QED BY <4>1, <3>2 DEF MutexInv
    <3> QED BY <3>4, <3>5, <3>6, <3>7 DEF MutexInv
  <2> QED BY <2>1, <2>2
<1> QED
  BY <1>1, <1>2, <1>3, <1>4, <1>5, <1>6, <1>8, <1>9, <1>10, <1>11, <1>12, <1>13, <1>14
  DEF Next, ClientRequest, LoadStep, StdoutStep, ReaperStep

\* The task needs the session to be there.
Guarding(t) == Inside(t) \/ (t \in Reaper /\ Waiting(t))

\* What the mutex protects: nobody gets or loses the session while a task that found
\* it unowned is inside.  An entry that is removed takes its mutex with it.
GuardInv ==
    exit = "running" /\ ~forked =>
        /\ \A c \in Channel : pc[c] = "loadMap" => owner = None
        /\ \A r \in Reaper : reaper[r].stage = "acting" => owner = None
        /\ \A t \in Task : Guarding(t) => inst # 0 \/ stdout.stage = "dropLock"

\* Until a mutex is dropped in use, one task is inside.
LEMMA OneInside ==
    ASSUME MutexInv, ~forked, NEW t \in Task, NEW u \in Task, Inside(t), Inside(u)
    PROVE  t = u
  BY DEF MutexInv

\* A step that leaves the owner and those inside alone.
LEMMA GuardKept ==
    ASSUME GuardInv, UNCHANGED <<inst, exit, forked>>,
           owner' = owner \/ owner' = None,
           stdout.stage = "dropLock" => stdout'.stage = "dropLock",
           \A c \in Channel : pc'[c] = "loadMap" => pc[c] = "loadMap",
           \A r \in Reaper : reaper'[r].stage = "acting" => reaper[r].stage = "acting",
           \A t \in Task : Guarding(t)' => Guarding(t)
    PROVE  GuardInv'
  BY DEF GuardInv

\* The session changes hands and is removed only under its mutex, by the stdout task
\* with the mutex, or by the exit monitor.
LEMMA GuardStep == TypeOK /\ MutexInv /\ GuardInv /\ [Next]_vars => GuardInv'
<1> SUFFICES ASSUME TypeOK, MutexInv, GuardInv, [Next]_vars PROVE GuardInv'
  OBVIOUS
<1> USE DEF vars, sessionVars, lockVars, Goto, Inside, Waiting, Guarding
<1>0. Channel \subseteq Task /\ Reaper \subseteq Task /\ Channel \cap Reaper = {}
  BY DEF Task, Reaper
<1>1. ASSUME NEW c \in Channel, ClientRequest(c) \/ Leave(c) PROVE GuardInv'
  BY <1>1, <1>0, GuardKept
  DEF ClientRequest, LoadBegin, ClaimBegin, Forward, Leave, TypeOK
<1>2. ASSUME NEW c \in Channel, LoadLock(c) PROVE GuardInv'
  <2>1. CASE inst # 0
    <3>1. /\ UNCHANGED <<inst, owner, exit, forked, reaper>>
          /\ pc' = [pc EXCEPT ![c] = "loadCheck"]
      BY <1>2, <2>1 DEF LoadLock
    <3> QED BY <2>1, <3>1 DEF GuardInv, TypeOK
  <2>2. CASE inst = 0
    BY <1>2, <2>2, <1>0, GuardKept DEF LoadLock, TypeOK
  <2> QED BY <2>1, <2>2
<1>3. ASSUME NEW c \in Channel, LoadCheck(c) PROVE GuardInv'
  <2>1. CASE owner # None
    BY <1>3, <2>1, <1>0, GuardKept DEF LoadCheck, HasSessionChannel, TypeOK
  <2>2. CASE owner = None
    <3>1. /\ pc[c] = "loadCheck" /\ pc' = [pc EXCEPT ![c] = "loadMap"]
          /\ UNCHANGED <<inst, owner, exit, forked, reaper, stdout>>
      BY <1>3, <2>2 DEF LoadCheck, HasSessionChannel
    <3> QED BY <2>2, <3>1 DEF GuardInv, TypeOK
  <2> QED BY <2>1, <2>2
<1>4. ASSUME NEW c \in Channel, LoadMap(c) PROVE GuardInv'
  <2>1. /\ pc[c] = "loadMap" /\ pc' = [pc EXCEPT ![c] = "idle"]
        /\ UNCHANGED <<inst, exit, forked, reaper, stdout>>
    BY <1>4 DEF LoadMap
  <2>2. ~forked => \A t \in Task : Inside(t) => t = c
    BY <2>1, <1>0, OneInside
  <2>3. ~forked' => \A t \in Task : ~Inside(t)'
    BY <2>1, <2>2, <1>0 DEF TypeOK
  <2>4. \A t \in Task : Guarding(t)' => Guarding(t)
    BY <2>1, <1>0 DEF TypeOK
  <2> QED BY <2>1, <2>3, <2>4, <1>0 DEF GuardInv
<1>5. ASSUME NEW c \in Channel, Claim(c) PROVE GuardInv'
  <2>1. /\ pc[c] = "claimWait" /\ pc' = [pc EXCEPT ![c] = "idle"] /\ MutexFree(c)
        /\ UNCHANGED <<exit, forked, reaper, stdout>>
    BY <1>5 DEF Claim
  <2>2. ~forked => \A t \in Task : ~Inside(t)
    BY <2>1, <1>0 DEF MutexInv, MutexFree
  <2>3. ~forked' => \A t \in Task : ~Inside(t)'
    BY <2>1, <2>2, <1>0 DEF TypeOK
  <2>4. \A t \in Task : Guarding(t)' => Guarding(t)
    BY <2>1, <1>0 DEF TypeOK
  <2>5. inst # 0 => inst' # 0
    BY <1>5 DEF Claim, ClaimOrInsert, TypeOK
  <2> QED BY <2>1, <2>3, <2>4, <2>5, <1>0 DEF GuardInv
<1>6. ASSUME Schedule(inst, counter[inst]), UNCHANGED <<inst, exit, forked>>,
             owner' = owner \/ owner' = None, stdout.stage # "dropLock",
             \A c \in Channel : pc'[c] \in {"loadCheck", "loadMap"} => pc'[c] = pc[c]
      PROVE  GuardInv'
  <2>1. PICK r \in Reaper :
            /\ reaper[r].stage = "free"
            /\ reaper' = [reaper EXCEPT ![r] =
                   [stage |-> "sleeping", inst |-> inst, counter |-> counter[inst]]]
    BY <1>6, ScheduleResult
  <2>2. \A q \in Reaper : reaper'[q].stage \in {"waiting", "acting"} =>
                              reaper'[q].stage = reaper[q].stage
    BY <2>1 DEF TypeOK
  <2>3. \A t \in Task : Guarding(t)' => Guarding(t)
    BY <1>6, <2>2, <1>0
  <2> QED BY <1>6, <2>2, <2>3, GuardKept
<1>7. ASSUME NEW c \in Channel, Unmap(c) PROVE GuardInv'
  <2>1. /\ pc' = [pc EXCEPT ![c] = "left"] /\ UNCHANGED <<inst, exit, forked, stdout>>
        /\ owner' = owner \/ owner' = None
    BY <1>7 DEF Unmap
  <2>2. \A d \in Channel : pc'[d] \in {"loadCheck", "loadMap"} => pc'[d] = pc[d]
    BY <2>1 DEF TypeOK
  <2>3. CASE owner = c
    <3>1. PICK r \in Reaper :
              reaper' = [reaper EXCEPT ![r] =
                   [stage |-> "sleeping", inst |-> inst, counter |-> counter[inst]]]
      BY <1>7, <2>3, ScheduleResult DEF Unmap
    <3>2. \A q \in Reaper : reaper'[q].stage \in {"waiting", "acting"} =>
                                reaper'[q].stage = reaper[q].stage
      BY <3>1 DEF TypeOK
    <3>3. \A t \in Task : Guarding(t)' => Guarding(t)
      BY <2>2, <3>2, <1>0
    <3> QED BY <2>1, <2>2, <3>2, <3>3, GuardKept
  <2>4. CASE owner # c
    <3>1. reaper' = reaper
      BY <1>7, <2>4 DEF Unmap
    <3>2. \A t \in Task : Guarding(t)' => Guarding(t)
      BY <2>2, <3>1, <1>0
    <3> QED BY <2>1, <2>2, <3>1, <3>2, GuardKept
  <2> QED BY <2>3, <2>4
<1>8. CASE Answer
  <2>1. stdout.stage = "idle" /\ UNCHANGED <<pc, reaper, exit, forked>>
    BY <1>8 DEF Answer
  <2>2. \/ inst' = inst /\ owner' \in {owner, None}
        \/ inst = 0
        \/ inst' = 0 /\ owner' = None /\ stdout'.stage = "dropLock"
    BY <1>8 DEF Answer, NewAnswered, CreateSession, NewElsewhere, LoadAccepted,
       LoadRefused, RemoveIfUnownedOrOwnedBy, RemoveEntry, UnmapIfOwnedBy, CloseAnswered
  <2> QED BY <2>1, <2>2, <1>0 DEF GuardInv
<1>9. CASE ConfirmOwner
  <2>1. /\ UNCHANGED <<inst, exit, forked, pc, reaper>> /\ stdout.stage = "mapped"
        /\ owner' = owner \/ owner' = None
    BY <1>9 DEF ConfirmOwner, UnmapIfOwnedBy
  <2> QED BY <2>1, GuardKept
<1>10. CASE ScheduleLate
  <2>1. CASE inst # 0
    BY <1>10, <2>1, <1>6 DEF ScheduleLate
  <2>2. CASE inst = 0
    BY <1>10, <2>2, GuardKept DEF ScheduleLate
  <2> QED BY <2>1, <2>2
<1>11. CASE RemoveClosed
  <2>1. /\ UNCHANGED <<exit, forked, pc, reaper>> /\ owner' = None
        /\ stdout'.stage = "dropLock"
    BY <1>11 DEF RemoveClosed, RemoveEntry, TypeOK
  <2> QED BY <2>1 DEF GuardInv
<1>12. CASE DropLock
  <2>1. /\ UNCHANGED <<inst, owner, exit, pc, reaper>>
        /\ ~forked' => ~forked /\ \A t \in Task \ {None} : lockRef[t] \notin {lockMap} \ {0}
    BY <1>12 DEF DropLock, DropMutex
  <2>2. None \notin Task
    BY DEF Task, Reaper
  <2>3. ~forked' => \A t \in Task : ~Guarding(t)
    BY <2>1, <2>2, <1>0 DEF MutexInv
  <2> QED BY <2>1, <2>3 DEF GuardInv
<1>13. ASSUME NEW r \in Reaper, ReaperWakes(r) PROVE GuardInv'
  <2>1. CASE StillDisconnected(r)
    <3>1. /\ inst # 0 /\ UNCHANGED <<inst, owner, exit, forked, pc, stdout>>
          /\ reaper[r].stage = "sleeping"
          /\ reaper' = [reaper EXCEPT ![r].stage = "waiting", ![r].inst = inst]
      BY <1>13, <2>1 DEF ReaperWakes, StillDisconnected
    <3>2. \A q \in Reaper : reaper'[q].stage = "acting" => reaper[q].stage = "acting"
      BY <3>1 DEF TypeOK
    <3> QED BY <3>1, <3>2 DEF GuardInv
  <2>2. CASE ~StillDisconnected(r)
    <3>1. /\ UNCHANGED <<inst, owner, exit, forked, pc, stdout>>
          /\ reaper' = [reaper EXCEPT ![r] = FreeReaper]
      BY <1>13, <2>2 DEF ReaperWakes
    <3>2. \A q \in Reaper : reaper'[q].stage \in {"waiting", "acting"} =>
                                reaper'[q].stage = reaper[q].stage
      BY <3>1 DEF TypeOK, FreeReaper
    <3>3. \A t \in Task : Guarding(t)' => Guarding(t)
      BY <3>1, <3>2, <1>0
    <3> QED BY <3>1, <3>2, <3>3, GuardKept
  <2> QED BY <2>1, <2>2
<1>14. ASSUME NEW r \in Reaper, ReaperLocks(r) PROVE GuardInv'
  <2>1. CASE owner = None
    <3>1. /\ UNCHANGED <<inst, owner, exit, forked, pc, stdout>>
          /\ reaper[r].stage = "waiting"
          /\ reaper' = [reaper EXCEPT ![r].stage = "acting"]
      BY <1>14, <2>1 DEF ReaperLocks, HasSessionChannel
    <3>2. \A t \in Task : Guarding(t)' => Guarding(t)
      BY <3>1, <1>0 DEF TypeOK
    <3> QED BY <2>1, <3>1, <3>2 DEF GuardInv
  <2>2. CASE owner # None
    <3>1. /\ UNCHANGED <<inst, owner, exit, forked, pc, stdout>>
          /\ reaper' = [reaper EXCEPT ![r] = FreeReaper]
      BY <1>14, <2>2 DEF ReaperLocks, HasSessionChannel
    <3>2. \A q \in Reaper : reaper'[q].stage \in {"waiting", "acting"} =>
                                reaper'[q].stage = reaper[q].stage
      BY <3>1 DEF TypeOK, FreeReaper
    <3>3. \A t \in Task : Guarding(t)' => Guarding(t)
      BY <3>1, <3>2, <1>0
    <3> QED BY <3>1, <3>2, <3>3, GuardKept
  <2> QED BY <2>1, <2>2
<1>15. ASSUME NEW r \in Reaper, Reap(r) PROVE GuardInv'
  <2>1. /\ reaper[r].stage = "acting" /\ reaper' = [reaper EXCEPT ![r] = FreeReaper]
        /\ UNCHANGED <<exit, pc, stdout>>
    BY <1>15 DEF Reap
  <2>2. \A q \in Reaper : reaper'[q].stage \in {"waiting", "acting"} =>
                              q # r /\ reaper'[q].stage = reaper[q].stage
    BY <2>1 DEF TypeOK, FreeReaper
  <2>3. \A t \in Task : Guarding(t)' => t # r /\ Guarding(t)
    BY <2>1, <2>2, <1>0
  <2>4. CASE ~canClose
    <3>1. UNCHANGED <<inst, owner, forked>>
      BY <1>15, <2>4 DEF Reap
    <3> QED BY <2>1, <2>2, <2>3, <3>1, GuardKept
  <2>5. CASE canClose
    <3>1. /\ owner' = None
          /\ ~forked' => ~forked /\ \A t \in Task \ {r} : lockRef[t] \notin {lockMap} \ {0}
      BY <1>15, <2>5 DEF Reap, RemoveEntry, DropMutex
    <3>2. ~forked' => \A t \in Task : ~Guarding(t)'
      BY <2>3, <3>1, <1>0 DEF MutexInv
    <3> QED BY <3>1, <3>2 DEF GuardInv
  <2> QED BY <2>4, <2>5
<1>16. CASE ClearSessions \/ ClearLocks \/ Unregister
  <2>1. exit' # "running"
    BY <1>16 DEF ClearSessions, ClearLocks, Unregister
  <2> QED BY <2>1 DEF GuardInv
<1>17. CASE UNCHANGED vars
  BY <1>17, GuardKept
<1> QED
  BY <1>1, <1>2, <1>3, <1>4, <1>5, <1>7, <1>8, <1>9, <1>10, <1>11, <1>12, <1>13,
     <1>14, <1>15, <1>16, <1>17
  DEF Next, LoadStep, StdoutStep, ReaperStep

\* What the mutex of a session protects, for any number of clients and reapers.
THEOREM LockProtects == Spec => []LockProtectsUnowned
<1>1. Init => MutexInv /\ GuardInv
  BY DEF Init, MutexInv, GuardInv, Inside, Waiting, Guarding, FreeReaper
<1>2. GuardInv => LockProtectsUnowned
  BY DEF GuardInv, LockProtectsUnowned
<1> QED BY <1>1, <1>2, TypeCorrect, MutexStep, GuardStep, PTL DEF Spec
=============================================================================
