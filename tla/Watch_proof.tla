----------------------------- MODULE Watch_proof -----------------------------
(***************************************************************************)
(* Proofs about Watch, for any number of channels and entries and any      *)
(* capacity of the broadcast queue.                                        *)
(***************************************************************************)
EXTENDS Watch, TLAPS

USE ConstantsAssumption

\* A channel has an entry from the access to the map on; an entry is started once;
\* an entry that a channel found and nobody has started yet is registered; what is
\* registered has not been removed.
EntryInv ==
    /\ \A c \in Channel :
          watch[c] # None <=> chan[c] \in {"found", "subscribed", "listening"}
    /\ \A e \in Entry : e \in started <=> task[e] # "none"
    /\ \A c \in Channel :
          watch[c] # None /\ task[watch[c]] = "none" => watchers = watch[c]
    /\ watchers # None => task[watchers] # "ended"

WatchInv == TypeOK /\ EntryInv /\ WatcherRegistered

Pending(q) == \E i \in 1..Len(q) : q[i] = "terminated"

\* A message that is pushed to a queue is its last element afterwards.
LEMMA PushKeepsType ==
    ASSUME NEW q \in Seq(WatchEvent), NEW m \in WatchEvent
    PROVE  Push(q, m) \in Seq(WatchEvent)
<1>1. CASE Len(q) < Capacity
  BY <1>1 DEF Push
<1>2. CASE ~(Len(q) < Capacity)
  <2>1. q # <<>>
    BY <1>2
  <2>2. Tail(q) \in Seq(WatchEvent)
    BY <2>1
  <2> QED
    BY <1>2, <2>2 DEF Push
<1> QED
  BY <1>1, <1>2

\* Terminated stays in a queue it overflows.
LEMMA PushDelivers ==
    ASSUME NEW q \in Seq(WatchEvent)
    PROVE  Pending(Push(q, "terminated"))
<1> DEFINE Last(s) == Append(s, "terminated")
<1>1. ASSUME NEW s \in Seq(WatchEvent) PROVE Pending(Last(s))
  <2>1. Len(Last(s)) = Len(s) + 1 /\ Last(s)[Len(s) + 1] = "terminated"
    BY DEF WatchEvent
  <2>2. Len(s) + 1 \in 1..Len(Last(s))
    BY <2>1
  <2> HIDE DEF Last
  <2> QED
    BY <2>1, <2>2 DEF Pending
<1>2. CASE Len(q) < Capacity
  BY <1>1, <1>2 DEF Push
<1>3. CASE ~(Len(q) < Capacity)
  <2>1. q # <<>>
    BY <1>3
  <2>2. Tail(q) \in Seq(WatchEvent)
    BY <2>1
  <2> QED
    BY <1>1, <1>3, <2>2 DEF Push
<1> QED
  BY <1>2, <1>3

\* Taking an ordinary event from a queue leaves Terminated in it.
LEMMA TailKeepsPending ==
    ASSUME NEW q \in Seq(WatchEvent), q # <<>>, Head(q) = "fs", Pending(q)
    PROVE  Pending(Tail(q))
<1>1. PICK i \in 1..Len(q) : q[i] = "terminated"
  BY DEF Pending
<1>2. i # 1
  BY <1>1
<1>3. i - 1 \in 1..Len(Tail(q)) /\ Tail(q)[i - 1] = q[i]
  BY <1>2
<1> QED
  BY <1>1, <1>3 DEF Pending

\* A broadcast keeps every queue well typed.
LEMMA BroadcastKeepsType ==
    ASSUME TypeOK, NEW e \in Entry, NEW m \in WatchEvent, Broadcast(e, m)
    PROVE  rx' \in [Channel -> Seq(WatchEvent)]
<1>1. ASSUME NEW c \in Channel PROVE Push(rx[c], m) \in Seq(WatchEvent)
  BY PushKeepsType DEF TypeOK
<1> QED
  BY <1>1 DEF Broadcast, TypeOK

-----------------------------------------------------------------------------
\* Nothing is registered, started or found at first.
LEMMA WatchInit == Init => WatchInv /\ OnlyLateJoinersOrphaned
  BY DEF Init, WatchInv, TypeOK, EntryInv, WatcherRegistered, OnlyLateJoinersOrphaned,
         Listens, WatchEvent

\* Every step keeps the invariant of the entries.
LEMMA WatchStep == WatchInv /\ [Next]_vars => WatchInv'
<1> SUFFICES ASSUME WatchInv, [Next]_vars PROVE WatchInv'
  OBVIOUS
<1> USE DEF WatchInv, TypeOK, EntryInv, WatcherRegistered
<1>1. ASSUME NEW c \in Channel, Join(c) PROVE WatchInv'
  BY <1>1 DEF Join
<1>2. ASSUME NEW c \in Channel, FindEntry(c) PROVE WatchInv'
  <2>1. CASE watchers # None
    <3>1. /\ watch' = [watch EXCEPT ![c] = watchers]
          /\ UNCHANGED <<watchers, started, task, raw>>
      BY <1>2, <2>1 DEF FindEntry
    <3>2. TypeOK'
      BY <1>2, <2>1, <3>1 DEF FindEntry
    <3>3. EntryInv' /\ WatcherRegistered'
      BY <1>2, <2>1, <3>1 DEF FindEntry
    <3> QED
      BY <3>2, <3>3
  <2>2. CASE watchers = None
    <3>1. PICK e \in Entry :
             /\ Fresh(e)
             /\ watchers' = e
             /\ watch' = [watch EXCEPT ![c] = e]
             /\ started' = started \ {e}
             /\ task' = [task EXCEPT ![e] = "none"]
             /\ raw' = [raw EXCEPT ![e] = <<>>]
      BY <1>2, <2>2 DEF FindEntry
    <3>2. TypeOK'
      BY <1>2, <3>1 DEF FindEntry
    <3>3. EntryInv'
      BY <1>2, <2>2, <3>1 DEF FindEntry, Fresh
    <3>4. WatcherRegistered'
      BY <1>2, <2>2, <3>1 DEF FindEntry, Fresh
    <3> QED
      BY <3>2, <3>3, <3>4
  <2> QED
    BY <2>1, <2>2
<1>3. ASSUME NEW c \in Channel, Subscribe(c) PROVE WatchInv'
  BY <1>3 DEF Subscribe
<1>4. ASSUME NEW c \in Channel, Start(c) PROVE WatchInv'
  <2>1. watch[c] \in Entry
    BY <1>4 DEF Start
  <2>2. CASE watch[c] \in started
    BY <1>4, <2>1, <2>2 DEF Start
  <2>3. CASE watch[c] \notin started
    <3>1. task[watch[c]] = "none" /\ watchers = watch[c]
      BY <2>1, <2>3
    <3>2. task' = [task EXCEPT ![watch[c]] = "spawned"] /\ started' = started \cup {watch[c]}
      BY <1>4, <2>3 DEF Start
    <3>3. TypeOK'
      BY <1>4, <2>1, <3>2 DEF Start
    <3>4. EntryInv'
      BY <1>4, <2>1, <3>1, <3>2 DEF Start
    <3>5. WatcherRegistered'
      BY <1>4, <2>1, <3>1, <3>2 DEF Start
    <3> QED
      BY <3>3, <3>4, <3>5
  <2> QED
    BY <2>2, <2>3
<1>5. ASSUME NEW c \in Channel, Forward(c) PROVE WatchInv'
  <2>1. CASE Head(rx[c]) = "fs"
    <3>1. Tail(rx[c]) \in Seq(WatchEvent)
      BY <1>5 DEF Forward
    <3>2. rx' = [rx EXCEPT ![c] = Tail(@)] /\ UNCHANGED <<chan, watch, late>>
      BY <1>5, <2>1 DEF Forward
    <3> QED
      BY <1>5, <3>1, <3>2 DEF Forward
  <2>2. CASE Head(rx[c]) = "terminated"
    <3>1. Return(c) /\ UNCHANGED <<exists, watchers, started, task, raw, joined>>
      BY <1>5, <2>2 DEF Forward
    <3>2. <<>> \in Seq(WatchEvent)
      OBVIOUS
    <3>3. TypeOK'
      BY <3>1, <3>2 DEF Return
    <3>4. EntryInv' /\ WatcherRegistered'
      BY <3>1 DEF Return
    <3> QED
      BY <3>3, <3>4
  <2> QED
    BY <1>5, <2>1, <2>2 DEF Forward
<1>6. ASSUME NEW c \in Channel, Leave(c) PROVE WatchInv'
  BY <1>6 DEF Leave
<1>7. ASSUME NEW c \in Channel, SeeLeave(c) PROVE WatchInv'
  BY <1>7 DEF SeeLeave, Return
<1>8. ASSUME NEW c \in Channel, Reset(c) PROVE WatchInv'
  BY <1>8 DEF Reset
<1>9. ASSUME NEW e \in Entry, Create(e) PROVE WatchInv'
  <2>1. rx' \in [Channel -> Seq(WatchEvent)]
    BY <1>9, BroadcastKeepsType DEF Create, WatchEvent
  <2> QED
    BY <1>9, <2>1 DEF Create
<1>10. ASSUME NEW e \in Entry, WatchPath(e) PROVE WatchInv'
  <2>1. rx' \in [Channel -> Seq(WatchEvent)]
    BY <1>10, BroadcastKeepsType DEF WatchPath, WatchEvent
  <2> QED
    BY <1>10, <2>1 DEF WatchPath
<1>11. ASSUME NEW e \in Entry, Notified(e) PROVE WatchInv'
  <2>1. rx' \in [Channel -> Seq(WatchEvent)]
    BY <1>11, BroadcastKeepsType DEF Notified, WatchEvent
  <2>2. raw' \in [Entry -> Seq({"fs", "removed", "error"})]
    <3>1. raw[e] \in Seq({"fs", "removed", "error"}) /\ raw[e] # <<>>
      BY <1>11 DEF Notified
    <3>2. Tail(raw[e]) \in Seq({"fs", "removed", "error"})
      BY <3>1
    <3> QED
      BY <1>11, <3>2 DEF Notified
  <2>3. task' = task \/ task' = [task EXCEPT ![e] = "ending"]
    BY <1>11 DEF Notified
  <2>4. task[e] = "watching" /\ UNCHANGED <<exists, watchers, started, chan, watch, joined, late>>
    BY <1>11 DEF Notified
  <2>5. TypeOK'
    BY <2>1, <2>2, <2>3, <2>4
  <2>6. EntryInv' /\ WatcherRegistered'
    BY <2>3, <2>4
  <2> QED
    BY <2>5, <2>6
<1>12. ASSUME NEW e \in Entry, IdleCheck(e) PROVE WatchInv'
  BY <1>12 DEF IdleCheck
<1>13. ASSUME NEW e \in Entry, Remove(e) PROVE WatchInv'
  BY <1>13 DEF Remove
<1>14. ASSUME NEW n \in {"fs", "removed", "error"}, Notify(n)
       PROVE  raw' \in [Entry -> Seq({"fs", "removed", "error"})]
  BY <1>14 DEF Notify
<1>15. ASSUME Change \/ Vanish \/ Appear \/ Fail PROVE WatchInv'
  BY <1>14, <1>15 DEF Change, Vanish, Appear, Fail
<1>16. ASSUME UNCHANGED vars PROVE WatchInv'
  BY <1>16 DEF vars
<1> QED
  BY <1>1, <1>2, <1>3, <1>4, <1>5, <1>6, <1>7, <1>8, <1>9, <1>10, <1>11, <1>12,
     <1>13, <1>15, <1>16 DEF Next

-----------------------------------------------------------------------------
\* What a broadcast of an ordinary event by entry e does to channels of other
\* entries: nothing.
LEMMA BroadcastSparesOthers ==
    ASSUME TypeOK, NEW e \in Entry, NEW m, Broadcast(e, m),
           NEW c \in Channel, ~Listens(c, e)
    PROVE  rx'[c] = rx[c]
  BY DEF Broadcast, TypeOK

\* A broadcast of Terminated reaches everyone who listens.
LEMMA BroadcastDelivers ==
    ASSUME TypeOK, NEW e \in Entry, Broadcast(e, "terminated"),
           NEW c \in Channel, Listens(c, e)
    PROVE  Pending(rx'[c])
<1>1. rx'[c] = Push(rx[c], "terminated")
  BY DEF Broadcast
<1> QED
  BY <1>1, PushDelivers DEF TypeOK

\* The invariant by channel and entry, with the last message named.
Attended(c, e) ==
    Listens(c, e) /\ task[e] \in {"ending", "ended"} /\ c \notin late => Pending(rx[c])

\* The property in that form.
LEMMA AttendedIsProperty ==
    OnlyLateJoinersOrphaned <=> \A c \in Channel, e \in Entry : Attended(c, e)
  BY DEF OnlyLateJoinersOrphaned, Attended, Pending

\* A watcher's step that may end it keeps its channels attended: either it goes on,
\* or everyone who listens gets Terminated.
LEMMA WatcherStepAttends ==
    ASSUME WatchInv, OnlyLateJoinersOrphaned, NEW e \in Entry,
           task[e] \in {"spawned", "created", "watching"},
           \/ /\ task'[e] \notin {"ending", "ended"}
              /\ UNCHANGED rx \/ Broadcast(e, "fs")
           \/ Broadcast(e, "terminated"),
           \A f \in Entry : f # e => task'[f] = task[f],
           UNCHANGED <<chan, watch, late>>
    PROVE  OnlyLateJoinersOrphaned'
<1> USE DEF WatchInv
<1> SUFFICES ASSUME NEW c \in Channel, NEW f \in Entry PROVE Attended(c, f)'
  BY DEF OnlyLateJoinersOrphaned, Attended, Pending
<1>1. Attended(c, f)
  BY AttendedIsProperty
<1>2. Listens(c, f)' <=> Listens(c, f)
  BY DEF Listens
<1>3. CASE f # e
  <2>1. Listens(c, f) => ~Listens(c, e)
    BY <1>3 DEF Listens
  <2>2. Listens(c, f) => rx'[c] = rx[c]
    BY <2>1, BroadcastSparesOthers
  <2> QED
    BY <1>1, <1>2, <1>3, <2>2 DEF Attended, Pending
<1>4. CASE f = e
  <2>1. CASE task'[e] \notin {"ending", "ended"}
    BY <1>4, <2>1 DEF Attended
  <2>2. CASE Broadcast(e, "terminated")
    <3>1. Listens(c, e) => Pending(rx'[c])
      BY <2>2, BroadcastDelivers
    <3> QED
      BY <1>2, <1>4, <3>1 DEF Attended, Pending
  <2> QED
    BY <2>1, <2>2
<1> QED
  BY <1>3, <1>4

\* Every step keeps channels attended unless they joined late.
LEMMA AttendedStep ==
    WatchInv /\ OnlyLateJoinersOrphaned /\ [Next]_vars => OnlyLateJoinersOrphaned'
<1> SUFFICES ASSUME WatchInv, OnlyLateJoinersOrphaned, [Next]_vars
             PROVE  OnlyLateJoinersOrphaned'
  OBVIOUS
<1>1. \A c \in Channel, e \in Entry : Attended(c, e)
  BY AttendedIsProperty
<1>2. SUFFICES ASSUME ~OnlyLateJoinersOrphaned' PROVE FALSE
  OBVIOUS
<1>3. PICK d \in Channel, f \in Entry : ~Attended(d, f)'
  BY <1>2 DEF OnlyLateJoinersOrphaned, Attended, Pending
<1>4. /\ watch'[d] = f /\ chan'[d] \in {"subscribed", "listening"}
      /\ task'[f] \in {"ending", "ended"} /\ d \notin late' /\ ~Pending(rx'[d])
  BY <1>3 DEF Attended, Listens, Pending
<1>5. Attended(d, f)
  BY <1>1
<1> USE DEF WatchInv, TypeOK, EntryInv, WatcherRegistered, Attended, Listens
<1>6. ASSUME NEW c \in Channel,
             Join(c) \/ FindEntry(c) \/ Leave(c) \/ Reset(c)
      PROVE  FALSE
  BY <1>4, <1>5, <1>6 DEF Join, FindEntry, Fresh, Leave, Reset
<1>7. ASSUME NEW c \in Channel, Subscribe(c) PROVE FALSE
  BY <1>4, <1>5, <1>7 DEF Subscribe
<1>8. ASSUME NEW c \in Channel, Start(c) PROVE FALSE
  BY <1>4, <1>5, <1>8 DEF Start
<1>9. ASSUME NEW c \in Channel, Return(c), UNCHANGED task PROVE FALSE
  BY <1>4, <1>5, <1>9 DEF Return
<1>10. ASSUME NEW c \in Channel, Forward(c) PROVE FALSE
  <2>1. CASE Head(rx[c]) = "fs"
    <3>1. /\ rx' = [rx EXCEPT ![c] = Tail(@)] /\ rx[c] # <<>>
          /\ UNCHANGED <<task, chan, watch, late>>
      BY <1>10, <2>1 DEF Forward
    <3>2. Pending(rx[d])
      BY <1>4, <1>5, <3>1
    <3>3. Pending(rx'[d])
      BY <2>1, <3>1, <3>2, TailKeepsPending
    <3> QED
      BY <1>4, <3>3
  <2>2. CASE Head(rx[c]) = "terminated"
    BY <1>9, <1>10, <2>2 DEF Forward
  <2> QED
    BY <1>10, <2>1, <2>2 DEF Forward
<1>11. ASSUME NEW c \in Channel, SeeLeave(c) PROVE FALSE
  BY <1>9, <1>11 DEF SeeLeave
<1>12. ASSUME NEW e \in Entry, Create(e) \/ WatchPath(e) \/ Notified(e) PROVE FALSE
  <2>1. /\ task[e] \in {"spawned", "created", "watching"}
        /\ \/ /\ task'[e] \notin {"ending", "ended"}
              /\ UNCHANGED rx \/ Broadcast(e, "fs")
           \/ Broadcast(e, "terminated")
        /\ \A g \in Entry : g # e => task'[g] = task[g]
        /\ UNCHANGED <<chan, watch, late>>
    BY <1>12 DEF Create, WatchPath, Notified
  <2> QED
    BY <1>2, <2>1, WatcherStepAttends
<1>13. ASSUME NEW e \in Entry, IdleCheck(e) PROVE FALSE
  BY <1>4, <1>5, <1>13 DEF IdleCheck, Receivers
<1>14. ASSUME NEW e \in Entry, Remove(e) PROVE FALSE
  BY <1>4, <1>5, <1>14 DEF Remove
<1>15. ASSUME Change \/ Vanish \/ Appear \/ Fail \/ UNCHANGED vars PROVE FALSE
  BY <1>4, <1>5, <1>15 DEF Change, Vanish, Appear, Fail, vars
<1> QED
  BY <1>6, <1>7, <1>8, <1>10, <1>11, <1>12, <1>13, <1>14, <1>15 DEF Next

-----------------------------------------------------------------------------
\* The type invariant of Watch.
THEOREM TypeCorrect == Spec => []TypeOK
<1>1. WatchInv => TypeOK
  BY DEF WatchInv
<1> QED
  BY <1>1, WatchInit, WatchStep, PTL DEF Spec

\* The watcher of a path that has not removed its entry is the one registered for
\* it: no path has two, and none evicts another's entry.
THEOREM OneWatcherPerPath == Spec => []WatcherRegistered
<1>1. WatchInv => WatcherRegistered
  BY DEF WatchInv
<1> QED
  BY <1>1, WatchInit, WatchStep, PTL DEF Spec

\* Whatever the capacity and however far a channel lags, the end of its watcher
\* reaches it, unless it subscribed after the watcher's last look.
THEOREM EndIsNeverLost == Spec => []OnlyLateJoinersOrphaned
  BY WatchInit, WatchStep, AttendedStep, PTL DEF Spec

\* A removal by path takes the entry of the watcher that removes.
RemovesOwn ==
    [][watchers # None /\ watchers' = None
          => task[watchers] = "ending" /\ task'[watchers] = "ended"]_vars

\* No watcher evicts a successor, which would then go on with an entry nobody finds.
THEOREM RemovalIsOwn == Spec => RemovesOwn
<1> DEFINE A == watchers # None /\ watchers' = None
                   => task[watchers] = "ending" /\ task'[watchers] = "ended"
<1>1. WatchInv /\ [Next]_vars => [A]_vars
  <2> SUFFICES ASSUME WatchInv, Next, watchers # None, watchers' = None
               PROVE  task[watchers] = "ending" /\ task'[watchers] = "ended"
    BY DEF vars
  <2>1. PICK e \in Entry : Remove(e)
    BY DEF WatchInv, TypeOK, Next, Join, FindEntry, Subscribe, Start, Forward, Leave, SeeLeave,
       Reset, Create, WatchPath, Notified, IdleCheck, Change, Vanish, Appear, Fail
  <2> QED BY <2>1 DEF WatchInv, TypeOK, WatcherRegistered, Remove
<1> QED BY <1>1, WatchInit, WatchStep, PTL DEF Spec, RemovesOwn

-----------------------------------------------------------------------------
\* What EndReachesChannels needs of the model besides fairness

\* A channel that listens has a watcher that was started.
StartedInv == \A c \in Channel : chan[c] = "listening" => watch[c] \in started

\* Start is the last step before a channel listens.
LEMMA StartedStep == WatchInv /\ StartedInv /\ [Next]_vars => StartedInv'
<1> SUFFICES ASSUME WatchInv, StartedInv, [Next]_vars PROVE StartedInv'
  OBVIOUS
<1> USE DEF WatchInv, TypeOK, EntryInv, StartedInv
<1>1. ASSUME NEW c \in Channel, FindEntry(c) PROVE StartedInv'
  BY <1>1 DEF FindEntry, Fresh
<1>2. ASSUME NEW c \in Channel, Start(c) PROVE StartedInv'
  BY <1>2 DEF Start
<1>3. ASSUME NEW c \in Channel,
             Join(c) \/ Subscribe(c) \/ Leave(c) \/ SeeLeave(c) \/ Reset(c) \/ Forward(c)
      PROVE  StartedInv'
  BY <1>3 DEF Join, Subscribe, Leave, SeeLeave, Reset, Forward, Return
<1>4. CASE UNCHANGED <<chan, watch, started>>
  BY <1>4
<1> QED
  BY <1>1, <1>2, <1>3, <1>4 DEF Next, Create, WatchPath, Notified, IdleCheck, Remove, Change,
     Vanish, Appear, Fail, vars

\* A channel that was answered with ok has a watcher that runs, or the end of its watcher
\* in its queue, unless it joined late.
ListenerServed ==
    \A c \in Channel :
        chan[c] = "listening" /\ c \notin late =>
            \/ task[watch[c]] \in {"spawned", "created", "watching"}
            \/ Pending(rx[c])

\* No join is answered with ok and then forgotten, except in the window that `late' marks.
THEOREM ListenersAreServed == Spec => []ListenerServed
<1>1. Init => StartedInv
  BY DEF Init, StartedInv
<1>2. WatchInv /\ StartedInv /\ OnlyLateJoinersOrphaned => ListenerServed
  <2> SUFFICES ASSUME WatchInv, StartedInv, OnlyLateJoinersOrphaned,
                      NEW c \in Channel, chan[c] = "listening", c \notin late
               PROVE  \/ task[watch[c]] \in {"spawned", "created", "watching"}
                      \/ Pending(rx[c])
    BY DEF ListenerServed
  <2>1. PICK e \in Entry : watch[c] = e
    BY DEF WatchInv, TypeOK, EntryInv
  <2>2. task[e] # "none" /\ Listens(c, e)
    BY <2>1 DEF WatchInv, EntryInv, StartedInv, Listens
  <2>3. Attended(c, e)
    BY AttendedIsProperty
  <2> QED BY <2>1, <2>2, <2>3 DEF WatchInv, TypeOK, Attended
<1> QED
  BY <1>1, <1>2, WatchInit, WatchStep, StartedStep, EndIsNeverLost, PTL DEF Spec

\* What is left of a queue after a watcher's end: the channel takes from it or ends, and
\* nothing is added, also not by a watcher that reuses the entry.
Draining(c, e) ==
    \/ chan'[c] = "end"
    \/ /\ Listens(c, e)' /\ task'[e] \in {"ending", "ended"}
       /\ \/ rx'[c] = rx[c]
          \/ Len(rx'[c]) \in Nat /\ Len(rx'[c]) < Len(rx[c])

EndedDrains ==
    [][\A c \in Channel, e \in Entry :
          Listens(c, e) /\ task[e] \in {"ending", "ended"} => Draining(c, e)]_vars

\* A channel whose watcher is over reads what is queued for it, finitely many events,
\* and with ListenersAreServed finds Terminated among them.
THEOREM QueuesDrain == Spec => EndedDrains
<1> DEFINE A == \A c \in Channel, e \in Entry :
                   Listens(c, e) /\ task[e] \in {"ending", "ended"} => Draining(c, e)
<1>1. WatchInv /\ [Next]_vars => [A]_vars
  <2> SUFFICES ASSUME WatchInv, Next, NEW c \in Channel, NEW e \in Entry, Listens(c, e),
                      task[e] \in {"ending", "ended"}
               PROVE  Draining(c, e)
    BY DEF vars
  <2> USE DEF WatchInv, TypeOK, Draining, Listens
  <2>1. ASSUME NEW d \in Channel,
               Join(d) \/ Subscribe(d) \/ Leave(d) \/ Reset(d) \/ SeeLeave(d)
        PROVE  Draining(c, e)
    BY <2>1 DEF Join, Subscribe, Leave, Reset, SeeLeave, Return
  <2>2. ASSUME NEW d \in Channel, FindEntry(d) PROVE Draining(c, e)
    BY <2>2 DEF FindEntry, Fresh
  <2>3. ASSUME NEW d \in Channel, Start(d) PROVE Draining(c, e)
    BY <2>3 DEF Start, EntryInv
  <2>4. ASSUME NEW d \in Channel, Forward(d) PROVE Draining(c, e)
    <3>1. CASE d = c /\ Head(rx[c]) = "fs"
      <4>1. rx[c] \in Seq(WatchEvent) /\ rx[c] # <<>> /\ rx'[c] = Tail(rx[c])
        BY <2>4, <3>1 DEF Forward, WatchEvent
      <4>2. Len(rx'[c]) \in Nat /\ Len(rx'[c]) < Len(rx[c])
        BY <4>1
      <4> QED BY <2>4, <3>1, <4>2 DEF Forward
    <3>2. CASE d = c /\ Head(rx[c]) # "fs"
      BY <2>4, <3>2 DEF Forward, Return
    <3>3. CASE d # c
      BY <2>4, <3>3 DEF Forward, Return
    <3> QED BY <3>1, <3>2, <3>3
  <2>5. ASSUME NEW f \in Entry, Create(f) \/ WatchPath(f) \/ Notified(f)
        PROVE  Draining(c, e)
    <3>1. f # e
      BY <2>5 DEF Create, WatchPath, Notified
    <3>2. rx'[c] = rx[c]
      BY <2>5, <3>1, BroadcastSparesOthers DEF Create, WatchPath, Notified
    <3>3. UNCHANGED <<chan, watch>> /\ task'[e] = task[e]
      BY <2>5, <3>1 DEF Create, WatchPath, Notified
    <3> QED BY <3>2, <3>3
  <2>6. ASSUME NEW f \in Entry, IdleCheck(f) \/ Remove(f) PROVE Draining(c, e)
    BY <2>6 DEF IdleCheck, Remove
  <2>7. CASE Change \/ Vanish \/ Appear \/ Fail
    BY <2>7 DEF Change, Vanish, Appear, Fail
  <2> QED BY <2>1, <2>2, <2>3, <2>4, <2>5, <2>6, <2>7 DEF Next
<1> QED BY <1>1, WatchInit, WatchStep, PTL DEF Spec, EndedDrains

-----------------------------------------------------------------------------
\* How an idle watch ends: what IdleWatcherStops needs of the model besides fairness

\* A late channel listens to a watcher that is over, and a registered entry that nobody
\* has started was found by a channel that is about to look.
IdleInv ==
    /\ \A c \in late : watch[c] \in Entry /\ task[watch[c]] \in {"ending", "ended"}
    /\ watchers # None /\ task[watchers] = "none" =>
          \E c \in Channel : watch[c] = watchers /\ chan[c] \in {"found", "subscribed"}

\* Every step keeps IdleInv.
LEMMA IdleStep == WatchInv /\ IdleInv /\ [Next]_vars => IdleInv'
<1> SUFFICES ASSUME WatchInv, IdleInv, [Next]_vars PROVE IdleInv'
  OBVIOUS
<1> USE DEF WatchInv, TypeOK, IdleInv
<1>1. ASSUME NEW c \in Channel, Join(c) \/ Leave(c) \/ Reset(c) PROVE IdleInv'
  BY <1>1 DEF Join, Leave, Reset
<1>2. ASSUME NEW c \in Channel, FindEntry(c) PROVE IdleInv'
  <2>1. CASE watchers # None
    BY <1>2, <2>1 DEF FindEntry, EntryInv
  <2>2. CASE watchers = None
    <3>1. PICK e \in Entry :
             /\ Fresh(e) /\ watchers' = e
             /\ watch' = [watch EXCEPT ![c] = e]
             /\ task' = [task EXCEPT ![e] = "none"]
      BY <1>2, <2>2 DEF FindEntry
    <3>2. /\ chan' = [chan EXCEPT ![c] = "found"] /\ late' = late /\ chan[c] = "checked"
      BY <1>2 DEF FindEntry
    <3>3. \A d \in late : d # c /\ watch[d] # e
      BY <3>1, <3>2 DEF EntryInv, Fresh
    <3>4. watch'[c] = e /\ chan'[c] = "found"
      BY <3>1, <3>2
    <3> QED BY <3>1, <3>2, <3>3, <3>4
  <2> QED BY <2>1, <2>2
<1>3. ASSUME NEW c \in Channel, Subscribe(c) PROVE IdleInv'
  BY <1>3 DEF Subscribe, EntryInv
<1>4. ASSUME NEW c \in Channel, Start(c) PROVE IdleInv'
  BY <1>4 DEF Start, EntryInv
<1>5. ASSUME NEW c \in Channel, Forward(c) \/ SeeLeave(c) PROVE IdleInv'
  <2>1. CASE UNCHANGED <<chan, watch, late>>
    BY <1>5, <2>1 DEF Forward, SeeLeave
  <2>2. CASE Return(c)
    BY <1>5, <2>2 DEF Forward, SeeLeave, Return
  <2> QED BY <1>5, <2>1, <2>2 DEF Forward, SeeLeave
<1>6. ASSUME NEW e \in Entry, Create(e) \/ WatchPath(e) \/ Notified(e) \/ IdleCheck(e)
      PROVE  IdleInv'
  <2>1. /\ task[e] \in {"spawned", "created", "watching"}
        /\ UNCHANGED <<watchers, chan, watch, late>>
        /\ \E l \in {"created", "watching", "ending"} : task' = [task EXCEPT ![e] = l]
    BY <1>6 DEF Create, WatchPath, Notified, IdleCheck
  <2> QED BY <2>1
<1>7. ASSUME NEW e \in Entry, Remove(e) PROVE IdleInv'
  BY <1>7 DEF Remove
<1>8. CASE Change \/ Vanish \/ Appear \/ Fail \/ UNCHANGED vars
  BY <1>8 DEF Change, Vanish, Appear, Fail, vars
<1> QED BY <1>1, <1>2, <1>3, <1>4, <1>5, <1>6, <1>7, <1>8 DEF Next

\* The formulae repeat the guards of the actions.
ChannelCanStep(c) ==
    \/ chan[c] \in {"checked", "found", "subscribed"}
    \/ chan[c] = "listening" /\ (rx[c] # <<>> \/ c \notin joined)

WatcherCanStep(e) ==
    \/ task[e] \in {"spawned", "created", "ending"}
    \/ task[e] = "watching" /\ raw[e] = <<>> /\ Receivers(e) = {}

\* When all clients are gone and no notification comes in, a channel or a watcher can go
\* on until nothing is left of the watch.
IdleSeen ==
    Present = {} /\ Quiet =>
        \/ watchers = None /\ \A e \in Entry : task[e] \in {"none", "ended"}
        \/ \E c \in Channel : ChannelCanStep(c)
        \/ \E e \in Entry : WatcherCanStep(e)

\* No channel keeps the watcher of a path whose clients are gone, and no entry is left
\* without a watcher: the safety half of IdleWatcherStops (watch.rs:202-205, 357-362).
THEOREM IdleWatchIsSeen == Spec => []IdleSeen
<1>1. Init => IdleInv
  BY DEF Init, IdleInv
<1>2. WatchInv /\ IdleInv => IdleSeen
  <2> SUFFICES ASSUME WatchInv, IdleInv, Present = {}, Quiet,
                      \A c \in Channel : ~ChannelCanStep(c),
                      \A e \in Entry : ~WatcherCanStep(e)
               PROVE  watchers = None /\ \A e \in Entry : task[e] \in {"none", "ended"}
    BY DEF IdleSeen
  <2> USE DEF WatchInv, TypeOK
  \* Who still listens does so to a watcher that is over.
  <2>1. ASSUME NEW c \in Channel, chan[c] \in {"subscribed", "listening"}
        PROVE  c \in late
    BY <2>1 DEF ChannelCanStep, Present
  <2>2. ASSUME NEW e \in Entry, task[e] = "watching" PROVE FALSE
    <3>1. Receivers(e) = {}
      BY <2>1, <2>2 DEF Receivers, Listens, IdleInv
    <3> QED BY <2>2, <3>1 DEF Quiet, WatcherCanStep
  <2>3. \A e \in Entry : task[e] \in {"none", "ended"}
    BY <2>2 DEF WatcherCanStep
  <2>4. CASE watchers # None
    <3>1. task[watchers] = "none"
      BY <2>3, <2>4 DEF EntryInv
    <3> QED BY <2>4, <3>1 DEF IdleInv, ChannelCanStep
  <2> QED BY <2>3, <2>4
<1>3. Spec => []WatchInv
  BY WatchInit, WatchStep, PTL DEF Spec
<1> QED BY <1>1, <1>2, <1>3, IdleStep, PTL DEF Spec
=============================================================================
