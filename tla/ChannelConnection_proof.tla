----------------------- MODULE ChannelConnection_proof -----------------------
(***************************************************************************)
(* Proofs about ChannelConnection, for any number of joins of a topic and  *)
(* any number of messages.                                                 *)
(***************************************************************************)
EXTENDS ChannelConnection, SequenceTheorems, TLAPS

USE ConstantsAssumption

\* What ties the map to the client's view of the topic: a handle in the map is
\* always that of the client's current join, and that join lacks its handle only
\* if another exit removed it or its own end was processed.
HandleInv ==
    /\ channels # None => channels = current
    /\ current # None => task[current] # "none"
    /\ NoDeadHandle
    /\ open /\ current # None /\ channels # current
          => current \in stolen \/ task[current] = "reaped"
    /\ \A j \in Join : task[j] = "returned" => j \in told
    /\ NoCrossTalk
    /\ EndAnnounced

ConnectionInv == TypeOK /\ HandleInv

\* A fresh connection has no channels.
LEMMA ConnectionInit == Init => ConnectionInv
  BY DEF Init, ConnectionInv, HandleInv, TypeOK, NoDeadHandle, NoCrossTalk,
         EndAnnounced, Live

\* Every step of the loop and of a channel task keeps the types.
LEMMA ConnectionTypeStep == TypeOK /\ [Next]_vars => TypeOK'
<1> SUFFICES ASSUME TypeOK, [Next]_vars PROVE TypeOK'
  OBVIOUS
<1> USE DEF TypeOK, Live, Goto, vars
<1>1. CASE HandleLeave BY <1>1 DEF HandleLeave
<1>2. CASE HandleMessage BY <1>2 DEF HandleMessage
<1>3. CASE Close BY <1>3 DEF Close
<1>4. CASE TxEnd BY <1>4 DEF TxEnd
<1>5. ASSUME NEW j \in Join, HandleJoin(j) PROVE TypeOK'
  BY <1>5 DEF HandleJoin
<1>6. ASSUME NEW j \in Join, Reap(j) PROVE TypeOK'
  BY <1>6 DEF Reap
<1>7. ASSUME NEW j \in Join, Start(j) PROVE TypeOK'
  BY <1>7 DEF Start
<1>8. ASSUME NEW j \in Join, Receive(j) PROVE TypeOK'
  BY <1>8 DEF Receive
<1>9. ASSUME NEW j \in Join, SeeClosed(j) PROVE TypeOK'
  BY <1>9 DEF SeeClosed
<1>10. ASSUME NEW j \in Join, Return(j) PROVE TypeOK'
  BY <1>10 DEF Return
<1>11. ASSUME NEW j \in Join, Panic(j) PROVE TypeOK'
  BY <1>11 DEF Panic
<1>12. CASE UNCHANGED vars BY <1>12
<1> QED BY <1>1, <1>2, <1>3, <1>4, <1>5, <1>6, <1>7, <1>8, <1>9, <1>10, <1>11,
           <1>12 DEF Next, TaskStep

\* Forwarding a message to the handle in the map keeps every inbox clean.
LEMMA ForwardClean ==
  ASSUME TypeOK, NoCrossTalk, channels # None => channels = current,
         HandleMessage
  PROVE  NoCrossTalk'
<1>1. CASE channels = None
  BY <1>1 DEF HandleMessage, NoCrossTalk
<1>2. CASE channels # None
  <2>1. inbox' = [inbox EXCEPT ![channels] = Append(@, channels)]
    BY <1>2 DEF HandleMessage
  <2> SUFFICES ASSUME NEW j \in Join, NEW i \in DOMAIN inbox'[j]
               PROVE  inbox'[j][i] = j
    BY DEF NoCrossTalk
  <2>2. CASE j # channels
    BY <2>1, <2>2 DEF NoCrossTalk, TypeOK
  <2>3. CASE j = channels
    <3>1. inbox[j] \in Seq(Join) /\ inbox'[j] = Append(inbox[j], j)
      BY <2>1, <2>3 DEF TypeOK
    <3>2. /\ \A k \in 1 .. Len(inbox[j]) : Append(inbox[j], j)[k] = inbox[j][k]
          /\ Append(inbox[j], j)[Len(inbox[j]) + 1] = j
          /\ DOMAIN Append(inbox[j], j) = 1 .. Len(inbox[j]) + 1
      BY <3>1, AppendProperties
    <3>3. DOMAIN inbox[j] = 1 .. Len(inbox[j]) /\ Len(inbox[j]) \in Nat
      BY <3>1
    <3> QED BY <3>1, <3>2, <3>3 DEF NoCrossTalk
  <2> QED BY <2>2, <2>3
<1> QED BY <1>1, <1>2

\* Receiving the head of an inbox keeps the rest of it clean.
LEMMA ReceiveClean ==
  ASSUME TypeOK, NoCrossTalk, NEW j \in Join, Receive(j)
  PROVE  NoCrossTalk'
<1> SUFFICES ASSUME NEW k \in Join, NEW i \in DOMAIN inbox'[k]
             PROVE  inbox'[k][i] = k
  BY DEF NoCrossTalk
<1>1. CASE k # j
  BY <1>1 DEF Receive, NoCrossTalk, TypeOK
<1>2. CASE k = j
  <2>1. /\ inbox[j] \in Seq(Join) /\ inbox[j] # <<>>
        /\ inbox'[k] = Tail(inbox[j])
    BY <1>2 DEF Receive, TypeOK
  <2>2. /\ DOMAIN Tail(inbox[j]) = 1 .. Len(inbox[j]) - 1
        /\ \A l \in 1 .. Len(inbox[j]) - 1 : Tail(inbox[j])[l] = inbox[j][l + 1]
        /\ DOMAIN inbox[j] = 1 .. Len(inbox[j]) /\ Len(inbox[j]) \in Nat
    BY <2>1
  <2> QED BY <1>2, <2>1, <2>2 DEF NoCrossTalk
<1> QED BY <1>1, <1>2

\* Every step keeps the map and the client's view of the topic together.
LEMMA HandleStep == TypeOK /\ HandleInv /\ [Next]_vars => HandleInv'
<1> SUFFICES ASSUME TypeOK, HandleInv, [Next]_vars PROVE HandleInv'
  OBVIOUS
<1>1. NoCrossTalk'
  <2>1. CASE HandleMessage
    BY <2>1, ForwardClean DEF HandleInv
  <2>2. ASSUME NEW j \in Join, Receive(j) PROVE NoCrossTalk'
    BY <2>2, ReceiveClean DEF HandleInv
  <2>3. CASE UNCHANGED inbox
    BY <2>3 DEF HandleInv, NoCrossTalk
  <2> QED
    BY <2>1, <2>2, <2>3 DEF Next, TaskStep, HandleLeave, Close, TxEnd, HandleJoin,
       Reap, Start, SeeClosed, Return, Panic, vars
<1> DEFINE Rest ==
      /\ channels # None => channels = current
      /\ current # None => task[current] # "none"
      /\ NoDeadHandle
      /\ open /\ current # None /\ channels # current
            => current \in stolen \/ task[current] = "reaped"
      /\ \A j \in Join : task[j] = "returned" => j \in told
      /\ EndAnnounced
<1>2. Rest'
  <2> USE DEF HandleInv, NoDeadHandle, EndAnnounced, TypeOK, Live, Goto, vars
  <2>1. CASE HandleLeave BY <2>1 DEF HandleLeave
  <2>2. CASE HandleMessage BY <2>2 DEF HandleMessage
  <2>3. CASE Close BY <2>3 DEF Close
  <2>4. CASE TxEnd BY <2>4 DEF TxEnd
  <2>5. ASSUME NEW j \in Join, HandleJoin(j) PROVE Rest'
    BY <2>5 DEF HandleJoin
  <2>6. ASSUME NEW j \in Join, Reap(j) PROVE Rest'
    BY <2>6 DEF Reap
  <2>7. ASSUME NEW j \in Join, Start(j) PROVE Rest'
    BY <2>7 DEF Start
  <2>8. ASSUME NEW j \in Join, Receive(j) PROVE Rest'
    BY <2>8 DEF Receive
  <2>9. ASSUME NEW j \in Join, SeeClosed(j) PROVE Rest'
    BY <2>9 DEF SeeClosed
  <2>10. ASSUME NEW j \in Join, Return(j) PROVE Rest'
    BY <2>10 DEF Return
  <2>11. ASSUME NEW j \in Join, Panic(j) PROVE Rest'
    BY <2>11 DEF Panic
  <2>12. CASE UNCHANGED vars BY <2>12
  <2> QED BY <2>1, <2>2, <2>3, <2>4, <2>5, <2>6, <2>7, <2>8, <2>9, <2>10, <2>11,
             <2>12 DEF Next, TaskStep
<1> QED BY <1>1, <1>2 DEF HandleInv

\* The connection invariant holds in every reachable state.
THEOREM ConnectionCorrect == Spec => []ConnectionInv
<1>1. ConnectionInv /\ [Next]_vars => ConnectionInv'
  BY ConnectionTypeStep, HandleStep DEF ConnectionInv
<1> QED BY <1>1, ConnectionInit, PTL DEF Spec

\* However often a topic is left and joined again, no channel receives a message
\* the client meant for another join.
THEOREM MessagesReachTheirJoin == Spec => []NoCrossTalk
<1>1. ConnectionInv => NoCrossTalk BY DEF ConnectionInv, HandleInv
<1> QED BY <1>1, ConnectionCorrect, PTL

\* No handle in the map belongs to a channel whose end was processed.
THEOREM HandlesAreLive == Spec => []NoDeadHandle
<1>1. ConnectionInv => NoDeadHandle BY DEF ConnectionInv, HandleInv
<1> QED BY <1>1, ConnectionCorrect, PTL

\* A client is told of the end of its channel, unless the channel's handle was
\* removed on behalf of an older join.
THEOREM EndsAreAnnounced == Spec => []EndAnnounced
<1>1. ConnectionInv => EndAnnounced BY DEF ConnectionInv, HandleInv
<1> QED BY <1>1, ConnectionCorrect, PTL

-----------------------------------------------------------------------------
\* How a channel ends: what EndsWithConnection needs of the model besides fairness

\* The end of the connection drops the handle.
ClosedInv == ~open => channels = None

\* What the task of a join has before it: its stages and the messages queued for it.
TaskLeft(j) ==
    Len(inbox[j]) +
        CASE task[j] = "none" -> 5
          [] task[j] = "starting" -> 4
          [] task[j] = "running" -> 3
          [] task[j] = "closing" -> 2
          [] task[j] \in {"returned", "panicked"} -> 1
          [] task[j] = "reaped" -> 0

\* A channel whose handle was dropped gets none again, and every step of it brings its
\* end nearer.
DroppedWindsUp ==
    [][\A j \in Join :
          channels # j /\ task[j] # "none" =>
              /\ channels' # j
              /\ \/ UNCHANGED <<task[j], inbox[j]>>
                 \/ TaskLeft(j)' \in Nat /\ TaskLeft(j)' < TaskLeft(j)]_vars

\* A channel takes finitely many steps once its client left, superseded it or
\* disconnected: no message for another join keeps it going, and no later join gives it
\* a handle again.
THEOREM DroppedEnds == Spec => []ClosedInv /\ DroppedWindsUp
<1> DEFINE Winds(j) == /\ channels' # j
                       /\ \/ UNCHANGED <<task[j], inbox[j]>>
                          \/ TaskLeft(j)' \in Nat /\ TaskLeft(j)' < TaskLeft(j)
           A == \A j \in Join : channels # j /\ task[j] # "none" => Winds(j)
<1>1. Init => ClosedInv
  BY DEF Init, ClosedInv
<1>2. ClosedInv /\ [Next]_vars => ClosedInv'
  BY DEF ClosedInv, Next, TaskStep, HandleLeave, HandleMessage, Close, TxEnd, HandleJoin,
     Reap, Start, Receive, SeeClosed, Return, Panic, vars
<1>3. TypeOK /\ [Next]_vars => [A]_vars
  <2> SUFFICES ASSUME TypeOK, [Next]_vars, NEW j \in Join, channels # j, task[j] # "none"
               PROVE  Winds(j)
    OBVIOUS
  <2>1. Len(inbox[j]) \in Nat
    BY DEF TypeOK
  <2>2. CASE UNCHANGED <<channels, task, inbox>>
    BY <2>2
  <2>3. CASE HandleLeave \/ Close
    BY <2>3 DEF TypeOK, HandleLeave, Close
  <2>4. CASE HandleMessage
    BY <2>4 DEF TypeOK, HandleMessage
  <2>5. ASSUME NEW k \in Join, HandleJoin(k) PROVE Winds(j)
    BY <2>5 DEF TypeOK, HandleJoin, Goto
  <2>6. ASSUME NEW k \in Join, Receive(k) PROVE Winds(j)
    <3>1. CASE k = j
      <4>1. /\ inbox[j] \in Seq(Join) /\ inbox[j] # <<>> /\ task[j] = "running"
            /\ inbox'[j] = Tail(inbox[j]) /\ UNCHANGED <<channels, task>>
        BY <2>6, <3>1 DEF TypeOK, Receive
      <4>2. Len(inbox'[j]) = Len(inbox[j]) - 1 /\ Len(inbox'[j]) \in Nat
        BY <4>1
      <4> QED BY <2>1, <4>1, <4>2 DEF TaskLeft
    <3>2. CASE k # j
      BY <2>6, <3>2 DEF TypeOK, Receive
    <3> QED BY <3>1, <3>2
  <2>7. ASSUME NEW k \in Join, Reap(k) \/ Start(k) \/ SeeClosed(k) \/ Return(k) \/ Panic(k)
        PROVE  Winds(j)
    <3>1. channels' # j /\ UNCHANGED inbox
      BY <2>7 DEF Reap, Start, SeeClosed, Return, Panic
    <3>2. CASE k # j
      BY <2>7, <3>1, <3>2 DEF TypeOK, Reap, Start, SeeClosed, Return, Panic, Goto
    <3>3. CASE k = j
      <4>1. \/ task[j] \in {"returned", "panicked"} /\ task'[j] = "reaped"
            \/ task[j] = "starting" /\ task'[j] \in {"running", "returned"}
            \/ task[j] = "running" /\ task'[j] \in {"closing", "returned"}
            \/ task[j] = "closing" /\ task'[j] = "returned"
            \/ task[j] \in {"starting", "running", "closing"} /\ task'[j] = "panicked"
        BY <2>7, <3>3 DEF TypeOK, Reap, Start, SeeClosed, Return, Panic, Goto, Live
      <4> QED BY <2>1, <3>1, <4>1 DEF TaskLeft
    <3> QED BY <3>2, <3>3
  <2> QED BY <2>2, <2>3, <2>4, <2>5, <2>6, <2>7 DEF Next, TaskStep, TxEnd, vars
<1>4. ConnectionInv => TypeOK
  BY DEF ConnectionInv
<1> QED BY <1>1, <1>2, <1>3, <1>4, ConnectionCorrect, PTL DEF Spec, DroppedWindsUp
=============================================================================
