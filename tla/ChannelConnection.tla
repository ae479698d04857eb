-------------------------- MODULE ChannelConnection --------------------------
(***************************************************************************)
(* One WebSocket connection and the channels of one topic on it            *)
(* (tidewave-core/src/ws/connection.rs).  The receive loop keeps a map     *)
(* from topics to handles; the entry of one topic is modelled, the others  *)
(* are independent of it.  The client may leave a topic and join it again, *)
(* so several channel tasks of the topic can be alive at once.             *)
(*                                                                         *)
(* A channel's incoming_rx ends when its handle, the only sender, is       *)
(* dropped from the map; messages queued before that are still received.   *)
(* select! picks any branch that is ready, so the loop may handle a join   *)
(* before or after the exit of an older channel of the topic.              *)
(***************************************************************************)
EXTENDS Integers, Sequences

CONSTANTS
    Join,       \* joins of the topic, by join_ref: the client never reuses one
    None,       \* no handle, no join
    MaxMessages \* bound: messages the client sends to the topic

ASSUME ConstantsAssumption ==
    /\ None \notin Join
    /\ MaxMessages \in Nat

VARIABLES
    open,      \* the receive loop runs
    txTask,    \* the task that writes to the WebSocket runs
    channels,  \* the join whose handle the map holds for the topic
    task,      \* where the channel task of each join stands
    inbox,     \* messages forwarded to each channel; of each, the join it is for
    told,      \* joins whose end was announced: close, error or refusal
    current,   \* the client's join of the topic, None before and after
    sent,      \* messages the client has sent so far
    stolen     \* history: joins whose handle the exit of another one removed

vars == <<open, txTask, channels, task, inbox, told, current, sent, stolen>>

Live == {"starting", "running", "closing"}

\* The type invariant.
TypeOK ==
    /\ open \in BOOLEAN /\ txTask \in BOOLEAN
    /\ channels \in Join \cup {None}
    /\ task \in [Join -> {"none", "returned", "panicked", "reaped"} \cup Live]
    /\ inbox \in [Join -> Seq(Join)]
    /\ told \in SUBSET Join
    /\ current \in Join \cup {None}
    /\ sent \in 0 .. MaxMessages
    /\ stolen \in SUBSET Join

Init ==
    /\ open = TRUE /\ txTask = TRUE
    /\ channels = None
    /\ task = [j \in Join |-> "none"]
    /\ inbox = [j \in Join |-> <<>>]
    /\ told = {}
    /\ current = None /\ sent = 0
    /\ stolen = {}

Goto(j, l) == task' = [task EXCEPT ![j] = l]

-----------------------------------------------------------------------------
\* The receive loop: handle_incoming_message

\* Faulty variant of HandleJoin: a handle that is there already is kept.
HandleJoinKeeping(j) ==
    /\ open
    /\ task[j] = "none"
    /\ channels' = IF channels = None THEN j ELSE channels
    /\ Goto(j, "starting")
    /\ current' = j
    /\ UNCHANGED <<open, txTask, inbox, told, sent, stolen>>

\* phx_join: the channel task is spawned, its handle replaces an older one.
HandleJoin(j) ==
    /\ open
    /\ task[j] = "none"
    /\ channels' = j
    /\ Goto(j, "starting")
    /\ current' = j
    /\ UNCHANGED <<open, txTask, inbox, told, sent, stolen>>

\* phx_leave drops the handle.
HandleLeave ==
    /\ open
    /\ current # None
    /\ channels' = None
    /\ current' = None
    /\ UNCHANGED <<open, txTask, task, inbox, told, sent, stolen>>

\* Any other event is forwarded by topic, or dropped if there is no handle.
HandleMessage ==
    /\ open
    /\ current # None /\ sent < MaxMessages
    /\ sent' = sent + 1
    /\ inbox' = IF channels # None
                THEN [inbox EXCEPT ![channels] = Append(@, current)]
                ELSE inbox
    /\ UNCHANGED <<open, txTask, channels, task, told, current, stolen>>

-----------------------------------------------------------------------------
\* The receive loop: the end of a channel task and of the connection

\* Faulty variant of Reap: the panic is announced if no handle was left.
ReapTellingOthers(j) ==
    /\ open
    /\ task[j] \in {"returned", "panicked"}
    /\ channels' = None
    /\ told' = IF channels = None /\ task[j] = "panicked" THEN told \cup {j} ELSE told
    /\ stolen' = IF channels # j THEN stolen \cup ({channels} \ {None}) ELSE stolen
    /\ Goto(j, "reaped")
    /\ UNCHANGED <<open, txTask, inbox, current, sent>>

\* join_next: the topic's handle is removed, whichever join it belongs to, and a
\* panic is announced if there was one.
Reap(j) ==
    /\ open
    /\ task[j] \in {"returned", "panicked"}
    /\ channels' = None
    /\ told' = IF channels # None /\ task[j] = "panicked" THEN told \cup {j} ELSE told
    /\ stolen' = IF channels # j THEN stolen \cup ({channels} \ {None}) ELSE stolen
    /\ Goto(j, "reaped")
    /\ UNCHANGED <<open, txTask, inbox, current, sent>>

\* Faulty variant of Close: the handles outlive the loop.
CloseKeepingHandles ==
    /\ open
    /\ open' = FALSE
    /\ current' = None
    /\ UNCHANGED <<txTask, channels, task, inbox, told, sent, stolen>>

\* The client closes the connection, it breaks, or tx_task has ended: the loop
\* ends and drops all handles.  The JoinSet goes with it, which detaches the
\* channel tasks without stopping them.
Close ==
    /\ open
    /\ open' = FALSE
    /\ channels' = None
    /\ current' = None
    /\ UNCHANGED <<txTask, task, inbox, told, sent, stolen>>

\* A write to the WebSocket fails, or every sender of outgoing_tx is gone.  (A
\* task that panics can leave a clone of its sender in the state of its feature,
\* and the writer waits for ever; so nothing is promised about its end.)
TxEnd ==
    /\ txTask
    /\ \/ open
       \/ \A j \in Join : task[j] \notin Live
    /\ txTask' = FALSE
    /\ UNCHANGED <<open, channels, task, inbox, told, current, sent, stolen>>

-----------------------------------------------------------------------------
\* The channel task of a join: its init function and reply_init

\* The join is accepted with an ok reply, or refused with an error reply.
Start(j) ==
    /\ task[j] = "starting"
    /\ \/ Goto(j, "running") /\ UNCHANGED told
       \/ Goto(j, "returned") /\ told' = told \cup {j}
    /\ UNCHANGED <<open, txTask, channels, inbox, current, sent, stolen>>

\* incoming_rx.recv() returns a message.
Receive(j) ==
    /\ task[j] = "running"
    /\ inbox[j] # <<>>
    /\ inbox' = [inbox EXCEPT ![j] = Tail(@)]
    /\ UNCHANGED <<open, txTask, channels, task, told, current, sent, stolen>>

\* incoming_rx.recv() returns None: the channel cleans up.
SeeClosed(j) ==
    /\ task[j] = "running"
    /\ inbox[j] = <<>> /\ channels # j
    /\ Goto(j, "closing")
    /\ UNCHANGED <<open, txTask, channels, inbox, told, current, sent, stolen>>

\* Cleanup is over (Done), or the feature ended by itself (Done or Shutdown):
\* phx_close or phx_error is sent.
Return(j) ==
    /\ task[j] \in {"running", "closing"}
    /\ Goto(j, "returned")
    /\ told' = told \cup {j}
    /\ UNCHANGED <<open, txTask, channels, inbox, current, sent, stolen>>

\* The task panics: nothing is sent.
Panic(j) ==
    /\ task[j] \in Live
    /\ Goto(j, "panicked")
    /\ UNCHANGED <<open, txTask, channels, inbox, told, current, sent, stolen>>

-----------------------------------------------------------------------------

TaskStep(j) ==
    \/ Start(j) \/ Receive(j) \/ SeeClosed(j)
    \/ task[j] = "closing" /\ Return(j)

Next ==
    \/ HandleLeave \/ HandleMessage \/ Close \/ TxEnd
    \/ \E j \in Join :
          \/ HandleJoin(j) \/ Reap(j)
          \/ TaskStep(j) \/ Return(j) \/ Panic(j)

Spec == Init /\ [][Next]_vars

\* Tokio polls every task that is ready, and the features return once they have seen that
\* their queue is closed: a terminal blocked in a system call is no such task (see
\* EndsOnDisconnect of Terminal).  Clients owe nothing, but once tx_task has ended the
\* loop notices.
Fairness ==
    /\ \A j \in Join : WF_vars(TaskStep(j)) /\ WF_vars(Reap(j))
    /\ WF_vars(~txTask /\ Close)

FairSpec == Spec /\ Fairness

-----------------------------------------------------------------------------
\* Properties

\* A channel is never handed a message the client sent to an earlier or a later
\* join of the topic, although messages are dispatched by topic alone.
NoCrossTalk ==
    \A j \in Join : \A i \in DOMAIN inbox[j] : inbox[j][i] = j

\* The map never keeps the handle of a channel whose end the loop has processed:
\* messages would vanish in it without a trace.
NoDeadHandle ==
    \A j \in Join : channels = j => task[j] # "reaped"

\* While the connection lives a client that still counts on a channel is told
\* when it ends, also by a panic, unless the late exit of an earlier join of the topic had
\* taken its handle (connection.rs:132).  The channel of a client that neither left nor
\* disconnected is closed then; when its task returns it says so itself, but if it panics
\* nobody does.
EndAnnounced ==
    \A j \in Join :
        open /\ current = j /\ task[j] = "reaped" => j \in told \cup stolen

\* When the connection ends or cannot be written to any more, every channel ends that
\* returns to its queue, also one that was left or superseded: none outlives its client ("dropping
\* `channels' closes all incoming senders, signaling each channel handler to
\* exit").
EndsWithConnection ==
    ~open \/ ~txTask ~> ~open /\ \A j \in Join : task[j] \notin Live
=============================================================================
