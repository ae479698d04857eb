----------------------------- MODULE AcpOutbox ------------------------------
(***************************************************************************)
(* How the messages of a session reach a client that disconnects and comes *)
(* back (tidewave-core/src/ws/acp.rs): every message of the agent is       *)
(* buffered before it is routed, a reconnecting client is replayed what it *)
(* missed, and acknowledged messages are pruned.                           *)
(*                                                                         *)
(* One session within its grace period and one client, whose connections   *)
(* are the channels: a connection that broke is noticed later, and until   *)
(* then the server keeps pushing to it.  Who may load the session, and its *)
(* lock, are the subject of AcpSession; here the session lock excludes.    *)
(***************************************************************************)
EXTENDS Integers, SequencesExt

CONSTANTS
    Channel,   \* the client's connections, one after another
    Prompt,    \* requests of the client to the agent, by id
    None,
    MaxMsg     \* bound: messages of the agent in the session

ASSUME ConstantsAssumption ==
    /\ None \notin Channel \cup Prompt \cup Int
    /\ \A p \in Prompt : p \notin Int
    /\ MaxMsg \in Nat

Emission == 1 .. MaxMsg

VARIABLES
    emitted,   \* messages the agent has sent: message e is the e-th of them
    notifs,    \* those that are notifications; the others are requests
    buffer,    \* message_buffer of the session
    readers,   \* channels that hold the read lock of the buffer
    owner,     \* the channel the session is mapped to
    pc,        \* where each channel's handler or cleanup stands
    up,        \* connections that still work
    pipe,      \* what was pushed to each working connection and not received yet
    lost,      \* history: prompts whose answer went down with a connection
    prompt,    \* the channel that sent a prompt, None before and after
    answered,  \* prompts the stdout task has taken the answer of
    stdout,    \* the message the stdout task is routing
    seen,      \* messages the client has received
    latest     \* the latest_id the client would send: its last notification

clientVars == <<up, seen, latest>>
agentVars  == <<emitted, notifs, prompt, answered>>
pipeVars   == <<pipe, lost>>
vars == <<agentVars, buffer, readers, owner, pc, pipeVars, stdout, clientVars>>

Message == Emission \cup Prompt \cup {None}

IdleStdout == [stage |-> "idle", msg |-> None, ch |-> None, kept |-> FALSE]

\* The type invariant.
TypeOK ==
    /\ emitted \in 0 .. MaxMsg
    /\ notifs \in SUBSET Emission
    /\ buffer \in Seq(Emission \cup Prompt)
    /\ readers \in SUBSET {c \in Channel : pc[c] = "map"}
    /\ owner \in Channel \cup {None}
    /\ pc \in [Channel -> {"new", "open", "catchup", "map", "reply", "leaving", "left"}]
    /\ up \in SUBSET Channel
    /\ pipe \in [Channel -> Seq(Message)]
    /\ lost \in SUBSET Prompt
    /\ prompt \in [Prompt -> Channel \cup {None}]
    /\ answered \in SUBSET Prompt
    /\ stdout \in [stage : {"idle", "buffer", "route", "push"}, msg : Message,
                   ch : Channel \cup {None}, kept : BOOLEAN]
    /\ seen \in SUBSET Message
    /\ latest \in 0 .. MaxMsg

Init ==
    /\ emitted = 0 /\ notifs = {}
    /\ buffer = <<>> /\ readers = {}
    /\ owner = None
    /\ pc = [c \in Channel |-> "new"]
    /\ up = {}
    /\ pipe = [c \in Channel |-> <<>>] /\ lost = {}
    /\ prompt = [p \in Prompt |-> None]
    /\ answered = {}
    /\ stdout = IdleStdout
    /\ seen = {} /\ latest = 0

-----------------------------------------------------------------------------

\* channel_senders.contains_key(c)
HasSender(c) == pc[c] \notin {"new", "leaving", "left"}

Goto(c, l) == pc' = [pc EXCEPT ![c] = l]

\* ChannelSender::push: unbounded, and it does not tell when the connection is
\* gone already.
PushTo(c, msgs) ==
    /\ pipe' = IF c \in up THEN [pipe EXCEPT ![c] = @ \o msgs] ELSE pipe
    /\ lost' = IF c \in up THEN lost ELSE lost \cup (ToSet(msgs) \cap Prompt)

\* Faulty variant of BufferedAfter: nothing is replayed for a pruned id.
BufferedAfterKnown(id) ==
    LET at == {i \in DOMAIN buffer : buffer[i] = id}
        from == IF id = 0 THEN 1 ELSE IF at = {} THEN Len(buffer) + 1 ELSE Max(at) + 1
    IN  SubSeq(buffer, from, Len(buffer))

\* get_buffered_messages_after: all of the buffer if the id is not in it.
BufferedAfter(id) ==
    IF \E i \in DOMAIN buffer : buffer[i] = id
    THEN SubSeq(buffer, (CHOOSE i \in DOMAIN buffer : buffer[i] = id) + 1, Len(buffer))
    ELSE buffer

\* Faulty variant of PruneBuffer: one message too many is drained.
PruneOneMore(id) ==
    \E i \in DOMAIN buffer :
        buffer[i] = id /\ buffer' = SubSeq(buffer, i + 2, Len(buffer))

\* prune_buffer, of an id that is in it; of any other nothing is pruned.
PruneBuffer(id) ==
    \E i \in DOMAIN buffer :
        buffer[i] = id /\ buffer' = SubSeq(buffer, i + 1, Len(buffer))

-----------------------------------------------------------------------------
\* The client

\* The client connects when it has no working connection left.
Connect(c) ==
    /\ pc[c] = "new" /\ up = {}
    /\ up' = {c}
    /\ Goto(c, "open")
    /\ UNCHANGED <<agentVars, buffer, readers, owner, pipeVars, stdout, seen, latest>>

\* The next pushed message arrives.  The answer to a load is None here.
Receive(c) ==
    /\ c \in up /\ pipe[c] # <<>>
    /\ seen' = seen \cup {Head(pipe[c])}
    /\ latest' = IF Head(pipe[c]) \in notifs THEN Head(pipe[c]) ELSE latest
    /\ pipe' = [pipe EXCEPT ![c] = Tail(@)]
    /\ UNCHANGED <<agentVars, buffer, readers, owner, pc, up, stdout, lost>>

\* The connection breaks: what was on its way is lost.
Disconnect(c) ==
    /\ c \in up
    /\ up' = up \ {c}
    /\ pipe' = [pipe EXCEPT ![c] = <<>>]
    /\ lost' = lost \cup (ToSet(pipe[c]) \cap Prompt)
    /\ UNCHANGED <<agentVars, buffer, readers, owner, pc, stdout, seen, latest>>

-----------------------------------------------------------------------------
\* The channel's handlers

\* _tidewave.ai/session/load is let in if no channel owns the session; the
\* session lock keeps other loads out until it is answered.
LoadCheck(c) ==
    /\ pc[c] = "open" /\ c \in up
    /\ owner = None
    /\ \A d \in Channel : pc[d] \notin {"catchup", "map", "reply"}
    /\ Goto(c, "catchup")
    /\ UNCHANGED <<agentVars, buffer, readers, owner, pipeVars, stdout, clientVars>>

\* Faulty variant of Catchup: the read lock ends with the streaming.
CatchupUnlocked(c) ==
    /\ pc[c] = "catchup"
    /\ PushTo(c, BufferedAfter(latest))
    /\ Goto(c, "map")
    /\ UNCHANGED <<agentVars, buffer, readers, owner, stdout, clientVars>>

\* The buffer is read-locked and what follows latest_id is streamed.  The client
\* fixed latest_id when it asked; it receives nothing in between.
Catchup(c) ==
    /\ pc[c] = "catchup"
    /\ readers' = readers \cup {c}
    /\ PushTo(c, BufferedAfter(latest))
    /\ Goto(c, "map")
    /\ UNCHANGED <<agentVars, buffer, owner, stdout, clientVars>>

\* map_session_channel; then the read lock is dropped.
Map(c) ==
    /\ pc[c] = "map"
    /\ owner' = c
    /\ readers' = readers \ {c}
    /\ Goto(c, "reply")
    /\ UNCHANGED <<agentVars, buffer, pipeVars, stdout, clientVars>>

\* The success response.
Reply(c) ==
    /\ pc[c] = "reply"
    /\ PushTo(c, <<None>>)
    /\ Goto(c, "open")
    /\ UNCHANGED <<agentVars, buffer, readers, owner, stdout, clientVars>>

\* _tidewave.ai/ack: the owner prunes the buffer up to its latest notification.
Ack(c) ==
    /\ pc[c] = "open" /\ c \in up /\ latest # 0
    /\ owner = c
    /\ readers = {}
    /\ PruneBuffer(latest)
    /\ UNCHANGED <<agentVars, readers, owner, pc, pipeVars, stdout, clientVars>>

\* The client sends a prompt; the channel forwards it.
SendPrompt(c, p) ==
    /\ pc[c] = "open" /\ c \in up
    /\ prompt[p] = None /\ p \notin answered
    /\ prompt' = [prompt EXCEPT ![p] = c]
    /\ UNCHANGED <<emitted, notifs, answered, buffer, readers, owner, pc, pipeVars,
                   stdout, clientVars>>

\* The channel notices that its connection is gone: channel_senders.remove ...
Leave(c) ==
    /\ pc[c] = "open" /\ c \notin up
    /\ Goto(c, "leaving")
    /\ UNCHANGED <<agentVars, buffer, readers, owner, pipeVars, stdout, clientVars>>

\* ... then its session loses its owner.
Unmap(c) ==
    /\ pc[c] = "leaving"
    /\ owner' = IF owner = c THEN None ELSE owner
    /\ Goto(c, "left")
    /\ UNCHANGED <<agentVars, buffer, readers, pipeVars, stdout, clientVars>>

-----------------------------------------------------------------------------
\* The stdout task

\* A notification or request of the agent is read from the pipe.
Emit ==
    /\ stdout.stage = "idle" /\ emitted < MaxMsg
    /\ emitted' = emitted + 1
    /\ notifs' \in {notifs, notifs \cup {emitted + 1}}
    /\ stdout' = [IdleStdout EXCEPT !.stage = "buffer", !.msg = emitted + 1]
    /\ UNCHANGED <<prompt, answered, buffer, readers, owner, pc, pipeVars, clientVars>>

\* The answer to a prompt goes to the channel that asked if it has a sender
\* (without being buffered), else to the session.
Respond(p) ==
    /\ stdout.stage = "idle" /\ prompt[p] # None
    /\ prompt' = [prompt EXCEPT ![p] = None]
    /\ answered' = answered \cup {p}
    /\ \/ /\ HasSender(prompt[p])
          /\ PushTo(prompt[p], <<p>>)
          /\ UNCHANGED stdout
       \/ /\ ~HasSender(prompt[p])
          /\ stdout' = [IdleStdout EXCEPT !.stage = "route", !.msg = p]
          /\ UNCHANGED pipeVars
    /\ UNCHANGED <<emitted, notifs, buffer, readers, owner, pc, clientVars>>

\* add_to_buffer, which waits for the readers.
AddToBuffer ==
    /\ stdout.stage = "buffer" /\ readers = {}
    /\ buffer' = Append(buffer, stdout.msg)
    /\ stdout' = [stdout EXCEPT !.stage = "route", !.kept = TRUE]
    /\ UNCHANGED <<agentVars, readers, owner, pc, pipeVars, clientVars>>

\* Faulty variant of NoRoute: an answer without a channel is dropped.
NoRouteDrop == stdout' = IdleStdout

\* No channel to push to: an answer that was not kept yet is, the rest is done.
NoRoute == stdout' = IF stdout.kept THEN IdleStdout
                     ELSE [stdout EXCEPT !.stage = "buffer", !.ch = None]

\* session_channel
Route ==
    /\ stdout.stage = "route"
    /\ \/ owner = None /\ NoRoute
       \/ owner # None /\ stdout' = [stdout EXCEPT !.stage = "push", !.ch = owner]
    /\ UNCHANGED <<agentVars, buffer, readers, owner, pc, pipeVars, clientVars>>

\* channel_senders.get and push
Push ==
    /\ stdout.stage = "push"
    /\ \/ /\ HasSender(stdout.ch)
          /\ PushTo(stdout.ch, <<stdout.msg>>)
          /\ stdout' = IdleStdout
       \/ /\ ~HasSender(stdout.ch)
          /\ NoRoute
          /\ UNCHANGED pipeVars
    /\ UNCHANGED <<agentVars, buffer, readers, owner, pc, clientVars>>

-----------------------------------------------------------------------------

Next ==
    \/ \E c \in Channel :
          \/ Connect(c) \/ Receive(c) \/ Disconnect(c)
          \/ LoadCheck(c) \/ Catchup(c) \/ Map(c) \/ Reply(c)
          \/ Ack(c) \/ Leave(c) \/ Unmap(c)
          \/ \E p \in Prompt : SendPrompt(c, p)
    \/ Emit \/ AddToBuffer \/ Route \/ Push
    \/ \E p \in Prompt : Respond(p)

Spec == Init /\ [][Next]_vars

-----------------------------------------------------------------------------

\* The client sees the agent's messages as one stream without gaps, across any
\* number of reconnections ("ATOMIC CATCHUP ... ensuring we don't miss any
\* messages").
ClientStream ==
    INSTANCE Stream WITH received <- Max({0} \cup (seen \cap Emission))

StreamSpec == ClientStream!Spec

\* A client that has loaded the session misses nothing: whatever the agent sent
\* before the message being routed, the client has seen or is being sent.
CaughtUp ==
    \A c \in Channel :
        owner = c /\ c \in up =>
            \A e \in 1 .. emitted :
                e \in seen \/ e \in ToSet(pipe[c]) \/ e = stdout.msg

\* The answer to a prompt is never dropped while its session lives: it was
\* received or is on its way, is buffered for the next connection, is being
\* routed, or it went down with a connection it had been pushed to.
AnswerKept ==
    \A p \in answered :
        \/ p \in seen \cup lost \cup ToSet(buffer)
        \/ \E c \in Channel : p \in ToSet(pipe[c])
        \/ p = stdout.msg

\* The client never loses ground: what it has not seen of the stream and is not
\* on its way to a working connection is still buffered or being buffered, so the
\* next load can replay it.
UnseenKept ==
    \A e \in 1 .. emitted :
        \/ e \in seen
        \/ e \in ToSet(buffer)
        \/ e = stdout.msg
=============================================================================
