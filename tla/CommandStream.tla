---------------------------- MODULE CommandStream ----------------------------
(***************************************************************************)
(* Commands run for HTTP requests: shell_handler and cmd_handler spawn one *)
(* in a process group of its own, stream_process_response streams what it  *)
(* writes and then its status (tidewave-core/src/server.rs), and dropping  *)
(* a ChildProcess kills the group (tidewave-core/src/command.rs).          *)
(*                                                                         *)
(* The child may leave descendants in its group, which hold its pipes open *)
(* when it has exited.  A pipe holds one chunk; what a chunk says does not *)
(* matter.                                                                 *)
(***************************************************************************)
EXTENDS FiniteSets

CONSTANT Command   \* requests that run a command

Pipe == {"stdout", "stderr"}

VARIABLES
    stream,     \* where the response of each command stands
    reading,    \* pipes it still reads
    child,      \* the child: "running", "exited" (not waited for), "reaped"
    descendant, \* commands with a descendant alive in the group
    held,       \* pipes the group holds open
    unread,     \* pipes with a chunk nobody has read
    failed      \* commands of which a pipe could not be read

commandVars == <<stream, reading, child, descendant, held, unread, failed>>

CommandTypeOK ==
    /\ stream \in [Command -> {"none", "stream", "wait", "status", "dropped"}]
    /\ reading \in [Command -> SUBSET Pipe]
    /\ child \in [Command -> {"none", "running", "exited", "reaped"}]
    /\ descendant \in SUBSET Command
    /\ held \in [Command -> SUBSET Pipe]
    /\ unread \in [Command -> SUBSET Pipe]
    /\ failed \in SUBSET Command

CommandInit ==
    /\ stream = [c \in Command |-> "none"]
    /\ reading = [c \in Command |-> {}]
    /\ child = [c \in Command |-> "none"]
    /\ descendant = {}
    /\ held = [c \in Command |-> {}]
    /\ unread = [c \in Command |-> {}]
    /\ failed = {}

GroupAlive(c) == child[c] = "running" \/ c \in descendant

-----------------------------------------------------------------------------
\* The process group

\* spawn_command; a failure to spawn is answered with an error and leaves nothing.
Spawn(c) ==
    /\ stream[c] = "none"
    /\ stream' = [stream EXCEPT ![c] = "stream"]
    /\ reading' = [reading EXCEPT ![c] = Pipe]
    /\ child' = [child EXCEPT ![c] = "running"]
    /\ held' = [held EXCEPT ![c] = Pipe]
    /\ UNCHANGED <<descendant, unread, failed>>

Fork(c) ==
    /\ child[c] = "running"
    /\ descendant' = descendant \cup {c}
    /\ UNCHANGED <<stream, reading, child, held, unread, failed>>

Output(c, p) ==
    /\ GroupAlive(c) /\ p \in held[c]
    /\ unread' = [unread EXCEPT ![c] = @ \cup {p}]
    /\ UNCHANGED <<stream, reading, child, descendant, held, failed>>

\* The group closes a pipe and runs on.
ClosePipe(c, p) ==
    /\ GroupAlive(c) /\ p \in held[c]
    /\ held' = [held EXCEPT ![c] = @ \ {p}]
    /\ UNCHANGED <<stream, reading, child, descendant, unread, failed>>

\* With the last process of the group its ends of the pipes are closed.
ChildExits(c) ==
    /\ child[c] = "running"
    /\ child' = [child EXCEPT ![c] = "exited"]
    /\ held' = IF c \in descendant THEN held ELSE [held EXCEPT ![c] = {}]
    /\ UNCHANGED <<stream, reading, descendant, unread, failed>>

DescendantExits(c) ==
    /\ c \in descendant
    /\ descendant' = descendant \ {c}
    /\ held' = IF child[c] = "running" THEN held ELSE [held EXCEPT ![c] = {}]
    /\ UNCHANGED <<stream, reading, child, unread, failed>>

-----------------------------------------------------------------------------
\* stream_process_response

\* The loop of select! ends when no pipe is left to read.
After(c, pipes) == [stream EXCEPT ![c] = IF pipes = {} THEN "wait" ELSE @]

\* A chunk is read and passed on.
ReadChunk(c, p) ==
    /\ stream[c] = "stream" /\ p \in reading[c] /\ p \in unread[c]
    /\ unread' = [unread EXCEPT ![c] = @ \ {p}]
    /\ UNCHANGED <<stream, reading, child, descendant, held, failed>>

\* Faulty variant of ReadEnd: the end of one pipe ends the loop.
ReadEndOfEither(c, p) ==
    /\ stream[c] = "stream" /\ p \in reading[c] /\ p \notin unread[c] /\ p \notin held[c]
    /\ reading' = [reading EXCEPT ![c] = {}]
    /\ stream' = After(c, {})
    /\ UNCHANGED <<child, descendant, held, unread, failed>>

\* The end of a pipe: everyone who held it has closed it, and it is empty.
ReadEnd(c, p) ==
    /\ stream[c] = "stream" /\ p \in reading[c] /\ p \notin unread[c] /\ p \notin held[c]
    /\ reading' = [reading EXCEPT ![c] = @ \ {p}]
    /\ stream' = After(c, reading[c] \ {p})
    /\ UNCHANGED <<child, descendant, held, unread, failed>>

\* A read fails: the error is passed on, and both pipes are left as they are.
ReadFails(c, p) ==
    /\ stream[c] = "stream" /\ p \in reading[c]
    /\ failed' = failed \cup {c}
    /\ stream' = After(c, {})
    /\ UNCHANGED <<reading, child, descendant, held, unread>>

\* The child is taken from its holder and waited for; the status is the last chunk.
\* A child that was waited for has no id any more, so its drop kills nothing.
WaitChild(c) ==
    /\ stream[c] = "wait" /\ child[c] = "exited"
    /\ stream' = [stream EXCEPT ![c] = "status"]
    /\ child' = [child EXCEPT ![c] = "reaped"]
    /\ UNCHANGED <<reading, descendant, held, unread, failed>>

Streaming(c) == stream[c] \in {"stream", "wait"}

\* The response is dropped with the connection, and with it the ChildProcess: the
\* group is killed, for the child has not been waited for.  Its pid cannot name
\* another process, as it has not been reaped.
Drop(c) ==
    /\ Streaming(c)
    /\ stream' = [stream EXCEPT ![c] = "dropped"]
    /\ reading' = [reading EXCEPT ![c] = {}]
    /\ child' = [child EXCEPT ![c] = "exited"]
    /\ descendant' = descendant \ {c}
    /\ held' = [held EXCEPT ![c] = {}]
    /\ UNCHANGED <<unread, failed>>

\* The steps of the server for command c that the scheduler owes it.
StreamStep(c) ==
    \/ \E p \in Pipe : ReadChunk(c, p) \/ ReadEnd(c, p)
    \/ WaitChild(c)

GroupStep(c) ==
    \/ Fork(c) \/ ChildExits(c) \/ DescendantExits(c)
    \/ \E p \in Pipe : Output(c, p) \/ ClosePipe(c, p)

-----------------------------------------------------------------------------
\* Safety

\* The status is the end of the response: what either pipe carried came before it,
\* and nothing of the group can still write to one, descendants included, unless a
\* read failed.
StatusAfterOutput ==
    \A c \in Command :
        stream[c] = "status" /\ c \notin failed => held[c] = {} /\ unread[c] = {}
=============================================================================
