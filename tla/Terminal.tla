------------------------------ MODULE Terminal -------------------------------
(***************************************************************************)
(* One terminal channel (tidewave-core/src/ws/terminal.rs): a shell behind *)
(* a pseudo terminal, a blocking thread that reads its output into a       *)
(* bounded queue, and the event loop that passes output to the client and  *)
(* input to the shell.                                                     *)
(*                                                                         *)
(* Input and output are counted in units, one chunk each.  The buffers of  *)
(* the pseudo terminal are bounded in both directions, and the loop writes *)
(* to it with a blocking call.  As on Linux, the terminal stays open while *)
(* any process holds its other end, the shell or a descendant of it that   *)
(* outlives it, and nobody makes a program read its input.                 *)
(***************************************************************************)
EXTENDS Naturals

CONSTANTS
    Capacity,    \* of the output queue (64 in the code)
    InCapacity,  \* of the terminal's input buffer
    OutCapacity, \* of its output buffer
    InputSize,   \* units in an input message
    MaxInput,    \* messages of the client
    MaxOutput    \* units of output of the shell and its descendants

ASSUME TerminalAssumption ==
    /\ {Capacity, InCapacity, OutCapacity, InputSize} \subseteq Nat \ {0}
    /\ {MaxInput, MaxOutput} \subseteq Nat

VARIABLES
    inbox,      \* messages in incoming_rx
    typed,      \* messages sent so far
    gone,       \* the channel's handle is dropped: the client left or disconnected
    loop,       \* where the event loop stands
    left,       \* units of the message it still has to write
    ptyIn,      \* units the shell has not read
    ptyOut,     \* units the reader has not read
    reader,     \* where the reader stands
    queue,      \* units in output_rx
    shell,      \* "running", "detached" (it closed the terminal), or "exited"
    jobs,       \* whether descendants of the shell hold the terminal
    reads,      \* whether the program in the foreground reads its input
    pending,    \* whether it has a unit to write
    written,    \* units written to the terminal
    sent,       \* units pushed to the client
    exitTold    \* whether "exit" was pushed to the client

clientVars == <<inbox, typed, gone>>
shellVars  == <<shell, jobs, reads, pending, written>>
terminalVars ==
    <<clientVars, loop, left, ptyIn, ptyOut, reader, queue, shellVars, sent, exitTold>>

\* The type invariant.
TerminalTypeOK ==
    /\ inbox \in Nat /\ typed \in Nat /\ gone \in BOOLEAN
    /\ loop \in {"select", "write", "wait", "ended"}
    /\ left \in 0 .. InputSize
    /\ ptyIn \in 0 .. InCapacity /\ ptyOut \in 0 .. OutCapacity
    /\ reader \in {"read", "send", "ended"}
    /\ queue \in 0 .. Capacity
    /\ shell \in {"running", "detached", "exited"}
    /\ jobs \in BOOLEAN /\ reads \in BOOLEAN /\ pending \in BOOLEAN
    /\ written \in Nat /\ sent \in Nat /\ exitTold \in BOOLEAN

\* The join succeeded and was answered: the shell runs, the reader is spawned.
TerminalInit ==
    /\ inbox = 0 /\ typed = 0 /\ gone = FALSE
    /\ loop = "select" /\ left = 0
    /\ ptyIn = 0 /\ ptyOut = 0
    /\ reader = "read" /\ queue = 0
    /\ shell = "running" /\ jobs = FALSE /\ reads = TRUE /\ pending = FALSE
    /\ written = 0 /\ sent = 0 /\ exitTold = FALSE

\* Somebody holds the other end of the terminal.
PtyOpen == shell = "running" \/ jobs

-----------------------------------------------------------------------------
\* The client

Type ==
    /\ ~gone /\ typed < MaxInput
    /\ typed' = typed + 1 /\ inbox' = inbox + 1
    /\ UNCHANGED <<gone, loop, left, ptyIn, ptyOut, reader, queue, shellVars, sent, exitTold>>

Disconnect ==
    /\ ~gone
    /\ gone' = TRUE
    /\ UNCHANGED <<inbox, typed, loop, left, ptyIn, ptyOut, reader, queue, shellVars,
                   sent, exitTold>>

-----------------------------------------------------------------------------
\* The program in the foreground, the shell or one it waits for: it reads its input when
\* it has nothing to write, if it reads it at all

ShellRead ==
    /\ shell = "running" /\ reads /\ ~pending /\ ptyIn > 0
    /\ ptyIn' = ptyIn - 1
    /\ UNCHANGED <<clientVars, loop, left, ptyOut, reader, queue, shellVars, sent, exitTold>>

\* Another program comes to the foreground, or this one turns to other things.
ShellTurns ==
    /\ shell = "running" /\ ~pending
    /\ reads' = ~reads
    /\ UNCHANGED <<clientVars, loop, left, ptyIn, ptyOut, reader, queue, shell, jobs,
                   pending, written, sent, exitTold>>

ShellOutput ==
    /\ shell = "running" /\ ~pending /\ written < MaxOutput
    /\ pending' = TRUE
    /\ UNCHANGED <<clientVars, loop, left, ptyIn, ptyOut, reader, queue, shell, jobs, reads,
                   written, sent, exitTold>>

\* It blocks while the buffer is full.
ShellWrite ==
    /\ shell = "running" /\ pending /\ ptyOut < OutCapacity
    /\ ptyOut' = ptyOut + 1
    /\ pending' = FALSE /\ written' = written + 1
    /\ UNCHANGED <<clientVars, loop, left, ptyIn, reader, queue, shell, jobs, reads, sent,
                   exitTold>>

\* The shell redirects its input and output elsewhere, as a daemon does, and runs on.
ShellDetach ==
    /\ shell = "running" /\ ~pending
    /\ shell' = "detached"
    /\ UNCHANGED <<clientVars, loop, left, ptyIn, ptyOut, reader, queue, jobs, reads,
                   pending, written, sent, exitTold>>

\* Its descendants may be told to hang up, and may ignore it.
ShellExit ==
    /\ shell # "exited"
    /\ shell' = "exited" /\ jobs' \in {jobs, FALSE} /\ pending' = FALSE
    /\ UNCHANGED <<clientVars, loop, left, ptyIn, ptyOut, reader, queue, reads, written,
                   sent, exitTold>>

-----------------------------------------------------------------------------
\* Descendants of the shell, which may do anything or nothing

JobStart ==
    /\ shell = "running" /\ ~jobs
    /\ jobs' = TRUE
    /\ UNCHANGED <<clientVars, loop, left, ptyIn, ptyOut, reader, queue, shell, reads,
                   pending, written, sent, exitTold>>

JobRead ==
    /\ jobs /\ ptyIn > 0
    /\ ptyIn' = ptyIn - 1
    /\ UNCHANGED <<clientVars, loop, left, ptyOut, reader, queue, shellVars, sent, exitTold>>

JobWrite ==
    /\ jobs /\ written < MaxOutput /\ ptyOut < OutCapacity
    /\ ptyOut' = ptyOut + 1 /\ written' = written + 1
    /\ UNCHANGED <<clientVars, loop, left, ptyIn, reader, queue, shell, jobs, reads,
                   pending, sent, exitTold>>

JobsEnd ==
    /\ jobs
    /\ jobs' = FALSE
    /\ UNCHANGED <<clientVars, loop, left, ptyIn, ptyOut, reader, queue, shell, reads,
                   pending, written, sent, exitTold>>

-----------------------------------------------------------------------------
\* The reader, a blocking thread

\* reader.read: what is left in the buffer comes before the end of the file.
ReaderRead ==
    /\ reader = "read"
    /\ \/ /\ ptyOut > 0
          /\ ptyOut' = ptyOut - 1
          /\ reader' = "send"
       \/ /\ ptyOut = 0 /\ ~PtyOpen
          /\ reader' = "ended"
          /\ UNCHANGED ptyOut
    /\ UNCHANGED <<clientVars, loop, left, ptyIn, queue, shellVars, sent, exitTold>>

\* output_tx.blocking_send: blocks while the queue is full, fails once the loop has
\* dropped its end.
ReaderSend ==
    /\ reader = "send"
    /\ \/ /\ loop # "ended" /\ queue < Capacity
          /\ queue' = queue + 1
          /\ reader' = "read"
       \/ /\ loop = "ended"
          /\ reader' = "ended"
          /\ UNCHANGED queue
    /\ UNCHANGED <<clientVars, loop, left, ptyIn, ptyOut, shellVars, sent, exitTold>>

-----------------------------------------------------------------------------
\* The event loop

LoopOutput ==
    /\ loop = "select" /\ queue > 0
    /\ queue' = queue - 1 /\ sent' = sent + 1
    /\ UNCHANGED <<clientVars, loop, left, ptyIn, ptyOut, reader, shellVars, exitTold>>

\* Faulty variant of LoopEof: the exit of the shell is looked for, not the end of
\* its output.
LoopEofEarly ==
    /\ loop = "select" /\ shell = "exited"
    /\ loop' = "ended" /\ exitTold' = TRUE
    /\ UNCHANGED <<clientVars, left, ptyIn, ptyOut, reader, queue, shellVars, sent>>

\* The queue is closed and empty: the shell's status is asked for, and waited for
\* with a blocking call if it has none yet.
LoopEof ==
    /\ loop = "select" /\ queue = 0 /\ reader = "ended"
    /\ IF shell = "exited"
       THEN loop' = "ended" /\ exitTold' = TRUE
       ELSE loop' = "wait" /\ UNCHANGED exitTold
    /\ UNCHANGED <<clientVars, left, ptyIn, ptyOut, reader, queue, shellVars, sent>>

\* child.wait returns.
LoopWait ==
    /\ loop = "wait" /\ shell = "exited"
    /\ loop' = "ended" /\ exitTold' = TRUE
    /\ UNCHANGED <<clientVars, left, ptyIn, ptyOut, reader, queue, shellVars, sent>>

LoopInput ==
    /\ loop = "select" /\ inbox > 0
    /\ inbox' = inbox - 1
    /\ loop' = "write" /\ left' = InputSize
    /\ UNCHANGED <<typed, gone, ptyIn, ptyOut, reader, queue, shellVars, sent, exitTold>>

\* A resize changes nothing the properties see; an unknown or undecodable message is
\* ignored.
LoopOther ==
    /\ loop = "select" /\ inbox > 0
    /\ inbox' = inbox - 1
    /\ UNCHANGED <<typed, gone, loop, left, ptyIn, ptyOut, reader, queue, shellVars, sent,
                   exitTold>>

\* Faulty variant of LoopWrite: a failed write is tried again.
LoopWriteRetry ==
    /\ loop = "write"
    /\ PtyOpen /\ ptyIn < InCapacity
    /\ ptyIn' = ptyIn + 1 /\ left' = left - 1
    /\ loop' = IF left = 1 THEN "select" ELSE "write"
    /\ UNCHANGED <<clientVars, ptyOut, reader, queue, shellVars, sent, exitTold>>

\* writer.write_all: blocks while the buffer is full, and fails when nobody holds the
\* other end.
LoopWrite ==
    /\ loop = "write"
    /\ \/ /\ PtyOpen /\ ptyIn < InCapacity
          /\ ptyIn' = ptyIn + 1 /\ left' = left - 1
          /\ loop' = IF left = 1 THEN "select" ELSE "write"
       \/ /\ ~PtyOpen
          /\ loop' = "select" /\ left' = 0
          /\ UNCHANGED ptyIn
    /\ UNCHANGED <<clientVars, ptyOut, reader, queue, shellVars, sent, exitTold>>

\* Faulty variant of LoopClosed: the shell is left to itself.
LoopClosedSparing ==
    /\ loop = "select" /\ inbox = 0 /\ gone
    /\ loop' = "ended"
    /\ UNCHANGED <<clientVars, left, ptyIn, ptyOut, reader, queue, shellVars, sent, exitTold>>

\* incoming_rx is closed and empty: the shell is killed, and no descendant of it.
\* Aborting the reader has no effect, it runs on a blocking thread.
LoopClosed ==
    /\ loop = "select" /\ inbox = 0 /\ gone
    /\ loop' = "ended"
    /\ shell' = "exited" /\ jobs' \in {jobs, FALSE} /\ pending' = FALSE
    /\ UNCHANGED <<clientVars, left, ptyIn, ptyOut, reader, queue, reads, written, sent,
                   exitTold>>

-----------------------------------------------------------------------------

TerminalNext ==
    \/ Type \/ Disconnect
    \/ ShellRead \/ ShellTurns \/ ShellOutput \/ ShellWrite \/ ShellDetach \/ ShellExit
    \/ JobStart \/ JobRead \/ JobWrite \/ JobsEnd
    \/ ReaderRead \/ ReaderSend
    \/ LoopOutput \/ LoopEof \/ LoopWait \/ LoopInput \/ LoopOther \/ LoopWrite \/ LoopClosed

TerminalSpec == TerminalInit /\ [][TerminalNext]_terminalVars

\* The threads run, and the loop handles what is ready (select! picks at random; with the
\* input and output of the model finite, weak fairness is enough).  A foreground program
\* that reads its input gets to it, and one that writes gets its turn at the buffer.  No
\* program need exit, read or give up the terminal.
TerminalFairness ==
    /\ WF_terminalVars(ReaderRead) /\ WF_terminalVars(ReaderSend)
    /\ WF_terminalVars(LoopOutput) /\ WF_terminalVars(LoopEof)
    /\ WF_terminalVars(LoopInput \/ LoopOther) /\ WF_terminalVars(LoopClosed)
    /\ WF_terminalVars(LoopWrite) /\ WF_terminalVars(LoopWait)
    /\ SF_terminalVars(ShellRead) /\ SF_terminalVars(ShellWrite)

FairTerminalSpec == TerminalSpec /\ TerminalFairness

-----------------------------------------------------------------------------
\* Safety

\* When the client is told of the exit it has all the output, whatever was in the
\* terminal's buffer, in the reader's hands and in the queue when the shell exited.
ExitAfterOutput == exitTold => shell = "exited" /\ sent = written

-----------------------------------------------------------------------------
\* Liveness, under FairTerminalSpec

\* Input and output wait for each other: the loop writes to a program that reads
\* nothing because nobody takes its output, since only the loop drains the queue
\* (terminal.rs:240).
Jammed ==
    /\ loop = "write" /\ ptyIn = InCapacity
    /\ shell = "running" /\ pending /\ ptyOut = OutCapacity
    /\ reader = "send" /\ queue = Capacity

\* The loop writes to a terminal whose input nobody has to read: the program in the
\* foreground does not, or the shell left it to its descendants.
Unread ==
    /\ loop = "write" /\ ptyIn = InCapacity
    /\ PtyOpen /\ (shell = "running" => ~reads)

\* The loop waits for the exit of a shell that closed its terminal.
AwaitsDetached == loop = "wait" /\ shell = "detached"

\* "Runs until the process exits or the client disconnects": when the client
\* disconnects the channel ends and the shell is killed, unless the loop stays for ever
\* in one of three blocking calls in which it cannot notice.
EndsOnDisconnect ==
    gone ~> \/ loop = "ended" /\ shell = "exited"
            \/ []Jammed \/ []Unread \/ []AwaitsDetached

\* Shell, channel and reader end together: the exit of the shell ends the channel,
\* even if the loop was jammed, the end of the channel ends the shell, and neither
\* leaves the reader blocked on a thread that would keep the runtime from shutting
\* down.  The one exception is a descendant of the shell that keeps the terminal open
\* for ever: then the exit is not noticed, and the reader stays where it is.
EndTogether ==
    shell = "exited" \/ loop = "ended"
        ~> \/ shell = "exited" /\ loop = "ended" /\ reader = "ended"
           \/ []jobs
=============================================================================
