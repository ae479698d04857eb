---------------------------- MODULE Channels_proof ----------------------------
(***************************************************************************)
(* Proofs about two kinds of channels: the MCP relay (McpRelay), for any   *)
(* number of channels of the session and of requests, and the terminal     *)
(* (Terminal), for buffers of any size and any amount of input and output. *)
(***************************************************************************)
EXTENDS McpRelay, Terminal, TLAPS

USE ConstantsAssumption

-----------------------------------------------------------------------------
\* The MCP relay

\* What a guard of the entry is good for: while a request holds it, the channel it
\* found is registered and has not started its cleanup.
GuardInv ==
    /\ \A r \in Request :
          /\ req[r] \in {"found", "inserted"} <=> r \in guards
          /\ r \in guards => target[r] \in Channel /\ sessions = target[r]
          /\ req[r] \in {"waiting", "evict"} => target[r] \in Channel
          /\ req[r] = "new" => awaiting[r] = None
          /\ req[r] = "inserted" => awaiting[r] = target[r]
          /\ req[r] = "evict" => target[r] \notin writers
          /\ awaiting[r] # None => awaiting[r] = target[r]
    /\ \A c \in Channel : sessions = c => chan[c] \in {"open", "closing"}
    /\ pushed \subseteq {r \in Request : req[r] \notin {"new", "found", "inserted"}}

RelayInv == TypeOK /\ GuardInv /\ EntryMatchesHandler /\ NoneAwaitedFromEnded

\* Nothing is registered or awaited at first.
LEMMA RelayInit == Init => RelayInv
  BY DEF Init, RelayInv, TypeOK, GuardInv, EntryMatchesHandler, NoneAwaitedFromEnded

\* Every step of a handler and of a channel keeps the relay invariant.
LEMMA RelayStep == RelayInv /\ [Next]_vars => RelayInv'
<1> SUFFICES ASSUME RelayInv, [Next]_vars PROVE RelayInv'
  OBVIOUS
<1> USE DEF RelayInv, TypeOK, GuardInv, EntryMatchesHandler, NoneAwaitedFromEnded,
            Goto, ChanGoto, RemoveIf, Writable, vars
<1>1. ASSUME NEW r \in Request, Lookup(r) PROVE RelayInv'
  BY <1>1 DEF Lookup
<1>2. ASSUME NEW r \in Request, Insert(r) PROVE RelayInv'
  BY <1>2 DEF Insert
<1>3. ASSUME NEW r \in Request, Push(r) PROVE RelayInv'
  BY <1>3 DEF Push
<1>4. ASSUME NEW r \in Request, Evict(r) PROVE RelayInv'
  BY <1>4 DEF Evict
<1>5. ASSUME NEW r \in Request, Abandon(r) PROVE RelayInv'
  BY <1>5 DEF Abandon
<1>6. ASSUME NEW c \in Channel, Register(c) PROVE RelayInv'
  BY <1>6 DEF Register
<1>7. ASSUME NEW c \in Channel, NEW r \in Request, Answer(c, r) PROVE RelayInv'
  BY <1>7 DEF Answer, Take
<1>8. ASSUME NEW c \in Channel, WriterEnds(c) PROVE RelayInv'
  BY <1>8 DEF WriterEnds
<1>9. ASSUME NEW c \in Channel, Leave(c) PROVE RelayInv'
  BY <1>9 DEF Leave
<1>10. ASSUME NEW c \in Channel, RemoveSession(c) PROVE RelayInv'
  BY <1>10 DEF RemoveSession
<1>11. ASSUME NEW c \in Channel, Collect(c) PROVE RelayInv'
  BY <1>11 DEF Collect
<1>12. ASSUME NEW c \in Channel, NEW r \in Request, FailOne(c, r) PROVE RelayInv'
  BY <1>12 DEF FailOne, Take
<1>13. ASSUME NEW c \in Channel, Finish(c) PROVE RelayInv'
  BY <1>13 DEF Finish
<1>14. CASE UNCHANGED vars
  BY <1>14
<1> QED BY <1>1, <1>2, <1>3, <1>4, <1>5, <1>6, <1>7, <1>8, <1>9, <1>10, <1>11,
           <1>12, <1>13, <1>14 DEF Next, RequestStep, Cleanup

\* The relay invariant holds in every reachable state.
THEOREM RelayCorrect == Spec => []RelayInv
  BY RelayInit, RelayStep, PTL DEF Spec

\* No request, however many there are, is left waiting for a channel that ended.
THEOREM EndedChannelsOweNothing == Spec => []NoneAwaitedFromEnded
<1>1. RelayInv => NoneAwaitedFromEnded BY DEF RelayInv
<1> QED BY <1>1, RelayCorrect, PTL

\* An entry for an answer exists exactly while its handler waits.
THEOREM EntriesMatchHandlers == Spec => []EntryMatchesHandler
<1>1. RelayInv => EntryMatchesHandler BY DEF RelayInv
<1> QED BY <1>1, RelayCorrect, PTL

\* A reconnected browser is unregistered only when it is gone itself.
THEOREM ReconnectStaysRegistered == Spec => ReconnectKept
<1> DEFINE A == \A c \in Channel :
                  sessions = c /\ sessions' = None
                     => chan[c] = "closing" \/ c \notin writers
<1>1. RelayInv /\ [Next]_vars => [A]_vars
  <2> SUFFICES ASSUME RelayInv, Next, NEW c \in Channel, sessions = c, sessions' = None
               PROVE  chan[c] = "closing" \/ c \notin writers
    BY DEF vars
  <2>1. \/ \E r \in Request : Evict(r)
        \/ \E d \in Channel : RemoveSession(d)
    BY DEF Next, RequestStep, Cleanup, Lookup, Insert, Push, Abandon, Register,
       Answer, WriterEnds, Leave, Collect, FailOne, Finish
  <2>2. ASSUME NEW r \in Request, Evict(r) PROVE c \notin writers
    BY <2>2 DEF Evict, RemoveIf, RelayInv, GuardInv
  <2>3. ASSUME NEW d \in Channel, RemoveSession(d) PROVE chan[c] = "closing"
    BY <2>3 DEF RemoveSession, RemoveIf
  <2> QED BY <2>1, <2>2, <2>3
<1> QED BY <1>1, RelayCorrect, PTL DEF Spec, ReconnectKept

\* Whose turn it is when a request waits: its channel is open, or about to end, or has the
\* entry of the request among those it still has to fail; and what may keep a channel from
\* unregistering is a request that holds the guard, which waits for nothing.
WaitOwed ==
    /\ \A r \in Request :
          req[r] = "waiting" =>
              \/ chan[target[r]] \in {"open", "closing", "cleaning"}
              \/ chan[target[r]] = "failing" /\ r \in keys[target[r]]
    /\ \A r \in guards : req[r] \in {"found", "inserted"}

\* No handler of a request is left waiting by a channel that has ended, and no channel or
\* browser waits for a guard that is kept: the guard is not held while an answer is
\* awaited (mcp.rs drops it after the push).
THEOREM WaitersAreOwed == Spec => []WaitOwed
<1>1. RelayInv => WaitOwed
  BY DEF RelayInv, TypeOK, GuardInv, EntryMatchesHandler, NoneAwaitedFromEnded, WaitOwed
<1> QED BY <1>1, RelayCorrect, PTL

\* What a channel that ends has before it: its stages and the entries it has to fail.
Stage(c) ==
    CASE chan[c] = "closing" -> 3
      [] chan[c] = "cleaning" -> 2
      [] chan[c] = "failing" -> 1
      [] chan[c] = "done" -> 0
      [] OTHER -> 4

\* The cleanup of a channel goes on by itself: it is not reopened, and nothing is added
\* to what it has to fail, whatever requests come in meanwhile.
WindsUp(c) ==
    chan[c] \in {"closing", "cleaning", "failing", "done"} =>
        \/ chan'[c] # chan[c] /\ Stage(c)' < Stage(c)
        \/ /\ chan'[c] = chan[c]
           /\ chan[c] = "failing" => keys'[c] \subseteq keys[c]

CleanupWindsUp == [][\A c \in Channel : WindsUp(c)]_vars

\* With WaitersAreOwed: a browser that is gone answers every request that waits for it,
\* after finitely many steps of its channel.
THEOREM CleanupTerminates == Spec => CleanupWindsUp
<1>1. RelayInv /\ [Next]_vars => [\A c \in Channel : WindsUp(c)]_vars
  <2> SUFFICES ASSUME RelayInv, Next, NEW c \in Channel PROVE WindsUp(c)
    BY DEF vars
  <2> USE DEF RelayInv, TypeOK, ChanGoto, Stage, WindsUp
  <2>1. CASE UNCHANGED <<chan, keys>>
    BY <2>1
  <2>2. ASSUME NEW d \in Channel, Register(d) \/ Leave(d) PROVE WindsUp(c)
    BY <2>2 DEF Register, Leave
  <2>3. ASSUME NEW d \in Channel, RemoveSession(d) PROVE WindsUp(c)
    BY <2>3 DEF RemoveSession
  <2>4. ASSUME NEW d \in Channel, Collect(d) PROVE WindsUp(c)
    BY <2>4 DEF Collect
  <2>5. ASSUME NEW d \in Channel, NEW r \in Request, FailOne(d, r) PROVE WindsUp(c)
    BY <2>5 DEF FailOne
  <2>6. ASSUME NEW d \in Channel, Finish(d) PROVE WindsUp(c)
    BY <2>6 DEF Finish
  <2> QED
    BY <2>1, <2>2, <2>3, <2>4, <2>5, <2>6
    DEF Next, RequestStep, Cleanup, Lookup, Insert, Push, Evict, Abandon, Answer, WriterEnds
<1> QED BY <1>1, RelayCorrect, PTL DEF Spec, CleanupWindsUp

-----------------------------------------------------------------------------
\* The terminal

\* Output on its way from the shell to the client.
InHand == IF reader = "send" THEN 1 ELSE 0

\* What the loop is about to write, it has something to write of.
WriteInv == loop = "write" => left > 0

\* While the loop runs, every unit the shell wrote is in the terminal's buffer, in the
\* reader's hands, in the queue, or sent.
OutputConserved == loop # "ended" => written = sent + queue + InHand + ptyOut

\* Why the loop may take a closed queue for the end of the output: the reader ends,
\* while the loop runs, only at an empty buffer nobody can fill any more; and the loop
\* waits for the shell only after that.  When the exit is told nobody can write any more.
EofInv ==
    /\ loop # "ended" /\ reader = "ended" => ptyOut = 0 /\ ~PtyOpen
    /\ loop = "wait" => queue = 0 /\ reader = "ended"
    /\ exitTold => loop = "ended" /\ ~PtyOpen

\* A channel that has ended leaves no shell behind.
NoShellLeft == loop = "ended" => shell = "exited"

TerminalInv ==
    /\ TerminalTypeOK
    /\ WriteInv
    /\ OutputConserved
    /\ EofInv
    /\ NoShellLeft
    /\ ExitAfterOutput

\* Every buffer holds a unit at least, and so does an input message.
LEMMA Sizes ==
    /\ Capacity \in Nat /\ Capacity > 0
    /\ InCapacity \in Nat /\ InCapacity > 0
    /\ OutCapacity \in Nat /\ OutCapacity > 0
    /\ InputSize \in Nat /\ InputSize > 0
<1>1. \A n \in {Capacity, InCapacity, OutCapacity, InputSize} : n \in Nat /\ n # 0
  BY TerminalAssumption
<1> QED BY <1>1

\* The shell has just been started and has written nothing.
LEMMA TerminalStart == TerminalInit => TerminalInv
<1> SUFFICES ASSUME TerminalInit PROVE TerminalInv
  OBVIOUS
<1>1. TerminalTypeOK
  <2>1. /\ gone \in BOOLEAN /\ jobs \in BOOLEAN /\ reads \in BOOLEAN
        /\ pending \in BOOLEAN /\ exitTold \in BOOLEAN
    BY DEF TerminalInit
  <2> QED BY <2>1, Sizes DEF TerminalInit, TerminalTypeOK
<1>2. WriteInv /\ OutputConserved /\ EofInv /\ NoShellLeft /\ ExitAfterOutput
  BY DEF TerminalInit, WriteInv, OutputConserved, EofInv, NoShellLeft,
         ExitAfterOutput, InHand
<1> QED BY <1>1, <1>2 DEF TerminalInv

\* Every step of client, shell, reader and loop keeps the types.
LEMMA TerminalTypeStep ==
    TerminalTypeOK /\ WriteInv /\ [TerminalNext]_terminalVars
        => (TerminalTypeOK /\ WriteInv)'
<1> SUFFICES ASSUME TerminalTypeOK, WriteInv, [TerminalNext]_terminalVars
             PROVE  (TerminalTypeOK /\ WriteInv)'
  OBVIOUS
<1> USE Sizes DEF TerminalTypeOK, WriteInv, PtyOpen, terminalVars, clientVars, shellVars
<1>1. CASE Type BY <1>1 DEF Type
<1>2. CASE Disconnect BY <1>2 DEF Disconnect
<1>3. CASE ShellRead BY <1>3 DEF ShellRead
<1>4. CASE ShellTurns BY <1>4 DEF ShellTurns
<1>5. CASE ShellOutput BY <1>5 DEF ShellOutput
<1>6. CASE ShellWrite
  <2>1. pending' = FALSE BY <1>6 DEF ShellWrite
  <2>2. pending' \in BOOLEAN BY <2>1
  <2> QED BY <1>6, <2>2 DEF ShellWrite
<1>7. CASE ShellDetach BY <1>7 DEF ShellDetach
<1>8. CASE ShellExit
  <2>1. pending' = FALSE /\ jobs' \in {jobs, FALSE} BY <1>8 DEF ShellExit
  <2>2. pending' \in BOOLEAN /\ jobs' \in BOOLEAN BY <2>1
  <2> QED BY <1>8, <2>2 DEF ShellExit
<1>9. CASE JobStart
  <2>1. jobs' = TRUE BY <1>9 DEF JobStart
  <2>2. jobs' \in BOOLEAN BY <2>1
  <2> QED BY <1>9, <2>2 DEF JobStart
<1>10. CASE JobRead BY <1>10 DEF JobRead
<1>11. CASE JobWrite BY <1>11 DEF JobWrite
<1>12. CASE JobsEnd
  <2>1. jobs' = FALSE BY <1>12 DEF JobsEnd
  <2>2. jobs' \in BOOLEAN BY <2>1
  <2> QED BY <1>12, <2>2 DEF JobsEnd
<1>13. CASE ReaderRead BY <1>13 DEF ReaderRead
<1>14. CASE ReaderSend BY <1>14 DEF ReaderSend
<1>15. CASE LoopOutput BY <1>15 DEF LoopOutput
<1>16. CASE LoopEof BY <1>16 DEF LoopEof
<1>17. CASE LoopWait BY <1>17 DEF LoopWait
<1>18. CASE LoopInput BY <1>18 DEF LoopInput
<1>19. CASE LoopOther BY <1>19 DEF LoopOther
<1>20. CASE LoopWrite BY <1>20 DEF LoopWrite
<1>21. CASE LoopClosed
  <2>1. pending' = FALSE /\ jobs' \in {jobs, FALSE} BY <1>21 DEF LoopClosed
  <2>2. pending' \in BOOLEAN /\ jobs' \in BOOLEAN BY <2>1
  <2> QED BY <1>21, <2>2 DEF LoopClosed
<1>22. CASE UNCHANGED terminalVars BY <1>22
<1> QED BY <1>1, <1>2, <1>3, <1>4, <1>5, <1>6, <1>7, <1>8, <1>9, <1>10, <1>11,
           <1>12, <1>13, <1>14, <1>15, <1>16, <1>17, <1>18, <1>19, <1>20, <1>21, <1>22
        DEF TerminalNext

\* No unit of output is lost or made up, the end of the output is noticed when it has
\* come, and the shell is gone when the channel is.
LEMMA TerminalStep == TerminalInv /\ [TerminalNext]_terminalVars => TerminalInv'
<1> SUFFICES ASSUME TerminalInv, [TerminalNext]_terminalVars PROVE TerminalInv'
  OBVIOUS
<1>1. (TerminalTypeOK /\ WriteInv)'
  BY TerminalTypeStep DEF TerminalInv
<1> DEFINE Rest == OutputConserved /\ EofInv /\ NoShellLeft /\ ExitAfterOutput
<1> SUFFICES Rest'
  BY <1>1 DEF TerminalInv
<1> /\ written \in Nat /\ sent \in Nat /\ queue \in Nat /\ ptyOut \in Nat
    /\ loop \in {"select", "write", "wait", "ended"}
    /\ reader \in {"read", "send", "ended"}
    /\ shell \in {"running", "detached", "exited"}
    /\ jobs \in BOOLEAN
    /\ Rest
  BY Sizes DEF TerminalInv, TerminalTypeOK
<1> USE DEF OutputConserved, EofInv, NoShellLeft, ExitAfterOutput, InHand, PtyOpen,
            terminalVars, clientVars, shellVars
<1>2. CASE Type BY <1>2 DEF Type
<1>3. CASE Disconnect BY <1>3 DEF Disconnect
<1>4. CASE ShellRead BY <1>4 DEF ShellRead
<1>5. CASE ShellTurns BY <1>5 DEF ShellTurns
<1>6. CASE ShellOutput BY <1>6 DEF ShellOutput
<1>7. CASE ShellWrite BY <1>7 DEF ShellWrite
<1>8. CASE ShellDetach BY <1>8 DEF ShellDetach
<1>9. CASE ShellExit
  <2>1. jobs' => jobs BY <1>9 DEF ShellExit
  <2> QED BY <1>9, <2>1 DEF ShellExit
<1>10. CASE JobStart BY <1>10 DEF JobStart
<1>11. CASE JobRead BY <1>11 DEF JobRead
<1>12. CASE JobWrite BY <1>12 DEF JobWrite
<1>13. CASE JobsEnd BY <1>13 DEF JobsEnd
<1>14. CASE ReaderRead BY <1>14 DEF ReaderRead
<1>15. CASE ReaderSend BY <1>15 DEF ReaderSend
<1>16. CASE LoopOutput BY <1>16 DEF LoopOutput
<1>17. CASE LoopEof BY <1>17 DEF LoopEof
<1>18. CASE LoopWait BY <1>18 DEF LoopWait
<1>19. CASE LoopInput BY <1>19 DEF LoopInput
<1>20. CASE LoopOther BY <1>20 DEF LoopOther
<1>21. CASE LoopWrite BY <1>21 DEF LoopWrite
<1>22. CASE LoopClosed
  <2>1. jobs' => jobs BY <1>22 DEF LoopClosed
  <2> QED BY <1>22, <2>1 DEF LoopClosed
<1>23. CASE UNCHANGED terminalVars BY <1>23
<1> QED BY <1>2, <1>3, <1>4, <1>5, <1>6, <1>7, <1>8, <1>9, <1>10, <1>11, <1>12, <1>13,
           <1>14, <1>15, <1>16, <1>17, <1>18, <1>19, <1>20, <1>21, <1>22, <1>23
        DEF TerminalNext

\* The terminal invariant holds in every reachable state: in particular, no output is
\* lost between the shell and the client while the channel runs.
THEOREM TerminalCorrect == TerminalSpec => []TerminalInv
  BY TerminalStart, TerminalStep, PTL DEF TerminalSpec

\* The client is told of the exit after the last unit of output, however large the
\* buffers are and whatever was in them when the shell exited.
THEOREM ExitFollowsOutput == TerminalSpec => []ExitAfterOutput
<1>1. TerminalInv => ExitAfterOutput BY DEF TerminalInv
<1> QED BY <1>1, TerminalCorrect, PTL

\* When the channel ends, by the exit or by a disconnection, its shell has exited.
THEOREM ChannelEndsShell == TerminalSpec => []NoShellLeft
<1>1. TerminalInv => NoShellLeft BY DEF TerminalInv
<1> QED BY <1>1, TerminalCorrect, PTL

\* The client's view of the terminal is a stream in the sense of Stream: the shell emits
\* units of output, the client receives them.
Output == INSTANCE Stream WITH emitted <- written, received <- sent

\* The terminal implements Stream: output reaches the client one unit after another and
\* never more of it than the shell wrote, through the terminal's buffer, the reader and
\* the queue.
THEOREM TerminalImplementsStream == TerminalSpec => Output!Spec
<1>1. TerminalInit => Output!Init
  BY DEF TerminalInit, Output!Init
<1>2. TerminalInv /\ [TerminalNext]_terminalVars
         => [Output!Emit \/ Output!Receive]_(Output!vars)
  <2> SUFFICES ASSUME TerminalInv, [TerminalNext]_terminalVars
               PROVE  \/ Output!Emit \/ Output!Receive
                      \/ UNCHANGED <<written, sent>>
    BY DEF Output!vars
  <2>1. CASE ShellWrite
    BY <2>1 DEF ShellWrite, Output!Emit
  <2>2. CASE JobWrite
    BY <2>2 DEF JobWrite, Output!Emit
  <2>3. CASE LoopOutput
    <3>1. sent < written
      BY <2>3, Sizes DEF LoopOutput, TerminalInv, TerminalTypeOK, OutputConserved, InHand
    <3> QED BY <2>3, <3>1 DEF LoopOutput, shellVars, Output!Receive
  <2>4. CASE ~ShellWrite /\ ~JobWrite /\ ~LoopOutput
    BY <2>4 DEF TerminalNext, terminalVars, clientVars, shellVars, Type, Disconnect,
       ShellRead, ShellTurns, ShellOutput, ShellDetach, ShellExit, JobStart, JobRead,
       JobsEnd, ReaderRead, ReaderSend, LoopEof, LoopWait, LoopInput, LoopOther, LoopWrite,
       LoopClosed
  <2> QED BY <2>1, <2>2, <2>3, <2>4
<1> QED BY <1>1, <1>2, TerminalCorrect, PTL DEF TerminalSpec, Output!Spec

-----------------------------------------------------------------------------
\* How a terminal ends: what EndsOnDisconnect and EndTogether need of the model besides
\* fairness, for buffers of any size.  The formulae on the left repeat the guards of the
\* actions.

ReaderCanStep ==
    \/ reader = "read" /\ (ptyOut > 0 \/ ~PtyOpen)
    \/ reader = "send" /\ (queue < Capacity \/ loop = "ended")

LoopCanStep ==
    \/ loop = "select" /\ (queue > 0 \/ reader = "ended" \/ inbox > 0 \/ gone)
    \/ loop = "write" /\ (ptyIn < InCapacity \/ ~PtyOpen)
    \/ loop = "wait" /\ shell = "exited"

ShellCanStep ==
    shell = "running" /\ (IF pending THEN ptyOut < OutCapacity ELSE reads /\ ptyIn > 0)

\* When the client has gone, somebody can take a step until the channel has ended, except
\* where the loop waits for a program that waits for it, for one that does not read, or
\* for a detached shell.
DisconnectSeen ==
    gone /\ loop # "ended" => \/ ReaderCanStep \/ LoopCanStep \/ ShellCanStep
                              \/ Jammed \/ Unread \/ AwaitsDetached

\* When nobody holds the terminal any more, the reader or the loop can take a step until
\* both have ended, except where the loop waits for a detached shell.
HangUpSeen ==
    ~PtyOpen => \/ ReaderCanStep \/ LoopCanStep
                \/ reader = "ended" /\ loop = "ended"
                \/ AwaitsDetached

\* The three blocked states a disconnection may meet are the only ones, and what blocks a
\* terminal that hung up is a detached shell only.
THEOREM OnlyKnownDeadlocks == TerminalSpec => [](DisconnectSeen /\ HangUpSeen)
<1>1. TerminalInv => DisconnectSeen
  BY Sizes
  DEF TerminalInv, TerminalTypeOK, EofInv, DisconnectSeen, ReaderCanStep, LoopCanStep,
      ShellCanStep, Jammed, Unread, AwaitsDetached, PtyOpen
<1>2. TerminalInv => HangUpSeen
  BY Sizes
  DEF TerminalInv, TerminalTypeOK, HangUpSeen, ReaderCanStep, LoopCanStep, AwaitsDetached,
      PtyOpen
<1> QED BY <1>1, <1>2, TerminalCorrect, PTL

\* What is left to do once nobody holds the terminal: messages to be typed and handled,
\* the disconnection, the exit of a detached shell, and output to be read, queued and
\* taken.
Remaining ==
    3 * (MaxInput - typed) + 2 * inbox + (IF gone THEN 0 ELSE 1)
    + (IF shell = "exited" THEN 0 ELSE 1) + 4 * ptyOut + queue
    + (CASE reader = "send" -> 3
         [] reader = "read" -> 1
         [] reader = "ended" -> 0)
    + (CASE loop = "write" -> 3
         [] loop = "select" -> 2
         [] loop = "wait" -> 1
         [] loop = "ended" -> 0)

TypedInv == typed <= MaxInput

\* A client types no more than it may.
LEMMA TypedBounded ==
    /\ TerminalInit => TypedInv
    /\ TerminalInv /\ TypedInv /\ [TerminalNext]_terminalVars => TypedInv'
<1>1. MaxInput \in Nat
  BY TerminalAssumption
<1>2. TerminalInit => TypedInv
  BY <1>1 DEF TerminalInit, TypedInv
<1>3. ASSUME TerminalInv, TypedInv, [TerminalNext]_terminalVars PROVE TypedInv'
  <2>1. CASE Type
    BY <1>1, <1>3, <2>1 DEF Type, TypedInv, TerminalInv, TerminalTypeOK
  <2>2. CASE typed' = typed
    BY <1>3, <2>2 DEF TypedInv
  <2> QED
    BY <1>3, <2>1, <2>2 DEF TerminalNext, terminalVars, clientVars, shellVars, Disconnect,
       ShellRead, ShellTurns, ShellOutput, ShellWrite, ShellDetach, ShellExit, JobStart,
       JobRead, JobWrite, JobsEnd, ReaderRead, ReaderSend, LoopOutput, LoopEof, LoopWait,
       LoopInput, LoopOther, LoopWrite, LoopClosed
<1> QED BY <1>2, <1>3

\* Once nobody holds the terminal nobody will, and every step, of whomever, brings the end
\* nearer.
HangUpWindsUp ==
    [][~PtyOpen => /\ ~PtyOpen'
                   /\ Remaining' \in Nat
                   /\ Remaining' < Remaining]_terminalVars

\* After the shell and its descendants have let go of the terminal the channel takes
\* finitely many steps: with OnlyKnownDeadlocks, it and the reader end if only they are
\* scheduled and the shell, if it detached itself, exits.
THEOREM HangUpTerminates == TerminalSpec => HangUpWindsUp
<1> DEFINE A == ~PtyOpen => /\ ~PtyOpen'
                            /\ Remaining' \in Nat
                            /\ Remaining' < Remaining
<1>1. TerminalInv /\ TypedInv /\ TerminalInv' /\ TypedInv' /\ [TerminalNext]_terminalVars
          => [A]_terminalVars
  <2> SUFFICES ASSUME TerminalInv, TypedInv, TerminalInv', TypedInv', TerminalNext, ~PtyOpen
               PROVE  /\ ~PtyOpen'
                      /\ Remaining' \in Nat
                      /\ Remaining' < Remaining
    OBVIOUS
  <2>1. /\ MaxInput \in Nat /\ typed \in Nat /\ typed <= MaxInput /\ inbox \in Nat
        /\ ptyOut \in Nat /\ queue \in Nat
        /\ reader \in {"read", "send", "ended"}
        /\ loop \in {"select", "write", "wait", "ended"}
        /\ shell # "running" /\ ~jobs
    BY Sizes, TerminalAssumption DEF TerminalInv, TerminalTypeOK, TypedInv, PtyOpen
  <2>2. /\ typed' \in Nat /\ typed' <= MaxInput /\ inbox' \in Nat
        /\ ptyOut' \in Nat /\ queue' \in Nat
        /\ reader' \in {"read", "send", "ended"}
        /\ loop' \in {"select", "write", "wait", "ended"}
    BY Sizes, TerminalAssumption DEF TerminalInv, TerminalTypeOK, TypedInv
  <2>3. Remaining' \in Nat
    BY <2>1, <2>2 DEF Remaining
  <2>4. ~PtyOpen' /\ Remaining' < Remaining
    <3> USE <2>1, <2>2 DEF Remaining, PtyOpen, clientVars, shellVars
    <3>1. CASE Type BY <3>1 DEF Type
    <3>2. CASE Disconnect BY <3>2 DEF Disconnect
    <3>3. CASE ReaderRead
      <4>1. CASE ptyOut > 0 /\ ptyOut' = ptyOut - 1 /\ reader' = "send"
        BY <3>3, <4>1 DEF ReaderRead
      <4>2. CASE reader' = "ended" /\ UNCHANGED ptyOut
        BY <3>3, <4>2 DEF ReaderRead
      <4> QED BY <3>3, <4>1, <4>2 DEF ReaderRead
    <3>4. CASE ReaderSend BY <3>4 DEF ReaderSend
    <3>5. CASE LoopOutput BY <3>5 DEF LoopOutput
    <3>6. CASE LoopEof BY <3>6 DEF LoopEof
    <3>7. CASE LoopWait BY <3>7 DEF LoopWait
    <3>8. CASE LoopInput BY <3>8 DEF LoopInput
    <3>9. CASE LoopOther BY <3>9 DEF LoopOther
    <3>10. CASE LoopWrite BY <3>10 DEF LoopWrite
    <3>11. CASE LoopClosed
      <4>1. ~jobs' BY <3>11 DEF LoopClosed
      <4> QED BY <3>11, <4>1 DEF LoopClosed
    <3>12. CASE ShellExit
      <4>1. ~jobs' BY <3>12 DEF ShellExit
      <4> QED BY <3>12, <4>1 DEF ShellExit
    <3> QED
      BY <3>1, <3>2, <3>3, <3>4, <3>5, <3>6, <3>7, <3>8, <3>9, <3>10, <3>11, <3>12
      DEF TerminalNext, ShellRead, ShellTurns, ShellOutput, ShellWrite, ShellDetach,
          JobStart, JobRead, JobWrite, JobsEnd
  <2> QED BY <2>3, <2>4
<1> QED BY <1>1, TypedBounded, TerminalCorrect, PTL DEF TerminalSpec, HangUpWindsUp
=============================================================================
