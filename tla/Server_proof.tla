----------------------------- MODULE Server_proof -----------------------------
(***************************************************************************)
(* Proofs about server.rs: the life of the server (Server) and the         *)
(* commands it runs (CommandStream), for any commands and agents; and the  *)
(* requests that change files (FileRequests), for any requests and paths.  *)
(***************************************************************************)
EXTENDS Integers, Server, FileRequests, TLAPS

-----------------------------------------------------------------------------
\* Types

\* The initial states are well-typed.
LEMMA TypeInit == Init => TypeOK
<1> SUFFICES ASSUME Init
             PROVE  TypeOK
  OBVIOUS
<1>1. CommandTypeOK
  BY DEF Init, CommandInit, CommandTypeOK, Pipe
<1>2. listener \in [Listener -> {"off", "binding", "serving", "draining", "drained", "cut",
                                "failed"}]
  BY DEF Init
<1>3. /\ via \in [Command -> Listener]
      /\ agent \in [Agent -> {"none", "spawned", "listed", "late", "removed", "over"}]
  BY DEF Init, Listener
<1> QED BY <1>1, <1>2, <1>3 DEF Init, TypeOK

\* The steps of a command and of its process group keep the types.
LEMMA CommandTypes ==
    ASSUME CommandTypeOK, NEW c \in Command,
           \/ Spawn(c) \/ GroupStep(c) \/ StreamStep(c) \/ Drop(c)
           \/ \E p \in Pipe : ReadFails(c, p)
    PROVE  CommandTypeOK'
<1>1. CASE Spawn(c)
  BY <1>1 DEF CommandTypeOK, Spawn, Pipe
<1>2. CASE GroupStep(c)
  <2>1. CASE Fork(c)
    BY <2>1 DEF CommandTypeOK, Fork
  <2>2. CASE ChildExits(c)
    BY <2>2 DEF CommandTypeOK, ChildExits
  <2>3. CASE DescendantExits(c)
    BY <2>3 DEF CommandTypeOK, DescendantExits
  <2>4. ASSUME NEW p \in Pipe, Output(c, p)
        PROVE  CommandTypeOK'
    BY <2>4 DEF CommandTypeOK, Output
  <2>5. ASSUME NEW p \in Pipe, ClosePipe(c, p)
        PROVE  CommandTypeOK'
    BY <2>5 DEF CommandTypeOK, ClosePipe
  <2> QED BY <1>2, <2>1, <2>2, <2>3, <2>4, <2>5 DEF GroupStep
<1>3. CASE StreamStep(c)
  <2>1. ASSUME NEW p \in Pipe, ReadChunk(c, p)
        PROVE  CommandTypeOK'
    BY <2>1 DEF CommandTypeOK, ReadChunk
  <2>2. ASSUME NEW p \in Pipe, ReadEnd(c, p)
        PROVE  CommandTypeOK'
    BY <2>2 DEF CommandTypeOK, ReadEnd, After
  <2>3. CASE WaitChild(c)
    BY <2>3 DEF CommandTypeOK, WaitChild
  <2> QED BY <1>3, <2>1, <2>2, <2>3 DEF StreamStep
<1>4. CASE Drop(c)
  BY <1>4 DEF CommandTypeOK, Drop
<1>5. ASSUME NEW p \in Pipe, ReadFails(c, p)
      PROVE  CommandTypeOK'
  BY <1>5 DEF CommandTypeOK, ReadFails, After
<1> QED BY <1>1, <1>2, <1>3, <1>4, <1>5

\* A step of the server that moves no command.
RestStep ==
    /\ UNCHANGED commandVars
    /\ \/ \E s \in Listener : ListenerStep(s)
       \/ \E a \in Agent : AgentStep(a)
       \/ ShutdownHandler \/ MainStep \/ Dismiss \/ Quit \/ Exit
       \/ UNCHANGED serverVars

\* Which part of the state a step of the server moves: a command, or the rest.
LEMMA StepParts ==
    ASSUME [Next]_vars
    PROVE  \/ /\ UNCHANGED serverVars
              /\ Up
              /\ \E c \in Command :
                    GroupStep(c) \/ StreamStep(c) \/ Drop(c) \/ \E p \in Pipe : ReadFails(c, p)
           \/ \E c \in Command, s \in Listener : CommandRequest(c, s)
           \/ RestStep
<1>1. CASE UNCHANGED vars
  BY <1>1 DEF vars, RestStep
<1>2. ASSUME NEW s \in Listener, ListenerStep(s)
      PROVE  UNCHANGED commandVars
  BY <1>2 DEF ListenerStep, Bind, StopAccepting, Drained, Deadline
<1>3. ASSUME NEW a \in Agent, AgentStep(a)
      PROVE  UNCHANGED commandVars
  BY <1>3 DEF AgentStep, StartAgent, ListAgent, RemoveAgent, AgentOver
<1>4. ASSUME ShutdownHandler \/ MainStep \/ Dismiss \/ Quit \/ Exit
      PROVE  UNCHANGED commandVars
  BY <1>4 DEF ShutdownHandler, MainStep, Dismiss, Quit, Exit, Setup, SetupFails,
              AwaitHttp, AwaitHttps, AwaitDev, ClearPlace, ClearEnd, ShowDialog, Goto
<1>5. ASSUME NEW c \in Command, CutOff(c) \/ CommandStep(c) \/ CommandFreeStep(c)
      PROVE  /\ UNCHANGED serverVars
             /\ Up
             /\ GroupStep(c) \/ StreamStep(c) \/ Drop(c) \/ \E p \in Pipe : ReadFails(c, p)
  BY <1>5 DEF CutOff, CommandStep, CommandFreeStep
<1> QED BY <1>1, <1>2, <1>3, <1>4, <1>5 DEF Next, RestStep

\* Every step keeps the types.
LEMMA TypeStep == TypeOK /\ [Next]_vars => TypeOK'
<1> SUFFICES ASSUME TypeOK, [Next]_vars
             PROVE  TypeOK'
  OBVIOUS
<1>1. CASE /\ UNCHANGED serverVars
           /\ \E c \in Command :
                 GroupStep(c) \/ StreamStep(c) \/ Drop(c) \/ \E p \in Pipe : ReadFails(c, p)
  <2>1. CommandTypeOK'
    BY <1>1, CommandTypes DEF TypeOK
  <2> QED BY <1>1, <2>1 DEF TypeOK, serverVars, agentVars
<1>2. ASSUME NEW c \in Command, NEW s \in Listener, CommandRequest(c, s)
      PROVE  TypeOK'
  <2>1. CommandTypeOK'
    BY <1>2, CommandTypes DEF TypeOK, CommandRequest
  <2> QED BY <1>2, <2>1 DEF TypeOK, CommandRequest, agentVars
<1>3. CASE RestStep
  <2>1. CommandTypeOK'
    BY <1>3 DEF TypeOK, CommandTypeOK, commandVars, RestStep
  <2> USE DEF TypeOK, agentVars
  <2>2. ASSUME NEW s \in Listener, ListenerStep(s)
        PROVE  TypeOK'
    BY <2>1, <2>2 DEF ListenerStep, Bind, StopAccepting, Drained, Deadline
  <2>3. ASSUME NEW a \in Agent, AgentStep(a)
        PROVE  TypeOK'
    BY <2>1, <2>3 DEF AgentStep, StartAgent, ListAgent, RemoveAgent, AgentOver
  <2>4. ASSUME ShutdownHandler \/ Dismiss \/ Quit \/ Exit \/ ShowDialog
        PROVE  TypeOK'
    BY <2>1, <2>4 DEF ShutdownHandler, Dismiss, Quit, Exit, ShowDialog
  <2>5. ASSUME AwaitHttp \/ AwaitHttps \/ AwaitDev \/ SetupFails \/ ClearEnd
        PROVE  TypeOK'
    BY <2>1, <2>5 DEF AwaitHttp, AwaitHttps, AwaitDev, SetupFails, ClearEnd, Goto
  <2>6. CASE Setup
    BY <2>1, <2>6 DEF Setup
  <2>7. ASSUME NEW a \in Agent, ClearPlace(a)
        PROVE  TypeOK'
    BY <2>1, <2>7 DEF ClearPlace
  <2>8. CASE UNCHANGED serverVars
    BY <2>1, <2>8 DEF serverVars
  <2> QED BY <1>3, <2>2, <2>3, <2>4, <2>5, <2>6, <2>7, <2>8
          DEF RestStep, MainStep
<1> QED BY <1>1, <1>2, <1>3, StepParts

\* Every reachable state is well-typed, for any commands and agents.
THEOREM TypeCorrect == Spec => []TypeOK
<1> QED BY TypeInit, TypeStep, PTL DEF Spec

-----------------------------------------------------------------------------
\* The status ends the output

\* A pipe the response has stopped reading, other than after a failure, is closed on
\* the other side and empty; nobody can open it again.
PipeInv ==
    \A c \in Command : c \notin failed =>
        /\ stream[c] = "stream" =>
              \A p \in Pipe \ reading[c] : p \notin held[c] \cup unread[c]
        /\ stream[c] \in {"wait", "status"} => held[c] = {} /\ unread[c] = {}

\* No command has been started.
LEMMA PipeInit == Init => PipeInv
BY DEF Init, CommandInit, PipeInv

\* A command's own steps keep PipeInv.
LEMMA PipeKept ==
    ASSUME CommandTypeOK, PipeInv, NEW c \in Command,
           \/ Spawn(c) \/ GroupStep(c) \/ StreamStep(c) \/ Drop(c)
           \/ \E p \in Pipe : ReadFails(c, p)
    PROVE  PipeInv'
<1> USE DEF CommandTypeOK, PipeInv
<1>1. CASE Spawn(c)
  BY <1>1 DEF Spawn
<1>2. CASE GroupStep(c)
  <2>1. CASE Fork(c)
    BY <2>1 DEF Fork
  <2>2. CASE ChildExits(c)
    BY <2>2 DEF ChildExits
  <2>3. CASE DescendantExits(c)
    BY <2>3 DEF DescendantExits
  <2>4. ASSUME NEW p \in Pipe, Output(c, p)
        PROVE  PipeInv'
    BY <2>4 DEF Output
  <2>5. ASSUME NEW p \in Pipe, ClosePipe(c, p)
        PROVE  PipeInv'
    BY <2>5 DEF ClosePipe
  <2> QED BY <1>2, <2>1, <2>2, <2>3, <2>4, <2>5 DEF GroupStep
<1>3. CASE StreamStep(c)
  <2>1. ASSUME NEW p \in Pipe, ReadChunk(c, p)
        PROVE  PipeInv'
    BY <2>1 DEF ReadChunk
  <2>2. ASSUME NEW p \in Pipe, ReadEnd(c, p)
        PROVE  PipeInv'
    \* Only the pipe that ended is given up; if it was the last one, all are closed.
    <3>1. \A q \in Pipe \ reading'[c] : q \notin held[c] \cup unread[c] \/ c \in failed
      BY <2>2 DEF ReadEnd
    <3>2. CASE reading[c] \ {p} = {}
      <4>1. reading'[c] = {}
        BY <2>2, <3>2 DEF ReadEnd
      <4>2. c \in failed \/ (held[c] = {} /\ unread[c] = {})
        BY <3>1, <4>1
      <4> QED BY <2>2, <3>2, <4>2 DEF ReadEnd, After
    <3>3. CASE reading[c] \ {p} # {}
      BY <2>2, <3>1, <3>3 DEF ReadEnd, After
    <3> QED BY <3>2, <3>3
  <2>3. CASE WaitChild(c)
    BY <2>3 DEF WaitChild
  <2> QED BY <1>3, <2>1, <2>2, <2>3 DEF StreamStep
<1>4. CASE Drop(c)
  BY <1>4 DEF Drop
<1>5. ASSUME NEW p \in Pipe, ReadFails(c, p)
      PROVE  PipeInv'
  BY <1>5 DEF ReadFails, After
<1> QED BY <1>1, <1>2, <1>3, <1>4, <1>5

\* Steps of the server leave the pipes alone, those of commands keep PipeInv.
LEMMA PipeStep == TypeOK /\ PipeInv /\ [Next]_vars => PipeInv'
<1> SUFFICES ASSUME TypeOK, PipeInv, [Next]_vars
             PROVE  PipeInv'
  OBVIOUS
<1>1. CASE \E c \in Command :
              \/ Spawn(c) \/ GroupStep(c) \/ StreamStep(c) \/ Drop(c)
              \/ \E p \in Pipe : ReadFails(c, p)
  BY <1>1, PipeKept DEF TypeOK
<1>2. CASE UNCHANGED commandVars
  BY <1>2 DEF PipeInv, commandVars
<1> QED BY <1>1, <1>2, StepParts DEF CommandRequest, RestStep

\* The status of a command follows all of its output, for any number of commands
\* (stream_process_response).
THEOREM StatusIsLast == Spec => []StatusAfterOutput
<1>1. PipeInv => StatusAfterOutput
  BY DEF PipeInv, StatusAfterOutput
<1> QED BY <1>1, TypeInit, TypeStep, PipeInit, PipeStep, PTL DEF Spec

-----------------------------------------------------------------------------
\* Nothing is forgotten at the exit

\* A listener whose task has ended, or that there is not.
Finished(s) == Over(s) \/ listener[s] = "off"

\* Before the setup is over nothing listens.  serve_http_server_inner has awaited the
\* listeners up to the point it has reached, and what it awaited did not fail if it goes
\* on to clear; the iteration of clear leaves no agent behind it that was listed before;
\* and the process exits only when the task of the server has ended.
MainInv ==
    /\ main = "setup" => \A s \in Listener : listener[s] = "off"
    /\ main \notin {"setup", "error", "done"} => listener["http"] # "off"
    /\ main \in {"https", "dev", "clear", "returned"} => Finished("http")
    /\ main \in {"dev", "clear", "returned"} =>
          Finished("https") /\ listener["https"] # "failed"
    /\ main \in {"clear", "returned"} =>
          Finished("dev") /\ "failed" \notin {listener["dev"], listener["http"]}
    /\ main = "clear" => \A a \in passed : agent[a] # "listed"
    /\ main \notin {"clear", "returned"} => passed = {}
    /\ main = "returned" => \A a \in Agent : agent[a] # "listed"
    /\ app = "exited" => main \in {"returned", "done"}

\* A command came through a listener that was bound and has not drained, and a group is
\* alive only while its answer is not dropped.
ViaInv ==
    \A c \in Command :
        /\ Streaming(c) => listener[via[c]] \in {"serving", "draining", "cut"}
        /\ stream[c] \in {"none", "dropped"} => ~GroupAlive(c)

\* Nothing runs and nothing listens.
LEMMA ServerInit == Init => MainInv /\ ViaInv
BY DEF Init, CommandInit, MainInv, ViaInv, Streaming, GroupAlive

\* What is finished stays so, and does not fail any more; and a listener with connections
\* does not drain.
LEMMA FinishedStays ==
    ASSUME TypeOK, NEW s \in Listener, ListenerStep(s)
    PROVE  /\ \A t \in Listener : Finished(t) => Finished(t)' /\ listener'[t] = listener[t]
           /\ \A t \in Listener : listener[t] # "off" => listener'[t] # "off"
           /\ ViaInv => ViaInv'
<1> USE DEF TypeOK
<1>1. \A t \in Listener : /\ listener[t] \in {"off", "drained", "cut", "failed"}
                               => listener'[t] = listener[t]
                          /\ listener[t] # "off" => listener'[t] # "off"
  BY DEF ListenerStep, Bind, StopAccepting, Drained, Deadline
<1>2. \A t \in Listener : Connections(t) # {} /\ listener[t] \in {"serving", "draining", "cut"}
                             => listener'[t] \in {"serving", "draining", "cut"}
  BY DEF ListenerStep, Bind, StopAccepting, Drained, Deadline
<1>3. UNCHANGED <<stream, via, child, descendant>>
  BY DEF ListenerStep, Bind, StopAccepting, Drained, Deadline, commandVars
<1>4. \A t \in Listener : Finished(t) => Finished(t)' /\ listener'[t] = listener[t]
  BY <1>1 DEF Finished, Over
<1>5. ASSUME ViaInv, NEW c \in Command, Streaming(c)
      PROVE  listener'[via[c]] \in {"serving", "draining", "cut"}
  <2>1. c \in Connections(via[c])
    BY <1>5 DEF Connections
  <2> QED BY <1>2, <1>5, <2>1 DEF ViaInv
<1>6. ViaInv => ViaInv'
  BY <1>3, <1>5 DEF ViaInv, Streaming, GroupAlive
<1> QED BY <1>1, <1>4, <1>6

\* No step makes a response stream, or a group alive, but CommandRequest; and a response
\* is dropped with its group.
LEMMA StreamingKept ==
    ASSUME CommandTypeOK, NEW c \in Command,
           GroupStep(c) \/ StreamStep(c) \/ Drop(c) \/ \E p \in Pipe : ReadFails(c, p)
    PROVE  \A d \in Command :
              /\ Streaming(d)' => Streaming(d)
              /\ stream'[d] \in {"none", "dropped"} /\ GroupAlive(d)'
                    => stream[d] \in {"none", "dropped"} /\ GroupAlive(d)
<1> USE DEF CommandTypeOK, Streaming, GroupAlive
<1> DEFINE Goal == \A d \in Command :
                      /\ Streaming(d)' => Streaming(d)
                      /\ stream'[d] \in {"none", "dropped"} /\ GroupAlive(d)'
                            => stream[d] \in {"none", "dropped"} /\ GroupAlive(d)
<1>1. CASE GroupStep(c)
  BY <1>1 DEF GroupStep, Fork, ChildExits, DescendantExits, Output, ClosePipe
<1>2. CASE StreamStep(c)
  BY <1>2 DEF StreamStep, ReadChunk, ReadEnd, WaitChild, After
<1>3. CASE Drop(c)
  BY <1>3 DEF Drop
<1>4. ASSUME NEW p \in Pipe, ReadFails(c, p) PROVE Goal
  BY <1>4 DEF ReadFails, After
<1> QED BY <1>1, <1>2, <1>3, <1>4

\* What agents do leaves none behind the iteration that was listed before.
LEMMA AgentsKept ==
    ASSUME TypeOK, MainInv, NEW a \in Agent, AgentStep(a)
    PROVE  MainInv' /\ UNCHANGED <<listener, via, commandVars>>
<1>1. UNCHANGED <<listener, via, commandVars, main, app, passed>>
  BY DEF AgentStep, StartAgent, ListAgent, RemoveAgent, AgentOver
<1>2. \A b \in Agent :
         agent'[b] = "listed" /\ main \in {"clear", "returned"} => agent[b] = "listed"
  BY DEF TypeOK, AgentStep, StartAgent, ListAgent, RemoveAgent, AgentOver
<1> QED BY <1>1, <1>2 DEF TypeOK, MainInv, Finished, Over

\* The server awaits its listeners in order, and clears after the last.
LEMMA ServerStep == TypeOK /\ MainInv /\ ViaInv /\ [Next]_vars => MainInv' /\ ViaInv'
<1> SUFFICES ASSUME TypeOK, MainInv, ViaInv, [Next]_vars
             PROVE  MainInv' /\ ViaInv'
  OBVIOUS
<1> USE DEF TypeOK
<1>1. ASSUME UNCHANGED serverVars
      PROVE  MainInv'
  BY <1>1 DEF MainInv, Finished, Over, serverVars, agentVars
<1>2. CASE /\ UNCHANGED serverVars
           /\ \E c \in Command :
                 GroupStep(c) \/ StreamStep(c) \/ Drop(c) \/ \E p \in Pipe : ReadFails(c, p)
  <2>1. \A d \in Command :
           /\ Streaming(d)' => Streaming(d)
           /\ stream'[d] \in {"none", "dropped"} /\ GroupAlive(d)'
                 => stream[d] \in {"none", "dropped"} /\ GroupAlive(d)
    BY <1>2, StreamingKept
  <2> QED BY <1>1, <1>2, <2>1 DEF ViaInv, serverVars
<1>3. ASSUME NEW c \in Command, NEW s \in Listener, CommandRequest(c, s)
      PROVE  MainInv' /\ ViaInv'
  <2>1. MainInv'
    BY <1>3 DEF CommandRequest, MainInv, Finished, Over, agentVars
  <2>2. ViaInv'
    BY <1>3 DEF CommandRequest, Spawn, ViaInv, Streaming, GroupAlive, CommandTypeOK
  <2> QED BY <2>1, <2>2
<1>4. CASE RestStep
  <2>1. ASSUME UNCHANGED <<listener, via>>
        PROVE  ViaInv'
    BY <1>4, <2>1 DEF ViaInv, Streaming, GroupAlive, commandVars, RestStep
  <2>2. ASSUME NEW s \in Listener, ListenerStep(s)
        PROVE  MainInv' /\ ViaInv'
    <3>1. UNCHANGED <<main, app, agent, passed>>
      BY <2>2 DEF ListenerStep, Bind, StopAccepting, Drained, Deadline, agentVars
    <3>2. /\ \A t \in Listener : Finished(t) => Finished(t)' /\ listener'[t] = listener[t]
          /\ \A t \in Listener : listener[t] # "off" => listener'[t] # "off"
          /\ ViaInv => ViaInv'
      BY <2>2, FinishedStays
    <3>3. main = "setup" => \A t \in Listener : listener'[t] = "off"
      BY <3>2 DEF MainInv, Finished
    <3> QED BY <3>1, <3>2, <3>3 DEF MainInv, Listener
  <2>3. ASSUME NEW a \in Agent, AgentStep(a)
        PROVE  MainInv' /\ ViaInv'
    BY <2>1, <2>3, AgentsKept
  <2>4. CASE ShutdownHandler \/ Quit \/ ShowDialog
    BY <2>1, <2>4 DEF ShutdownHandler, Quit, ShowDialog, MainInv, Finished, Over, agentVars
  <2>5. CASE Setup
    <3>1. MainInv'
      BY <2>5 DEF Setup, Up, MainInv, agentVars
    <3>2. \A c \in Command : ~Streaming(c)
      BY <2>5 DEF Setup, MainInv, ViaInv
    <3> QED BY <1>4, <3>1, <3>2
            DEF ViaInv, Streaming, GroupAlive, commandVars, RestStep
  <2>6. CASE SetupFails
    BY <2>1, <2>6 DEF SetupFails, Up, MainInv, Finished, Over, agentVars
  <2>7. CASE AwaitHttp
    BY <2>1, <2>7 DEF AwaitHttp, Goto, Up, MainInv, Finished, Over, agentVars
  <2>8. CASE AwaitHttps
    <3>1. UNCHANGED <<listener, agent, passed, app, via>> /\ app # "exited"
      BY <2>8 DEF AwaitHttps, Goto, Up, agentVars
    <3>2. /\ Finished("http") /\ Finished("https") /\ listener["http"] # "off"
          /\ main' \in {"error", "dev"}
          /\ main' = "dev" => listener["https"] # "failed"
      BY <2>8 DEF AwaitHttps, Goto, MainInv, Finished
    <3>3. passed = {}
      BY <2>8 DEF AwaitHttps, MainInv
    <3> QED BY <2>1, <3>1, <3>2, <3>3 DEF MainInv, Finished, Over
  <2>9. CASE AwaitDev
    <3>1. UNCHANGED <<listener, agent, passed, app, via>> /\ app # "exited"
      BY <2>9 DEF AwaitDev, Goto, Up, agentVars
    <3>2. /\ \A s \in Listener : Finished(s)
          /\ listener["http"] # "off" /\ listener["https"] # "failed"
          /\ main' = "error" \/ (main' = "clear" /\ "failed" \notin {listener["dev"],
                                                                     listener["http"]})
      BY <2>9 DEF AwaitDev, Goto, MainInv, Finished, Listener
    <3>3. passed = {}
      BY <2>9 DEF AwaitDev, MainInv
    <3> QED BY <2>1, <3>1, <3>2, <3>3 DEF MainInv, Finished, Over, Listener
  <2>10. ASSUME NEW a \in Agent, ClearPlace(a)
         PROVE  MainInv' /\ ViaInv'
    BY <2>1, <2>10 DEF ClearPlace, Up, MainInv, Finished, Over
  <2>11. CASE ClearEnd
    BY <2>1, <2>11 DEF ClearEnd, Goto, Up, MainInv, Finished, Over, agentVars
  <2>12. CASE Dismiss \/ Exit
    BY <2>1, <2>12 DEF Dismiss, Exit, Up, MainInv, Finished, Over, agentVars
  <2>13. CASE UNCHANGED serverVars
    BY <1>1, <2>1, <2>13 DEF serverVars
  <2> QED BY <1>4, <2>2, <2>3, <2>4, <2>5, <2>6, <2>7, <2>8, <2>9, <2>10, <2>11, <2>12, <2>13
          DEF RestStep, MainStep
<1> QED BY <1>2, <1>3, <1>4, StepParts

\* When the server has ended without an error and the application exits, every agent the
\* registry listed when clear began and every command that still streams was told to stop.
THEOREM AllToldToStop == Spec => []NothingForgotten
<1>1. TypeOK /\ MainInv /\ ViaInv => NothingForgotten
  <2> SUFFICES ASSUME TypeOK, MainInv, ViaInv, main = "returned",
                      NEW c \in Command, GroupAlive(c), stream[c] # "status"
               PROVE  listener[via[c]] = "cut"
    BY DEF NothingForgotten, MainInv
  <2>1. \A s \in Listener : listener[s] \in {"drained", "cut", "off"}
    BY DEF MainInv, Finished, Over, Listener
  <2>2. Streaming(c)
    BY DEF ViaInv, Streaming, TypeOK, CommandTypeOK
  <2> QED BY <2>1, <2>2 DEF ViaInv, TypeOK
<1> QED BY <1>1, TypeInit, TypeStep, ServerInit, ServerStep, PTL DEF Spec

-----------------------------------------------------------------------------
\* How quitting ends: what QuitCompletes needs of the model besides fairness.  The
\* formulae on the left repeat the guards of the actions.

ListenerCanStep(s) ==
    \/ listener[s] \in {"binding", "draining"}
    \/ listener[s] = "serving" /\ signalled

MainCanStep ==
    \/ main \in {"setup", "clear", "returned", "done"}
    \/ main = "http" /\ Over("http")
    \/ main = "https" /\ Finished("https")
    \/ main = "dev" /\ Finished("dev")

\* While the main thread waits for the server, the shutdown handler, a listener, the
\* server or the main thread itself can go on, except where the server waits for a dialog
\* about an error, of its setup or of a listener.
QuitSeen ==
    app = "waiting" => \/ ~signalled /\ listener["http"] # "off"
                       \/ \E s \in Listener : ListenerCanStep(s)
                       \/ MainCanStep
                       \/ main = "error"

\* Quitting meets one deadlock only, the dialog: with the deadlines of the listeners no
\* command, client or agent can hold it up.
THEOREM OnlyDialogBlocksQuit == Spec => []QuitSeen
<1>1. TypeOK /\ MainInv => QuitSeen
  <2> SUFFICES ASSUME TypeOK, MainInv, main \notin {"setup", "done", "error"}, signalled,
                      \A s \in Listener : ~ListenerCanStep(s)
               PROVE  MainCanStep
    BY DEF QuitSeen, MainInv, MainCanStep
  <2>1. \A s \in Listener : Finished(s)
    BY DEF TypeOK, ListenerCanStep, Finished, Over
  <2>2. Over("http")
    BY <2>1 DEF MainInv, Finished, Listener
  <2> QED BY <2>1, <2>2 DEF TypeOK, MainCanStep, Listener
<1> QED BY <1>1, TypeInit, TypeStep, ServerInit, ServerStep, PTL DEF Spec

\* What a listener, and the server, still have before them; to set up is also to start
\* the listeners.
StagesLeft(s) ==
    CASE listener[s] = "binding" -> 3
      [] listener[s] = "serving" -> 2
      [] listener[s] = "draining" -> 1
      [] listener[s] \in {"off", "drained", "cut", "failed"} -> 0

AwaitsLeft ==
    CASE main = "setup" -> 15
      [] main = "http" -> 5
      [] main = "https" -> 4
      [] main = "dev" -> 3
      [] main \in {"clear", "error"} -> 2
      [] main \in {"returned", "done"} -> 1

Left == StagesLeft("http") + StagesLeft("https") + StagesLeft("dev") + AwaitsLeft
        + (IF signalled THEN 0 ELSE 1)

\* While the main thread waits, a step of anybody leaves the server where it is, clears
\* one more place of the registry, brings the end nearer, or is the exit.
QuitWindsUp ==
    [][app = "waiting" =>
          \/ UNCHANGED <<listener, signalled, main, app, passed>>
          \/ /\ UNCHANGED <<listener, signalled, main, app>>
             /\ \E a \in Agent \ passed : passed' = passed \cup {a}
          \/ app' = "waiting" /\ Left' \in Nat /\ Left' < Left
          \/ app' = "exited"]_vars

\* The server takes finitely many steps once the application quits, if there are finitely
\* many agents: clients and commands that go on do not make it start over.
THEOREM QuitTerminates == Spec => QuitWindsUp
<1> DEFINE Clears == /\ UNCHANGED <<listener, signalled, main, app>>
                     /\ \E a \in Agent \ passed : passed' = passed \cup {a}
           Nearer == app' = "waiting" /\ Left' \in Nat /\ Left' < Left
           A == app = "waiting" => \/ UNCHANGED <<listener, signalled, main, app, passed>>
                                   \/ Clears \/ Nearer \/ app' = "exited"
<1>1. TypeOK /\ TypeOK' /\ [Next]_vars => [A]_vars
  <2> SUFFICES ASSUME TypeOK, TypeOK', [Next]_vars, app = "waiting"
               PROVE  \/ UNCHANGED <<listener, signalled, main, app, passed>>
                      \/ Clears \/ Nearer \/ app' = "exited"
    OBVIOUS
  <2>1. /\ \A s \in Listener : StagesLeft(s) \in 0 .. 3 /\ StagesLeft(s)' \in 0 .. 3
        /\ AwaitsLeft \in 1 .. 15 /\ AwaitsLeft' \in 1 .. 15
    BY DEF TypeOK, StagesLeft, AwaitsLeft
  <2>2. "http" \in Listener /\ "https" \in Listener /\ "dev" \in Listener
    BY DEF Listener
  <2>3. Left \in Nat /\ Left' \in Nat
    BY <2>1, <2>2 DEF Left
  <2>4. ASSUME NEW s \in Listener, ListenerStep(s)
        PROVE  app' = "waiting" /\ Left' < Left
    <3>1. /\ StagesLeft(s)' < StagesLeft(s)
          /\ \A t \in Listener : t # s => StagesLeft(t)' = StagesLeft(t)
      BY <2>4 DEF TypeOK, ListenerStep, Bind, StopAccepting, Drained, Deadline, StagesLeft
    <3>2. UNCHANGED <<main, signalled, app>>
      BY <2>4 DEF ListenerStep, Bind, StopAccepting, Drained, Deadline
    <3>3. AwaitsLeft' = AwaitsLeft
      BY <3>2 DEF AwaitsLeft
    <3> QED BY <2>1, <2>2, <3>1, <3>2, <3>3 DEF Left, Listener
  <2>5. ASSUME AwaitHttp \/ AwaitHttps \/ AwaitDev \/ ClearEnd \/ Dismiss \/ SetupFails
        PROVE  app' = "waiting" /\ Left' < Left
    <3>1. UNCHANGED <<listener, signalled>> /\ app' = "waiting"
      BY <2>5 DEF AwaitHttp, AwaitHttps, AwaitDev, ClearEnd, Dismiss, SetupFails, Goto
    <3>2. AwaitsLeft' < AwaitsLeft
      BY <2>5
      DEF AwaitHttp, AwaitHttps, AwaitDev, ClearEnd, Dismiss, SetupFails, Goto, AwaitsLeft
    <3>3. \A s \in Listener : StagesLeft(s)' = StagesLeft(s)
      BY <3>1 DEF StagesLeft
    <3> QED BY <2>1, <2>2, <3>1, <3>2, <3>3 DEF Left
  <2>6. CASE Setup
    <3>1. UNCHANGED <<signalled, app>> /\ main = "setup" /\ main' = "http"
      BY <2>6 DEF Setup
    <3>2. AwaitsLeft = 15 /\ AwaitsLeft' = 5
      BY <3>1 DEF AwaitsLeft
    <3> QED BY <2>1, <2>2, <2>3, <3>1, <3>2 DEF Left
  <2>7. CASE ShutdownHandler
    <3>1. /\ ~signalled /\ signalled' = TRUE
          /\ UNCHANGED <<listener, main, app>>
      BY <2>7 DEF ShutdownHandler
    <3>2. AwaitsLeft' = AwaitsLeft /\ \A s \in Listener : StagesLeft(s)' = StagesLeft(s)
      BY <3>1 DEF AwaitsLeft, StagesLeft
    <3>3. (IF signalled THEN 0 ELSE 1) = 1 /\ (IF signalled THEN 0 ELSE 1)' = 0
      BY <3>1
    <3>4. Left' < Left
      BY <2>1, <2>2, <3>2, <3>3 DEF Left
    <3> QED BY <2>3, <3>1, <3>4
  <2>8. ASSUME NEW a \in Agent, ClearPlace(a)
        PROVE  Clears
    BY <2>8 DEF ClearPlace
  <2>9. ASSUME NEW a \in Agent, AgentStep(a)
        PROVE  UNCHANGED <<listener, signalled, main, app, passed>>
    BY <2>9 DEF AgentStep, StartAgent, ListAgent, RemoveAgent, AgentOver
  <2>10. CASE Exit
    BY <2>10 DEF Exit
  <2>11. ASSUME NEW c \in Command, NEW s \in Listener, CommandRequest(c, s)
         PROVE  UNCHANGED <<listener, signalled, main, app, passed>>
    BY <2>11 DEF CommandRequest, agentVars
  <2>12. CASE UNCHANGED serverVars
    BY <2>12 DEF serverVars, agentVars
  <2> QED
    BY <2>3, <2>4, <2>5, <2>6, <2>7, <2>8, <2>9, <2>10, <2>11, <2>12, StepParts
    DEF RestStep, MainStep, ShowDialog, Quit
<1> QED BY <1>1, TypeCorrect, PTL DEF Spec, QuitWindsUp

-----------------------------------------------------------------------------
\* Requests that change files: the types, and what a request has at each stage

\* What every request asks for: one of the operations, its fields in order.
LEMMA Asked ==
    ASSUME NEW o \in Op
    PROVE  /\ o.kind \in {"write", "delete", "copy", "move"}
           /\ o.path \in Path
           /\ o.kind \in {"copy", "move"} => o.to \in Path
           /\ o.kind \notin {"copy", "move"} => o.to \notin Path
           /\ o.exclusive \in BOOLEAN
           /\ o.expected \in File \cup {None}
           /\ o.kind # "write" => ~o.exclusive /\ o.expected = None
  BY ConstantsAssumption DEF Operations, File

\* The handler of a request: where it stands, what it asked for, and what it holds.
StageOK(r) ==
    /\ stage[r] = "new" => op[r] = NoOp
    /\ stage[r] # "new" => op[r] \in Op
    /\ stage[r] \in {"check", "hash"} => IsGuarded(r)
    /\ stage[r] = "hash" => source[r] # None
    /\ stage[r] \in {"new", "check", "hash", "open"} => file[r] = None
    /\ stage[r] = "write" => op[r].kind = "write" /\ op[r].exclusive /\ r \notin writing
    /\ stage[r] \in {"write", "mtime"} => op[r].kind = "write" /\ file[r] # None
    /\ stage[r] = "fill" => r \in writing
    /\ r \in writing => file[r] # None
    /\ r \in writing /\ ~op[r].exclusive => stage[r] \in {"fill", "gone"}
    /\ file[r] # None => op[r].kind \in {"write", "copy"}
    /\ file[r] # None /\ op[r].kind = "copy" => source[r] # None

HandlerInv == FileTypeOK /\ \A r \in Request : StageOK(r)

\* Nobody has asked for anything yet.
LEMMA HandlerInit == FileInit => HandlerInv
<1> SUFFICES ASSUME FileInit PROVE HandlerInv
  OBVIOUS
<1>1. FileTypeOK
  BY DEF FileInit, FileTypeOK, File, Stages
<1>2. \A r \in Request : StageOK(r)
  BY DEF FileInit, StageOK
<1> QED BY <1>1, <1>2 DEF HandlerInv

\* Every system call keeps the types.
LEMMA FileTypeStep == HandlerInv /\ [FileNext]_requestVars => FileTypeOK'
<1> SUFFICES ASSUME HandlerInv, [FileNext]_requestVars PROVE FileTypeOK'
  OBVIOUS
<1> USE Asked
    DEF HandlerInv, FileTypeOK, StageOK, Stages, Answers, File, Advance, Touch, fsVars,
        requestVars
<1>1. ASSUME NEW r \in Request, NEW o \in Op, Arrive(r, o) PROVE FileTypeOK'
  BY <1>1 DEF Arrive
<1>2. ASSUME NEW r \in Request, CheckOpen(r) PROVE FileTypeOK'
  BY <1>2 DEF CheckOpen
<1>3. ASSUME NEW r \in Request, CheckHash(r) PROVE FileTypeOK'
  BY <1>3 DEF CheckHash
<1>4. ASSUME NEW r \in Request, OpenPlain(r) PROVE FileTypeOK'
  BY <1>4 DEF OpenPlain, OpenTruncated
<1>5. ASSUME NEW r \in Request, OpenNew(r) PROVE FileTypeOK'
  BY <1>5 DEF OpenNew
<1>6. ASSUME NEW r \in Request, WriteNew(r) PROVE FileTypeOK'
  BY <1>6 DEF WriteNew
<1>7. ASSUME NEW r \in Request, OpenFails(r) PROVE FileTypeOK'
  BY <1>7 DEF OpenFails
<1>8. ASSUME NEW r \in Request, WriteFails(r) PROVE FileTypeOK'
  BY <1>8 DEF WriteFails
<1>9. ASSUME NEW r \in Request, WriteLands(r) PROVE FileTypeOK'
  <2>1. r \in writing /\ file[r] \in File /\ op[r] \in Op
    BY <1>9, ConstantsAssumption DEF WriteLands
  <2>2. Bytes(r) \in SUBSET File
    BY <2>1, ConstantsAssumption DEF Bytes
  <2>3. data' \in [File -> SUBSET File]
    BY <1>9, <2>1, <2>2 DEF WriteLands
  <2> QED BY <1>9, <2>3 DEF WriteLands
<1>10. ASSUME NEW r \in Request, AnswerWrite(r) PROVE FileTypeOK'
  BY <1>10 DEF AnswerWrite
<1>11. ASSUME NEW r \in Request, Delete(r) PROVE FileTypeOK'
  BY <1>11 DEF Delete
<1>12. ASSUME NEW r \in Request, Move(r) PROVE FileTypeOK'
  BY <1>12 DEF Move
<1>13. ASSUME NEW r \in Request, CopyOpen(r) PROVE FileTypeOK'
  BY <1>13 DEF CopyOpen, OpenTruncated
<1>14. ASSUME NEW r \in Request, Cancel(r) PROVE FileTypeOK'
  BY <1>14 DEF Cancel
<1>15. CASE UNCHANGED requestVars
  BY <1>15
<1> QED BY <1>1, <1>2, <1>3, <1>4, <1>5, <1>6, <1>7, <1>8,
           <1>9, <1>10, <1>11, <1>12, <1>13, <1>14, <1>15
        DEF FileNext, Write

\* Every system call leaves a handler where its next one may rely on what it holds.
LEMMA StageStep == HandlerInv /\ [FileNext]_requestVars => (\A q \in Request : StageOK(q))'
<1> SUFFICES ASSUME HandlerInv, [FileNext]_requestVars, NEW q \in Request PROVE StageOK(q)'
  OBVIOUS
<1> USE Asked, ConstantsAssumption
    DEF HandlerInv, FileTypeOK, StageOK, IsGuarded, Exists, File, Advance, fsVars,
        requestVars
<1>1. ASSUME NEW r \in Request, NEW o \in Op, Arrive(r, o) PROVE StageOK(q)'
  BY <1>1 DEF Arrive
<1>2. ASSUME NEW r \in Request, CheckOpen(r) PROVE StageOK(q)'
  BY <1>2 DEF CheckOpen
<1>3. ASSUME NEW r \in Request, CheckHash(r) PROVE StageOK(q)'
  BY <1>3 DEF CheckHash
<1>4. ASSUME NEW r \in Request, OpenPlain(r) PROVE StageOK(q)'
  BY <1>4 DEF OpenPlain, OpenTruncated
<1>5. ASSUME NEW r \in Request, OpenNew(r) PROVE StageOK(q)'
  BY <1>5 DEF OpenNew
<1>6. ASSUME NEW r \in Request, WriteNew(r) PROVE StageOK(q)'
  BY <1>6 DEF WriteNew
<1>7. ASSUME NEW r \in Request, OpenFails(r) PROVE StageOK(q)'
  BY <1>7 DEF OpenFails
<1>8. ASSUME NEW r \in Request, WriteFails(r) PROVE StageOK(q)'
  BY <1>8 DEF WriteFails
<1>9. ASSUME NEW r \in Request, WriteLands(r) PROVE StageOK(q)'
  <2>1. /\ r \in writing /\ writing' = writing \ {r}
        /\ stage' = IF stage[r] # "fill" THEN stage
                    ELSE [stage EXCEPT ![r] = IF op[r].kind = "copy" THEN "ok" ELSE "mtime"]
        /\ UNCHANGED <<op, file, source>>
    BY <1>9 DEF WriteLands
  <2>2. op[r] \in Op /\ op[r].kind \in {"write", "copy"} /\ file[r] # None
    BY <2>1
  <2> QED BY <2>1, <2>2
<1>10. ASSUME NEW r \in Request, AnswerWrite(r) PROVE StageOK(q)'
  BY <1>10 DEF AnswerWrite
<1>11. ASSUME NEW r \in Request, Delete(r) PROVE StageOK(q)'
  BY <1>11 DEF Delete
<1>12. ASSUME NEW r \in Request, Move(r) PROVE StageOK(q)'
  BY <1>12 DEF Move
<1>13. ASSUME NEW r \in Request, CopyOpen(r) PROVE StageOK(q)'
  BY <1>13 DEF CopyOpen, OpenTruncated
<1>14. ASSUME NEW r \in Request, Cancel(r) PROVE StageOK(q)'
  BY <1>14 DEF Cancel
<1>15. CASE UNCHANGED requestVars
  BY <1>15
<1> QED BY <1>1, <1>2, <1>3, <1>4, <1>5, <1>6, <1>7, <1>8,
           <1>9, <1>10, <1>11, <1>12, <1>13, <1>14, <1>15
        DEF FileNext, Write

\* The handler invariant holds in every reachable state.
THEOREM HandlersCorrect == FileSpec => []HandlerInv
<1>1. HandlerInv /\ [FileNext]_requestVars => HandlerInv'
  BY FileTypeStep, StageStep DEF HandlerInv
<1> QED BY <1>1, HandlerInit, PTL DEF FileSpec

-----------------------------------------------------------------------------
\* Exclusive writes

\* A path of which an exclusive write got the file names one until it is taken away.
CreatorInv == \A r \in Request : Admitted(r) => Exists(op[r].path) \/ Released(op[r].path)

\* A path that was released stays so: answers are final.
LEMMA ReleasedStays ==
    ASSUME HandlerInv, [FileNext]_requestVars, NEW p, Released(p)
    PROVE  Released(p)'
<1> PICK m \in Request :
       /\ op[m].kind \in {"delete", "move"} /\ op[m].path = p /\ op[m].to # p
       /\ stage[m] = "ok"
  BY DEF Released
<1> SUFFICES op'[m] = op[m] /\ stage'[m] = "ok"
  BY DEF Released
<1> USE DEF HandlerInv, FileTypeOK, Answers, Advance, requestVars
<1>1. ASSUME NEW r \in Request, NEW o \in Op, Arrive(r, o)
      PROVE  op'[m] = op[m] /\ stage'[m] = "ok"
  BY <1>1 DEF Arrive
<1>2. ASSUME NEW r \in Request, CheckOpen(r) PROVE op'[m] = op[m] /\ stage'[m] = "ok"
  BY <1>2 DEF CheckOpen
<1>3. ASSUME NEW r \in Request, CheckHash(r) PROVE op'[m] = op[m] /\ stage'[m] = "ok"
  BY <1>3 DEF CheckHash
<1>4. ASSUME NEW r \in Request, OpenPlain(r) PROVE op'[m] = op[m] /\ stage'[m] = "ok"
  BY <1>4 DEF OpenPlain, OpenTruncated
<1>5. ASSUME NEW r \in Request, OpenNew(r) PROVE op'[m] = op[m] /\ stage'[m] = "ok"
  BY <1>5 DEF OpenNew
<1>6. ASSUME NEW r \in Request, WriteNew(r) PROVE op'[m] = op[m] /\ stage'[m] = "ok"
  BY <1>6 DEF WriteNew
<1>7. ASSUME NEW r \in Request, OpenFails(r) PROVE op'[m] = op[m] /\ stage'[m] = "ok"
  BY <1>7 DEF OpenFails
<1>8. ASSUME NEW r \in Request, WriteFails(r) PROVE op'[m] = op[m] /\ stage'[m] = "ok"
  BY <1>8 DEF WriteFails
<1>9. ASSUME NEW r \in Request, WriteLands(r) PROVE op'[m] = op[m] /\ stage'[m] = "ok"
  BY <1>9 DEF WriteLands
<1>10. ASSUME NEW r \in Request, AnswerWrite(r) PROVE op'[m] = op[m] /\ stage'[m] = "ok"
  BY <1>10 DEF AnswerWrite
<1>11. ASSUME NEW r \in Request, Delete(r) PROVE op'[m] = op[m] /\ stage'[m] = "ok"
  BY <1>11 DEF Delete
<1>12. ASSUME NEW r \in Request, Move(r) PROVE op'[m] = op[m] /\ stage'[m] = "ok"
  BY <1>12 DEF Move
<1>13. ASSUME NEW r \in Request, CopyOpen(r) PROVE op'[m] = op[m] /\ stage'[m] = "ok"
  BY <1>13 DEF CopyOpen, OpenTruncated
<1>14. ASSUME NEW r \in Request, Cancel(r) PROVE op'[m] = op[m] /\ stage'[m] = "ok"
  BY <1>14 DEF Cancel
<1>15. CASE UNCHANGED requestVars
  BY <1>15
<1> QED BY <1>1, <1>2, <1>3, <1>4, <1>5, <1>6, <1>7, <1>8,
           <1>9, <1>10, <1>11, <1>12, <1>13, <1>14, <1>15
        DEF FileNext, Write

\* A path ceases to name a file only when a request takes the file away and says so.
LEMMA NameStays ==
    ASSUME HandlerInv, [FileNext]_requestVars, NEW p \in Path, Exists(p)
    PROVE  Exists(p)' \/ Released(p)'
<1> DEFINE Goal == Exists(p)' \/ Released(p)'
<1> HIDE DEF Goal
<1>1. entry \in [Path -> File \cup {None}] /\ None \notin File
  BY ConstantsAssumption DEF HandlerInv, FileTypeOK
<1>2. ASSUME UNCHANGED entry PROVE Goal
  BY <1>2 DEF Exists, Goal
<1>3. ASSUME NEW r \in Request, NEW t, OpenTruncated(r, t) PROVE Goal
  <2>1. PICK f \in File : entry' = [entry EXCEPT ![t] = f]
    BY <1>1, <1>3 DEF OpenTruncated, Exists, File
  <2> QED BY <1>1, <2>1 DEF Exists, Goal
<1>4. ASSUME NEW r \in Request, OpenNew(r) PROVE Goal
  <2>1. r \in File BY DEF File
  <2> QED BY <1>1, <1>4, <2>1 DEF OpenNew, fsVars, Exists, Goal
<1>5. ASSUME NEW r \in Request, Delete(r) PROVE Goal
  <2>1. CASE op[r].path = p
    <3>1. stage[r] = "open" /\ op[r].kind = "delete" /\ op' = op /\ stage'[r] = "ok"
      BY <1>5, <2>1 DEF Delete, Advance, HandlerInv, FileTypeOK
    <3>2. op[r].to # p
      BY <3>1, Asked DEF HandlerInv, StageOK
    <3> QED BY <2>1, <3>1, <3>2 DEF Released, Goal
  <2>2. CASE op[r].path # p
    BY <1>1, <1>5, <2>2 DEF Delete, Exists, Goal
  <2> QED BY <2>1, <2>2
<1>6. ASSUME NEW r \in Request, Move(r) PROVE Goal
  <2>1. CASE op[r].path = p /\ op[r].to # p
    <3>1. op[r].kind = "move" /\ op' = op /\ stage'[r] = "ok"
      BY <1>6, <2>1 DEF Move, Advance, HandlerInv, FileTypeOK
    <3> QED BY <2>1, <3>1 DEF Released, Goal
  <2>2. CASE op[r].path # p \/ op[r].to = p
    BY <1>1, <1>6, <2>2 DEF Move, Exists, Goal
  <2> QED BY <2>1, <2>2
<1> SUFFICES Goal
  BY DEF Goal
<1> QED
  BY <1>2, <1>3, <1>4, <1>5, <1>6
  DEF FileNext, Write, Arrive, CheckOpen, CheckHash, OpenPlain, WriteNew, OpenFails,
      WriteFails, WriteLands, AnswerWrite, CopyOpen, Cancel, requestVars, fsVars

\* A write is admitted by O_EXCL alone: the path named no file.
LEMMA AdmittedByOpenNew ==
    ASSUME HandlerInv, [FileNext]_requestVars, NEW q \in Request, Admitted(q)'
    PROVE  /\ op'[q] = op[q]
           /\ Admitted(q) \/ ~Exists(op[q].path)
           /\ ~Admitted(q) => Exists(op[q].path)'
           /\ \A r \in Request \ {q} : Admitted(r)' => Admitted(q) \/ Admitted(r)
<1> DEFINE Goal == /\ op'[q] = op[q]
                   /\ Admitted(q) \/ ~Exists(op[q].path)
                   /\ ~Admitted(q) => Exists(op[q].path)'
                   /\ \A r \in Request \ {q} : Admitted(r)' => Admitted(q) \/ Admitted(r)
<1> USE Asked, ConstantsAssumption
    DEF HandlerInv, FileTypeOK, StageOK, Admitted, Exists, File, NoOp, Advance, fsVars,
        requestVars
<1>1. ASSUME NEW r \in Request, NEW o \in Op, Arrive(r, o) PROVE Goal
  BY <1>1 DEF Arrive
<1>2. ASSUME NEW r \in Request, CheckOpen(r) PROVE Goal
  BY <1>2 DEF CheckOpen
<1>3. ASSUME NEW r \in Request, CheckHash(r) PROVE Goal
  BY <1>3 DEF CheckHash
<1>4. ASSUME NEW r \in Request, OpenPlain(r) PROVE Goal
  BY <1>4 DEF OpenPlain, OpenTruncated
<1>5. ASSUME NEW r \in Request, OpenNew(r) PROVE Goal
  BY <1>5 DEF OpenNew
<1>6. ASSUME NEW r \in Request, WriteNew(r) PROVE Goal
  BY <1>6 DEF WriteNew
<1>7. ASSUME NEW r \in Request, OpenFails(r) PROVE Goal
  BY <1>7 DEF OpenFails
<1>8. ASSUME NEW r \in Request, WriteFails(r) PROVE Goal
  BY <1>8 DEF WriteFails
<1>9. ASSUME NEW r \in Request, WriteLands(r) PROVE Goal
  BY <1>9 DEF WriteLands
<1>10. ASSUME NEW r \in Request, AnswerWrite(r) PROVE Goal
  BY <1>10 DEF AnswerWrite
<1>11. ASSUME NEW r \in Request, Delete(r) PROVE Goal
  BY <1>11 DEF Delete
<1>12. ASSUME NEW r \in Request, Move(r) PROVE Goal
  BY <1>12 DEF Move
<1>13. ASSUME NEW r \in Request, CopyOpen(r) PROVE Goal
  BY <1>13 DEF CopyOpen, OpenTruncated
<1>14. ASSUME NEW r \in Request, Cancel(r) PROVE Goal
  BY <1>14 DEF Cancel
<1>15. CASE UNCHANGED requestVars
  BY <1>15
<1> QED BY <1>1, <1>2, <1>3, <1>4, <1>5, <1>6, <1>7, <1>8,
           <1>9, <1>10, <1>11, <1>12, <1>13, <1>14, <1>15
        DEF FileNext, Write

\* Every step keeps created names until they are released, and one creator to each.
LEMMA CreatorStep ==
    HandlerInv /\ CreatorInv /\ OneCreator /\ [FileNext]_requestVars
        => CreatorInv' /\ OneCreator'
<1> SUFFICES ASSUME HandlerInv, CreatorInv, OneCreator, [FileNext]_requestVars
             PROVE  CreatorInv' /\ OneCreator'
  OBVIOUS
<1>1. ASSUME NEW r \in Request, Admitted(r) PROVE op[r].path \in Path
  BY <1>1, Asked DEF Admitted, HandlerInv, StageOK
<1>2. ASSUME NEW r \in Request, Admitted(r)'
      PROVE  Exists(op[r].path)' \/ Released(op[r].path)'
  BY <1>1, <1>2, AdmittedByOpenNew, NameStays, ReleasedStays DEF CreatorInv
<1>3. ASSUME NEW r \in Request, NEW q \in Request, r # q, Admitted(r)', Admitted(q)',
             op'[r].path = op'[q].path
      PROVE  Released(op[r].path)'
  <2>1. op[r].path = op[q].path
    BY <1>3, AdmittedByOpenNew
  <2>2. Released(op[r].path)
    BY <1>3, <2>1, AdmittedByOpenNew DEF CreatorInv, OneCreator
  <2> QED BY <1>3, <2>2, ReleasedStays, AdmittedByOpenNew
<1>4. CreatorInv'
  BY <1>2, AdmittedByOpenNew DEF CreatorInv
<1>5. OneCreator'
  BY <1>3, AdmittedByOpenNew DEF OneCreator
<1> QED BY <1>4, <1>5

\* Of the exclusive writes to a path, however many there are and however they overlap,
\* one gets the file until it is deleted or moved away.
THEOREM ExclusiveWritesExclude == FileSpec => []OneCreator
<1>1. FileInit => CreatorInv /\ OneCreator
  BY DEF FileInit, CreatorInv, OneCreator, Admitted
<1>2. HandlerInv /\ CreatorInv /\ OneCreator /\ [FileNext]_requestVars
          => CreatorInv' /\ OneCreator'
  BY CreatorStep
<1> QED BY <1>1, <1>2, HandlersCorrect, PTL DEF FileSpec

-----------------------------------------------------------------------------
\* Empty files

\* A file a path names was there initially, or its creator has it open.
OriginInv == \A p \in Path : entry[p] \in Request => file[entry[p]] = entry[p]

\* An empty file has not been created yet, or a request accounts for it.
EmptyInv ==
    \A f \in File :
        data[f] = {} => \/ f \in Request /\ file[f] # f
                        \/ \E r \in Request : file[r] = f /\ MayEmpty(r)

\* A request opens at most one file for writing, and what may leave that file empty is
\* over only when the bytes are in it.
LEMMA WriterStays ==
    ASSUME HandlerInv, [FileNext]_requestVars, NEW q \in Request, file[q] # None
    PROVE  /\ file'[q] = file[q]
           /\ MayEmpty(q) => MayEmpty(q)' \/ data'[file[q]] # {}
<1> DEFINE Goal == /\ file'[q] = file[q]
                   /\ MayEmpty(q) => MayEmpty(q)' \/ data'[file[q]] # {}
<1> USE Asked, ConstantsAssumption
    DEF HandlerInv, FileTypeOK, StageOK, MayEmpty, File, Answers, Advance, fsVars,
        requestVars
<1>1. ASSUME NEW r \in Request, NEW o \in Op, Arrive(r, o) PROVE Goal
  BY <1>1 DEF Arrive
<1>2. ASSUME NEW r \in Request, CheckOpen(r) PROVE Goal
  BY <1>2 DEF CheckOpen
<1>3. ASSUME NEW r \in Request, CheckHash(r) PROVE Goal
  BY <1>3 DEF CheckHash
<1>4. ASSUME NEW r \in Request, OpenPlain(r) PROVE Goal
  BY <1>4 DEF OpenPlain, OpenTruncated
<1>5. ASSUME NEW r \in Request, OpenNew(r) PROVE Goal
  BY <1>5 DEF OpenNew
<1>6. ASSUME NEW r \in Request, WriteNew(r) PROVE Goal
  BY <1>6 DEF WriteNew
<1>7. ASSUME NEW r \in Request, OpenFails(r) PROVE Goal
  BY <1>7 DEF OpenFails
<1>8. ASSUME NEW r \in Request, WriteFails(r) PROVE Goal
  BY <1>8 DEF WriteFails
<1>9. ASSUME NEW r \in Request, WriteLands(r) PROVE Goal
  <2>1. CASE r = q
    <3>1. file' = file /\ op' = op /\ r \in writing
      BY <1>9 DEF WriteLands
    <3>2. CASE op[q].kind = "copy"
      BY <2>1, <3>1, <3>2
    <3>3. CASE op[q].kind # "copy"
      <4>1. q \in data'[file[q]]
        BY <1>9, <2>1, <3>1, <3>3 DEF WriteLands, Bytes
      <4> QED BY <3>1, <4>1
    <3> QED BY <3>2, <3>3
  <2>2. CASE r # q
    BY <1>9, <2>2 DEF WriteLands
  <2> QED BY <2>1, <2>2
<1>10. ASSUME NEW r \in Request, AnswerWrite(r) PROVE Goal
  BY <1>10 DEF AnswerWrite
<1>11. ASSUME NEW r \in Request, Delete(r) PROVE Goal
  BY <1>11 DEF Delete
<1>12. ASSUME NEW r \in Request, Move(r) PROVE Goal
  BY <1>12 DEF Move
<1>13. ASSUME NEW r \in Request, CopyOpen(r) PROVE Goal
  BY <1>13 DEF CopyOpen, OpenTruncated
<1>14. ASSUME NEW r \in Request, Cancel(r) PROVE Goal
  BY <1>14 DEF Cancel
<1>15. CASE UNCHANGED requestVars
  BY <1>15
<1> QED BY <1>1, <1>2, <1>3, <1>4, <1>5, <1>6, <1>7, <1>8,
           <1>9, <1>10, <1>11, <1>12, <1>13, <1>14, <1>15
        DEF FileNext, Write

\* Whoever opens a file for writing may leave it empty from then on.
LEMMA OpenedMayEmpty ==
    ASSUME HandlerInv, [FileNext]_requestVars, NEW q \in Request, file[q] = None,
           file'[q] # None
    PROVE  MayEmpty(q)'
<1> USE ConstantsAssumption
    DEF HandlerInv, FileTypeOK, StageOK, MayEmpty, File, Advance, fsVars, requestVars
<1>1. ASSUME NEW r \in Request, NEW o \in Op, Arrive(r, o) PROVE MayEmpty(q)'
  BY <1>1 DEF Arrive
<1>2. ASSUME NEW r \in Request, CheckOpen(r) PROVE MayEmpty(q)'
  BY <1>2 DEF CheckOpen
<1>3. ASSUME NEW r \in Request, CheckHash(r) PROVE MayEmpty(q)'
  BY <1>3 DEF CheckHash
<1>4. ASSUME NEW r \in Request, OpenPlain(r) PROVE MayEmpty(q)'
  BY <1>4 DEF OpenPlain, OpenTruncated
<1>5. ASSUME NEW r \in Request, OpenNew(r) PROVE MayEmpty(q)'
  BY <1>5 DEF OpenNew
<1>6. ASSUME NEW r \in Request, WriteNew(r) PROVE MayEmpty(q)'
  BY <1>6 DEF WriteNew
<1>7. ASSUME NEW r \in Request, OpenFails(r) PROVE MayEmpty(q)'
  BY <1>7 DEF OpenFails
<1>8. ASSUME NEW r \in Request, WriteFails(r) PROVE MayEmpty(q)'
  BY <1>8 DEF WriteFails
<1>9. ASSUME NEW r \in Request, WriteLands(r) PROVE MayEmpty(q)'
  BY <1>9 DEF WriteLands
<1>10. ASSUME NEW r \in Request, AnswerWrite(r) PROVE MayEmpty(q)'
  BY <1>10 DEF AnswerWrite
<1>11. ASSUME NEW r \in Request, Delete(r) PROVE MayEmpty(q)'
  BY <1>11 DEF Delete
<1>12. ASSUME NEW r \in Request, Move(r) PROVE MayEmpty(q)'
  BY <1>12 DEF Move
<1>13. ASSUME NEW r \in Request, CopyOpen(r) PROVE MayEmpty(q)'
  BY <1>13 DEF CopyOpen, OpenTruncated
<1>14. ASSUME NEW r \in Request, Cancel(r) PROVE MayEmpty(q)'
  BY <1>14 DEF Cancel
<1>15. CASE UNCHANGED requestVars
  BY <1>15
<1> QED BY <1>1, <1>2, <1>3, <1>4, <1>5, <1>6, <1>7, <1>8,
           <1>9, <1>10, <1>11, <1>12, <1>13, <1>14, <1>15
        DEF FileNext, Write

\* Whoever empties a file has it open and may leave it so.
LEMMA EmptiedByWriter ==
    ASSUME HandlerInv, [FileNext]_requestVars, NEW f \in File, data[f] # {}, data'[f] = {}
    PROVE  \E q \in Request : file'[q] = f /\ MayEmpty(q)'
<1> DEFINE Goal == \E q \in Request : file'[q] = f /\ MayEmpty(q)'
<1> USE Asked, ConstantsAssumption
    DEF HandlerInv, FileTypeOK, StageOK, MayEmpty, File, Advance, fsVars, requestVars
<1>1. ASSUME NEW r \in Request, NEW o \in Op, Arrive(r, o) PROVE Goal
  BY <1>1 DEF Arrive
<1>2. ASSUME NEW r \in Request, CheckOpen(r) PROVE Goal
  BY <1>2 DEF CheckOpen
<1>3. ASSUME NEW r \in Request, CheckHash(r) PROVE Goal
  BY <1>3 DEF CheckHash
<1>4. ASSUME NEW r \in Request, OpenPlain(r) PROVE Goal
  BY <1>4 DEF OpenPlain, OpenTruncated
<1>5. ASSUME NEW r \in Request, OpenNew(r) PROVE Goal
  BY <1>5 DEF OpenNew
<1>6. ASSUME NEW r \in Request, WriteNew(r) PROVE Goal
  BY <1>6 DEF WriteNew
<1>7. ASSUME NEW r \in Request, OpenFails(r) PROVE Goal
  BY <1>7 DEF OpenFails
<1>8. ASSUME NEW r \in Request, WriteFails(r) PROVE Goal
  BY <1>8 DEF WriteFails
<1>9. ASSUME NEW r \in Request, WriteLands(r) PROVE Goal
  <2>1. file' = file /\ op' = op /\ r \in writing /\ file[r] \in File
    BY <1>9 DEF WriteLands
  <2>2. f = file[r] /\ Bytes(r) = {}
    BY <1>9, <2>1 DEF WriteLands
  <2>3. op[r].kind = "copy"
    BY <2>2 DEF Bytes
  <2> QED BY <2>1, <2>2, <2>3
<1>10. ASSUME NEW r \in Request, AnswerWrite(r) PROVE Goal
  BY <1>10 DEF AnswerWrite
<1>11. ASSUME NEW r \in Request, Delete(r) PROVE Goal
  BY <1>11 DEF Delete
<1>12. ASSUME NEW r \in Request, Move(r) PROVE Goal
  BY <1>12 DEF Move
<1>13. ASSUME NEW r \in Request, CopyOpen(r) PROVE Goal
  BY <1>13 DEF CopyOpen, OpenTruncated
<1>14. ASSUME NEW r \in Request, Cancel(r) PROVE Goal
  BY <1>14 DEF Cancel
<1>15. CASE UNCHANGED requestVars
  BY <1>15
<1> QED BY <1>1, <1>2, <1>3, <1>4, <1>5, <1>6, <1>7, <1>8,
           <1>9, <1>10, <1>11, <1>12, <1>13, <1>14, <1>15
        DEF FileNext, Write

\* A name is given only to a file its creator has opened.
LEMMA OriginStep == HandlerInv /\ OriginInv /\ [FileNext]_requestVars => OriginInv'
<1> SUFFICES ASSUME HandlerInv, OriginInv, [FileNext]_requestVars PROVE OriginInv'
  OBVIOUS
<1> USE Asked, ConstantsAssumption
    DEF HandlerInv, FileTypeOK, StageOK, OriginInv, Exists, File, Advance, fsVars,
        requestVars
<1>1. ASSUME NEW r \in Request, NEW o \in Op, Arrive(r, o) PROVE OriginInv'
  BY <1>1 DEF Arrive
<1>2. ASSUME NEW r \in Request, CheckOpen(r) PROVE OriginInv'
  BY <1>2 DEF CheckOpen
<1>3. ASSUME NEW r \in Request, CheckHash(r) PROVE OriginInv'
  BY <1>3 DEF CheckHash
<1>4. ASSUME NEW r \in Request, OpenPlain(r) PROVE OriginInv'
  BY <1>4 DEF OpenPlain, OpenTruncated
<1>5. ASSUME NEW r \in Request, OpenNew(r) PROVE OriginInv'
  BY <1>5 DEF OpenNew
<1>6. ASSUME NEW r \in Request, WriteNew(r) PROVE OriginInv'
  BY <1>6 DEF WriteNew
<1>7. ASSUME NEW r \in Request, OpenFails(r) PROVE OriginInv'
  BY <1>7 DEF OpenFails
<1>8. ASSUME NEW r \in Request, WriteFails(r) PROVE OriginInv'
  BY <1>8 DEF WriteFails
<1>9. ASSUME NEW r \in Request, WriteLands(r) PROVE OriginInv'
  BY <1>9 DEF WriteLands
<1>10. ASSUME NEW r \in Request, AnswerWrite(r) PROVE OriginInv'
  BY <1>10 DEF AnswerWrite
<1>11. ASSUME NEW r \in Request, Delete(r) PROVE OriginInv'
  BY <1>11 DEF Delete
<1>12. ASSUME NEW r \in Request, Move(r) PROVE OriginInv'
  BY <1>12 DEF Move
<1>13. ASSUME NEW r \in Request, CopyOpen(r) PROVE OriginInv'
  BY <1>13 DEF CopyOpen, OpenTruncated
<1>14. ASSUME NEW r \in Request, Cancel(r) PROVE OriginInv'
  BY <1>14 DEF Cancel
<1>15. CASE UNCHANGED requestVars
  BY <1>15
<1> QED BY <1>1, <1>2, <1>3, <1>4, <1>5, <1>6, <1>7, <1>8,
           <1>9, <1>10, <1>11, <1>12, <1>13, <1>14, <1>15
        DEF FileNext, Write

\* Every empty file stays accounted for.
LEMMA EmptyStep == HandlerInv /\ EmptyInv /\ [FileNext]_requestVars => EmptyInv'
<1> SUFFICES ASSUME HandlerInv, EmptyInv, [FileNext]_requestVars,
                    NEW f \in File, data'[f] = {}, f \in Request => file'[f] = f
             PROVE  \E q \in Request : file'[q] = f /\ MayEmpty(q)'
  BY DEF EmptyInv
<1>1. None \notin File /\ f # None
  BY ConstantsAssumption
<1>2. CASE data[f] # {}
  BY <1>2, EmptiedByWriter
<1>3. CASE data[f] = {} /\ f \in Request /\ file[f] # f
  <2>1. file[f] = None
    BY <1>1, <1>3, WriterStays
  <2> QED BY <1>1, <1>3, <2>1, OpenedMayEmpty
<1>4. ASSUME NEW q \in Request, file[q] = f, MayEmpty(q)
      PROVE  file'[q] = f /\ MayEmpty(q)'
  BY <1>1, <1>4, WriterStays
<1> QED BY <1>2, <1>3, <1>4 DEF EmptyInv

\* No plain write that was answered with success leaves a file empty, whatever requests
\* overlap with it.
THEOREM EmptyFilesAccountedFor == FileSpec => []EmptyIsAccountedFor
<1>1. FileInit => OriginInv /\ EmptyInv
  <2> SUFFICES ASSUME FileInit PROVE OriginInv /\ EmptyInv
    OBVIOUS
  <2>1. OriginInv
    BY ConstantsAssumption DEF FileInit, OriginInv, File
  <2>2. \A f \in Request : file[f] # f
    BY ConstantsAssumption DEF FileInit, File
  <2> QED BY <2>1, <2>2 DEF FileInit, EmptyInv, File
<1>2. OriginInv /\ EmptyInv => EmptyIsAccountedFor
  BY DEF OriginInv, EmptyInv, EmptyIsAccountedFor, PathsOf
<1>3. HandlerInv /\ OriginInv /\ EmptyInv /\ [FileNext]_requestVars
          => OriginInv' /\ EmptyInv'
  BY OriginStep, EmptyStep
<1> QED BY <1>1, <1>2, <1>3, HandlersCorrect, PTL DEF FileSpec

-----------------------------------------------------------------------------
\* Guarded writes

\* What a guarded write whose path nobody touched knows: while it hashes, it reads the
\* file the path names; when it goes on to write, that file holds what was expected.
GuardInv ==
    \A r \in Request :
        IsGuarded(r) /\ r \notin stale =>
            /\ stage[r] = "hash" => entry[op[r].path] = source[r]
            /\ stage[r] = "open" => /\ Exists(op[r].path)
                                    /\ data[entry[op[r].path]] = {op[r].expected}

\* Between the check and the write, whatever changes what the path names or holds
\* counts as touching it.
LEMMA GuardStep == HandlerInv /\ GuardInv /\ [FileNext]_requestVars => GuardInv'
<1> SUFFICES ASSUME HandlerInv, GuardInv, [FileNext]_requestVars, NEW q \in Request,
                    IsGuarded(q)', q \notin stale'
             PROVE  (/\ stage[q] = "hash" => entry[op[q].path] = source[q]
                     /\ stage[q] = "open" => /\ Exists(op[q].path)
                                             /\ data[entry[op[q].path]] = {op[q].expected})'
  BY DEF GuardInv
<1> DEFINE Goal == (/\ stage[q] = "hash" => entry[op[q].path] = source[q]
                    /\ stage[q] = "open" => /\ Exists(op[q].path)
                                            /\ data[entry[op[q].path]] = {op[q].expected})'
<1> USE Asked, ConstantsAssumption
    DEF HandlerInv, FileTypeOK, StageOK, GuardInv, IsGuarded, Exists, File, NoOp, Touch,
        PathsOf, Answers, Advance, fsVars, requestVars
<1>1. ASSUME NEW r \in Request, NEW o \in Op, Arrive(r, o) PROVE Goal
  BY <1>1 DEF Arrive
<1>2. ASSUME NEW r \in Request, CheckOpen(r) PROVE Goal
  BY <1>2 DEF CheckOpen
<1>3. ASSUME NEW r \in Request, CheckHash(r) PROVE Goal
  BY <1>3 DEF CheckHash
<1>4. ASSUME NEW r \in Request, OpenPlain(r) PROVE Goal
  BY <1>4 DEF OpenPlain, OpenTruncated
<1>5. ASSUME NEW r \in Request, OpenNew(r) PROVE Goal
  BY <1>5 DEF OpenNew
<1>6. ASSUME NEW r \in Request, WriteNew(r) PROVE Goal
  BY <1>6 DEF WriteNew
<1>7. ASSUME NEW r \in Request, OpenFails(r) PROVE Goal
  BY <1>7 DEF OpenFails
<1>8. ASSUME NEW r \in Request, WriteFails(r) PROVE Goal
  BY <1>8 DEF WriteFails
<1>9. ASSUME NEW r \in Request, WriteLands(r) PROVE Goal
  BY <1>9 DEF WriteLands
<1>10. ASSUME NEW r \in Request, AnswerWrite(r) PROVE Goal
  BY <1>10 DEF AnswerWrite
<1>11. ASSUME NEW r \in Request, Delete(r) PROVE Goal
  BY <1>11 DEF Delete
<1>12. ASSUME NEW r \in Request, Move(r) PROVE Goal
  BY <1>12 DEF Move
<1>13. ASSUME NEW r \in Request, CopyOpen(r) PROVE Goal
  BY <1>13 DEF CopyOpen, OpenTruncated
<1>14. ASSUME NEW r \in Request, Cancel(r) PROVE Goal
  BY <1>14 DEF Cancel
<1>15. CASE UNCHANGED requestVars
  BY <1>15
<1> QED BY <1>1, <1>2, <1>3, <1>4, <1>5, <1>6, <1>7, <1>8,
           <1>9, <1>10, <1>11, <1>12, <1>13, <1>14, <1>15
        DEF FileNext, Write

\* A guarded write empties a file only if it holds what its client expects, unless
\* another request touched the path since the check.
THEOREM GuardedWritesExpected == FileSpec => GuardedOverwritesExpected
<1>1. FileInit => GuardInv
  BY DEF FileInit, GuardInv
<1>2. HandlerInv /\ GuardInv /\ [FileNext]_requestVars => GuardInv'
  BY GuardStep
<1> DEFINE A == \A r \in Request :
                  /\ IsGuarded(r) /\ stage[r] = "open" /\ stage'[r] = "fill"
                  /\ r \notin stale
                  => /\ Exists(op[r].path)
                     /\ data[entry[op[r].path]] = {op[r].expected}
<1>3. GuardInv /\ [FileNext]_requestVars => [A]_requestVars
  BY DEF GuardInv
<1> QED BY <1>1, <1>2, <1>3, HandlersCorrect, PTL DEF FileSpec, GuardedOverwritesExpected
=============================================================================
