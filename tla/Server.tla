-------------------------------- MODULE Server -------------------------------
(***************************************************************************)
(* The life of the server in the desktop application: its listeners, the   *)
(* graceful shutdown and the clearing of the WebSocket state               *)
(* (serve_http_server_inner in tidewave-core/src/server.rs, WsState::clear *)
(* in ws/mod.rs), and the main thread that quits or restarts               *)
(* (src-tauri/src/lib.rs).  Commands are those of CommandStream; of an     *)
(* agent process only matters whether the registry of processes lists it   *)
(* and whether it was told to stop.                                        *)
(*                                                                         *)
(* A WebSocket leaves the connections a listener counts when it is         *)
(* upgraded: it outlives the listener, and its clients can start agents as *)
(* long as the application runs.                                           *)
(***************************************************************************)
EXTENDS CommandStream

CONSTANTS
    Agent      \* agent processes that may be started

Listener == {"http", "https", "dev"}

VARIABLES
    listener,   \* where the task of each listener stands
    signalled,  \* the shutdown handler has run
    via,        \* the listener each command came through
    agent,      \* "spawned", "listed" in the registry, "late" (listed when clear had
                \* begun), "removed" from it, or "over": told to stop, or gone
    passed,     \* agents whose place in the registry clear has passed
    main,       \* where serve_http_server_inner and the task around it stand
    dialog,     \* whether its error dialog is on the screen
    app         \* the main thread: "running", "waiting" for the server, "exited"

agentVars  == <<agent, passed>>
serverVars == <<listener, signalled, via, agentVars, main, dialog, app>>
vars == <<commandVars, serverVars>>

\* The type invariant.
TypeOK ==
    /\ CommandTypeOK
    /\ listener \in [Listener -> {"off", "binding", "serving", "draining", "drained", "cut",
                                  "failed"}]
    /\ signalled \in BOOLEAN
    /\ via \in [Command -> Listener]
    /\ agent \in [Agent -> {"none", "spawned", "listed", "late", "removed", "over"}]
    /\ passed \in SUBSET Agent
    /\ main \in {"setup", "http", "https", "dev", "clear", "returned", "error", "done"}
    /\ dialog \in BOOLEAN
    /\ app \in {"running", "waiting", "exited"}

Init ==
    /\ CommandInit
    /\ listener = [s \in Listener |-> "off"]
    /\ signalled = FALSE
    /\ via = [c \in Command |-> "http"]
    /\ agent = [a \in Agent |-> "none"] /\ passed = {}
    /\ main = "setup"
    /\ dialog = FALSE
    /\ app = "running"

Up == app # "exited"

-----------------------------------------------------------------------------
\* Listeners, each a task of axum_server

\* The port is bound, or it is in use.
Bind(s) ==
    /\ Up /\ listener[s] = "binding"
    /\ \E l \in {"serving", "failed"} : listener' = [listener EXCEPT ![s] = l]
    /\ UNCHANGED <<commandVars, signalled, via, agentVars, main, dialog, app>>

\* A command is requested.
CommandRequest(c, s) ==
    /\ Up /\ listener[s] = "serving"
    /\ Spawn(c)
    /\ via' = [via EXCEPT ![c] = s]
    /\ UNCHANGED <<listener, signalled, agentVars, main, dialog, app>>

\* graceful_shutdown was called: the listener accepts no more.
StopAccepting(s) ==
    /\ Up /\ listener[s] = "serving" /\ signalled
    /\ listener' = [listener EXCEPT ![s] = "draining"]
    /\ UNCHANGED <<commandVars, signalled, via, agentVars, main, dialog, app>>

Connections(s) == {c \in Command : via[c] = s /\ Streaming(c)}

\* Its last connection ends.
Drained(s) ==
    /\ Up /\ listener[s] = "draining" /\ Connections(s) = {}
    /\ listener' = [listener EXCEPT ![s] = "drained"]
    /\ UNCHANGED <<commandVars, signalled, via, agentVars, main, dialog, app>>

\* Faulty variant of Deadline: the development server is given no deadline.
DeadlineExceptDev(s) ==
    /\ Up /\ listener[s] = "draining" /\ Connections(s) # {} /\ s # "dev"
    /\ listener' = [listener EXCEPT ![s] = "cut"]
    /\ UNCHANGED <<commandVars, signalled, via, agentVars, main, dialog, app>>

\* The ten seconds are over: the connections that are left are told to stop, and not
\* waited for.
Deadline(s) ==
    /\ Up /\ listener[s] = "draining" /\ Connections(s) # {}
    /\ listener' = [listener EXCEPT ![s] = "cut"]
    /\ UNCHANGED <<commandVars, signalled, via, agentVars, main, dialog, app>>

\* The connection task of command c drops its response.
CutOff(c) ==
    /\ Up /\ listener[via[c]] = "cut"
    /\ Drop(c)
    /\ UNCHANGED serverVars

-----------------------------------------------------------------------------
\* Commands and agents while the application runs; once it has exited, a child that
\* is still there goes on unattended

CommandStep(c) ==
    /\ Up
    /\ StreamStep(c)
    /\ UNCHANGED serverVars

\* What commands and their clients do by themselves.
CommandFreeStep(c) ==
    /\ Up
    /\ \/ GroupStep(c)
       \/ \E p \in Pipe : ReadFails(c, p)
       \/ Drop(c)
    /\ UNCHANGED serverVars

\* A client on a WebSocket starts an agent, which is not in the registry yet
\* (acp.rs:932).
StartAgent(a) ==
    /\ Up /\ agent[a] = "none"
    /\ \E s \in Listener : listener[s] \in {"serving", "draining", "drained", "cut"}
    /\ agent' = [agent EXCEPT ![a] = "spawned"]
    /\ UNCHANGED <<commandVars, listener, signalled, via, passed, main, dialog, app>>

\* processes.insert: clear finds the agent if it has not passed its place.
ListAgent(a) ==
    /\ Up /\ agent[a] = "spawned"
    /\ agent' = [agent EXCEPT
                    ![a] = IF main \in {"clear", "returned"} THEN "late" ELSE "listed"]
    /\ UNCHANGED <<commandVars, listener, signalled, via, passed, main, dialog, app>>

\* Its idle timer removes it, to tell it next, or the monitor of a predecessor with its
\* key does (acp.rs:1270, 1909).
RemoveAgent(a) ==
    /\ Up /\ agent[a] \in {"listed", "late"}
    /\ agent' = [agent EXCEPT ![a] = "removed"]
    /\ UNCHANGED <<commandVars, listener, signalled, via, passed, main, dialog, app>>

\* It exits by itself, or it is told to: by a client, or by its idle timer.
AgentOver(a) ==
    /\ Up /\ agent[a] \notin {"none", "over"}
    /\ agent' = [agent EXCEPT ![a] = "over"]
    /\ UNCHANGED <<commandVars, listener, signalled, via, passed, main, dialog, app>>

-----------------------------------------------------------------------------
\* The shutdown handler and serve_http_server_inner

\* Everything up to the listeners is set up, and they are spawned; HTTPS and the
\* development port are optional.
Setup ==
    /\ Up /\ main = "setup"
    /\ listener' \in {l \in [Listener -> {"off", "binding"}] : l["http"] = "binding"}
    /\ main' = "http"
    /\ UNCHANGED <<commandVars, signalled, via, agentVars, dialog, app>>

\* The client for HTTP cannot be built, or the TLS files cannot be loaded.
SetupFails ==
    /\ Up /\ main = "setup"
    /\ main' = "error"
    /\ UNCHANGED <<commandVars, listener, signalled, via, agentVars, dialog, app>>

\* shutdown_rx.changed: the handler, spawned after the listeners, starts the shutdown of
\* each.
ShutdownHandler ==
    /\ Up /\ app = "waiting" /\ listener["http"] # "off" /\ ~signalled
    /\ signalled' = TRUE
    /\ UNCHANGED <<commandVars, listener, via, agentVars, main, dialog, app>>

Over(s) == listener[s] \in {"drained", "cut", "failed"}

Goto(l) ==
    /\ main' = l
    /\ UNCHANGED <<commandVars, listener, signalled, via, agentVars, dialog, app>>

\* http_task.await, whose result is looked at in the end.
AwaitHttp == Up /\ main = "http" /\ Over("http") /\ Goto("https")

\* https_task.await, if there is one; an error returns at once.
AwaitHttps ==
    /\ Up /\ main = "https"
    /\ Over("https") \/ listener["https"] = "off"
    /\ Goto(IF listener["https"] = "failed" THEN "error" ELSE "dev")

\* dev_task.await, likewise, and then the result of http_task.
AwaitDev ==
    /\ Up /\ main = "dev"
    /\ Over("dev") \/ listener["dev"] = "off"
    /\ Goto(IF "failed" \in {listener["dev"], listener["http"]} THEN "error" ELSE "clear")

\* WsState::clear, one place of the registry after another: the agent it lists there is
\* told to stop, and not waited for.
ClearPlace(a) ==
    /\ Up /\ main = "clear" /\ a \notin passed
    /\ agent' = IF agent[a] \in {"listed", "late"} THEN [agent EXCEPT ![a] = "over"] ELSE agent
    /\ passed' = passed \cup {a}
    /\ UNCHANGED <<commandVars, listener, signalled, via, main, dialog, app>>

\* Faulty variant of ClearEnd: the iteration may end before it has passed every place.
ClearEndEarly ==
    /\ Up /\ main = "clear"
    /\ Goto("returned")

\* The registry is passed and the watchers are cleared.
ClearEnd ==
    /\ Up /\ main = "clear" /\ passed = Agent
    /\ Goto("returned")

\* The task of the application shows the error in a dialog and waits for it.  The
\* main thread has to open it, which it cannot while it waits for the server.
ShowDialog ==
    /\ main = "error" /\ ~dialog /\ app = "running"
    /\ dialog' = TRUE
    /\ UNCHANGED <<commandVars, listener, signalled, via, agentVars, main, app>>

\* The user dismisses it: the application is told to exit.
Dismiss ==
    /\ Up /\ main = "error" /\ dialog
    /\ main' = "done"
    /\ app' = "waiting"
    /\ UNCHANGED <<commandVars, listener, signalled, via, agentVars, dialog>>

-----------------------------------------------------------------------------
\* The main thread

\* Quit or restart, also for an update: the server is told to stop, and the main
\* thread waits for its task.
Quit ==
    /\ app = "running"
    /\ app' = "waiting"
    /\ UNCHANGED <<commandVars, listener, signalled, via, agentVars, main, dialog>>

\* The task has ended and the process exits; nothing is dropped.
Exit ==
    /\ app = "waiting" /\ main \in {"returned", "done"}
    /\ app' = "exited"
    /\ UNCHANGED <<commandVars, listener, signalled, via, agentVars, main, dialog>>

-----------------------------------------------------------------------------

ListenerStep(s) == Bind(s) \/ StopAccepting(s) \/ Drained(s) \/ Deadline(s)

MainStep ==
    \/ Setup \/ SetupFails
    \/ AwaitHttp \/ AwaitHttps \/ AwaitDev
    \/ (\E a \in Agent : ClearPlace(a)) \/ ClearEnd
    \/ ShowDialog

AgentStep(a) ==
    StartAgent(a) \/ ListAgent(a) \/ RemoveAgent(a) \/ AgentOver(a)

Next ==
    \/ \E s \in Listener : ListenerStep(s) \/ \E c \in Command : CommandRequest(c, s)
    \/ \E c \in Command : CutOff(c) \/ CommandStep(c) \/ CommandFreeStep(c)
    \/ \E a \in Agent : AgentStep(a)
    \/ ShutdownHandler \/ MainStep \/ Dismiss \/ Quit \/ Exit

Spec == Init /\ [][Next]_vars

\* The tasks of the server are polled and the main thread is scheduled.  Nothing is
\* assumed of users, clients, commands or agents, in particular not that a command
\* ends.
Fairness ==
    /\ \A s \in Listener : WF_vars(ListenerStep(s))
    /\ WF_vars(ShutdownHandler) /\ WF_vars(MainStep) /\ WF_vars(Exit)

FairSpec == Spec /\ Fairness

-----------------------------------------------------------------------------
\* Safety

\* When the server ended without an error and the application exits, what still runs was
\* told to stop.  An agent the registry lists was told, unless it was listed when clear had
\* begun.  Clear does not see one that has been spawned and not inserted yet
\* (acp.rs:932-934), or whose entry another process took with it (acp.rs:1909).  A command
\* was told by the end of its connection, and what goes on after a complete answer are
\* descendants it left.  After an error the server returns before it clears anything
\* (server.rs:591): agents then stay behind.
NothingForgotten ==
    app = "exited" /\ main = "returned" =>
        /\ \A a \in Agent : agent[a] # "listed"
        /\ \A c \in Command :
              GroupAlive(c) => stream[c] = "status" \/ listener[via[c]] = "cut"

-----------------------------------------------------------------------------
\* Liveness, under FairSpec

\* "Trigger graceful shutdown and wait for server to stop": quitting comes to an end,
\* however long a command runs.  Only an error of the server can prevent it, of its setup
\* or of a listener: when it is reported on quitting, the server waits for a dialog that
\* only the main thread can open, and the main thread waits for the server
\* (lib.rs:271, 489).
QuitCompletes ==
    app = "waiting" ~> app = "exited" \/ [](main = "error")
=============================================================================
