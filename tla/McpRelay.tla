------------------------------ MODULE McpRelay -------------------------------
(***************************************************************************)
(* How MCP requests of an agent, which come in over HTTP, are answered by  *)
(* a browser that is connected through a channel, leaves and reconnects    *)
(* (tidewave-core/src/ws/mcp.rs).                                          *)
(*                                                                         *)
(* One session id: its entry of `sessions' and its answers are independent *)
(* of those of other ids.  Tasks: one per channel of the session and one   *)
(* per HTTP request.  The DashMap guard a request holds while it registers *)
(* its answer and pushes to the browser blocks whoever would change the    *)
(* entry, as the comment in the handler demands.  Notifications register   *)
(* nothing and wait for nothing; they are left out.                        *)
(***************************************************************************)
EXTENDS Naturals

CONSTANTS
    Channel,  \* channels of the session, by channel_id: each joins once
    Request,  \* requests of the agent, by the proxy id each is given
    None

ASSUME ConstantsAssumption == None \notin Channel

VARIABLES
    sessions,  \* the channel registered for the session, or None
    awaiting,  \* awaiting_answers: the channel of each request's entry, or None
    guards,    \* requests that hold a guard of the session entry
    chan,      \* where the task of each channel stands
    writers,   \* channels whose WebSocket can still be written to
    keys,      \* entries a channel that ended has still to answer
    req,       \* where the handler of each request stands
    target,    \* the channel a request was looked up to
    pushed     \* requests that were pushed towards the browser

vars == <<sessions, awaiting, guards, chan, writers, keys, req, target, pushed>>

\* The type invariant.
TypeOK ==
    /\ sessions \in Channel \cup {None}
    /\ awaiting \in [Request -> Channel \cup {None}]
    /\ guards \in SUBSET Request
    /\ chan \in [Channel -> {"new", "open", "closing", "cleaning", "failing", "done"}]
    /\ writers \in SUBSET Channel
    /\ keys \in [Channel -> SUBSET Request]
    /\ req \in [Request -> {"new", "found", "inserted", "waiting", "evict",
                            "answered", "disconnected", "abandoned"}]
    /\ target \in [Request -> Channel \cup {None}]
    /\ pushed \in SUBSET Request

Init ==
    /\ sessions = None
    /\ awaiting = [r \in Request |-> None]
    /\ guards = {}
    /\ chan = [c \in Channel |-> "new"]
    /\ writers = Channel
    /\ keys = [c \in Channel |-> {}]
    /\ req = [r \in Request |-> "new"]
    /\ target = [r \in Request |-> None]
    /\ pushed = {}

\* Nobody holds a guard of the entry: it can be replaced or removed.
Writable == guards = {}

Goto(r, l) == req' = [req EXCEPT ![r] = l]

ChanGoto(c, l) == chan' = [chan EXCEPT ![c] = l]

\* sessions.remove_if: only the entry of channel c.
RemoveIf(c) ==
    /\ Writable
    /\ sessions' = IF sessions = c THEN None ELSE sessions

-----------------------------------------------------------------------------
\* The HTTP handler

\* Faulty variant of Lookup: the session is cloned and the guard dropped at once.
LookupUnguarded(r) ==
    /\ req[r] = "new" /\ sessions # None
    /\ target' = [target EXCEPT ![r] = sessions]
    /\ Goto(r, "found")
    /\ UNCHANGED <<sessions, awaiting, guards, chan, writers, keys, pushed>>

\* sessions.get, whose guard is kept; without an entry the agent is told that
\* the browser is not connected.
Lookup(r) ==
    /\ req[r] = "new"
    /\ \/ /\ sessions # None
          /\ target' = [target EXCEPT ![r] = sessions]
          /\ guards' = guards \cup {r}
          /\ Goto(r, "found")
       \/ /\ sessions = None
          /\ Goto(r, "disconnected")
          /\ UNCHANGED <<target, guards>>
    /\ UNCHANGED <<sessions, awaiting, chan, writers, keys, pushed>>

\* The entry for the answer is inserted under a fresh proxy id.
Insert(r) ==
    /\ req[r] = "found"
    /\ awaiting' = [awaiting EXCEPT ![r] = target[r]]
    /\ Goto(r, "inserted")
    /\ UNCHANGED <<sessions, guards, chan, writers, keys, target, pushed>>

\* The message is pushed to the browser, then the guard is dropped.  The push
\* fails when the writer of the connection has ended.
Push(r) ==
    /\ req[r] = "inserted"
    /\ guards' = guards \ {r}
    /\ \/ /\ target[r] \in writers
          /\ pushed' = pushed \cup {r}
          /\ Goto(r, "waiting")
       \/ /\ target[r] \notin writers
          /\ Goto(r, "evict")
          /\ UNCHANGED pushed
    /\ UNCHANGED <<sessions, awaiting, chan, writers, keys, target>>

\* The dead channel is unregistered and the entry goes with the handler.
Evict(r) ==
    /\ req[r] = "evict"
    /\ RemoveIf(target[r])
    /\ awaiting' = [awaiting EXCEPT ![r] = None]
    /\ Goto(r, "disconnected")
    /\ UNCHANGED <<guards, chan, writers, keys, target, pushed>>

\* Faulty variant of Abandon: no cleanup guard removes the entry.
AbandonLeaking(r) ==
    /\ req[r] = "waiting"
    /\ Goto(r, "abandoned")
    /\ UNCHANGED <<sessions, awaiting, guards, chan, writers, keys, target, pushed>>

\* The agent gives up: dropping the handler removes the entry
\* (PendingAnswerCleanup).
Abandon(r) ==
    /\ req[r] = "waiting"
    /\ awaiting' = [awaiting EXCEPT ![r] = None]
    /\ Goto(r, "abandoned")
    /\ UNCHANGED <<sessions, guards, chan, writers, keys, target, pushed>>

-----------------------------------------------------------------------------
\* The channel

\* The join registers the channel, in place of an older one if there is one.
Register(c) ==
    /\ chan[c] = "new"
    /\ Writable
    /\ sessions' = c
    /\ ChanGoto(c, "open")
    /\ UNCHANGED <<awaiting, guards, writers, keys, req, target, pushed>>

\* The entry of r is taken by channel c and the handler woken.
Take(c, r) ==
    IF awaiting[r] = c
    THEN /\ awaiting' = [awaiting EXCEPT ![r] = None]
         /\ req' = IF req[r] = "waiting" THEN [req EXCEPT ![r] = "answered"] ELSE req
    ELSE UNCHANGED <<awaiting, req>>

\* The browser answers r over channel c, which counts if r was pushed to c.
Answer(c, r) ==
    /\ chan[c] = "open" /\ r \in pushed
    /\ Take(c, r)
    /\ UNCHANGED <<sessions, guards, chan, writers, keys, target, pushed>>

\* The WebSocket breaks, which the writer notices first.
WriterEnds(c) ==
    /\ chan[c] # "new" /\ c \in writers
    /\ writers' = writers \ {c}
    /\ UNCHANGED <<sessions, awaiting, guards, chan, keys, req, target, pushed>>

\* incoming_rx returns None: the browser left or the connection ended.
Leave(c) ==
    /\ chan[c] = "open"
    /\ ChanGoto(c, "closing")
    /\ UNCHANGED <<sessions, awaiting, guards, writers, keys, req, target, pushed>>

\* Faulty variant of RemoveSession: the entry goes, whichever channel it names.
RemoveAnySession(c) ==
    /\ chan[c] = "closing"
    /\ Writable
    /\ sessions' = None
    /\ ChanGoto(c, "cleaning")
    /\ UNCHANGED <<awaiting, guards, writers, keys, req, target, pushed>>

RemoveSession(c) ==
    /\ chan[c] = "closing"
    /\ RemoveIf(c)
    /\ ChanGoto(c, "cleaning")
    /\ UNCHANGED <<awaiting, guards, writers, keys, req, target, pushed>>

\* Faulty variant of Collect: nothing is collected once another channel took over.
CollectIfLast(c) ==
    /\ chan[c] = "cleaning"
    /\ keys' = [keys EXCEPT ![c] =
                   IF sessions = None THEN {r \in Request : awaiting[r] = c} ELSE {}]
    /\ ChanGoto(c, "failing")
    /\ UNCHANGED <<sessions, awaiting, guards, writers, req, target, pushed>>

\* cleanup_pending_answers collects the keys of the channel ...
Collect(c) ==
    /\ chan[c] = "cleaning"
    /\ keys' = [keys EXCEPT ![c] = {r \in Request : awaiting[r] = c}]
    /\ ChanGoto(c, "failing")
    /\ UNCHANGED <<sessions, awaiting, guards, writers, req, target, pushed>>

\* ... and answers them one by one with an error.
FailOne(c, r) ==
    /\ chan[c] = "failing" /\ r \in keys[c]
    /\ Take(c, r)
    /\ keys' = [keys EXCEPT ![c] = @ \ {r}]
    /\ UNCHANGED <<sessions, guards, chan, writers, target, pushed>>

\* The task ends.
Finish(c) ==
    /\ chan[c] = "failing" /\ keys[c] = {}
    /\ ChanGoto(c, "done")
    /\ UNCHANGED <<sessions, awaiting, guards, writers, keys, req, target, pushed>>

-----------------------------------------------------------------------------

RequestStep(r) == Lookup(r) \/ Insert(r) \/ Push(r) \/ Evict(r)

Cleanup(c) ==
    \/ RemoveSession(c) \/ Collect(c) \/ Finish(c)
    \/ \E r \in Request : FailOne(c, r)

Next ==
    \/ \E r \in Request : RequestStep(r) \/ Abandon(r)
    \/ \E c \in Channel :
          \/ Register(c) \/ WriterEnds(c) \/ Leave(c) \/ Cleanup(c)
          \/ \E r \in Request : Answer(c, r)

Spec == Init /\ [][Next]_vars

\* Handlers and channel tasks are polled when ready, and a connection that cannot
\* be written to is closed by its receive loop.  Browsers need not answer.
\* Waiters for the entry are not starved: a request holds its guard only once.
Fairness ==
    /\ \A r \in Request : WF_vars(RequestStep(r))
    /\ \A c \in Channel : WF_vars(Cleanup(c)) /\ WF_vars(c \notin writers /\ Leave(c))

FairSpec == Spec /\ Fairness

-----------------------------------------------------------------------------
\* Properties

\* No answer is awaited from a channel that has ended: its cleanup sees every
\* entry, also one inserted by a request that looked the channel up just before.
NoneAwaitedFromEnded ==
    \A r \in Request, c \in Channel :
        awaiting[r] = c =>
            \/ chan[c] \in {"open", "closing", "cleaning"}
            \/ chan[c] = "failing" /\ r \in keys[c]

\* A request waits exactly as long as its entry is there: no handler hangs on an
\* entry somebody else took, and no entry outlives its handler to capture an
\* answer that is not its own.
EntryMatchesHandler ==
    \A r \in Request :
        /\ req[r] = "waiting" => awaiting[r] = target[r]
        /\ awaiting[r] # None => req[r] \in {"inserted", "waiting", "evict"}

\* Channel ids are there "for distinguishing reconnect ownership" (mcp.rs:45): a browser
\* that reconnected stays registered until it leaves itself or turns out to be gone,
\* whatever its old channel and requests to it remove (mcp.rs:187, 285).
ReconnectKept ==
    [][\A c \in Channel :
         sessions = c /\ sessions' = None => chan[c] = "closing" \/ c \notin writers]_vars

\* An agent never waits for a browser that is gone.
WaitEndsWithChannel ==
    \A r \in Request :
        req[r] = "waiting" /\ (chan[target[r]] # "open" \/ target[r] \notin writers)
            ~> req[r] # "waiting"
=============================================================================
