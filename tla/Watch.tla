-------------------------------- MODULE Watch --------------------------------
(***************************************************************************)
(* The channels that watch one directory and the file watcher they share   *)
(* (tidewave-core/src/ws/watch.rs).                                        *)
(*                                                                         *)
(* One canonical path: entries of `watchers' do not affect each other.     *)
(* Tasks: one per channel and one per watcher that was started.  The map   *)
(* entry, the subscription and the `started' flag of a join are separate   *)
(* accesses, and so are the last message or the last look at the receivers *)
(* of a watcher and the removal of its entry.                              *)
(*                                                                         *)
(* A channel keeps the ActiveWatch it found for as long as it listens, and *)
(* with it a sender: the queue of a channel never closes, and the branch   *)
(* for a closed one (watch.rs:195) cannot be taken.  For the same reason   *)
(* the watcher never sees the end of its own queue (watch.rs:351).         *)
(***************************************************************************)
EXTENDS Naturals, Sequences, FiniteSets

CONSTANTS
    Channel,   \* channels of clients: each may leave and join again
    Entry,     \* identities of ActiveWatch; one that nobody refers to is used anew
    Capacity,  \* of the broadcast queue (256 in the code)
    MaxRaw,    \* bound: undelivered notifications of the file system
    None

ASSUME ConstantsAssumption ==
    /\ None \notin Entry
    /\ Capacity \in Nat \ {0}
    /\ MaxRaw \in Nat

VARIABLES
    exists,    \* whether the directory exists
    watchers,  \* the entry registered for the path, or None
    started,   \* entries whose `started' flag is set
    task,      \* where the watcher of each entry stands
    raw,       \* notify_rx of each watcher
    chan,      \* where the task of each channel stands
    watch,     \* the entry each channel found, or None
    rx,        \* broadcast_rx of each channel
    joined,    \* channels the client has neither left nor lost
    late       \* history: channels that subscribed after the watcher's last look

vars == <<exists, watchers, started, task, raw, chan, watch, rx, joined, late>>

\* Ordinary events and the warning about polling are all "fs".
WatchEvent == {"fs", "terminated"}

\* The type invariant.
TypeOK ==
    /\ exists \in BOOLEAN
    /\ watchers \in Entry \cup {None}
    /\ started \in SUBSET Entry
    /\ task \in [Entry -> {"none", "spawned", "created", "watching", "ending", "ended"}]
    /\ raw \in [Entry -> Seq({"fs", "removed", "error"})]
    /\ chan \in [Channel -> {"out", "checked", "found", "subscribed", "listening", "end"}]
    /\ watch \in [Channel -> Entry \cup {None}]
    /\ rx \in [Channel -> Seq(WatchEvent)]
    /\ joined \in SUBSET Channel
    /\ late \in SUBSET Channel

Init ==
    /\ exists \in BOOLEAN
    /\ watchers = None
    /\ started = {}
    /\ task = [e \in Entry |-> "none"]
    /\ raw = [e \in Entry |-> <<>>]
    /\ chan = [c \in Channel |-> "out"]
    /\ watch = [c \in Channel |-> None]
    /\ rx = [c \in Channel |-> <<>>]
    /\ joined = {}
    /\ late = {}

-----------------------------------------------------------------------------
\* The broadcast queue

Listens(c, e) == watch[c] = e /\ chan[c] \in {"subscribed", "listening"}

Receivers(e) == {c \in Channel : Listens(c, e)}

\* A receiver that lags behind loses its oldest message, and is told of nothing
\* but the gap (Lagged), which it ignores.
Push(q, m) == IF Len(q) < Capacity THEN Append(q, m) ELSE Append(Tail(q), m)

\* tx.send: to everyone who is subscribed by now.
Broadcast(e, m) ==
    rx' = [c \in Channel |-> IF Listens(c, e) THEN Push(rx[c], m) ELSE rx[c]]

-----------------------------------------------------------------------------
\* The channels: init

\* The client joins; the path has to exist.
Join(c) ==
    /\ chan[c] = "out"
    /\ exists
    /\ chan' = [chan EXCEPT ![c] = "checked"]
    /\ joined' = joined \cup {c}
    /\ UNCHANGED <<exists, watchers, started, task, raw, watch, rx, late>>

\* Nobody refers to entry e: it stands for one that is allocated now.
Fresh(e) ==
    /\ watchers # e
    /\ task[e] \in {"none", "ended"}
    /\ \A c \in Channel : watch[c] # e

\* Faulty variant of FindEntry: the entry is inserted whatever is registered.
FindEntryInserting(c) ==
    /\ chan[c] = "checked"
    /\ \E e \in Entry :
          /\ Fresh(e)
          /\ watchers' = e
          /\ watch' = [watch EXCEPT ![c] = e]
          /\ started' = started \ {e}
          /\ task' = [task EXCEPT ![e] = "none"]
          /\ raw' = [raw EXCEPT ![e] = <<>>]
    /\ chan' = [chan EXCEPT ![c] = "found"]
    /\ UNCHANGED <<exists, rx, joined, late>>

\* watchers.entry(path).or_insert_with(..).clone().
FindEntry(c) ==
    /\ chan[c] = "checked"
    /\ \/ /\ watchers # None
          /\ watch' = [watch EXCEPT ![c] = watchers]
          /\ UNCHANGED <<watchers, started, task, raw>>
       \/ /\ watchers = None
          /\ \E e \in Entry :
                /\ Fresh(e)
                /\ watchers' = e
                /\ watch' = [watch EXCEPT ![c] = e]
                /\ started' = started \ {e}
                /\ task' = [task EXCEPT ![e] = "none"]
                /\ raw' = [raw EXCEPT ![e] = <<>>]
    /\ chan' = [chan EXCEPT ![c] = "found"]
    /\ UNCHANGED <<exists, rx, joined, late>>

\* tx.subscribe.
Subscribe(c) ==
    /\ chan[c] = "found"
    /\ chan' = [chan EXCEPT ![c] = "subscribed"]
    /\ late' = IF task[watch[c]] \in {"ending", "ended"} THEN late \cup {c} ELSE late
    /\ UNCHANGED <<exists, watchers, started, task, raw, watch, rx, joined>>

\* Whoever sets the flag starts the watcher; the join is answered with ok.
Start(c) ==
    /\ chan[c] = "subscribed"
    /\ started' = started \cup {watch[c]}
    /\ task' = IF watch[c] \in started THEN task ELSE [task EXCEPT ![watch[c]] = "spawned"]
    /\ chan' = [chan EXCEPT ![c] = "listening"]
    /\ UNCHANGED <<exists, watchers, raw, watch, rx, joined, late>>

\* The task of channel c returns: the receiver and the ActiveWatch are dropped.
Return(c) ==
    /\ chan' = [chan EXCEPT ![c] = "end"]
    /\ watch' = [watch EXCEPT ![c] = None]
    /\ rx' = [rx EXCEPT ![c] = <<>>]
    /\ late' = late \ {c}

\* Faulty variant of Forward: the channel goes on after Terminated.
ForwardOn(c) ==
    /\ chan[c] = "listening" /\ rx[c] # <<>>
    /\ rx' = [rx EXCEPT ![c] = Tail(@)]
    /\ UNCHANGED <<exists, watchers, started, task, raw, chan, watch, joined, late>>

\* An event is forwarded to the client; Terminated ends the channel with phx_error.
Forward(c) ==
    /\ chan[c] = "listening" /\ rx[c] # <<>>
    /\ \/ /\ Head(rx[c]) = "fs"
          /\ rx' = [rx EXCEPT ![c] = Tail(@)]
          /\ UNCHANGED <<chan, watch, late>>
       \/ /\ Head(rx[c]) = "terminated"
          /\ Return(c)
    /\ UNCHANGED <<exists, watchers, started, task, raw, joined>>

\* The client leaves or disconnects: the sender of incoming_rx is dropped.
Leave(c) ==
    /\ c \in joined
    /\ joined' = joined \ {c}
    /\ UNCHANGED <<exists, watchers, started, task, raw, chan, watch, rx, late>>

\* Faulty variant of SeeLeave: `Some(_) = incoming_rx.recv()' in the select, which passes
\* over a closed queue.
SeeLeaveDeaf(c) ==
    /\ chan[c] = "listening" /\ c \notin joined
    /\ UNCHANGED vars

\* incoming_rx is closed.
SeeLeave(c) ==
    /\ chan[c] = "listening" /\ c \notin joined
    /\ Return(c)
    /\ UNCHANGED <<exists, watchers, started, task, raw, joined>>

\* The channel can be joined anew once its task has ended: by the client that was
\* told of the error, or by another.
Reset(c) ==
    /\ chan[c] = "end"
    /\ chan' = [chan EXCEPT ![c] = "out"]
    /\ joined' = joined \ {c}
    /\ UNCHANGED <<exists, watchers, started, task, raw, watch, rx, late>>

-----------------------------------------------------------------------------
\* The watcher of an entry: init_watcher

\* The native watcher is created; or the one that polls, with a warning; or neither.
Create(e) ==
    /\ task[e] = "spawned"
    /\ \/ /\ task' = [task EXCEPT ![e] = "created"]
          /\ UNCHANGED rx
       \/ /\ task' = [task EXCEPT ![e] = "created"]
          /\ Broadcast(e, "fs")
       \/ /\ task' = [task EXCEPT ![e] = "ending"]
          /\ Broadcast(e, "terminated")
    /\ UNCHANGED <<exists, watchers, started, raw, chan, watch, joined, late>>

\* Faulty variant of WatchPath: a path that cannot be watched is told to nobody.
WatchPathSilent(e) ==
    /\ task[e] = "created"
    /\ task' = [task EXCEPT ![e] = IF exists THEN "watching" ELSE "ending"]
    /\ UNCHANGED <<exists, watchers, started, raw, chan, watch, rx, joined, late>>

\* watcher.watch: fails when the path is gone, and may fail otherwise.
WatchPath(e) ==
    /\ task[e] = "created"
    /\ \/ /\ exists
          /\ task' = [task EXCEPT ![e] = "watching"]
          /\ UNCHANGED rx
       \/ /\ task' = [task EXCEPT ![e] = "ending"]
          /\ Broadcast(e, "terminated")
    /\ UNCHANGED <<exists, watchers, started, raw, chan, watch, joined, late>>

\* convert_notify_event: the removal of the watched path ends the watcher; any other
\* notification is an event, or none when it is half of a rename or of no interest.
Converted(n) == IF n = "removed" THEN {"terminated"} ELSE {"fs", "nothing"}

\* A notification is converted and broadcast; Terminated and an error end the watcher.
Notified(e) ==
    /\ task[e] = "watching" /\ raw[e] # <<>>
    /\ raw' = [raw EXCEPT ![e] = Tail(@)]
    /\ \/ /\ Head(raw[e]) # "error" /\ "nothing" \in Converted(Head(raw[e]))
          /\ UNCHANGED <<rx, task>>
       \/ /\ Head(raw[e]) # "error" /\ "fs" \in Converted(Head(raw[e]))
          /\ Broadcast(e, "fs")
          /\ UNCHANGED task
       \/ /\ Head(raw[e]) = "error" \/ "terminated" \in Converted(Head(raw[e]))
          /\ Broadcast(e, "terminated")
          /\ task' = [task EXCEPT ![e] = "ending"]
    /\ UNCHANGED <<exists, watchers, started, chan, watch, joined, late>>

\* Thirty seconds without a notification: the watcher stops if nobody listens.
\* Every notification starts the thirty seconds again.
IdleCheck(e) ==
    /\ task[e] = "watching" /\ raw[e] = <<>>
    /\ Receivers(e) = {}
    /\ task' = [task EXCEPT ![e] = "ending"]
    /\ UNCHANGED <<exists, watchers, started, raw, chan, watch, rx, joined, late>>

\* watchers.remove(path): whatever is registered.  The task ends.
Remove(e) ==
    /\ task[e] = "ending"
    /\ watchers' = None
    /\ task' = [task EXCEPT ![e] = "ended"]
    /\ UNCHANGED <<exists, started, raw, chan, watch, rx, joined, late>>

-----------------------------------------------------------------------------
\* The file system

\* Watchers of the path are notified of n, within the bound.
Notify(n) ==
    /\ \A e \in Entry : task[e] = "watching" => Len(raw[e]) < MaxRaw
    /\ raw' = [e \in Entry |-> IF task[e] = "watching" THEN Append(raw[e], n) ELSE raw[e]]

\* Something changes inside the directory.
Change ==
    /\ exists
    /\ Notify("fs")
    /\ UNCHANGED <<exists, watchers, started, task, chan, watch, rx, joined, late>>

\* The directory is removed.
Vanish ==
    /\ exists
    /\ exists' = FALSE
    /\ Notify("removed")
    /\ UNCHANGED <<watchers, started, task, chan, watch, rx, joined, late>>

\* The directory is there again; watchers of the one before are told nothing.
Appear ==
    /\ ~exists
    /\ exists' = TRUE
    /\ UNCHANGED <<watchers, started, task, raw, chan, watch, rx, joined, late>>

\* The backend reports an error.
Fail ==
    /\ Notify("error")
    /\ UNCHANGED <<exists, watchers, started, task, chan, watch, rx, joined, late>>

-----------------------------------------------------------------------------
Next ==
    \/ \E c \in Channel :
          \/ Join(c) \/ FindEntry(c) \/ Subscribe(c) \/ Start(c)
          \/ Forward(c) \/ Leave(c) \/ SeeLeave(c) \/ Reset(c)
    \/ \E e \in Entry :
          Create(e) \/ WatchPath(e) \/ Notified(e) \/ IdleCheck(e) \/ Remove(e)
    \/ Change \/ Vanish \/ Appear \/ Fail

Spec == Init /\ [][Next]_vars

\* Tasks that can run do run.  The timer is promised only while no notification
\* comes in: each one starts it again.  Clients and the file system owe nothing.
Fairness ==
    /\ \A c \in Channel :
          /\ WF_vars(FindEntry(c)) /\ WF_vars(Subscribe(c)) /\ WF_vars(Start(c))
          /\ WF_vars(Forward(c)) /\ WF_vars(SeeLeave(c))
    /\ \A e \in Entry :
          /\ WF_vars(Create(e)) /\ WF_vars(WatchPath(e)) /\ WF_vars(Notified(e))
          /\ WF_vars(IdleCheck(e)) /\ WF_vars(Remove(e))

FairSpec == Spec /\ Fairness

-----------------------------------------------------------------------------
\* A watcher that has not removed its entry is the one registered for the path: so
\* a path has one watcher, joins find it, and a removal by path (watch.rs:261, 303,
\* 315, 339, 348, 360) never evicts the entry of another watcher.
WatcherRegistered ==
    \A e \in Entry : task[e] \in {"spawned", "created", "watching", "ending"} => watchers = e

\* A channel whose watcher is over has Terminated in its queue, however far it lags
\* behind, unless it subscribed after the last thing the watcher did for it: that
\* is the window between that and the removal of the entry (watch.rs:258-261 and
\* 358-360), in which a join is answered with ok and never served.
OnlyLateJoinersOrphaned ==
    \A c \in Channel, e \in Entry :
        Listens(c, e) /\ task[e] \in {"ending", "ended"} /\ c \notin late
            => \E i \in 1..Len(rx[c]) : rx[c][i] = "terminated"

\* A channel whose watcher is over ends: its client is told, and can join again
\* (watch.rs:188-190), or has left.
EndReachesChannels ==
    \A c \in Channel :
        (c \notin late /\ \E e \in Entry : Listens(c, e) /\ task[e] = "ending")
            ~> chan[c] = "end"

\* Clients the watch of the path is there for: neither gone nor told of its end.
Present == {c \in joined : chan[c] # "end" /\ c \notin late}

\* No notification is on its way to a watcher.
Quiet == \A e \in Entry : task[e] = "watching" => raw[e] = <<>>

\* When every client has left or disconnected and the directory stays quiet, nothing is
\* left of the watch: the tasks of the channels give up their receivers, the timer of the
\* watcher then finds none, and the entry is removed with the watcher (watch.rs:202-205,
\* 357-362).  A directory that keeps changing keeps its watcher for ever.
IdleWatcherStops ==
    <>[](Present = {} /\ Quiet)
        => <>[](watchers = None /\ \A e \in Entry : task[e] \in {"none", "ended"})
=============================================================================
