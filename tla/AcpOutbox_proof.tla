---------------------------- MODULE AcpOutbox_proof ----------------------------
(***************************************************************************)
(* Proofs about AcpOutbox: the client loses nothing, for any number of     *)
(* connections, prompts and messages, and sees the agent's messages as one *)
(* stream without gaps.                                                    *)
(***************************************************************************)
EXTENDS AcpOutbox, TLAPS

-----------------------------------------------------------------------------
\* Sequences

\* What is in a sequence is in its set.
LEMMA InToSet ==
    ASSUME NEW S, NEW s \in Seq(S), NEW i \in 1 .. Len(s)
    PROVE  s[i] \in ToSet(s)
BY DEF ToSet

\* What is in the set of a sequence has a place in the sequence.
LEMMA ToSetIndex ==
    ASSUME NEW S, NEW s \in Seq(S), NEW x \in ToSet(s)
    PROVE  \E i \in 1 .. Len(s) : s[i] = x
BY DEF ToSet

\* Concatenating sequences unites their sets.
LEMMA ToSetConcat ==
    ASSUME NEW S, NEW s \in Seq(S), NEW t \in Seq(S)
    PROVE  ToSet(s \o t) = ToSet(s) \cup ToSet(t)
<1>1. ASSUME NEW x \in ToSet(s)
      PROVE  x \in ToSet(s \o t)
  BY <1>1 DEF ToSet
<1>2. ASSUME NEW x \in ToSet(t)
      PROVE  x \in ToSet(s \o t)
  <2>1. PICK i \in 1 .. Len(t) : t[i] = x
    BY <1>2 DEF ToSet
  <2>2. Len(s) + i \in 1 .. Len(s \o t) /\ (s \o t)[Len(s) + i] = x
    BY <2>1
  <2> QED BY <2>2 DEF ToSet
<1>3. ASSUME NEW x \in ToSet(s \o t)
      PROVE  x \in ToSet(s) \cup ToSet(t)
  <2>1. PICK i \in 1 .. Len(s \o t) : (s \o t)[i] = x
    BY <1>3 DEF ToSet
  <2>2. CASE i <= Len(s)
    BY <2>1, <2>2 DEF ToSet
  <2>3. CASE i > Len(s)
    <3>1. i - Len(s) \in 1 .. Len(t) /\ t[i - Len(s)] = x
      BY <2>1, <2>3
    <3> QED BY <3>1 DEF ToSet
  <2> QED BY <2>1, <2>2, <2>3
<1> QED BY <1>1, <1>2, <1>3

\* The set of a sequence is its head and the set of its tail.
LEMMA ToSetHead ==
    ASSUME NEW S, NEW s \in Seq(S), s # <<>>
    PROVE  ToSet(s) = {Head(s)} \cup ToSet(Tail(s))
<1>1. Tail(s) \in Seq(S) /\ Len(Tail(s)) = Len(s) - 1 /\ Len(s) > 0
  OBVIOUS
<1>2. Head(s) = s[1] /\ \A i \in 1 .. Len(Tail(s)) : Tail(s)[i] = s[i + 1]
  OBVIOUS
<1>3. ASSUME NEW x \in ToSet(s)
      PROVE  x \in {Head(s)} \cup ToSet(Tail(s))
  <2>1. PICK i \in 1 .. Len(s) : s[i] = x
    BY <1>3 DEF ToSet
  <2>2. CASE i = 1
    BY <1>2, <2>1, <2>2
  <2>3. CASE i # 1
    <3>1. i - 1 \in 1 .. Len(Tail(s)) /\ Tail(s)[i - 1] = x
      BY <1>1, <1>2, <2>1, <2>3
    <3>2. x \in ToSet(Tail(s))
      BY <1>1, <3>1, InToSet
    <3> QED BY <3>2
  <2> QED BY <2>2, <2>3
<1>4. ASSUME NEW x \in ToSet(Tail(s))
      PROVE  x \in ToSet(s)
  <2>1. PICK i \in 1 .. Len(Tail(s)) : Tail(s)[i] = x
    BY <1>1, <1>4 DEF ToSet
  <2>2. i + 1 \in 1 .. Len(s) /\ s[i + 1] = x
    BY <1>1, <1>2, <2>1
  <2> QED BY <2>2 DEF ToSet
<1>5. Head(s) \in ToSet(s)
  BY <1>1, <1>2 DEF ToSet
<1> QED BY <1>3, <1>4, <1>5

\* A sequence of one message.
LEMMA ToSetOne == \A m : ToSet(<<m>>) = {m}
BY DEF ToSet

\* The set of a sequence is within its type.
LEMMA ToSetType ==
    ASSUME NEW S, NEW s \in Seq(S)
    PROVE  ToSet(s) \subseteq S
BY DEF ToSet

-----------------------------------------------------------------------------
\* Messages

\* Messages of the agent, prompts and None are told apart.
LEMMA Kinds ==
    /\ \A p \in Prompt : p \notin Emission /\ p # None
    /\ None \notin Emission
    /\ Emission \subseteq Int
BY ConstantsAssumption DEF Emission

-----------------------------------------------------------------------------
\* What was delivered

\* A message of the agent was received; an answer was received, is on its way, or
\* went down with a connection.
Delivered(m) ==
    \/ m \in seen
    \/ m \in Prompt /\ (m \in lost \/ \E c \in Channel : m \in ToSet(pipe[c]))

\* The prefix of the buffer that may be cut off: all of it was delivered.
Cut == {k \in 0 .. Len(buffer) : \A j \in 1 .. k : Delivered(buffer[j])}

\* s is the buffer without its first k messages.
Rest(s, k) ==
    /\ s \in Seq(Emission \cup Prompt)
    /\ Len(s) = Len(buffer) - k
    /\ \A j \in 1 .. Len(s) : s[j] = buffer[j + k]

-----------------------------------------------------------------------------
\* The parts of the invariant

\* One channel at a time loads the session, while nobody owns it; only an open
\* channel owns it or has a working connection.
PhaseInv ==
    /\ \A c \in Channel : pc[c] \in {"new", "leaving", "left"} => c \notin up
    /\ \A c \in Channel : pc[c] \in {"catchup", "map"} => owner = None
    /\ \A c, d \in Channel :
          pc[c] \in {"catchup", "map", "reply"} /\ pc[d] \in {"catchup", "map", "reply"} => c = d
    /\ \A c \in Channel : pc[c] = "map" => c \in readers
    /\ owner # None => pc[owner] \in {"reply", "open", "leaving"}

\* What the stdout task holds: a message of the agent is the last one; it is buffered
\* before it is routed; the channel it is to be pushed to owns the session, unless it
\* has ended.
StdoutInv ==
    /\ stdout.stage = "idle" <=> stdout.msg = None
    /\ stdout.msg \in Emission => stdout.msg = emitted
    /\ stdout.stage \in {"route", "push"} /\ stdout.msg \in Emission => stdout.kept
    /\ stdout.stage = "buffer" => ~stdout.kept
    /\ stdout.stage = "push" =>
          /\ stdout.ch \in Channel /\ pc[stdout.ch] # "new"
          /\ HasSender(stdout.ch) => owner = stdout.ch

\* A message that has yet to be buffered is nowhere else.
FreshInv ==
    \A e \in Emission :
        (e \in seen \/ e \in ToSet(buffer) \/ \E c \in Channel : e \in ToSet(pipe[c])) =>
            e <= emitted /\ (stdout.stage = "buffer" => stdout.msg # e)

SortedInv ==
    \A i, j \in 1 .. Len(buffer) :
        i < j /\ buffer[i] \in Emission /\ buffer[j] \in Emission => buffer[i] < buffer[j]

\* The client has seen a prefix of the stream, and latest is in it.
SeenInv ==
    /\ \E n \in 0 .. emitted : seen \cap Emission = 1 .. n
    /\ latest = 0 \/ latest \in seen \cap Emission

\* Before a message arrives the client has seen all earlier ones.
GapInv ==
    \A c \in Channel : \A i \in 1 .. Len(pipe[c]) : pipe[c][i] \in Emission =>
        \A e \in Emission : e < pipe[c][i] =>
            e \in seen \/ \E j \in 1 .. i - 1 : pipe[c][j] = e

\* The stdout task lets go of a message only when it was delivered or is buffered.
KeptInv ==
    stdout.kept => stdout.msg \in ToSet(buffer) \/ Delivered(stdout.msg)

\* An answer that is buffered before a message of the agent was delivered before it.
AnswerOrder ==
    \A i, j \in 1 .. Len(buffer) :
        /\ i < j /\ buffer[i] \in Prompt /\ buffer[j] \in Emission
        /\ buffer[j] \in seen \/ \E c \in Channel : buffer[j] \in ToSet(pipe[c])
        => Delivered(buffer[i])

\* The message the stdout task is routing will still reach channel c.
Pending(c) ==
    \/ stdout.stage = "buffer"
    \/ owner = c /\ stdout.stage = "route"
    \/ owner = c /\ stdout.stage = "push" /\ stdout.ch = c

\* A client that loaded the session, or whose load was streamed, misses nothing.
AttachInv ==
    \A c \in Channel : (owner = c \/ pc[c] = "map") /\ c \in up =>
        \A m \in ToSet(buffer) \cup (1 .. emitted) :
            \/ m \in ToSet(pipe[c])
            \/ Delivered(m)
            \/ m = stdout.msg /\ Pending(c)

OutboxInv ==
    /\ TypeOK /\ PhaseInv /\ StdoutInv
    /\ FreshInv /\ SortedInv /\ SeenInv /\ GapInv
    /\ KeptInv /\ UnseenKept /\ AnswerKept /\ AnswerOrder /\ AttachInv

-----------------------------------------------------------------------------
\* Steps

\* A step that leaves the stream, the buffer and the pipes alone.
Quiet ==
    UNCHANGED <<emitted, notifs, answered, buffer, pipe, lost, stdout, seen, latest>>

\* The steps that can matter to the stream, the buffer or a pipe.
LEMMA StepKinds ==
    ASSUME [Next]_vars
    PROVE  \/ Quiet
           \/ \E c \in Channel : Receive(c) \/ Disconnect(c) \/ Catchup(c) \/ Reply(c) \/ Ack(c)
           \/ Emit \/ AddToBuffer \/ Route \/ Push
           \/ \E p \in Prompt : Respond(p)
<1>1. CASE UNCHANGED vars
  BY <1>1 DEF vars, agentVars, pipeVars, clientVars, Quiet
<1>2. ASSUME NEW c \in Channel,
             \/ Connect(c) \/ LoadCheck(c) \/ Map(c) \/ Leave(c) \/ Unmap(c)
             \/ \E p \in Prompt : SendPrompt(c, p)
      PROVE  Quiet
  BY <1>2 DEF Connect, LoadCheck, Map, Leave, Unmap, SendPrompt,
              agentVars, pipeVars, clientVars, Quiet
<1> QED BY <1>1, <1>2 DEF Next

\* What PushTo does.
LEMMA PushEffect ==
    ASSUME TypeOK, NEW c \in Channel, NEW s \in Seq(Message), PushTo(c, s)
    PROVE  /\ pipe' \in [Channel -> Seq(Message)]
           /\ lost' \in SUBSET Prompt
           /\ lost \subseteq lost'
           /\ \A d \in Channel : d # c => pipe'[d] = pipe[d]
           /\ c \notin up => pipe' = pipe
           /\ c \in up => pipe'[c] = pipe[c] \o s
           /\ c \in up => ToSet(pipe'[c]) = ToSet(pipe[c]) \cup ToSet(s)
           /\ \A d \in Channel : ToSet(pipe[d]) \subseteq ToSet(pipe'[d])
           /\ \A m \in ToSet(s) \cap Prompt : m \in lost' \/ m \in ToSet(pipe'[c])
<1>1. CASE c \in up
  <2>1. pipe' = [pipe EXCEPT ![c] = @ \o s] /\ lost' = lost
    BY <1>1 DEF PushTo
  <2>2. pipe[c] \in Seq(Message) /\ pipe[c] \o s \in Seq(Message)
    BY DEF TypeOK
  <2>3. pipe' \in [Channel -> Seq(Message)]
    BY <2>1, <2>2 DEF TypeOK
  <2>4. pipe'[c] = pipe[c] \o s /\ \A d \in Channel : d # c => pipe'[d] = pipe[d]
    BY <2>1 DEF TypeOK
  <2>5. ToSet(pipe'[c]) = ToSet(pipe[c]) \cup ToSet(s)
    BY <2>2, <2>4, ToSetConcat
  <2>6. \A d \in Channel : ToSet(pipe[d]) \subseteq ToSet(pipe'[d])
    BY <2>4, <2>5
  <2> QED BY <1>1, <2>1, <2>3, <2>4, <2>5, <2>6 DEF TypeOK
<1>2. CASE c \notin up
  <2>1. pipe' = pipe /\ lost' = lost \cup (ToSet(s) \cap Prompt)
    BY <1>2 DEF PushTo
  <2> QED BY <1>2, <2>1 DEF TypeOK
<1> QED BY <1>1, <1>2

\* The same of a push, as far as the set of the pushed messages tells.
Pushed(c, M) ==
    /\ lost \subseteq lost'
    /\ \A d \in Channel : d # c => pipe'[d] = pipe[d]
    /\ c \notin up => pipe' = pipe
    /\ c \in up => ToSet(pipe'[c]) = ToSet(pipe[c]) \cup M
    /\ \A m \in M \cap Prompt : m \in lost' \/ m \in ToSet(pipe'[c])

\* What pushing one message does.
LEMMA PushOne ==
    ASSUME TypeOK, NEW c \in Channel, NEW m \in Message, PushTo(c, <<m>>)
    PROVE  Pushed(c, {m})
<1>1. <<m>> \in Seq(Message) /\ ToSet(<<m>>) = {m}
  BY ToSetOne
<1> QED BY <1>1, PushEffect DEF Pushed

\* What pushing the rest of the buffer does.
LEMMA PushMany ==
    ASSUME TypeOK, NEW c \in Channel, NEW s \in Seq(Message), PushTo(c, s)
    PROVE  Pushed(c, ToSet(s))
BY PushEffect DEF Pushed

\* The suffix of the buffer after latest: what is before it was delivered.
LEMMA SuffixIsRest ==
    ASSUME TypeOK, SortedInv, SeenInv, AnswerOrder,
           NEW i \in 1 .. Len(buffer), buffer[i] = latest
    PROVE  i \in Cut /\ Rest(SubSeq(buffer, i + 1, Len(buffer)), i)
<1>1. latest \in Emission /\ latest \in seen
  BY ConstantsAssumption DEF TypeOK, SeenInv, Emission
<1>2. ASSUME NEW j \in 1 .. i
      PROVE  Delivered(buffer[j])
  <2>1. buffer[j] \in Emission \cup Prompt
    BY DEF TypeOK
  <2>2. CASE buffer[j] \in Prompt
    <3>1. j # i
      BY <1>1, <2>2, ConstantsAssumption DEF Emission
    <3> QED BY <1>1, <2>2, <3>1 DEF AnswerOrder
  <2>3. CASE buffer[j] \in Emission
    <3>1. buffer[j] <= latest
      BY <1>1, <2>3 DEF SortedInv, Emission
    <3>2. buffer[j] \in seen
      BY <1>1, <2>3, <3>1 DEF SeenInv, Emission
    <3> QED BY <3>2 DEF Delivered
  <2> QED BY <2>1, <2>2, <2>3
<1>3. Rest(SubSeq(buffer, i + 1, Len(buffer)), i)
  BY DEF TypeOK, Rest
<1> QED BY <1>2, <1>3 DEF Cut

\* What is replayed is the buffer without a delivered prefix.
LEMMA BufferedAfterRest ==
    ASSUME TypeOK, SortedInv, SeenInv, AnswerOrder
    PROVE  \E k \in Cut : Rest(BufferedAfter(latest), k)
<1>1. CASE \E i \in DOMAIN buffer : buffer[i] = latest
  <2> DEFINE at == CHOOSE i \in DOMAIN buffer : buffer[i] = latest
  <2>1. at \in DOMAIN buffer /\ buffer[at] = latest
    BY <1>1
  <2>2. BufferedAfter(latest) = SubSeq(buffer, at + 1, Len(buffer))
    BY <1>1 DEF BufferedAfter
  <2>3. at \in 1 .. Len(buffer)
    BY <2>1 DEF TypeOK
  <2> HIDE DEF at
  <2> QED BY <2>1, <2>2, <2>3, SuffixIsRest
<1>2. CASE ~ \E i \in DOMAIN buffer : buffer[i] = latest
  <2>1. BufferedAfter(latest) = buffer
    BY <1>2 DEF BufferedAfter
  <2>2. Rest(buffer, 0) /\ 0 \in Cut
    BY DEF TypeOK, Rest, Cut
  <2> QED BY <2>1, <2>2
<1> QED BY <1>1, <1>2

\* What is pruned is such a prefix.
LEMMA PruneRest ==
    ASSUME TypeOK, SortedInv, SeenInv, AnswerOrder, PruneBuffer(latest)
    PROVE  \E k \in Cut : Rest(buffer', k)
<1>1. PICK i \in DOMAIN buffer : buffer[i] = latest /\ buffer' = SubSeq(buffer, i + 1, Len(buffer))
  BY DEF PruneBuffer
<1>2. i \in 1 .. Len(buffer)
  BY DEF TypeOK
<1> QED BY <1>1, <1>2, SuffixIsRest

\* A message of the buffer is in the rest, or was delivered.
LEMMA RestOrDelivered ==
    ASSUME TypeOK, NEW s, NEW k \in Cut, Rest(s, k)
    PROVE  /\ s \in Seq(Message)
           /\ ToSet(s) \subseteq ToSet(buffer)
           /\ \A m \in ToSet(buffer) : m \in ToSet(s) \/ Delivered(m)
<1>1. s \in Seq(Message)
  <2>1. Emission \cup Prompt \subseteq Message
    BY DEF Message
  <2> QED BY <2>1 DEF Rest
<1>2. ASSUME NEW m \in ToSet(s)
      PROVE  m \in ToSet(buffer)
  <2>1. PICK j \in 1 .. Len(s) : s[j] = m
    BY <1>1, <1>2 DEF ToSet
  <2>2. j + k \in 1 .. Len(buffer) /\ buffer[j + k] = m
    BY <2>1 DEF Rest, Cut, TypeOK
  <2> QED BY <2>2 DEF ToSet, TypeOK
<1>3. ASSUME NEW m \in ToSet(buffer)
      PROVE  m \in ToSet(s) \/ Delivered(m)
  <2>1. PICK i \in 1 .. Len(buffer) : buffer[i] = m
    BY <1>3 DEF ToSet, TypeOK
  <2>2. CASE i <= k
    BY <2>1, <2>2 DEF Cut
  <2>3. CASE i > k
    <3>1. i - k \in 1 .. Len(s) /\ s[i - k] = m
      BY <2>1, <2>3 DEF Rest, Cut, TypeOK
    <3> QED BY <1>1, <3>1 DEF ToSet
  <2> QED BY <2>2, <2>3 DEF Cut, TypeOK
<1> QED BY <1>1, <1>2, <1>3

-----------------------------------------------------------------------------
\* Init

\* No message has been sent and no client is connected.
LEMMA InitInv == Init => OutboxInv
<1> SUFFICES ASSUME Init
             PROVE  OutboxInv
  OBVIOUS
<1>1. ToSet(buffer) = {} /\ \A c \in Channel : ToSet(pipe[c]) = {}
  BY DEF Init, ToSet
<1>2. TypeOK
  BY ConstantsAssumption DEF Init, TypeOK, IdleStdout, Message
<1>3. PhaseInv /\ StdoutInv
  BY ConstantsAssumption DEF Init, PhaseInv, StdoutInv, IdleStdout, Emission
<1>4. FreshInv /\ SortedInv /\ GapInv /\ KeptInv
  BY <1>1 DEF Init, FreshInv, SortedInv, GapInv, KeptInv, IdleStdout
<1>5. SeenInv
  BY DEF Init, SeenInv
<1>6. UnseenKept /\ AnswerKept /\ AnswerOrder /\ AttachInv
  BY DEF Init, UnseenKept, AnswerKept, AnswerOrder, AttachInv
<1> QED BY <1>2, <1>3, <1>4, <1>5, <1>6 DEF OutboxInv

-----------------------------------------------------------------------------
\* Types

\* A message that reaches nobody leaves the stdout task well-typed.
LEMMA NoRouteType ==
    ASSUME TypeOK, NoRoute
    PROVE  stdout' \in [stage : {"idle", "buffer", "route", "push"}, msg : Message,
                        ch : Channel \cup {None}, kept : BOOLEAN]
BY DEF TypeOK, NoRoute, IdleStdout, Message

\* Every step keeps the types.
LEMMA TypeStep ==
    ASSUME OutboxInv, [Next]_vars
    PROVE  TypeOK'
<1> USE DEF OutboxInv, agentVars, pipeVars, clientVars, Goto
<1>1. ASSUME NEW c \in Channel, Connect(c) \/ LoadCheck(c) \/ Leave(c)
      PROVE  TypeOK'
  BY <1>1 DEF TypeOK, Connect, LoadCheck, Leave
<1>2. ASSUME NEW c \in Channel, Map(c) \/ Unmap(c)
      PROVE  TypeOK'
  BY <1>2 DEF TypeOK, Map, Unmap
<1>3. ASSUME NEW c \in Channel, Receive(c)
      PROVE  TypeOK'
  <2>1. Head(pipe[c]) \in Message /\ Tail(pipe[c]) \in Seq(Message)
    BY <1>3 DEF TypeOK, Receive
  <2>2. latest' \in 0 .. MaxMsg /\ seen' \in SUBSET Message
    <3>1. \A e \in notifs : e \in 0 .. MaxMsg
      BY DEF TypeOK, Emission
    <3>2. latest' \in 0 .. MaxMsg
      <4>1. CASE Head(pipe[c]) \in notifs
        BY <1>3, <3>1, <4>1 DEF Receive
      <4>2. CASE Head(pipe[c]) \notin notifs
        BY <1>3, <4>2 DEF TypeOK, Receive
      <4> QED BY <4>1, <4>2
    <3>3. seen' \in SUBSET Message
      BY <1>3, <2>1 DEF TypeOK, Receive
    <3> QED BY <3>2, <3>3
  <2>3. pipe' \in [Channel -> Seq(Message)]
    BY <1>3, <2>1 DEF TypeOK, Receive
  <2> QED BY <1>3, <2>2, <2>3 DEF TypeOK, Receive
<1>4. ASSUME NEW c \in Channel, Disconnect(c)
      PROVE  TypeOK'
  <2>1. pipe' \in [Channel -> Seq(Message)]
    BY <1>4 DEF TypeOK, Disconnect
  <2> QED BY <1>4, <2>1 DEF TypeOK, Disconnect
<1>5. ASSUME NEW c \in Channel, Catchup(c)
      PROVE  TypeOK'
  <2>1. BufferedAfter(latest) \in Seq(Message)
    BY BufferedAfterRest, RestOrDelivered
  <2>2. pipe' \in [Channel -> Seq(Message)] /\ lost' \in SUBSET Prompt
    BY <1>5, <2>1, PushEffect DEF Catchup
  <2>3. pc' \in [Channel -> {"new", "open", "catchup", "map", "reply", "leaving", "left"}]
    BY <1>5 DEF TypeOK, Catchup
  <2>4. readers' \in SUBSET {d \in Channel : pc'[d] = "map"}
    BY <1>5 DEF TypeOK, Catchup
  <2> QED BY <1>5, <2>2, <2>3, <2>4 DEF TypeOK, Catchup
<1>6. ASSUME NEW c \in Channel, Reply(c)
      PROVE  TypeOK'
  <2>1. <<None>> \in Seq(Message)
    BY DEF Message
  <2>2. pipe' \in [Channel -> Seq(Message)] /\ lost' \in SUBSET Prompt
    BY <1>6, <2>1, PushEffect DEF Reply
  <2> QED BY <1>6, <2>2 DEF TypeOK, Reply
<1>7. ASSUME NEW c \in Channel, Ack(c)
      PROVE  TypeOK'
  <2>1. buffer' \in Seq(Emission \cup Prompt)
    BY <1>7, PruneRest DEF Ack, Rest
  <2> QED BY <1>7, <2>1 DEF TypeOK, Ack
<1>8. ASSUME NEW c \in Channel, NEW p \in Prompt, SendPrompt(c, p)
      PROVE  TypeOK'
  BY <1>8 DEF TypeOK, SendPrompt
<1>9. CASE Emit
  <2>1. emitted' \in Emission /\ emitted' \in 0 .. MaxMsg
    BY <1>9, ConstantsAssumption DEF TypeOK, Emit, Emission
  <2>2. notifs' \in SUBSET Emission
    BY <1>9, <2>1 DEF TypeOK, Emit
  <2>3. stdout' \in [stage : {"idle", "buffer", "route", "push"}, msg : Message,
                     ch : Channel \cup {None}, kept : BOOLEAN]
    BY <1>9, <2>1 DEF TypeOK, Emit, IdleStdout, Message
  <2> QED BY <1>9, <2>1, <2>2, <2>3 DEF TypeOK, Emit
<1>10. CASE AddToBuffer \/ Route
  <2>1. CASE AddToBuffer
    <3>1. CASE stdout.msg \in Emission \cup Prompt
      <4>1. buffer' \in Seq(Emission \cup Prompt)
        BY <2>1, <3>1 DEF TypeOK, AddToBuffer
      <4>2. stdout' \in [stage : {"idle", "buffer", "route", "push"}, msg : Message,
                         ch : Channel \cup {None}, kept : BOOLEAN]
        BY <2>1 DEF TypeOK, AddToBuffer
      <4> QED BY <2>1, <4>1, <4>2 DEF TypeOK, AddToBuffer
    <3>2. stdout.msg # None
      BY <2>1 DEF AddToBuffer, StdoutInv
    <3>3. stdout.msg \in Message
      BY DEF TypeOK
    <3> QED BY <3>3, <3>1, <3>2 DEF TypeOK, Message
  <2>2. CASE Route
    <3>1. stdout' \in [stage : {"idle", "buffer", "route", "push"}, msg : Message,
                       ch : Channel \cup {None}, kept : BOOLEAN]
      BY <2>2, NoRouteType DEF TypeOK, Route
    <3> QED BY <2>2, <3>1 DEF TypeOK, Route
  <2> QED BY <1>10, <2>1, <2>2
<1>11. CASE Push
  <2>1. stdout.ch \in Channel /\ <<stdout.msg>> \in Seq(Message)
    BY <1>11 DEF TypeOK, Push, StdoutInv
  <2>2. CASE HasSender(stdout.ch)
    <3>1. pipe' \in [Channel -> Seq(Message)] /\ lost' \in SUBSET Prompt
      BY <1>11, <2>1, <2>2, PushEffect DEF Push
    <3>2. stdout' \in [stage : {"idle", "buffer", "route", "push"}, msg : Message,
                       ch : Channel \cup {None}, kept : BOOLEAN]
      <4>1. stdout' = IdleStdout
        BY <1>11, <2>2 DEF Push
      <4> QED BY <4>1 DEF IdleStdout, Message
    <3> QED BY <1>11, <3>1, <3>2 DEF TypeOK, Push
  <2>3. CASE ~HasSender(stdout.ch)
    BY <1>11, <2>3, NoRouteType DEF TypeOK, Push
  <2> QED BY <2>2, <2>3
<1>12. ASSUME NEW p \in Prompt, Respond(p)
      PROVE  TypeOK'
  <2>1. prompt[p] \in Channel /\ <<p>> \in Seq(Message)
    BY <1>12 DEF TypeOK, Respond, Message
  <2>2. CASE HasSender(prompt[p])
    <3>1. pipe' \in [Channel -> Seq(Message)] /\ lost' \in SUBSET Prompt
      BY <1>12, <2>1, <2>2, PushEffect DEF Respond
    <3> QED BY <1>12, <2>2, <3>1 DEF TypeOK, Respond
  <2>3. CASE ~HasSender(prompt[p])
    BY <1>12, <2>3 DEF TypeOK, Respond, IdleStdout, Message
  <2> QED BY <2>2, <2>3
<1>13. CASE UNCHANGED vars
  BY <1>13 DEF TypeOK, vars
<1> QED BY <1>1, <1>2, <1>3, <1>4, <1>5, <1>6, <1>7, <1>8, <1>9, <1>10, <1>11, <1>12, <1>13
        DEF Next

-----------------------------------------------------------------------------
\* Phases and the stdout task

\* One load at a time: no step brings a second channel into the read lock.
LEMMA PhaseStep ==
    ASSUME OutboxInv, [Next]_vars
    PROVE  PhaseInv'
<1> USE DEF OutboxInv, TypeOK, PhaseInv, agentVars, pipeVars, clientVars, Goto
<1>1. ASSUME NEW c \in Channel, Connect(c) \/ Leave(c)
      PROVE  PhaseInv'
  <2>1. CASE Connect(c)
    BY <2>1 DEF Connect
  <2>2. CASE Leave(c)
    BY <2>2 DEF Leave
  <2> QED BY <1>1, <2>1, <2>2
<1>2. ASSUME NEW c \in Channel, LoadCheck(c)
      PROVE  PhaseInv'
  BY <1>2 DEF LoadCheck
<1>3. ASSUME NEW c \in Channel, Catchup(c)
      PROVE  PhaseInv'
  BY <1>3 DEF Catchup
<1>4. ASSUME NEW c \in Channel, Map(c)
      PROVE  PhaseInv'
  BY <1>4, ConstantsAssumption DEF Map
<1>5. ASSUME NEW c \in Channel, Reply(c)
      PROVE  PhaseInv'
  BY <1>5 DEF Reply
<1>6. ASSUME NEW c \in Channel, Unmap(c)
      PROVE  PhaseInv'
  BY <1>6 DEF Unmap
<1>7. ASSUME NEW c \in Channel, Receive(c) \/ Disconnect(c) \/ Ack(c)
      PROVE  PhaseInv'
  BY <1>7 DEF Receive, Disconnect, Ack
<1>8. ASSUME UNCHANGED <<readers, owner, pc, up>>
      PROVE  PhaseInv'
  BY <1>8
<1>9. CASE Emit \/ AddToBuffer \/ Route \/ Push
  BY <1>8, <1>9 DEF Emit, AddToBuffer, Route, Push
<1>10. ASSUME NEW c \in Channel, NEW p \in Prompt, SendPrompt(c, p)
       PROVE  PhaseInv'
  BY <1>8, <1>10 DEF SendPrompt
<1>11. ASSUME NEW p \in Prompt, Respond(p)
       PROVE  PhaseInv'
  BY <1>8, <1>11 DEF Respond
<1>12. CASE UNCHANGED vars
  BY <1>8, <1>12 DEF vars
<1> QED BY <1>1, <1>2, <1>3, <1>4, <1>5, <1>6, <1>7, <1>9, <1>10, <1>11, <1>12 DEF Next

\* The stdout task goes from message to message in order.
LEMMA StdoutStep ==
    ASSUME OutboxInv, [Next]_vars
    PROVE  StdoutInv'
<1> USE DEF OutboxInv, TypeOK, StdoutInv, agentVars, pipeVars, clientVars, Goto, HasSender
<1>1. ASSUME UNCHANGED <<stdout, emitted>>,
             \A c \in Channel : pc[c] # "new" =>
                 /\ pc'[c] # "new"
                 /\ HasSender(c)' => HasSender(c)
                 /\ owner = c /\ HasSender(c)' => owner' = c
      PROVE  StdoutInv'
  BY <1>1
<1>2. ASSUME NEW c \in Channel, Connect(c) \/ LoadCheck(c) \/ Catchup(c) \/ Reply(c) \/ Leave(c)
      PROVE  StdoutInv'
  BY <1>1, <1>2 DEF Connect, LoadCheck, Catchup, Reply, Leave
<1>3. ASSUME NEW c \in Channel, Map(c)
      PROVE  StdoutInv'
  \* Nobody owned the session.
  <2>1. owner = None
    BY <1>3 DEF Map, PhaseInv
  <2> QED BY <1>1, <1>3, <2>1, ConstantsAssumption DEF Map
<1>4. ASSUME NEW c \in Channel, Unmap(c)
      PROVE  StdoutInv'
  BY <1>1, <1>4 DEF Unmap
<1>5. ASSUME NEW c \in Channel, Receive(c) \/ Disconnect(c) \/ Ack(c)
      PROVE  StdoutInv'
  BY <1>1, <1>5 DEF Receive, Disconnect, Ack
<1>6. ASSUME NEW c \in Channel, NEW p \in Prompt, SendPrompt(c, p)
      PROVE  StdoutInv'
  BY <1>1, <1>6 DEF SendPrompt
<1>7. CASE UNCHANGED vars
  BY <1>1, <1>7 DEF vars
<1>8. CASE Emit
  BY <1>8, ConstantsAssumption DEF Emit, IdleStdout, Emission
<1>9. CASE AddToBuffer
  BY <1>9 DEF AddToBuffer
<1>10. ASSUME NoRoute, stdout.stage \in {"route", "push"}, UNCHANGED emitted
       PROVE  StdoutInv'
  BY <1>10, ConstantsAssumption DEF NoRoute, IdleStdout, Emission
<1>11. CASE Route
  <2>1. CASE owner = None
    BY <1>10, <1>11, <2>1 DEF Route
  <2>2. CASE owner # None
    BY <1>11, <2>2 DEF Route, PhaseInv
  <2> QED BY <2>1, <2>2
<1>12. CASE Push
  <2>1. CASE HasSender(stdout.ch)
    BY <1>12, <2>1, ConstantsAssumption DEF Push, IdleStdout, Emission
  <2>2. CASE ~HasSender(stdout.ch)
    BY <1>10, <1>12, <2>2 DEF Push
  <2> QED BY <2>1, <2>2
<1>13. ASSUME NEW p \in Prompt, Respond(p)
       PROVE  StdoutInv'
  <2>1. CASE HasSender(prompt[p])
    BY <1>1, <1>13, <2>1 DEF Respond
  <2>2. CASE ~HasSender(prompt[p])
    <3>1. stdout' = [IdleStdout EXCEPT !.stage = "route", !.msg = p]
      BY <1>13, <2>2 DEF Respond
    <3>2. stdout'.stage = "route" /\ stdout'.msg = p
      BY <3>1 DEF IdleStdout
    <3> QED BY <3>2, Kinds
  <2> QED BY <2>1, <2>2
<1> QED BY <1>2, <1>3, <1>4, <1>5, <1>6, <1>7, <1>8, <1>9, <1>11, <1>12, <1>13 DEF Next

-----------------------------------------------------------------------------
\* The buffer and the pipes

\* Nothing that was pushed, seen or lost is forgotten, unless its connection broke.
NothingVanishes ==
    /\ seen \subseteq seen' /\ lost \subseteq lost' /\ emitted <= emitted'
    /\ \A c \in Channel : \A m \in ToSet(pipe[c]) :
          \/ m \in ToSet(pipe'[c])
          \/ m \in seen'
          \/ c \notin up' /\ (m \in Prompt => m \in lost')

\* No step forgets a message that was delivered or is in a pipe.
LEMMA NothingVanishesStep ==
    ASSUME OutboxInv, [Next]_vars
    PROVE  NothingVanishes
<1> USE DEF OutboxInv, agentVars, pipeVars, clientVars, NothingVanishes
<1>1. emitted \in Int
  BY DEF TypeOK
<1>2. CASE Quiet
  BY <1>1, <1>2 DEF Quiet
<1>3. ASSUME NEW c \in Channel, Receive(c)
      PROVE  NothingVanishes
  <2>1. pipe[c] \in Seq(Message)
    BY DEF TypeOK
  <2>2. ToSet(pipe[c]) = {Head(pipe[c])} \cup ToSet(Tail(pipe[c]))
    BY <1>3, <2>1, ToSetHead DEF Receive
  <2> QED BY <1>1, <1>3, <2>2 DEF Receive, TypeOK
<1>4. ASSUME NEW c \in Channel, Disconnect(c)
      PROVE  NothingVanishes
  BY <1>1, <1>4 DEF Disconnect, TypeOK
<1>5. ASSUME NEW c \in Channel, NEW M, Pushed(c, M), UNCHANGED <<emitted, seen>>
      PROVE  NothingVanishes
  BY <1>1, <1>5 DEF Pushed
<1>6. ASSUME NEW c \in Channel, Catchup(c)
      PROVE  NothingVanishes
  <2>1. BufferedAfter(latest) \in Seq(Message)
    BY BufferedAfterRest, RestOrDelivered
  <2>2. Pushed(c, ToSet(BufferedAfter(latest)))
    BY <1>6, <2>1, PushMany DEF Catchup
  <2> QED BY <1>5, <1>6, <2>2 DEF Catchup
<1>7. ASSUME NEW c \in Channel, Reply(c)
      PROVE  NothingVanishes
  <2>1. Pushed(c, {None})
    BY <1>7, PushOne DEF Message, Reply
  <2> QED BY <1>5, <1>7, <2>1 DEF Reply
<1>8. ASSUME NEW c \in Channel, Ack(c)
      PROVE  NothingVanishes
  BY <1>1, <1>8 DEF Ack
<1>9. CASE Emit \/ AddToBuffer \/ Route
  BY <1>1, <1>9 DEF Emit, AddToBuffer, Route
<1>10. CASE Push
  <2>1. stdout.ch \in Channel /\ stdout.msg \in Message
    BY <1>10 DEF TypeOK, Push, StdoutInv
  <2>2. CASE HasSender(stdout.ch)
    <3>1. Pushed(stdout.ch, {stdout.msg})
      BY <1>10, <2>1, <2>2, PushOne DEF Push
    <3> QED BY <1>5, <1>10, <2>1, <3>1 DEF Push
  <2>3. CASE ~HasSender(stdout.ch)
    BY <1>1, <1>10, <2>3 DEF Push
  <2> QED BY <2>2, <2>3
<1>11. ASSUME NEW p \in Prompt, Respond(p)
       PROVE  NothingVanishes
  <2>1. prompt[p] \in Channel /\ p \in Message
    BY <1>11 DEF TypeOK, Respond, Message
  <2>2. CASE HasSender(prompt[p])
    <3>1. Pushed(prompt[p], {p})
      BY <1>11, <2>1, <2>2, PushOne DEF Respond
    <3> QED BY <1>5, <1>11, <2>1, <3>1 DEF Respond
  <2>3. CASE ~HasSender(prompt[p])
    BY <1>1, <1>11, <2>3 DEF Respond
  <2> QED BY <2>2, <2>3
<1> QED BY <1>2, <1>3, <1>4, <1>6, <1>7, <1>8, <1>9, <1>10, <1>11, StepKinds

\* A delivered message stays delivered.
LEMMA DeliveredStays ==
    ASSUME OutboxInv, [Next]_vars, NEW m, Delivered(m)
    PROVE  Delivered(m)'
BY NothingVanishesStep DEF NothingVanishes, Delivered

\* What is added to the buffer.
LEMMA AddEffect ==
    ASSUME TypeOK, StdoutInv, AddToBuffer
    PROVE  /\ stdout.msg \in Emission \cup Prompt
           /\ Len(buffer') = Len(buffer) + 1
           /\ \A i \in 1 .. Len(buffer) : buffer'[i] = buffer[i]
           /\ buffer'[Len(buffer) + 1] = stdout.msg
           /\ ToSet(buffer') = ToSet(buffer) \cup {stdout.msg}
<1>1. stdout.msg \in Emission \cup Prompt
  <2>1. stdout.msg # None /\ stdout.msg \in Message
    BY DEF AddToBuffer, StdoutInv, TypeOK
  <2> QED BY <2>1 DEF Message
<1>2. buffer' = Append(buffer, stdout.msg) /\ buffer \in Seq(Emission \cup Prompt)
  BY DEF AddToBuffer, TypeOK
<1> DEFINE one == <<stdout.msg>>
<1>3. buffer' = buffer \o one
  BY <1>1, <1>2
<1>4. one \in Seq(Emission \cup Prompt) /\ ToSet(one) = {stdout.msg}
  BY <1>1, ToSetOne
<1>5. ToSet(buffer \o one) = ToSet(buffer) \cup ToSet(one)
  <2> HIDE DEF one
  <2> QED BY <1>2, <1>4, ToSetConcat
<1>6. ToSet(buffer') = ToSet(buffer) \cup {stdout.msg}
  BY <1>3, <1>4, <1>5
<1> QED BY <1>1, <1>2, <1>6

\* A message is in no pipe, and seen by nobody, before it is buffered.
LEMMA FreshStep ==
    ASSUME OutboxInv, [Next]_vars
    PROVE  FreshInv'
<1> USE DEF OutboxInv, FreshInv, agentVars, pipeVars, clientVars
<1>1. CASE Quiet
  BY <1>1 DEF Quiet
<1>2. ASSUME NEW c \in Channel, Receive(c)
      PROVE  FreshInv'
  <2>1. pipe[c] \in Seq(Message)
    BY DEF TypeOK
  <2>2. ToSet(pipe[c]) = {Head(pipe[c])} \cup ToSet(Tail(pipe[c]))
    BY <1>2, <2>1, ToSetHead DEF Receive
  <2> QED BY <1>2, <2>2 DEF Receive, TypeOK
<1>3. ASSUME NEW c \in Channel, Disconnect(c)
      PROVE  FreshInv'
  <2>1. ToSet(<<>>) = {}
    BY DEF ToSet
  <2>2. UNCHANGED <<seen, buffer, emitted, stdout>>
    BY <1>3 DEF Disconnect
  <2>3. \A d \in Channel : ToSet(pipe'[d]) \subseteq ToSet(pipe[d])
    BY <1>3, <2>1 DEF Disconnect, TypeOK
  <2> QED BY <2>2, <2>3
\* What is pushed was buffered, or is the message being routed.
<1>4. ASSUME NEW c \in Channel, NEW M, Pushed(c, M),
             UNCHANGED <<emitted, seen, buffer>>,
             stdout'.stage = "buffer" => stdout.stage = "buffer" /\ stdout'.msg = stdout.msg,
             \A m \in M \cap Emission :
                 m \in ToSet(buffer) \/ (m = stdout.msg /\ stdout.stage = "push")
      PROVE  FreshInv'
  <2>1. \A d \in Channel : ToSet(pipe'[d]) \subseteq ToSet(pipe[d]) \cup M
    BY <1>4 DEF Pushed
  <2>2. \A m \in M \cap Emission :
           m <= emitted /\ (stdout'.stage = "buffer" => stdout'.msg # m)
    BY <1>4 DEF StdoutInv, TypeOK
  <2> QED BY <1>4, <2>1, <2>2
<1>5. ASSUME NEW c \in Channel, Catchup(c)
      PROVE  FreshInv'
  <2>1. BufferedAfter(latest) \in Seq(Message) /\ ToSet(BufferedAfter(latest)) \subseteq ToSet(buffer)
    BY BufferedAfterRest, RestOrDelivered
  <2>2. Pushed(c, ToSet(BufferedAfter(latest)))
    BY <1>5, <2>1, PushMany DEF Catchup
  <2> QED BY <1>4, <1>5, <2>1, <2>2 DEF Catchup
<1>6. ASSUME NEW c \in Channel, Reply(c)
      PROVE  FreshInv'
  <2>1. Pushed(c, {None})
    BY <1>6, PushOne DEF Message, Reply
  <2> QED BY <1>4, <1>6, <2>1, Kinds DEF Reply
<1>7. ASSUME NEW c \in Channel, Ack(c)
      PROVE  FreshInv'
  <2>1. ToSet(buffer') \subseteq ToSet(buffer)
    BY <1>7, PruneRest, RestOrDelivered DEF Ack
  <2> QED BY <1>7, <2>1 DEF Ack
<1>8. CASE Emit
  <2>1. emitted \in Nat /\ emitted' = emitted + 1 /\ stdout'.msg = emitted + 1
    BY <1>8 DEF Emit, IdleStdout, TypeOK
  <2> QED BY <1>8, <2>1 DEF Emit, Emission
<1>9. CASE AddToBuffer
  <2>1. ToSet(buffer') = ToSet(buffer) \cup {stdout.msg}
    BY <1>9, AddEffect
  <2>2. stdout'.stage = "route" /\ (stdout.msg \in Emission => stdout.msg <= emitted)
    BY <1>9 DEF AddToBuffer, TypeOK, StdoutInv
  <2> QED BY <1>9, <2>1, <2>2 DEF AddToBuffer
<1>10. ASSUME NoRoute, stdout.stage \in {"route", "push"},
              UNCHANGED <<emitted, seen, buffer, pipe>>
       PROVE  FreshInv'
  <2>1. stdout'.stage = "buffer" => stdout'.msg \notin Emission
    BY <1>10 DEF NoRoute, IdleStdout, StdoutInv, TypeOK
  <2> QED BY <1>10, <2>1
<1>11. CASE Route
  BY <1>10, <1>11 DEF Route, TypeOK
<1>12. CASE Push
  <2>1. stdout.ch \in Channel /\ stdout.msg \in Message
    BY <1>12 DEF TypeOK, Push, StdoutInv
  <2>2. CASE HasSender(stdout.ch)
    <3>1. Pushed(stdout.ch, {stdout.msg})
      BY <1>12, <2>1, <2>2, PushOne DEF Push
    <3> QED BY <1>4, <1>12, <2>1, <2>2, <3>1 DEF Push, IdleStdout
  <2>3. CASE ~HasSender(stdout.ch)
    BY <1>10, <1>12, <2>3 DEF Push
  <2> QED BY <2>2, <2>3
<1>13. ASSUME NEW p \in Prompt, Respond(p)
       PROVE  FreshInv'
  <2>1. prompt[p] \in Channel /\ p \in Message /\ p \notin Emission
    BY <1>13, Kinds DEF TypeOK, Respond, Message
  <2>2. CASE HasSender(prompt[p])
    <3>1. Pushed(prompt[p], {p})
      BY <1>13, <2>1, <2>2, PushOne DEF Respond
    <3> QED BY <1>4, <1>13, <2>1, <2>2, <3>1 DEF Respond
  <2>3. CASE ~HasSender(prompt[p])
    BY <1>13, <2>1, <2>3 DEF Respond, IdleStdout
  <2> QED BY <2>2, <2>3
<1> QED BY <1>1, <1>2, <1>3, <1>5, <1>6, <1>7, <1>8, <1>9, <1>11, <1>12, <1>13, StepKinds

\* The steps that leave the buffer as it is.
LEMMA BufferSteps ==
    ASSUME OutboxInv, [Next]_vars
    PROVE  \/ UNCHANGED buffer
           \/ AddToBuffer
           \/ \E k \in Cut : Rest(buffer', k)
<1>1. ASSUME NEW c \in Channel, Ack(c)
      PROVE  \E k \in Cut : Rest(buffer', k)
  BY <1>1, PruneRest DEF Ack, OutboxInv
<1>2. ASSUME NEW c \in Channel, Receive(c) \/ Disconnect(c) \/ Catchup(c) \/ Reply(c)
      PROVE  UNCHANGED buffer
  BY <1>2 DEF Receive, Disconnect, Catchup, Reply
<1>3. ASSUME Emit \/ Route \/ Push \/ \E p \in Prompt : Respond(p)
      PROVE  UNCHANGED buffer
  BY <1>3 DEF Emit, Route, Push, Respond
<1> QED BY <1>1, <1>2, <1>3, StepKinds DEF Quiet

\* Adding to the buffer and pruning it keep the order of the stream.
LEMMA SortedStep ==
    ASSUME OutboxInv, [Next]_vars
    PROVE  SortedInv'
<1> USE DEF OutboxInv, SortedInv
<1>1. CASE UNCHANGED buffer
  BY <1>1
<1>2. CASE AddToBuffer
  <2>1. \A i \in 1 .. Len(buffer) : buffer[i] \in Emission /\ stdout.msg \in Emission
                                     => buffer[i] < stdout.msg
    <3>1. ASSUME NEW i \in 1 .. Len(buffer), buffer[i] \in Emission, stdout.msg \in Emission
          PROVE  buffer[i] < stdout.msg
      <4>1. buffer[i] \in ToSet(buffer)
        BY InToSet DEF TypeOK
      <4>2. buffer[i] <= emitted /\ stdout.msg # buffer[i] /\ stdout.msg = emitted
        BY <1>2, <3>1, <4>1 DEF AddToBuffer, FreshInv, StdoutInv
      <4>3. buffer[i] \in Int /\ emitted \in Int
        <5>1. buffer[i] \in Int
          BY <3>1, Kinds
        <5>2. emitted \in Int
          BY DEF TypeOK
        <5> QED BY <5>1, <5>2
      <4> QED BY <4>2, <4>3
    <3> QED BY <3>1
  <2>2. Len(buffer) \in Nat
    BY DEF TypeOK
  <2> QED BY <1>2, <2>1, <2>2, AddEffect
<1>3. ASSUME NEW k \in Cut, Rest(buffer', k)
      PROVE  SortedInv'
  <2>1. Len(buffer) \in Nat /\ k \in Nat
    BY DEF TypeOK, Cut
  <2>2. \A i \in 1 .. Len(buffer') : i + k \in 1 .. Len(buffer) /\ buffer'[i] = buffer[i + k]
    BY <1>3, <2>1 DEF Rest
  <2> QED BY <2>1, <2>2, <1>3 DEF Rest
<1> QED BY <1>1, <1>2, <1>3, BufferSteps

\* The client sees the next message of the stream, or one it has seen before.
LEMMA SeenStep ==
    ASSUME OutboxInv, [Next]_vars
    PROVE  SeenInv'
<1> USE DEF OutboxInv, SeenInv, agentVars, pipeVars, clientVars
<1>1. CASE UNCHANGED <<seen, latest>>
  <2>1. TypeOK' /\ NothingVanishes
    BY TypeStep, NothingVanishesStep
  <2>2. emitted \in Int /\ emitted' \in Int /\ emitted <= emitted'
    BY <2>1 DEF NothingVanishes, TypeOK
  <2> QED BY <1>1, <2>2
<1>2. ASSUME NEW c \in Channel, Receive(c)
      PROVE  SeenInv'
  <2> DEFINE m == Head(pipe[c])
  <2>1. pipe[c] \in Seq(Message) /\ pipe[c] # <<>>
    BY <1>2 DEF TypeOK, Receive
  <2>2. 1 \in 1 .. Len(pipe[c]) /\ m = pipe[c][1]
    BY <2>1
  <2>3. m \in ToSet(pipe[c])
    BY <2>1, <2>2, InToSet
  <2>4. seen' = seen \cup {m} /\ emitted' = emitted
        /\ latest' = IF m \in notifs THEN m ELSE latest
    BY <1>2 DEF Receive
  <2>5. PICK n \in 0 .. emitted : seen \cap Emission = 1 .. n
    OBVIOUS
  <2>6. \E l \in 0 .. emitted : seen' \cap Emission = 1 .. l
    <3>1. CASE m \notin Emission
      BY <2>4, <2>5, <3>1
    <3>2. CASE m \in Emission
      <4>1. m <= emitted /\ m \in Nat /\ m >= 1 /\ emitted \in Nat
        BY <2>3, <3>2, ConstantsAssumption DEF FreshInv, Emission, TypeOK
      <4>2. \A e \in Emission : e < m => e \in seen
        BY <2>2, <3>2 DEF GapInv
      <4>3. CASE m <= n
        BY <2>4, <2>5, <4>1, <4>3
      <4>4. CASE m > n
        <5>1. m = n + 1
          <6>1. CASE m > n + 1
            <7>1. n + 1 \in Emission
              BY <3>2, <4>1, <6>1, ConstantsAssumption DEF Emission
            <7> QED BY <2>5, <4>2, <6>1, <7>1
          <6> QED BY <4>1, <4>4, <6>1
        <5> QED BY <2>4, <2>5, <3>2, <4>1, <5>1
      <4> QED BY <4>1, <4>3, <4>4
    <3> QED BY <3>1, <3>2
  <2>7. latest' = 0 \/ latest' \in seen' \cap Emission
    <3>1. CASE m \in notifs
      <4>1. m \in Emission
        BY <3>1 DEF TypeOK
      <4> QED BY <2>4, <3>1, <4>1
    <3>2. CASE m \notin notifs
      BY <2>4, <3>2
    <3> QED BY <3>1, <3>2
  <2> QED BY <2>4, <2>6, <2>7
<1>3. ASSUME NEW c \in Channel, Disconnect(c) \/ Catchup(c) \/ Reply(c) \/ Ack(c)
      PROVE  UNCHANGED <<seen, latest>>
  BY <1>3 DEF Disconnect, Catchup, Reply, Ack
<1>4. ASSUME Emit \/ AddToBuffer \/ Route \/ Push \/ \E p \in Prompt : Respond(p)
      PROVE  UNCHANGED <<seen, latest>>
  BY <1>4 DEF Emit, AddToBuffer, Route, Push, Respond
<1> QED BY <1>1, <1>2, <1>3, <1>4, StepKinds DEF Quiet

-----------------------------------------------------------------------------
\* Nothing is lost

\* What is in the buffer stays there, or was delivered.
LEMMA BufferedStays ==
    ASSUME OutboxInv, [Next]_vars, NEW m \in ToSet(buffer)
    PROVE  m \in ToSet(buffer') \/ Delivered(m)
<1>1. CASE AddToBuffer
  BY <1>1, AddEffect DEF OutboxInv
<1>2. ASSUME NEW k \in Cut, Rest(buffer', k)
      PROVE  m \in ToSet(buffer') \/ Delivered(m)
  BY <1>2, RestOrDelivered DEF OutboxInv
<1> QED BY <1>1, <1>2, BufferSteps

\* What the stdout task lets go of was delivered or is buffered.
LEMMA ReleasedIsSafe ==
    ASSUME OutboxInv, [Next]_vars, NEW m, m = stdout.msg, m # None, stdout'.msg # m
    PROVE  m \in ToSet(buffer) \/ Delivered(m)'
<1> USE DEF OutboxInv, agentVars, pipeVars, clientVars
<1>1. ASSUME NoRoute
      PROVE  m \in ToSet(buffer) \/ Delivered(m)'
  <2>1. stdout.kept
    BY <1>1 DEF NoRoute, TypeOK
  <2> QED BY <2>1, DeliveredStays DEF KeptInv
<1>2. CASE Route
  BY <1>1, <1>2 DEF Route, TypeOK
<1>3. CASE Push
  <2>1. stdout.ch \in Channel /\ m \in Message
    BY <1>3 DEF TypeOK, Push, StdoutInv
  <2>2. CASE HasSender(stdout.ch)
    <3>1. Pushed(stdout.ch, {m})
      BY <1>3, <2>1, <2>2, PushOne DEF Push
    <3>2. CASE m \in Prompt
      BY <2>1, <3>1, <3>2 DEF Pushed, Delivered
    <3>3. CASE m \notin Prompt
      <4>1. stdout.kept
        BY <1>3, <2>1, <3>3 DEF Push, StdoutInv, Message
      <4> QED BY <4>1, DeliveredStays DEF KeptInv
    <3> QED BY <3>2, <3>3
  <2>3. CASE ~HasSender(stdout.ch)
    BY <1>1, <1>3, <2>3 DEF Push
  <2> QED BY <2>2, <2>3
<1>4. CASE Emit
  BY <1>4 DEF Emit, StdoutInv
<1>5. CASE AddToBuffer
  BY <1>5 DEF AddToBuffer, TypeOK
<1>6. ASSUME NEW p \in Prompt, Respond(p)
      PROVE  FALSE
  BY <1>6 DEF Respond, StdoutInv
<1>7. ASSUME NEW c \in Channel, Receive(c) \/ Disconnect(c) \/ Catchup(c) \/ Reply(c) \/ Ack(c)
      PROVE  FALSE
  BY <1>7 DEF Receive, Disconnect, Catchup, Reply, Ack
<1> QED BY <1>2, <1>3, <1>4, <1>5, <1>6, <1>7, StepKinds DEF Quiet

\* The stdout task goes on only with a message that is buffered or delivered.
LEMMA KeptStep ==
    ASSUME OutboxInv, [Next]_vars
    PROVE  KeptInv'
<1> USE DEF OutboxInv, agentVars, pipeVars, clientVars
<1> SUFFICES ASSUME NEW m, m = stdout'.msg, stdout'.kept
             PROVE  m \in ToSet(buffer') \/ Delivered(m)'
  BY DEF KeptInv, Delivered
<1>1. CASE stdout.kept /\ m = stdout.msg
  <2>1. m \in ToSet(buffer) \/ Delivered(m)
    BY <1>1 DEF KeptInv
  <2> QED BY <1>1, <2>1, BufferedStays, DeliveredStays
<1>2. CASE AddToBuffer
  <2>1. m = stdout.msg
    BY <1>2 DEF AddToBuffer, TypeOK
  <2> QED BY <1>2, <2>1, AddEffect
<1>3. CASE Emit
  BY <1>3 DEF Emit, IdleStdout
<1>4. ASSUME NoRoute
      PROVE  stdout.kept /\ m = stdout.msg
  BY <1>4 DEF NoRoute, IdleStdout, TypeOK
<1>5. CASE Route
  BY <1>1, <1>4, <1>5 DEF Route, TypeOK
<1>6. CASE Push
  BY <1>1, <1>4, <1>6 DEF Push, IdleStdout
<1>7. ASSUME NEW p \in Prompt, Respond(p)
      PROVE  stdout.kept /\ m = stdout.msg
  BY <1>7 DEF Respond, IdleStdout
<1>8. ASSUME NEW c \in Channel, Receive(c) \/ Disconnect(c) \/ Catchup(c) \/ Reply(c) \/ Ack(c)
      PROVE  stdout.kept /\ m = stdout.msg
  BY <1>8 DEF Receive, Disconnect, Catchup, Reply, Ack
<1> QED BY <1>1, <1>2, <1>3, <1>5, <1>6, <1>7, <1>8, StepKinds DEF Quiet

\* Pruning takes away only what the client has seen.
LEMMA UnseenStep ==
    ASSUME OutboxInv, [Next]_vars
    PROVE  UnseenKept'
<1> SUFFICES ASSUME NEW e \in 1 .. emitted'
             PROVE  e \in seen' \/ e \in ToSet(buffer') \/ e = stdout'.msg
  BY DEF UnseenKept
<1>1. e \in Emission /\ e \notin Prompt /\ e # None
  <2>1. emitted' \in 0 .. MaxMsg
    BY TypeStep DEF TypeOK
  <2>2. e \in Emission
    BY <2>1, ConstantsAssumption DEF Emission
  <2> QED BY <2>2, Kinds
<1>2. CASE e \in 1 .. emitted
  <2>1. e \in seen \/ e \in ToSet(buffer) \/ e = stdout.msg
    BY <1>2 DEF OutboxInv, UnseenKept
  <2>2. e \in ToSet(buffer) => e \in ToSet(buffer') \/ e \in seen'
    BY <1>1, BufferedStays, DeliveredStays DEF Delivered
  <2>3. e = stdout.msg => e = stdout'.msg \/ e \in ToSet(buffer) \/ e \in seen'
    <3>1. ASSUME e = stdout.msg, e # stdout'.msg
          PROVE  e \in ToSet(buffer) \/ Delivered(e)'
      BY <1>1, <3>1, ReleasedIsSafe
    <3> QED BY <1>1, <3>1 DEF Delivered
  <2>4. seen \subseteq seen'
    BY NothingVanishesStep DEF NothingVanishes
  <2> QED BY <2>1, <2>2, <2>3, <2>4
<1>3. CASE e \notin 1 .. emitted
  <2>1. emitted' # emitted
    BY <1>3
  <2>2. Emit
    BY <2>1, StepKinds DEF Quiet, Receive, Disconnect, Catchup, Reply, Ack, AddToBuffer,
          Route, Push, Respond, agentVars
  <2>3. e = emitted + 1 /\ stdout'.msg = emitted + 1
    BY <1>3, <2>2 DEF Emit, IdleStdout, OutboxInv, TypeOK
  <2> QED BY <2>3
<1> QED BY <1>2, <1>3

\* Neither pruning nor the end of a connection loses an answer.
LEMMA AnswerStep ==
    ASSUME OutboxInv, [Next]_vars
    PROVE  AnswerKept'
<1> SUFFICES ASSUME NEW p \in answered'
             PROVE  Delivered(p)' \/ p \in ToSet(buffer') \/ p = stdout'.msg
  BY DEF AnswerKept, Delivered
<1>1. p \in Prompt /\ p # None
  BY TypeStep, Kinds DEF TypeOK
<1>2. CASE p \in answered
  <2>1. Delivered(p) \/ p \in ToSet(buffer) \/ p = stdout.msg
    BY <1>1, <1>2 DEF OutboxInv, AnswerKept, Delivered
  <2>2. ASSUME p \in ToSet(buffer)
        PROVE  Delivered(p)' \/ p \in ToSet(buffer')
    BY <2>2, BufferedStays, DeliveredStays
  <2>3. ASSUME p = stdout.msg, p # stdout'.msg
        PROVE  Delivered(p)' \/ p \in ToSet(buffer)
    BY <1>1, <2>3, ReleasedIsSafe
  <2> QED BY <2>1, <2>2, <2>3, DeliveredStays
<1>3. CASE p \notin answered
  <2>1. Respond(p)
    <3>1. ASSUME NEW q \in Prompt, Respond(q)
          PROVE  q = p
      BY <1>3, <3>1 DEF Respond
    <3>2. answered' # answered
      BY <1>3
    <3> QED BY <3>1, <3>2, StepKinds DEF Quiet, Receive, Disconnect, Catchup, Reply, Ack,
            Emit, AddToBuffer, Route, Push, agentVars
  <2>2. prompt[p] \in Channel /\ p \in Message
    BY <1>1, <2>1 DEF OutboxInv, TypeOK, Respond, Message
  <2>3. CASE HasSender(prompt[p])
    <3>1. Pushed(prompt[p], {p})
      BY <2>1, <2>2, <2>3, PushOne DEF Respond, OutboxInv
    <3> QED BY <1>1, <2>2, <3>1 DEF Pushed, Delivered
  <2>4. CASE ~HasSender(prompt[p])
    BY <2>1, <2>4 DEF Respond, IdleStdout
  <2> QED BY <2>3, <2>4
<1> QED BY <1>2, <1>3

\* A message of the agent that was pushed or received.
Reached(e) == e \in seen \/ \E c \in Channel : e \in ToSet(pipe[c])

\* What reaches a client now was replayed, or pushed by the stdout task to the owner.
LEMMA NewlyReached ==
    ASSUME OutboxInv, [Next]_vars, NEW e \in Emission, ~Reached(e), Reached(e)'
    PROVE  \/ \E c \in Channel : Catchup(c) /\ c \in up
           \/ /\ Push /\ e = stdout.msg
              /\ stdout.ch \in up /\ owner = stdout.ch
<1> USE DEF OutboxInv, Reached, agentVars, pipeVars, clientVars
<1>1. ASSUME UNCHANGED seen, \A c \in Channel : ToSet(pipe'[c]) \subseteq ToSet(pipe[c])
      PROVE  FALSE
  BY <1>1
<1>2. ASSUME NEW c \in Channel, NEW M, Pushed(c, M), e \notin M \/ c \notin up, UNCHANGED seen
      PROVE  FALSE
  BY <1>2 DEF Pushed
<1>3. CASE Quiet
  BY <1>1, <1>3 DEF Quiet
<1>4. ASSUME NEW c \in Channel, Receive(c)
      PROVE  FALSE
  <2>1. pipe[c] \in Seq(Message)
    BY DEF TypeOK
  <2>2. ToSet(pipe[c]) = {Head(pipe[c])} \cup ToSet(Tail(pipe[c]))
    BY <1>4, <2>1, ToSetHead DEF Receive
  <2> QED BY <1>4, <2>2 DEF Receive, TypeOK
<1>5. ASSUME NEW c \in Channel, Disconnect(c)
      PROVE  FALSE
  <2>1. ToSet(<<>>) = {}
    BY DEF ToSet
  <2> QED BY <1>1, <1>5, <2>1 DEF Disconnect, TypeOK
<1>6. ASSUME NEW c \in Channel, Catchup(c), c \notin up
      PROVE  FALSE
  <2>1. BufferedAfter(latest) \in Seq(Message)
    BY BufferedAfterRest, RestOrDelivered
  <2>2. Pushed(c, ToSet(BufferedAfter(latest)))
    BY <1>6, <2>1, PushMany DEF Catchup
  <2> QED BY <1>2, <1>6, <2>2 DEF Catchup
<1>7. ASSUME NEW c \in Channel, Reply(c)
      PROVE  FALSE
  <2>1. Pushed(c, {None})
    BY <1>7, PushOne DEF Message, Reply
  <2> QED BY <1>2, <1>7, <2>1, Kinds DEF Reply
<1>8. CASE Emit \/ AddToBuffer \/ Route \/ \E c \in Channel : Ack(c)
  BY <1>1, <1>8 DEF Emit, AddToBuffer, Route, Ack
<1>9. CASE Push
  <2>1. stdout.ch \in Channel /\ stdout.msg \in Message
    BY <1>9 DEF TypeOK, Push, StdoutInv
  <2>2. CASE HasSender(stdout.ch)
    <3>1. Pushed(stdout.ch, {stdout.msg})
      BY <1>9, <2>1, <2>2, PushOne DEF Push
    <3>2. e = stdout.msg /\ stdout.ch \in up
      BY <1>2, <1>9, <2>1, <3>1 DEF Push
    <3> QED BY <1>9, <2>2, <3>2 DEF Push, StdoutInv
  <2>3. CASE ~HasSender(stdout.ch)
    BY <1>1, <1>9, <2>3 DEF Push
  <2> QED BY <2>2, <2>3
<1>10. ASSUME NEW p \in Prompt, Respond(p)
       PROVE  FALSE
  <2>1. prompt[p] \in Channel /\ p \in Message /\ p # e
    BY <1>10, Kinds DEF TypeOK, Respond, Message
  <2>2. CASE HasSender(prompt[p])
    <3>1. Pushed(prompt[p], {p})
      BY <1>10, <2>1, <2>2, PushOne DEF Respond
    <3> QED BY <1>2, <1>10, <2>1, <3>1 DEF Respond
  <2>3. CASE ~HasSender(prompt[p])
    BY <1>1, <1>10, <2>3 DEF Respond
  <2> QED BY <2>2, <2>3
<1> QED BY <1>3, <1>4, <1>5, <1>6, <1>7, <1>8, <1>9, <1>10, StepKinds

\* Once a channel was streamed the buffer, all of it was delivered or is on its way.
LEMMA CatchupDelivers ==
    ASSUME OutboxInv, [Next]_vars, NEW c \in Channel, Catchup(c), c \in up, NEW m \in ToSet(buffer)
    PROVE  m \in ToSet(pipe'[c]) \/ Delivered(m)
<1>1. PICK k \in Cut : Rest(BufferedAfter(latest), k)
  BY BufferedAfterRest DEF OutboxInv
<1>2. BufferedAfter(latest) \in Seq(Message)
  BY <1>1, RestOrDelivered DEF OutboxInv
<1>3. Pushed(c, ToSet(BufferedAfter(latest)))
  BY <1>2, PushMany DEF Catchup, OutboxInv
<1>4. m \in ToSet(BufferedAfter(latest)) \/ Delivered(m)
  BY <1>1, RestOrDelivered DEF OutboxInv
<1> QED BY <1>3, <1>4 DEF Pushed

\* A message delivered after an answer in the buffer finds the answer delivered.
LEMMA OrderStep ==
    ASSUME OutboxInv, [Next]_vars
    PROVE  AnswerOrder'
<1>1. ASSUME NEW i \in 1 .. Len(buffer), NEW j \in 1 .. Len(buffer), i < j,
             buffer[i] \in Prompt, buffer[j] \in Emission,
             NEW p, p = buffer[i], NEW e, e = buffer[j], Reached(e)'
      PROVE  Delivered(p)'
  <2>1. p \in ToSet(buffer)
    BY <1>1, InToSet DEF OutboxInv, TypeOK
  <2>2. CASE Reached(e)
    <3>1. Delivered(p)
      BY <1>1, <2>2 DEF OutboxInv, AnswerOrder, Reached
    <3> QED BY <3>1, DeliveredStays
  <2>3. CASE ~Reached(e)
    <3>1. ASSUME NEW c \in Channel, Catchup(c), c \in up
          PROVE  Delivered(p)'
      <4>1. p \in ToSet(pipe'[c]) \/ Delivered(p)
        BY <2>1, <3>1, CatchupDelivers
      <4> QED BY <1>1, <4>1, DeliveredStays DEF Delivered
    <3>2. ASSUME Push, e = stdout.msg, stdout.ch \in up, owner = stdout.ch
          PROVE  Delivered(p)'
      <4>1. stdout.ch \in Channel /\ p # e
        BY <1>1, <3>2, Kinds DEF OutboxInv, TypeOK
      <4>2. p \in ToSet(pipe[stdout.ch]) \/ Delivered(p)
        BY <2>1, <3>2, <4>1 DEF OutboxInv, AttachInv
      <4>3. Delivered(p)
        BY <1>1, <4>1, <4>2 DEF Delivered
      <4> QED BY <4>3, DeliveredStays
    <3> QED BY <1>1, <2>3, <3>1, <3>2, NewlyReached
  <2> QED BY <2>2, <2>3
<1> SUFFICES ASSUME NEW i \in 1 .. Len(buffer'), NEW j \in 1 .. Len(buffer'), i < j,
                    NEW p, p = buffer'[i], NEW e, e = buffer'[j],
                    p \in Prompt, e \in Emission, Reached(e)'
             PROVE  Delivered(p)'
  BY DEF AnswerOrder, Reached, Delivered
<1>2. Len(buffer) \in Nat
  BY DEF OutboxInv, TypeOK
<1>3. CASE UNCHANGED buffer
  BY <1>1, <1>3
<1>4. CASE AddToBuffer
  <2>1. CASE j \in 1 .. Len(buffer)
    <3>1. i \in 1 .. Len(buffer) /\ buffer[i] = p /\ buffer[j] = e
      BY <1>2, <1>4, <2>1, AddEffect DEF OutboxInv
    <3> QED BY <1>1, <2>1, <3>1
  <2>2. CASE j = Len(buffer) + 1
    \* A message that has just been buffered has reached nobody.
    <3>1. e = stdout.msg
      BY <1>4, <2>2, AddEffect DEF OutboxInv
    <3>2. ~Reached(e)'
      BY <1>4, <3>1 DEF AddToBuffer, Reached, OutboxInv, FreshInv, pipeVars, clientVars
    <3> QED BY <3>2
  <2> QED BY <1>2, <1>4, <2>1, <2>2, AddEffect DEF OutboxInv
<1>5. ASSUME NEW k \in Cut, Rest(buffer', k)
      PROVE  Delivered(p)'
  <2>1. i + k \in 1 .. Len(buffer) /\ j + k \in 1 .. Len(buffer) /\ i + k < j + k
    BY <1>2, <1>5 DEF Rest, Cut
  <2>2. buffer[i + k] = p /\ buffer[j + k] = e
    BY <1>5 DEF Rest
  <2> QED BY <1>1, <2>1, <2>2
<1> QED BY <1>3, <1>4, <1>5, BufferSteps

-----------------------------------------------------------------------------
\* No gaps

\* It is enough to look at the pipe that changed.
LEMMA GapOfChanged ==
    ASSUME OutboxInv, seen \subseteq seen', NEW c \in Channel,
           \A d \in Channel : d # c => pipe'[d] = pipe[d],
           \A i \in 1 .. Len(pipe'[c]) : pipe'[c][i] \in Emission =>
               \A e \in Emission : e < pipe'[c][i] =>
                   e \in seen' \/ \E j \in 1 .. i - 1 : pipe'[c][j] = e
    PROVE  GapInv'
<1> SUFFICES ASSUME NEW d \in Channel, NEW i \in 1 .. Len(pipe'[d]), pipe'[d][i] \in Emission,
                    NEW e \in Emission, e < pipe'[d][i]
             PROVE  e \in seen' \/ \E j \in 1 .. i - 1 : pipe'[d][j] = e
  BY DEF GapInv
<1>1. CASE d = c
  BY <1>1
<1>2. CASE d # c
  <2>1. pipe'[d] = pipe[d]
    BY <1>2
  <2>2. e \in seen \/ \E j \in 1 .. i - 1 : pipe[d][j] = e
    BY <2>1 DEF OutboxInv, GapInv
  <2> QED BY <2>1, <2>2
<1> QED BY <1>1, <1>2

\* A push leaves no gap if before each pushed message of the agent come the earlier
\* ones.
LEMMA GapPush ==
    ASSUME OutboxInv, NEW c \in Channel, NEW s \in Seq(Message), PushTo(c, s), seen \subseteq seen',
           c \in up =>
               \A j \in 1 .. Len(s) : s[j] \in Emission =>
                   \A e \in Emission : e < s[j] =>
                       \/ e \in seen
                       \/ e \in ToSet(pipe[c])
                       \/ \E q \in 1 .. j - 1 : s[q] = e
    PROVE  GapInv'
<1>1. CASE c \notin up
  <2>1. pipe' = pipe
    BY <1>1, PushEffect DEF OutboxInv
  <2> QED BY <2>1 DEF OutboxInv, GapInv
<1>2. CASE c \in up
  <2>1. /\ pipe'[c] = pipe[c] \o s
        /\ \A d \in Channel : d # c => pipe'[d] = pipe[d]
    BY <1>2, PushEffect DEF OutboxInv
  <2>2. pipe[c] \in Seq(Message)
    BY DEF OutboxInv, TypeOK
  <2>3. ASSUME NEW i \in 1 .. Len(pipe'[c]), pipe'[c][i] \in Emission,
               NEW e \in Emission, e < pipe'[c][i]
        PROVE  e \in seen' \/ \E j \in 1 .. i - 1 : pipe'[c][j] = e
    <3>1. CASE i <= Len(pipe[c])
      <4>1. i \in 1 .. Len(pipe[c]) /\ pipe'[c][i] = pipe[c][i]
        BY <2>1, <2>2, <3>1
      <4>2. e \in seen \/ \E j \in 1 .. i - 1 : pipe[c][j] = e
        BY <2>3, <4>1 DEF OutboxInv, GapInv
      <4>3. \A j \in 1 .. i - 1 : pipe'[c][j] = pipe[c][j]
        BY <2>1, <2>2, <3>1
      <4> QED BY <4>2, <4>3
    <3>2. CASE i > Len(pipe[c])
      <4> DEFINE l == i - Len(pipe[c])
      <4>1. l \in 1 .. Len(s) /\ pipe'[c][i] = s[l]
        BY <2>1, <2>2, <3>2
      <4>2. \/ e \in seen
            \/ e \in ToSet(pipe[c])
            \/ \E q \in 1 .. l - 1 : s[q] = e
        BY <1>2, <2>3, <4>1
      <4>3. ASSUME e \in ToSet(pipe[c])
            PROVE  \E j \in 1 .. i - 1 : pipe'[c][j] = e
        <5>1. PICK j \in 1 .. Len(pipe[c]) : pipe[c][j] = e
          BY <2>2, <4>3, ToSetIndex
        <5>2. j \in 1 .. i - 1 /\ pipe'[c][j] = e
          BY <2>1, <2>2, <3>2, <5>1
        <5> QED BY <5>2
      <4>4. ASSUME NEW q \in 1 .. l - 1, s[q] = e
            PROVE  \E j \in 1 .. i - 1 : pipe'[c][j] = e
        <5>1. Len(pipe[c]) + q \in 1 .. i - 1 /\ pipe'[c][Len(pipe[c]) + q] = e
          BY <2>1, <2>2, <3>2, <4>1, <4>4
        <5> QED BY <5>1
      <4> QED BY <4>2, <4>3, <4>4
    <3> QED BY <2>2, <3>1, <3>2
  <2> QED BY <2>1, <2>3, GapOfChanged
<1> QED BY <1>1, <1>2

\* What is put into a pipe continues what is in it, or what the client has seen.
LEMMA GapStep ==
    ASSUME OutboxInv, [Next]_vars
    PROVE  GapInv'
<1> USE DEF agentVars, pipeVars, clientVars
<1>1. seen \subseteq seen'
  BY NothingVanishesStep DEF NothingVanishes
<1>2. ASSUME UNCHANGED pipe
      PROVE  GapInv'
  BY <1>1, <1>2 DEF OutboxInv, GapInv
<1>3. ASSUME NEW c \in Channel, Receive(c)
      PROVE  GapInv'
  <2>1. pipe[c] \in Seq(Message) /\ pipe[c] # <<>>
    BY <1>3 DEF OutboxInv, TypeOK, Receive
  <2>2. /\ pipe'[c] = Tail(pipe[c]) /\ seen' = seen \cup {pipe[c][1]}
        /\ \A d \in Channel : d # c => pipe'[d] = pipe[d]
    BY <1>3, <2>1 DEF Receive, OutboxInv, TypeOK
  <2>3. ASSUME NEW i \in 1 .. Len(pipe'[c]), pipe'[c][i] \in Emission,
               NEW e \in Emission, e < pipe'[c][i]
        PROVE  e \in seen' \/ \E j \in 1 .. i - 1 : pipe'[c][j] = e
    <3>1. i + 1 \in 1 .. Len(pipe[c]) /\ pipe'[c][i] = pipe[c][i + 1]
      BY <2>1, <2>2
    <3>2. e \in seen \/ \E j \in 1 .. i : pipe[c][j] = e
      BY <2>3, <3>1 DEF OutboxInv, GapInv
    <3>3. ASSUME NEW j \in 1 .. i, pipe[c][j] = e, j # 1
          PROVE  \E q \in 1 .. i - 1 : pipe'[c][q] = e
      <4>1. j - 1 \in 1 .. i - 1 /\ pipe'[c][j - 1] = e
        BY <2>1, <2>2, <3>1, <3>3
      <4> QED BY <4>1
    <3> QED BY <2>2, <3>2, <3>3
  <2> QED BY <1>1, <2>2, <2>3, GapOfChanged
<1>4. ASSUME NEW c \in Channel, Disconnect(c)
      PROVE  GapInv'
  <2>1. pipe'[c] = <<>> /\ \A d \in Channel : d # c => pipe'[d] = pipe[d]
    BY <1>4 DEF Disconnect, OutboxInv, TypeOK
  <2> QED BY <1>1, <2>1 DEF OutboxInv, GapInv
<1>5. ASSUME NEW c \in Channel, NEW m \in Message, PushTo(c, <<m>>),
             m \in Emission /\ c \in up =>
                 \A e \in Emission : e < m => e \in seen \/ e \in ToSet(pipe[c])
      PROVE  GapInv'
  <2> DEFINE s == <<m>>
  <2>1. s \in Seq(Message) /\ Len(s) = 1 /\ s[1] = m
    OBVIOUS
  <2>2. PushTo(c, s)
    BY <1>5
  <2> HIDE DEF s
  <2> QED BY <1>1, <1>5, <2>1, <2>2, GapPush
<1>6. ASSUME NEW c \in Channel, Catchup(c)
      PROVE  GapInv'
  <2> DEFINE s == BufferedAfter(latest)
  <2>1. PICK k \in Cut : Rest(s, k)
    BY BufferedAfterRest DEF OutboxInv
  <2>2. s \in Seq(Message) /\ PushTo(c, s)
    BY <1>6, <2>1, RestOrDelivered DEF Catchup, OutboxInv
  <2> HIDE DEF s
  <2>3. k \in 0 .. Len(buffer) /\ Len(buffer) \in Nat
    BY DEF Cut, OutboxInv, TypeOK
  <2>4. ASSUME NEW j \in 1 .. Len(s), s[j] \in Emission, NEW e \in Emission, e < s[j]
        PROVE  e \in seen \/ \E q \in 1 .. j - 1 : s[q] = e
    <3>1. j + k \in 1 .. Len(buffer) /\ buffer[j + k] = s[j]
      BY <2>1, <2>3 DEF Rest
    <3>2. s[j] \in ToSet(buffer)
      BY <3>1, InToSet DEF OutboxInv, TypeOK
    <3>3. s[j] <= emitted
      BY <2>4, <3>2 DEF OutboxInv, FreshInv
    <3>4. e \in 1 .. emitted /\ e # emitted
      BY <2>4, <3>3, ConstantsAssumption DEF Emission, OutboxInv, TypeOK
    <3>5. e \in seen \/ e \in ToSet(buffer)
      BY <2>4, <3>4 DEF OutboxInv, UnseenKept, StdoutInv
    <3>6. ASSUME e \in ToSet(buffer)
          PROVE  e \in seen \/ \E q \in 1 .. j - 1 : s[q] = e
      <4>1. PICK i \in 1 .. Len(buffer) : buffer[i] = e
        BY <3>6, ToSetIndex DEF OutboxInv, TypeOK
      <4>2. i < j + k
        <5>1. ASSUME j + k < i
              PROVE  FALSE
          <6>1. buffer[j + k] < buffer[i]
            BY <2>4, <3>1, <4>1, <5>1 DEF OutboxInv, SortedInv
          <6>2. e \in Int /\ s[j] \in Int
            BY <2>4, Kinds
          <6> QED BY <2>4, <3>1, <4>1, <6>1, <6>2
        <5>2. i # j + k
          <6>1. e \in Int /\ s[j] \in Int
            BY <2>4, Kinds
          <6> QED BY <2>4, <3>1, <4>1, <6>1
        <5> QED BY <2>3, <5>1, <5>2
      <4>3. CASE i <= k
        <5>1. Delivered(e)
          BY <2>3, <4>1, <4>3 DEF Cut
        <5> QED BY <5>1, Kinds DEF Delivered
      <4>4. CASE i > k
        <5>1. i - k \in 1 .. j - 1 /\ s[i - k] = e
          BY <2>1, <2>3, <4>1, <4>2, <4>4 DEF Rest
        <5> QED BY <5>1
      <4> QED BY <2>3, <4>3, <4>4
    <3> QED BY <3>5, <3>6
  <2> QED BY <1>1, <2>2, <2>4, GapPush
<1>7. ASSUME NEW c \in Channel, Reply(c)
      PROVE  GapInv'
  BY <1>5, <1>7, Kinds DEF Reply, Message
<1>8. ASSUME NEW c \in Channel, Ack(c)
      PROVE  GapInv'
  BY <1>2, <1>8 DEF Ack
<1>9. CASE Emit \/ AddToBuffer \/ Route
  BY <1>2, <1>9 DEF Emit, AddToBuffer, Route
<1>10. CASE Push
  <2>1. stdout.ch \in Channel /\ stdout.msg \in Message
    BY <1>10 DEF OutboxInv, TypeOK, Push, StdoutInv
  <2>2. CASE HasSender(stdout.ch)
    <3>1. owner = stdout.ch
      BY <1>10, <2>2 DEF Push, OutboxInv, StdoutInv
    <3>2. ASSUME stdout.msg \in Emission, stdout.ch \in up,
                 NEW e \in Emission, e < stdout.msg
          PROVE  e \in seen \/ e \in ToSet(pipe[stdout.ch])
      <4>1. stdout.msg = emitted /\ emitted \in Nat
        BY <3>2 DEF OutboxInv, StdoutInv, TypeOK
      <4>2. e \in 1 .. emitted /\ e # stdout.msg
        BY <3>2, <4>1, ConstantsAssumption DEF Emission
      <4>3. e \in ToSet(pipe[stdout.ch]) \/ Delivered(e)
        BY <2>1, <3>1, <3>2, <4>2 DEF OutboxInv, AttachInv
      <4> QED BY <4>3, Kinds DEF Delivered
    <3> QED BY <1>5, <1>10, <2>1, <2>2, <3>2 DEF Push
  <2>3. CASE ~HasSender(stdout.ch)
    BY <1>2, <1>10, <2>3 DEF Push
  <2> QED BY <2>2, <2>3
<1>11. ASSUME NEW p \in Prompt, Respond(p)
       PROVE  GapInv'
  <2>1. prompt[p] \in Channel /\ p \in Message
    BY <1>11 DEF OutboxInv, TypeOK, Respond, Message
  <2>2. CASE HasSender(prompt[p])
    BY <1>5, <1>11, <2>1, <2>2, Kinds DEF Respond
  <2>3. CASE ~HasSender(prompt[p])
    BY <1>2, <1>11, <2>3 DEF Respond
  <2> QED BY <2>2, <2>3
<1> QED BY <1>2, <1>3, <1>4, <1>6, <1>7, <1>8, <1>9, <1>10, <1>11, StepKinds DEF Quiet

-----------------------------------------------------------------------------
\* A client that loaded the session misses nothing

\* A message reaches the channel that loaded the session, from its catchup on.
LEMMA AttachStep ==
    ASSUME OutboxInv, [Next]_vars
    PROVE  AttachInv'
<1> USE DEF agentVars, pipeVars, clientVars, Goto
<1> DEFINE Attached(c) == (owner = c \/ pc[c] = "map") /\ c \in up
           Got(c, m) == m \in ToSet(pipe[c]) \/ Delivered(m)
           Due == ToSet(buffer) \cup (1 .. emitted)
<1> SUFFICES ASSUME NEW c \in Channel, Attached(c)', NEW m \in Due'
             PROVE  Got(c, m)' \/ (m = stdout'.msg /\ Pending(c)')
  BY DEF AttachInv, Delivered, Pending
\* What c got once it keeps, as long as its connection works.
<1>1. Got(c, m) => Got(c, m)'
  <2>1. Delivered(m) => Delivered(m)'
    BY DeliveredStays
  <2>2. m \in ToSet(pipe[c]) => m \in ToSet(pipe'[c]) \/ m \in seen'
    BY NothingVanishesStep DEF NothingVanishes
  <2> QED BY <2>1, <2>2 DEF Delivered
<1>2. ASSUME Attached(c), m \in Due
      PROVE  Got(c, m) \/ (m = stdout.msg /\ Pending(c))
  BY <1>2 DEF OutboxInv, AttachInv
\* A channel with a working connection has a sender.
<1>3. c \in up => HasSender(c)
  BY DEF OutboxInv, PhaseInv, HasSender
<1>4. ASSUME UNCHANGED <<stdout, owner, buffer, emitted>>, Attached(c)
      PROVE  Got(c, m)' \/ (m = stdout'.msg /\ Pending(c)')
  BY <1>1, <1>2, <1>4 DEF Pending
<1>5. ASSUME NEW d \in Channel, Connect(d)
      PROVE  Attached(c)
  BY <1>5, ConstantsAssumption DEF Connect, OutboxInv, TypeOK, PhaseInv
<1>6. ASSUME NEW d \in Channel, LoadCheck(d) \/ Leave(d) \/ Reply(d) \/ Receive(d) \/ Disconnect(d)
      PROVE  Attached(c) /\ UNCHANGED <<stdout, owner, buffer, emitted>>
  BY <1>6 DEF LoadCheck, Leave, Reply, Receive, Disconnect, OutboxInv, TypeOK
<1>7. ASSUME NEW d \in Channel, Catchup(d)
      PROVE  Got(c, m)' \/ (m = stdout'.msg /\ Pending(c)')
  <2>1. owner = None /\ c = d /\ c \in up
    BY <1>7, ConstantsAssumption DEF Catchup, OutboxInv, TypeOK, PhaseInv
  <2>2. UNCHANGED <<stdout, buffer, emitted, owner>>
    BY <1>7 DEF Catchup
  <2>3. ASSUME m \in ToSet(buffer)
        PROVE  Got(c, m)'
    <3>1. m \in ToSet(pipe'[c]) \/ Delivered(m)
      BY <1>7, <2>1, <2>3, CatchupDelivers
    <3> QED BY <3>1, DeliveredStays
  <2>4. ASSUME m \notin ToSet(buffer), m \notin seen
        PROVE  m = stdout.msg /\ stdout.stage = "buffer"
    <3>1. m \in 1 .. emitted /\ m \in Emission /\ m # None /\ m \notin Prompt
      <4>1. m \in Emission
        BY <2>2, <2>4, ConstantsAssumption DEF OutboxInv, TypeOK, Emission
      <4> QED BY <2>2, <2>4, <4>1, Kinds
    <3>2. m = stdout.msg
      BY <2>4, <3>1 DEF OutboxInv, UnseenKept
    <3>3. ~stdout.kept
      BY <2>4, <3>1, <3>2 DEF OutboxInv, KeptInv, Delivered
    <3> QED BY <3>1, <3>2, <3>3 DEF OutboxInv, TypeOK, StdoutInv
  <2> QED BY <2>2, <2>3, <2>4, <1>1 DEF Delivered, Pending
<1>8. ASSUME NEW d \in Channel, Map(d)
      PROVE  Got(c, m)' \/ (m = stdout'.msg /\ Pending(c)')
  <2>1. c = d /\ pc[c] = "map" /\ owner = None /\ UNCHANGED <<stdout, buffer, emitted, up>>
    BY <1>8 DEF Map, OutboxInv, TypeOK, PhaseInv
  <2>2. Pending(c) => stdout.stage = "buffer"
    BY <2>1, ConstantsAssumption DEF Pending
  <2> QED BY <1>1, <1>2, <2>1, <2>2 DEF Pending
<1>9. ASSUME NEW d \in Channel, Unmap(d)
      PROVE  Got(c, m)' \/ (m = stdout'.msg /\ Pending(c)')
  <2>1. UNCHANGED <<stdout, buffer, emitted>> /\ Attached(c) /\ (owner = c => owner' = c)
    BY <1>9, ConstantsAssumption DEF Unmap, OutboxInv, TypeOK, PhaseInv
  <2> QED BY <1>1, <1>2, <2>1 DEF Pending
<1>10. ASSUME NEW d \in Channel, Ack(d)
       PROVE  Got(c, m)' \/ (m = stdout'.msg /\ Pending(c)')
  <2>1. UNCHANGED <<stdout, emitted, owner, pc, up>>
    BY <1>10 DEF Ack
  <2>2. PruneBuffer(latest)
    BY <1>10 DEF Ack
  <2>3. ToSet(buffer') \subseteq ToSet(buffer)
    BY <2>2, PruneRest, RestOrDelivered DEF OutboxInv
  <2> QED BY <1>1, <1>2, <2>1, <2>3 DEF Pending
<1>11. ASSUME NEW d \in Channel, NEW p \in Prompt, SendPrompt(d, p)
       PROVE  Attached(c) /\ UNCHANGED <<stdout, owner, buffer, emitted>>
  BY <1>11 DEF SendPrompt
<1>12. CASE Emit
  <2>1. ~Pending(c) /\ Attached(c)
    BY <1>12 DEF Emit, Pending
  <2>2. emitted \in Nat /\ emitted' = emitted + 1 /\ stdout'.msg = emitted + 1
        /\ stdout'.stage = "buffer" /\ UNCHANGED buffer
    BY <1>12 DEF Emit, IdleStdout, OutboxInv, TypeOK
  <2>3. m \in Due \/ m = emitted + 1
    BY <2>2
  <2> QED BY <1>1, <1>2, <2>1, <2>2, <2>3 DEF Pending
<1>13. CASE AddToBuffer
  <2>1. ToSet(buffer') = ToSet(buffer) \cup {stdout.msg} /\ UNCHANGED <<emitted, owner, pc, up>>
    BY <1>13, AddEffect DEF AddToBuffer, OutboxInv
  <2>2. owner = c /\ Attached(c)
    BY <1>13, <2>1 DEF AddToBuffer, OutboxInv, PhaseInv
  <2>3. stdout'.stage = "route" /\ stdout'.msg = stdout.msg
    BY <1>13 DEF AddToBuffer, OutboxInv, TypeOK
  <2>4. m \in Due \/ m = stdout.msg
    BY <2>1
  <2> QED BY <1>1, <1>2, <2>1, <2>2, <2>3, <2>4 DEF Pending
<1>14. CASE Route
  <2>1. UNCHANGED <<emitted, buffer, owner, pc, up>> /\ Attached(c) /\ stdout.stage = "route"
    BY <1>14 DEF Route
  <2>2. Pending(c) => owner = c
    BY <2>1 DEF Pending
  <2>3. owner = c => stdout'.msg = stdout.msg /\ stdout'.stage = "push" /\ stdout'.ch = c
    BY <1>14, ConstantsAssumption DEF Route, OutboxInv, TypeOK
  <2> QED BY <1>1, <1>2, <2>1, <2>2, <2>3 DEF Pending
<1>15. CASE Push
  <2>1. UNCHANGED <<emitted, buffer, owner, pc, up>> /\ Attached(c) /\ stdout.stage = "push"
    BY <1>15 DEF Push
  <2>2. ASSUME Pending(c), m = stdout.msg
        PROVE  Got(c, m)'
    <3>1. owner = c /\ stdout.ch = c
      BY <2>1, <2>2 DEF Pending
    <3>2. PushTo(c, <<m>>) /\ m \in Message
      BY <1>3, <1>15, <2>1, <2>2, <3>1 DEF Push, OutboxInv, TypeOK
    <3>3. Pushed(c, {m})
      BY <3>2, PushOne DEF OutboxInv
    <3> QED BY <2>1, <3>3 DEF Pushed
  <2> QED BY <1>1, <1>2, <2>1, <2>2
<1>16. ASSUME NEW p \in Prompt, Respond(p)
       PROVE  Got(c, m)' \/ (m = stdout'.msg /\ Pending(c)')
  <2>1. UNCHANGED <<emitted, buffer, owner, pc, up>> /\ Attached(c) /\ ~Pending(c)
    BY <1>16 DEF Respond, Pending
  <2> QED BY <1>1, <1>2, <2>1
<1>17. CASE UNCHANGED vars
  BY <1>4, <1>17 DEF vars
<1>18. ASSUME NEW d \in Channel, Connect(d)
       PROVE  UNCHANGED <<stdout, owner, buffer, emitted>>
  BY <1>18 DEF Connect
<1> QED BY <1>4, <1>5, <1>6, <1>7, <1>8, <1>9, <1>10, <1>11, <1>12, <1>13, <1>14, <1>15,
           <1>16, <1>17, <1>18 DEF Next

-----------------------------------------------------------------------------
\* The theorems

\* Every step keeps the outbox invariant.
LEMMA InvStep == OutboxInv /\ [Next]_vars => OutboxInv'
BY TypeStep, PhaseStep, StdoutStep, FreshStep, SortedStep, SeenStep, GapStep, KeptStep,
   UnseenStep, AnswerStep, OrderStep, AttachStep DEF OutboxInv

\* The outbox invariant holds in every reachable state.
LEMMA Invariant == Spec => []OutboxInv
BY InitInv, InvStep, PTL DEF Spec

\* Every reachable state is well-typed, for any connections, prompts and messages.
THEOREM TypeCorrect == Spec => []TypeOK
<1>1. OutboxInv => TypeOK
  BY DEF OutboxInv
<1> QED BY <1>1, Invariant, PTL

\* What the client has not seen is still buffered or being routed: prune_buffer never
\* drops a message that a reconnection would need.
THEOREM NothingUnseenPruned == Spec => []UnseenKept
<1>1. OutboxInv => UnseenKept
  BY DEF OutboxInv
<1> QED BY <1>1, Invariant, PTL

\* The answer to a prompt is never dropped while its session lives.
THEOREM AnswersSurvive == Spec => []AnswerKept
<1>1. OutboxInv => AnswerKept
  BY DEF OutboxInv
<1> QED BY <1>1, Invariant, PTL

\* A client that has loaded the session is sent everything it has not seen: the read
\* lock kept until the session is mapped makes the catchup atomic.
THEOREM LoadCatchesUp == Spec => []CaughtUp
<1>1. OutboxInv => CaughtUp
  <2> SUFFICES ASSUME OutboxInv, NEW c \in Channel, owner = c, c \in up, NEW e \in 1 .. emitted
               PROVE  e \in seen \/ e \in ToSet(pipe[c]) \/ e = stdout.msg
    BY DEF CaughtUp
  <2>1. e \in ToSet(pipe[c]) \/ Delivered(e) \/ e = stdout.msg
    BY DEF OutboxInv, AttachInv
  <2>2. e \in Emission
    BY ConstantsAssumption DEF OutboxInv, TypeOK, Emission
  <2> QED BY <2>1, <2>2, Kinds DEF Delivered
<1> QED BY <1>1, Invariant, PTL

-----------------------------------------------------------------------------
\* The refinement

\* How much of the stream the client has seen.
Progress == Max({0} \cup (seen \cap Emission))

\* The largest number of a prefix.
LEMMA MaxOfPrefix == \A n \in Nat : Max({0} \cup (1 .. n)) = n
<1> SUFFICES ASSUME NEW n \in Nat
             PROVE  Max({0} \cup (1 .. n)) = n
  OBVIOUS
<1>1. n \in {0} \cup (1 .. n) /\ \A y \in {0} \cup (1 .. n) : n >= y
  OBVIOUS
<1>2. \A x \in {0} \cup (1 .. n) : (\A y \in {0} \cup (1 .. n) : x >= y) => x = n
  OBVIOUS
<1> QED BY <1>1, <1>2 DEF Max

\* A prefix is determined by its largest number.
LEMMA PrefixEndsAtMax ==
    ASSUME NEW S, NEW b \in Nat, \E n \in 0 .. b : S = 1 .. n
    PROVE  Max({0} \cup S) \in 0 .. b /\ S = 1 .. Max({0} \cup S)
<1>1. PICK n \in 0 .. b : S = 1 .. n
  OBVIOUS
<1>2. n \in Nat /\ Max({0} \cup S) = n
  BY <1>1, MaxOfPrefix
<1> QED BY <1>1, <1>2

\* Every step is one of the stream: a message sent, one seen, or neither.
LEMMA StreamStep ==
    ASSUME OutboxInv, OutboxInv', [Next]_vars
    PROVE  [ClientStream!Emit \/ ClientStream!Receive]_(ClientStream!vars)
<1> USE DEF agentVars, pipeVars, clientVars
<1>1. ASSUME UNCHANGED <<emitted, seen>>
      PROVE  UNCHANGED ClientStream!vars
  BY <1>1 DEF ClientStream!vars
<1>2. CASE Emit
  <2>1. emitted' = emitted + 1 /\ UNCHANGED seen
    BY <1>2 DEF Emit
  <2> QED BY <2>1 DEF ClientStream!Emit
<1>3. ASSUME NEW c \in Channel, Receive(c)
      PROVE  [ClientStream!Receive]_(ClientStream!vars)
  <2>1. PICK m : seen' = seen \cup {m} /\ UNCHANGED emitted
    BY <1>3 DEF Receive
  <2>2. /\ emitted \in Nat
        /\ Progress \in 0 .. emitted /\ seen \cap Emission = 1 .. Progress
    <3>1. emitted \in Nat
      BY ConstantsAssumption DEF OutboxInv, TypeOK
    <3>2. \E n \in 0 .. emitted : seen \cap Emission = 1 .. n
      BY DEF OutboxInv, SeenInv
    <3> QED BY <3>1, <3>2, PrefixEndsAtMax DEF Progress
  <2>3. Progress' \in 0 .. emitted /\ seen' \cap Emission = 1 .. Progress'
    BY <2>1, <2>2, PrefixEndsAtMax DEF OutboxInv, SeenInv, Progress
  \* One more message moves the end of the prefix by one at most.
  <2>4. Progress' = Progress \/ Progress' = Progress + 1
    <3>1. 1 .. Progress \subseteq 1 .. Progress' /\ 1 .. Progress' \subseteq (1 .. Progress) \cup {m}
      BY <2>1, <2>2, <2>3
    <3>2. CASE Progress' < Progress
      <4>1. Progress \in 1 .. Progress /\ Progress \notin 1 .. Progress'
        BY <2>2, <2>3, <3>2
      <4> QED BY <3>1, <4>1
    <3>3. CASE Progress' > Progress + 1
      <4>1. /\ Progress + 1 \in 1 .. Progress' /\ Progress + 2 \in 1 .. Progress'
            /\ Progress + 1 \notin 1 .. Progress /\ Progress + 2 \notin 1 .. Progress
        BY <2>2, <2>3, <3>3
      <4>2. Progress + 1 = m /\ Progress + 2 = m
        BY <3>1, <4>1
      <4> QED BY <2>2, <4>2
    <3> QED BY <2>2, <2>3, <3>2, <3>3
  <2>5. CASE Progress' = Progress
    BY <2>1, <2>5 DEF ClientStream!vars, Progress
  <2>6. CASE Progress' = Progress + 1
    <3>1. Progress < emitted
      BY <2>2, <2>3, <2>6
    <3> QED BY <2>1, <2>6, <3>1 DEF ClientStream!Receive, Progress
  <2> QED BY <2>4, <2>5, <2>6
<1>4. ASSUME NEW c \in Channel, Disconnect(c) \/ Catchup(c) \/ Reply(c) \/ Ack(c)
      PROVE  UNCHANGED <<emitted, seen>>
  BY <1>4 DEF Disconnect, Catchup, Reply, Ack
<1>5. ASSUME AddToBuffer \/ Route \/ Push \/ \E p \in Prompt : Respond(p)
      PROVE  UNCHANGED <<emitted, seen>>
  BY <1>5 DEF AddToBuffer, Route, Push, Respond
<1> QED BY <1>1, <1>2, <1>3, <1>4, <1>5, StepKinds DEF Quiet

\* The client sees the agent's messages from the first one on and without gaps, however
\* often it reconnects: AcpOutbox implements Stream.
THEOREM ImplementsStream == Spec => StreamSpec
<1>1. Init => ClientStream!Init
  <2>1. Init => seen = {} /\ emitted = 0
    BY DEF Init
  <2>2. Max({0} \cup ({} \cap Emission)) = 0
    <3>1. {0} \cup ({} \cap Emission) = {0} \cup (1 .. 0)
      OBVIOUS
    <3> QED BY <3>1, MaxOfPrefix
  <2> QED BY <2>1, <2>2 DEF ClientStream!Init
<1>2. OutboxInv /\ OutboxInv' /\ [Next]_vars
         => [ClientStream!Emit \/ ClientStream!Receive]_(ClientStream!vars)
  BY StreamStep
<1> QED BY <1>1, <1>2, Invariant, PTL DEF Spec, StreamSpec, ClientStream!Spec
=============================================================================
