------------------------------ MODULE Session ------------------------------
(***************************************************************************)
(* One agent's stream: the coordinator's command tasks (send_command), the *)
(* server task that serves the stream, the agent's session loop and its    *)
(* command loop (serve), and the bounded channels between them.            *)
(*                                                                         *)
(*   senders -lane-> server task -down-> session loop -agentLane-> serve   *)
(*   coordinator <-- server task <-up--- session loop <-eventLane- serve   *)
(*                                                                         *)
(* The server task and the session loop each do one thing at a time: while *)
(* one awaits room to send, it reads nothing.                              *)
(***************************************************************************)
EXTENDS Naturals, Sequences, FiniteSets, Functions

CONSTANTS
  Cmds,    \* CreateRunner commands, each sent once
  Earlier, \* the command of an earlier stream that the agent is about to ack, if any
  Old,     \* runners the agent has, each with an event to come
  Cap      \* slots of every channel (32)

ASSUME SessionAssumption ==
  IsFiniteSet(Cmds) /\ IsFiniteSet(Earlier) /\ Cmds \cap Earlier = {} /\ Cap \in Nat \ {0}

VARIABLES
  link,      \* the stream: "up", or "down"
  lane,      \* the registry's command channel; order left out
  sender,    \* [Cmds -> STRING]: send_command of each command
  task,      \* the server task: "off", "select", "push", "lock"
  taskMsg,   \* the message it has in hand
  down, up,  \* the stream's two directions
  loop,      \* the session loop: "off", "select", "command", "out"
  loopMsg,   \* the message it has in hand
  agentLane, \* the agent's command channel; order left out
  eventLane, \* the agent's event channel
  serving    \* the acks and events that await room in the event channel

sessionVars == <<link, lane, sender, task, taskMsg, down, up, loop, loopMsg,
                 agentLane, eventLane, serving>>

Ack(k) == <<"ack", k>>
EventOf(k) == <<"event", k>>
Note == {Ack(k) : k \in Cmds \cup Earlier} \cup {EventOf(r) : r \in Old}
Up == Note \cup {<<"status">>}
Down == {<<"create", k>> : k \in Cmds} \cup {<<"ping">>}

SessionTypeOK ==
  /\ link \in {"up", "down"}
  /\ lane \in SUBSET Cmds
  /\ sender \in [Cmds -> {"new", "push", "over"}]
  /\ task \in {"off", "select", "push", "lock"} /\ taskMsg \in Up \cup Down
  /\ down \in Seq(Down) /\ up \in Seq(Up) /\ Len(down) <= Cap /\ Len(up) <= Cap
  /\ loop \in {"off", "select", "command", "out"} /\ loopMsg \in Up \cup Down
  /\ agentLane \in SUBSET Cmds
  /\ eventLane \in Seq(Note) /\ Len(eventLane) <= Cap
  /\ serving \in SUBSET Note

SessionInit ==
  /\ link = "down"
  /\ lane = {} /\ sender = [k \in Cmds |-> "new"]
  /\ task = "off" /\ taskMsg = <<"ping">> /\ down = <<>> /\ up = <<>>
  /\ loop = "off" /\ loopMsg = <<"ping">>
  /\ agentLane = {} /\ eventLane = <<>>
  /\ serving = {EventOf(r) : r \in Old} \cup {Ack(k) : k \in Earlier}

HasRoom(s) == Len(s) < Cap

-----------------------------------------------------------------------------
(* send_command *)

\* It holds the agent's read lock while it awaits room in the command channel.
Pushing == {k \in Cmds : sender[k] = "push"}

SenderStart(k) ==
  /\ sender[k] = "new" /\ task \notin {"off", "lock"}
  /\ sender' = [sender EXCEPT ![k] = "push"]
  /\ UNCHANGED <<link, lane, task, taskMsg, down, up, loop, loopMsg,
                 agentLane, eventLane, serving>>

\* Mutant of AfterSend: the lock is held until the answer.
LockKept == "push"

\* The lock is released once the command is in the channel.
AfterSend == "over"

SenderPush(k) ==
  /\ sender[k] = "push" /\ Cardinality(lane) < Cap
  /\ lane' = lane \cup {k}
  /\ sender' = [sender EXCEPT ![k] = AfterSend]
  /\ UNCHANGED <<link, task, taskMsg, down, up, loop, loopMsg, agentLane,
                 eventLane, serving>>

-----------------------------------------------------------------------------
(* The server task of the stream *)

\* update_status and touch take the agent's write lock, handle_response a read lock.
NeedsWrite(m) == m = <<"status">>

TaskReads ==
  /\ task = "select" /\ up # <<>>
  /\ up' = Tail(up)
  /\ task' = IF NeedsWrite(Head(up)) THEN "lock" ELSE "select"
  /\ UNCHANGED <<link, lane, sender, taskMsg, down, loop, loopMsg, agentLane,
                 eventLane, serving>>

TaskWrites ==
  /\ task = "lock" /\ Pushing = {}
  /\ task' = "select"
  /\ UNCHANGED <<link, lane, sender, taskMsg, down, up, loop, loopMsg, agentLane,
                 eventLane, serving>>

TaskCommand ==
  /\ task = "select"
  /\ \E k \in lane : lane' = lane \ {k} /\ taskMsg' = <<"create", k>>
  /\ task' = "push"
  /\ UNCHANGED <<link, sender, down, up, loop, loopMsg, agentLane,
                 eventLane, serving>>

TaskPing ==
  /\ task = "select"
  /\ task' = "push" /\ taskMsg' = <<"ping">>
  /\ UNCHANGED <<link, lane, sender, down, up, loop, loopMsg, agentLane,
                 eventLane, serving>>

TaskPush ==
  /\ task = "push" /\ link = "up" /\ HasRoom(down)
  /\ down' = Append(down, taskMsg)
  /\ task' = "select" /\ taskMsg' = <<"ping">>
  /\ UNCHANGED <<link, lane, sender, up, loop, loopMsg, agentLane, eventLane,
                 serving>>

TaskNotices == task = "push" \/ (task = "select" /\ up = <<>>)

\* The stream is lost: a send fails at once, reading ends after what had arrived. The commands that
\* are still to be sent fail with it.
TaskLoses ==
  /\ link = "down" /\ TaskNotices
  /\ task' = "off" /\ taskMsg' = <<"ping">> /\ lane' = {} /\ up' = <<>>
  /\ sender' = [k \in Cmds |-> IF k \in Pushing THEN "over" ELSE sender[k]]
  /\ UNCHANGED <<link, down, loop, loopMsg, agentLane, eventLane, serving>>

-----------------------------------------------------------------------------
(* The agent's session loop *)

\* The first message is a status.
Connect ==
  /\ loop = "off" /\ task = "off"
  /\ link' = "up"
  /\ down' = <<>> /\ up' = <<<<"status">>>>
  /\ loop' = "select" /\ task' = "select"
  /\ UNCHANGED <<lane, sender, taskMsg, loopMsg, agentLane, eventLane, serving>>

\* What is under way is lost, from some message on.
Break ==
  /\ link = "up" /\ link' = "down"
  /\ \E i \in 0 .. Len(up) : up' = SubSeq(up, 1, i)
  /\ \E i \in 0 .. Len(down) : down' = SubSeq(down, 1, i)
  /\ UNCHANGED <<lane, sender, task, taskMsg, loop, loopMsg, agentLane,
                 eventLane, serving>>

\* handle_inbound: a ping is answered with a pong and the status, a command goes to serve.
LoopReads ==
  /\ loop = "select" /\ down # <<>>
  /\ down' = Tail(down)
  /\ IF Head(down)[1] = "ping"
       THEN loop' = "out" /\ loopMsg' = <<"status">>
       ELSE loop' = "command" /\ loopMsg' = Head(down)
  /\ UNCHANGED <<link, lane, sender, task, taskMsg, up, agentLane, eventLane,
                 serving>>

LoopEvent ==
  /\ loop = "select" /\ eventLane # <<>>
  /\ eventLane' = Tail(eventLane)
  /\ loop' = "out" /\ loopMsg' = Head(eventLane)
  /\ UNCHANGED <<link, lane, sender, task, taskMsg, down, up, agentLane,
                 serving>>

LoopOut ==
  /\ loop = "out" /\ link = "up" /\ HasRoom(up)
  /\ up' = Append(up, loopMsg)
  /\ loop' = "select" /\ loopMsg' = <<"ping">>
  /\ UNCHANGED <<link, lane, sender, task, taskMsg, down, agentLane,
                 eventLane, serving>>

LoopCommand ==
  /\ loop = "command" /\ Cardinality(agentLane) < Cap
  /\ agentLane' = agentLane \cup {loopMsg[2]}
  /\ loop' = "select" /\ loopMsg' = <<"ping">>
  /\ UNCHANGED <<link, lane, sender, task, taskMsg, down, up, eventLane,
                 serving>>

\* What the loop has in hand when the stream ends is gone.
KeepsEvents == UNCHANGED eventLane

\* Mutant of LoopNotices: only reading tells that the stream is lost.
LoopReadsOnly == loop = "select" /\ down = <<>>

LoopNotices == loop = "out" \/ (loop = "select" /\ down = <<>>)

LoopLoses ==
  /\ link = "down" /\ LoopNotices
  /\ loop' = "off" /\ loopMsg' = <<"ping">> /\ down' = <<>>
  /\ KeepsEvents
  /\ UNCHANGED <<link, lane, sender, task, taskMsg, up, agentLane, serving>>

-----------------------------------------------------------------------------
(* The agent's command loop, and the lifecycles it starts *)

\* serve acks a command before it receives the next.
Serve ==
  /\ \A k \in Cmds \cup Earlier : Ack(k) \notin serving
  /\ \E k \in agentLane : agentLane' = agentLane \ {k} /\ serving' = serving \cup {Ack(k)}
  /\ UNCHANGED <<link, lane, sender, task, taskMsg, down, up, loop, loopMsg,
                 eventLane>>

\* An ack or event gets a slot of the event channel.
PutNote(n) ==
  /\ n \in serving /\ HasRoom(eventLane)
  /\ eventLane' = Append(eventLane, n)
  /\ serving' = serving \ {n}
  /\ UNCHANGED <<link, lane, sender, task, taskMsg, down, up, loop, loopMsg,
                 agentLane>>

-----------------------------------------------------------------------------
(* The specification *)

SessionNext ==
  \/ \E k \in Cmds : SenderStart(k) \/ SenderPush(k)
  \/ TaskReads \/ TaskWrites \/ TaskCommand \/ TaskPing \/ TaskPush
  \/ TaskLoses
  \/ Connect \/ Break
  \/ LoopReads \/ LoopEvent \/ LoopOut \/ LoopCommand \/ LoopLoses
  \/ Serve \/ \E n \in Note : PutNote(n)

SessionSpec == SessionInit /\ [][SessionNext]_sessionVars

-----------------------------------------------------------------------------
(* What should hold *)

\* send_command awaits room with the read lock held, and only the task that awaits the write lock
\* makes room.
LockCycle == Pushing # {} /\ Cardinality(lane) = Cap /\ task = "lock"

\* Each end awaits room in the other's direction and reads nothing.
LinkCycle == task = "push" /\ loop = "out" /\ Len(down) = Cap /\ Len(up) = Cap

\* The session loop awaits room for a command, serve awaits room for an ack.
AgentCycle ==
  /\ loop = "command" /\ Cardinality(agentLane) = Cap
  /\ \E k \in Cmds \cup Earlier : Ack(k) \in serving
  /\ Len(eventLane) = Cap

\* The commands that are sent and not yet answered.
InHand(msg) == {k \in Cmds : msg = <<"create", k>>}
Outstanding ==
  Pushing \cup lane \cup InHand(taskMsg) \cup {k \in Cmds : <<"create", k>> \in Range(down)}
    \cup InHand(loopMsg) \cup agentLane \cup {k \in Cmds \cup Earlier : Ack(k) \in serving}

\* A command task and the agent's command loop wait on each other only when more commands are under
\* way at once than a channel has room for.
RoomForAll == Cardinality(Outstanding) <= Cap => ~LockCycle /\ ~AgentCycle

\* These three are the only ways for a command not to be sent, although sending it has no timeout.
SendEnds ==
  \A k \in Cmds :
    sender[k] = "push" ~> sender[k] = "over" \/ LockCycle \/ LinkCycle \/ AgentCycle

\* A command that reached the agent is served, whatever becomes of the stream, but for a cycle.
CommandServed ==
  \A k \in Cmds :
    k \in agentLane \cup InHand(loopMsg) ~>
      Ack(k) \in serving \/ AgentCycle \/ LinkCycle

\* Acks and events on their way: in the stream, in the session loop's hand, in the event channel.
OnTheWay == Note \cap (Range(up) \cup {loopMsg} \cup Range(eventLane))

Amid(m, n, s) == \E i, j \in DOMAIN s : i < j /\ s[i] = m /\ s[j] = n
Ahead(m, n) ==
  \/ Amid(m, n, up) \/ Amid(m, n, eventLane)
  \/ m \in Range(up) /\ n \in {loopMsg} \cup Range(eventLane)
  \/ m = loopMsg /\ n \in Range(eventLane)

\* "Sends are lossless and ordered; they buffer briefly across a reconnect" (EventSender): acks and
\* events never overtake each other, also across streams, and are lost only when a stream is.
NotesInOrder ==
  /\ \A m, n \in Note :
       /\ Ahead(m, n) => ~Ahead(n, m)'
       /\ n \in OnTheWay' \ OnTheWay => ~Ahead(n, m)'
  /\ \A n \in OnTheWay \ OnTheWay' : link' = "down" \/ n = up[1]

\* All three: but for a cycle what is sent gets there, in order, across reconnects.
SessionDelivers == [][NotesInOrder]_sessionVars /\ SendEnds /\ CommandServed

=============================================================================
