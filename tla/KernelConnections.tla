--------------------------- MODULE KernelConnections ---------------------------
(***************************************************************************)
(* The websockets of one kernel: services/kernels/websocket.py, the        *)
(* connection life cycle of services/kernels/connection/channels.py and    *)
(* the connection count, message buffer and culling rule of                *)
(* services/kernels/kernelmanager.py.                                      *)
(*                                                                         *)
(* A websocket request is prepared (its session registered, the kernel     *)
(* awaited), then opened (counted, its ZMQ streams created or taken from   *)
(* the buffer, the kernel nudged), then it subscribes to the streams.  A   *)
(* client may leave at any of these points.  Each action runs on the event *)
(* loop without interruption.  Only the iopub stream is kept: the others   *)
(* are created, buffered, taken over and closed with it.  The rate limit   *)
(* is in module RateLimit.  buffer_offline_messages is at its default,     *)
(* True, and cull_connected at its default, False.                         *)
(***************************************************************************)
EXTENDS Integers, Sequences, FiniteSets

CONSTANTS
  Conns,       \* websocket requests, each with its handler and connection
  Keys,        \* session keys: the session_id the client chose
  MaxMessages, \* bound: messages the kernel publishes
  MaxRestarts, \* bound: times the restarter starts the kernel again
  None         \* no connection

ASSUME BoundsAssumption == MaxMessages \in Nat /\ MaxRestarts \in Nat
ASSUME ConnsAssumption == IsFiniteSet(Conns) /\ None \notin Conns /\ None \notin 0 .. MaxMessages

VARIABLES
  kernel,   \* "up", "stopping" (shutdown awaited) or "gone" from the manager
  restarts, \* times the restarter has started the kernel again
  ports,    \* which ports the kernel publishes on
  captured, \* _kernel_ports: the ports last captured
  count,    \* _kernel_connections
  surplus,  \* history: disconnects of connections that were not counted
  registry, \* _open_sessions
  phase,    \* new, preparing, open (in _open_sockets), closed, failed
  key,      \* session_key
  told,     \* was close() called on the handler, and did it reach a websocket
  stream,   \* self.channels: the stream, named after the connection that made it
  task,     \* the future connect() awaits: none, nudge, done
  restored, \* buffer_info in connect's closure, named after who left it
  sock,     \* the ZMQ streams
  buffer,   \* _kernel_buffers: the buffer in it, named after who left it
  buf,      \* the message lists of the buffers
  clock,    \* number of the last message of the kernel
  since,    \* history: clock when a session key was first connected
  got       \* what each connection wrote to its websocket

kernelVars == <<kernel, restarts, ports, captured>>
socketVars == <<phase, key, told, registry>>
bufferVars == <<buffer, buf>>
vars == <<kernel, restarts, ports, captured, count, surplus, registry, phase, key,
          told, stream, task, restored, sock, buffer, buf, clock, since, got>>

-----------------------------------------------------------------------------
(* Streams.  A stream queues what the kernel publishes until a callback    *)
(* takes it: that of the buffer of c, of the nudge of c, or                *)
(* handle_outgoing_message of c.                                           *)
Stream(st, to, c, queue, p) ==
  [st |-> st, to |-> to, of |-> c, queue |-> queue, ports |-> p]

NoStream == Stream("none", "off", None, <<>>, 0)
Created  == Stream("open", "off", None, <<>>, ports)
Gone    == Stream("closed", "off", None, <<>>, 0)

IsOpen(s) == s \in Conns /\ sock[s].st = "open"
With(s, to, c) == Stream("open", to, c, sock[s].queue, sock[s].ports)

(* Output of the kernel is numbered.  A status the connection writes by    *)
(* itself has the number of the output before it; it may "overtake" what a *)
(* restored connection has not replayed.                                   *)
Message(n, kind) == [n |-> n, kind |-> kind]
Kinds == {"output", "status", "overtaking"}

-----------------------------------------------------------------------------
Live(c) == phase[c] = "open"

(* write_message reaches the client: open, and close() was not called.     *)
Writable(c) == Live(c) /\ told[c] # "closed"

(* connect() went on to register the restart callbacks.                    *)
Listening(c) == Live(c) /\ stream[c] # None /\ task[c] # "none"

(* _open_sessions without c, only if it's really c.                        *)
(* Mutant: the entry of the session goes whoever it is.                    *)
Unregistered_Anyone(c) == [registry EXCEPT ![key[c]] = None]

Unregistered(c) ==
  [k \in Keys |-> IF k = key[c] /\ registry[k] = c THEN None ELSE registry[k]]

(* stop_buffering closes the stream of the buffer.                         *)
(* Mutant: it forgets the stream.                                          *)
StopBuffering_LeavesOpen == /\ buffer' = None
                            /\ UNCHANGED sock

StopBuffering ==
  /\ buffer' = None
  /\ IF buffer # None /\ IsOpen(stream[buffer])
       THEN sock' = [sock EXCEPT ![stream[buffer]] = Gone]
       ELSE UNCHANGED sock

(* A buffer with streams that have been closed: stop_buffering takes it    *)
(* out, and then raises (pyzmq's stream has no socket any more).           *)
Unclosable == buffer # None /\ stream[buffer] # None /\ ~IsOpen(stream[buffer])

(* start_buffering: clear the previous buffer, then forward the stream of  *)
(* c to a new list.  c has no stream if it leaves before connect(); one    *)
(* that is closed raises when the list is already there.                   *)
StartBuffering(c) ==
  /\ buffer' = c
  /\ buf' = [buf EXCEPT ![c] = <<>>]
  /\ sock' = [s \in Conns |->
       IF s = stream[c] /\ IsOpen(s) THEN With(s, "buffer", c)
       ELSE IF buffer # None /\ s = stream[buffer] /\ IsOpen(s) THEN Gone
       ELSE sock[s]]
  /\ UNCHANGED stream

(* disconnect(): the last connection starts buffering, another one closes  *)
(* its streams.  A kernel that is gone has no count.                       *)
LastOne == kernel # "gone" /\ count = 1

CloseStreams(c) ==
  /\ sock' = IF IsOpen(stream[c]) THEN [sock EXCEPT ![stream[c]] = Gone]
             ELSE sock
  /\ stream' = [stream EXCEPT ![c] = None]
  /\ UNCHANGED bufferVars

Disconnect(c) ==
  /\ registry' = Unregistered(c)
  /\ count' = IF kernel # "gone" THEN count - 1 ELSE count
  /\ IF LastOne THEN StartBuffering(c) ELSE CloseStreams(c)

-----------------------------------------------------------------------------
(* pre_get and _register_session.  get_kernel raises for a kernel that is  *)
(* gone.  close() on the stale handler does nothing while its websocket is *)
(* not open yet.                                                           *)
Stale(k) == registry[k]

CloseStale(k) ==
  told' = IF Stale(k) = None THEN told
          ELSE [told EXCEPT ![Stale(k)] =
                  IF Live(Stale(k)) THEN "closed" ELSE "missed"]

Register(c, k) ==
  /\ phase[c] = "new" /\ kernel # "gone"
  /\ phase' = [phase EXCEPT ![c] = "preparing"]
  /\ key' = [key EXCEPT ![c] = k]
  /\ CloseStale(k)
  /\ registry' = [registry EXCEPT ![k] = c]
  /\ UNCHANGED <<kernelVars, count, surplus, stream, task, restored, sock,
                 bufferVars, clock, since, got>>

(* The kernel is never ready or alive: 500, and no websocket.              *)
PrepareFails(c) ==
  /\ phase[c] = "preparing"
  /\ phase' = [phase EXCEPT ![c] = "failed"]
  /\ UNCHANGED <<kernelVars, count, surplus, key, told, registry, stream, task,
                 restored, sock, bufferVars, clock, since, got>>

(* The client goes away while prepare() waits: on_close disconnects what   *)
(* connect() never connected.                                              *)
LeaveEarly(c) ==
  /\ phase[c] = "preparing"
  /\ phase' = [phase EXCEPT ![c] = "closed"]
  /\ Disconnect(c)
  /\ surplus' = IF kernel # "gone" THEN surplus + 1 ELSE surplus
  /\ told' = [told EXCEPT ![c] = "no"]
  /\ UNCHANGED <<kernelVars, key, task, restored, clock, since, got>>

-----------------------------------------------------------------------------
(* connect().                                                              *)
Counted(c) ==
  /\ phase[c] = "preparing" /\ kernel # "gone"
  /\ phase' = [phase EXCEPT ![c] = "open"]
  /\ count' = count + 1
  /\ since' = [since EXCEPT ![key[c]] = IF @ = None THEN clock ELSE @]
  /\ UNCHANGED <<kernel, restarts, ports, surplus, key, registry, clock, got>>

(* nudge() takes over the stream unless the kernel is busy.                *)
Nudged(c, s, strm) ==
  \/ sock' = [sock EXCEPT ![s] = Stream("open", "nudge", c, strm.queue, strm.ports)]
  \/ sock' = [sock EXCEPT ![s] = strm]

(* Mutant: any session may take the buffer.                                *)
Matching_AnySession(c) == buffer # None

(* get_buffer found a buffer of this session.                              *)
Matching(c) == buffer # None /\ key[buffer] = key[c]

(* Mutant: the buffer is taken but the client is not counted.              *)
ConnectRestored_NotCounted(c) ==
  /\ phase[c] = "preparing" /\ kernel # "gone"
  /\ Matching(c) /\ ports = captured /\ IsOpen(stream[buffer])
  /\ phase' = [phase EXCEPT ![c] = "open"]
  /\ stream' = [stream EXCEPT ![c] = stream[buffer]]
  /\ restored' = [restored EXCEPT ![c] = buffer]
  /\ task' = [task EXCEPT ![c] = "nudge"]
  /\ Nudged(c, stream[buffer], sock[stream[buffer]])
  /\ buffer' = None
  /\ UNCHANGED <<kernelVars, count, surplus, key, registry, told, buf, clock,
                 since, got>>

(* ... and the ports are those captured: take its streams.                 *)
ConnectRestored(c) ==
  /\ Counted(c)
  /\ Matching(c) /\ ports = captured /\ IsOpen(stream[buffer])
  /\ stream' = [stream EXCEPT ![c] = stream[buffer]]
  /\ restored' = [restored EXCEPT ![c] = buffer]
  /\ task' = [task EXCEPT ![c] = "nudge"]
  /\ Nudged(c, stream[buffer], sock[stream[buffer]])
  /\ buffer' = None
  /\ UNCHANGED <<captured, told, buf>>

(* ... but it has no streams, or closed ones: nudge() raises and the       *)
(* websocket is aborted, unless the kernel is busy (then it stays open and *)
(* has no stream, which is left out).  So is one that cannot clear         *)
(* another's buffer.                                                       *)
ConnectBroken(c) ==
  /\ Counted(c)
  /\ \/ /\ Matching(c) /\ ports = captured /\ ~IsOpen(stream[buffer])
        /\ stream' = [stream EXCEPT ![c] = stream[buffer]]
     \/ ~Matching(c) /\ Unclosable /\ UNCHANGED stream
  /\ buffer' = None
  /\ told' = [told EXCEPT ![c] = "closed"]
  /\ UNCHANGED <<captured, restored, task, sock, buf>>

(* ... and the kernel has moved: capture the ports, create streams.        *)
ConnectMoved(c) ==
  /\ Counted(c)
  /\ Matching(c) /\ ports # captured
  /\ captured' = ports
  /\ stream' = [stream EXCEPT ![c] = c]
  /\ restored' = [restored EXCEPT ![c] = buffer]
  /\ task' = [task EXCEPT ![c] = "nudge"]
  /\ Nudged(c, c, Created)
  /\ buffer' = None
  /\ UNCHANGED <<told, buf>>

(* No buffer of this session: discard another one's, create streams.       *)
ConnectFresh(c) ==
  /\ Counted(c)
  /\ ~Matching(c) /\ ~Unclosable
  /\ stream' = [stream EXCEPT ![c] = c]
  /\ task' = [task EXCEPT ![c] = "nudge"]
  /\ buffer' = None
  /\ \E to \in {"nudge", "off"} :
       sock' = [s \in Conns |->
         IF s = c THEN Stream("open", to, IF to = "nudge" THEN c ELSE None, <<>>, ports)
         ELSE IF buffer # None /\ s = stream[buffer] /\ IsOpen(s) THEN Gone
         ELSE sock[s]]
  /\ UNCHANGED <<captured, told, restored, buf>>

(* The kernel was removed while prepare() waited: stop_buffering,          *)
(* ports_changed or add_restart_callback raises and the websocket is       *)
(* aborted.  A buffer of this session is taken out before that, and its    *)
(* streams are forgotten.                                                  *)
ConnectGone(c) ==
  /\ phase[c] = "preparing" /\ kernel = "gone"
  /\ phase' = [phase EXCEPT ![c] = "open"]
  /\ told' = [told EXCEPT ![c] = "closed"]
  /\ buffer' = IF Matching(c) THEN None ELSE buffer
  /\ IF buffer = None
       THEN /\ stream' = [stream EXCEPT ![c] = c]
            /\ sock' = [sock EXCEPT ![c] = Created]
       ELSE UNCHANGED <<stream, sock>>
  /\ UNCHANGED <<kernelVars, count, surplus, key, registry, task, restored,
                 buf, clock, since, got>>

(* on_close of an open websocket: the client left, its pings timed out, or *)
(* the handler was told to close.  What the client got goes with it.       *)
Leave(c) ==
  /\ Live(c)
  /\ phase' = [phase EXCEPT ![c] = "closed"]
  /\ Disconnect(c)
  /\ told' = [told EXCEPT ![c] = "no"]
  /\ got' = [got EXCEPT ![c] = <<>>]
  /\ UNCHANGED <<kernelVars, surplus, key, task, restored, clock, since>>

-----------------------------------------------------------------------------
(* The nudge ends.  Then connect()'s callbacks replay the buffer and       *)
(* subscribe, even if the client has left meanwhile.  The list is not      *)
(* needed any more.                                                        *)
Replayed(c) == IF restored[c] = None THEN <<>> ELSE buf[restored[c]]

DropList(c) == buf' = [b \in Conns |-> IF b = restored[c] THEN <<>> ELSE buf[b]]

(* Mutant: subscribe() runs first, and what is queued goes out before the  *)
(* buffer.                                                                 *)
HandsOver_BeforeReplay(c) ==
  /\ task[c] = "nudge" /\ IsOpen(stream[c])
  /\ task' = [task EXCEPT ![c] = "done"]
  /\ sock' = [sock EXCEPT ![stream[c]] =
                Stream("open", "client", c, <<>>, sock[stream[c]].ports)]
  /\ got' = [got EXCEPT ![c] = IF Writable(c) THEN @ \o sock[stream[c]].queue \o Replayed(c)
                               ELSE @]
  /\ DropList(c)
  /\ UNCHANGED <<kernelVars, count, surplus, phase, key, registry, stream, restored,
                 buffer, clock, since>>

HandsOver(c) ==
  /\ task[c] = "nudge" /\ IsOpen(stream[c])
  /\ task' = [task EXCEPT ![c] = "done"]
  /\ sock' = [sock EXCEPT ![stream[c]] = With(stream[c], "client", c)]
  /\ got' = [got EXCEPT ![c] = IF Writable(c) THEN @ \o Replayed(c) ELSE @]
  /\ DropList(c)
  /\ UNCHANGED <<kernelVars, count, surplus, phase, key, registry, stream, restored,
                 buffer, clock, since>>

(* Both replies are there, or the kernel is gone, or it was busy and not   *)
(* nudged.                                                                 *)
Subscribe(c) ==
  /\ HandsOver(c)
  /\ sock[stream[c]].to # "nudge" \/ kernel = "gone"
  /\ UNCHANGED told

(* kernel_info_timeout is over, and a reply is missing: the callbacks run, *)
(* and then the TimeoutError leaves open() and the websocket is aborted.   *)
(* (A stream that is "off" may be that of a busy kernel, which is not      *)
(* nudged and does not time out.)                                          *)
(* Mutant: there is no timeout while nothing comes on iopub.               *)
NudgeTimesOut_NotOnIOPub(c) ==
  /\ HandsOver(c)
  /\ sock[stream[c]].to # "nudge"
  /\ told' = [told EXCEPT ![c] = IF Live(c) THEN "closed" ELSE @]

NudgeTimesOut(c) ==
  /\ HandsOver(c)
  /\ told' = [told EXCEPT ![c] = IF Live(c) THEN "closed" ELSE @]

(* c has left and its streams are closed.  With something to replay,       *)
(* _on_zmq_reply finds the stream closed and disconnects c a second time.  *)
Dangling(c) == task[c] = "nudge" /\ ~IsOpen(stream[c])

NudgeEndsClosed(c) ==
  /\ Dangling(c)
  /\ stream[c] = None \/ Replayed(c) = <<>>
  /\ task' = [task EXCEPT ![c] = "done"]
  /\ UNCHANGED <<kernelVars, count, surplus, socketVars, stream, restored, sock,
                 bufferVars, clock, since, got>>

DisconnectAgain(c) ==
  /\ Dangling(c)
  /\ stream[c] # None /\ Replayed(c) # <<>>
  /\ task' = [task EXCEPT ![c] = "done"]
  /\ Disconnect(c)
  /\ surplus' = IF kernel # "gone" THEN surplus + 1 ELSE surplus
  /\ UNCHANGED <<kernelVars, phase, key, told, restored, clock, since, got>>

-----------------------------------------------------------------------------
(* The kernel publishes: every stream on its ports queues the message.     *)
Publish ==
  /\ kernel # "gone" /\ clock < MaxMessages
  /\ clock' = clock + 1
  /\ sock' = [s \in Conns |->
       IF IsOpen(s) /\ sock[s].ports = ports
         THEN Stream("open", sock[s].to, sock[s].of,
                     Append(sock[s].queue, Message(clock', "output")), ports)
         ELSE sock[s]]
  /\ UNCHANGED <<kernelVars, count, surplus, socketVars, stream, task, restored,
                 bufferVars, since, got>>

(* What the callback of s does with the messages ms: a client that has     *)
(* left loses them, the nudge swallows one.                                *)
Deliver(s, ms) ==
  /\ got' = [c \in Conns |-> IF sock[s].to = "client" /\ sock[s].of = c /\ Writable(c)
                               THEN got[c] \o ms ELSE got[c]]
  /\ buf' = [c \in Conns |-> IF sock[s].to = "buffer" /\ sock[s].of = c
                               THEN buf[c] \o ms ELSE buf[c]]

AfterOne(s) ==
  Stream("open", IF sock[s].to = "nudge" THEN "off" ELSE sock[s].to,
         IF sock[s].to = "nudge" THEN None ELSE sock[s].of,
         Tail(sock[s].queue), sock[s].ports)

Receive(s) ==
  /\ IsOpen(s) /\ sock[s].to # "off" /\ sock[s].queue # <<>>
  /\ sock' = [sock EXCEPT ![s] = AfterOne(s)]
  /\ Deliver(s, <<Head(sock[s].queue)>>)
  /\ UNCHANGED <<kernelVars, count, surplus, socketVars, stream, task, restored,
                 buffer, clock, since>>

-----------------------------------------------------------------------------
(* A restart callback of each connection: _send_status_message flushes     *)
(* the stream, then writes the status.                                     *)
Flushing(s) == IsOpen(s) /\ \E c \in Conns : Listening(c) /\ stream[c] = s

AfterFlush(s) ==
  CASE ~Flushing(s) \/ sock[s].to = "off" \/ sock[s].queue = <<>> -> sock[s]
    [] OTHER -> IF sock[s].to = "nudge" THEN AfterOne(s)
                ELSE Stream("open", sock[s].to, sock[s].of, <<>>, sock[s].ports)

(* What the flush hands to c (its stream's client) or to the buffer of c.  *)
FlushedTo(to, c) ==
  IF \E s \in Conns : Flushing(s) /\ sock[s].to = to /\ sock[s].of = c
    THEN sock[CHOOSE s \in Conns : Flushing(s) /\ sock[s].to = to /\ sock[s].of = c].queue
    ELSE <<>>

Status(c) == Message(clock, IF task[c] = "nudge" THEN "overtaking" ELSE "status")

SendStatus ==
  /\ sock' = [s \in Conns |-> AfterFlush(s)]
  /\ buf' = [c \in Conns |-> buf[c] \o FlushedTo("buffer", c)]
  /\ got' = [c \in Conns |->
       IF ~Writable(c) THEN got[c]
       ELSE got[c] \o FlushedTo("client", c)
                   \o IF Listening(c) THEN <<Status(c)>> ELSE <<>>]

(* on_kernel_restarted: the restarter has started the kernel again, now    *)
(* and then on other ports.                                                *)
KernelRestarted ==
  /\ kernel = "up" /\ restarts < MaxRestarts
  /\ SendStatus
  /\ restarts' = restarts + 1
  /\ ports' \in {ports, ports + 1}
  /\ UNCHANGED <<kernel, captured, count, surplus, socketVars, stream, task,
                 restored, buffer, clock, since>>

(* on_restart_failed, and _handle_kernel_died: out of the map.  A buffer   *)
(* of the kernel stays in _kernel_buffers.                                 *)
KernelDied ==
  /\ kernel = "up"
  /\ SendStatus
  /\ kernel' = "gone"
  /\ UNCHANGED <<restarts, ports, captured, count, surplus, socketVars, stream,
                 task, restored, buffer, clock, since>>

(* shutdown_kernel up to its await, then the removal.  When the buffer     *)
(* cannot be cleared, the shutdown fails, and the next one succeeds.       *)
BeginShutdown ==
  /\ kernel # "gone"
  /\ kernel' = IF Unclosable THEN kernel ELSE "stopping"
  /\ StopBuffering
  /\ UNCHANGED <<restarts, ports, captured, count, surplus, socketVars, stream,
                 task, restored, buf, clock, since, got>>

(* cull_kernel_if_idle on a kernel that has been idle long enough.         *)
Cull == kernel = "up" /\ count = 0 /\ BeginShutdown

KernelRemoved ==
  /\ kernel = "stopping"
  /\ kernel' = "gone"
  /\ UNCHANGED <<restarts, ports, captured, count, surplus, socketVars, stream,
                 task, restored, sock, bufferVars, clock, since, got>>

-----------------------------------------------------------------------------
Init ==
  /\ kernel = "up" /\ restarts = 0 /\ ports = 0 /\ captured = 0
  /\ count = 0 /\ surplus = 0 /\ clock = 0
  /\ registry = [k \in Keys |-> None]
  /\ since = [k \in Keys |-> None]
  /\ phase = [c \in Conns |-> "new"]
  /\ key = [c \in Conns |-> None]
  /\ told = [c \in Conns |-> "no"]
  /\ stream = [c \in Conns |-> None]
  /\ task = [c \in Conns |-> "none"]
  /\ restored = [c \in Conns |-> None]
  /\ sock = [c \in Conns |-> NoStream]
  /\ buffer = None
  /\ buf = [c \in Conns |-> <<>>]
  /\ got = [c \in Conns |-> <<>>]

Connect(c) == \/ ConnectRestored(c) \/ ConnectBroken(c) \/ ConnectMoved(c)
              \/ ConnectFresh(c) \/ ConnectGone(c)
NudgeEnds(c) == \/ Subscribe(c) \/ NudgeTimesOut(c)
                \/ NudgeEndsClosed(c) \/ DisconnectAgain(c)

Websocket(c) ==
  \/ \E k \in Keys : Register(c, k)
  \/ PrepareFails(c) \/ LeaveEarly(c) \/ Connect(c) \/ Leave(c)
  \/ NudgeEnds(c) \/ Receive(c)

Next == \/ \E c \in Conns : Websocket(c)
        \/ Publish \/ KernelRestarted \/ KernelDied
        \/ BeginShutdown \/ Cull \/ KernelRemoved

Spec == Init /\ [][Next]_vars

(* The nudge has a timeout, and the loop runs the callback of each stream. *)
Fairness == \A c \in Conns : WF_vars(NudgeEnds(c)) /\ WF_vars(Receive(c))
FairSpec == Spec /\ Fairness

-----------------------------------------------------------------------------
(* The types of the variables.                                             *)
MessageType == [n : 0 .. MaxMessages, kind : Kinds]
StreamType == [st : {"none", "open", "closed"},
               to : {"off", "buffer", "nudge", "client"},
               of : Conns \cup {None}, queue : Seq(MessageType), ports : Nat]

TypeOK ==
  /\ kernel \in {"up", "stopping", "gone"}
  /\ restarts \in 0 .. MaxRestarts /\ ports \in Nat /\ captured \in Nat
  /\ count \in Int /\ surplus \in Nat /\ clock \in 0 .. MaxMessages
  /\ registry \in [Keys -> Conns \cup {None}]
  /\ phase \in [Conns -> {"new", "preparing", "open", "closed", "failed"}]
  /\ key \in [Conns -> Keys \cup {None}]
  /\ told \in [Conns -> {"no", "missed", "closed"}]
  /\ stream \in [Conns -> Conns \cup {None}]
  /\ task \in [Conns -> {"none", "nudge", "done"}]
  /\ restored \in [Conns -> Conns \cup {None}]
  /\ sock \in [Conns -> StreamType]
  /\ buffer \in Conns \cup {None}
  /\ buf \in [Conns -> Seq(MessageType)]
  /\ since \in [Keys -> 0 .. MaxMessages \cup {None}]
  /\ got \in [Conns -> Seq(MessageType)]

(* The connection count of a kernel, which GET /api/kernels reports and    *)
(* the culler trusts, is the number of open websockets less the            *)
(* disconnects nobody had counted: a client that left before connect(),    *)
(* a connection disconnected twice.                                        *)
Connected == {c \in Conns : Live(c)}
CountExact == kernel # "gone" => count = Cardinality(Connected) - surplus

(* _register_session: of the open connections of one session all but the   *)
(* last registered have been told to close, unless close() came before     *)
(* their websocket was open and missed it.                                 *)
OneSocketPerSession ==
  \A c, d \in Conns :
    /\ c # d /\ Live(c) /\ Live(d) /\ key[c] = key[d]
    => told[c] # "no" \/ told[d] # "no"

(* start_buffering, get_buffer: a client is given nothing that was         *)
(* published before a client of its session first connected, whoever's     *)
(* messages were buffered in between.                                      *)
NoForeignReplay ==
  \A c \in Conns : \A i \in 1 .. Len(got[c]) :
    got[c][i].kind = "output" => since[key[c]] # None /\ got[c][i].n > since[key[c]]

(* connect's replay and subscribe, _send_status_message's flush: what a    *)
(* client is sent is in the order it was published, without repetition;    *)
(* only a restart status may overtake messages still to be replayed.       *)
(* (Streams left behind on old ports can repeat messages.)                 *)
Before(m, n) == IF n.kind = "output" THEN m.n < n.n ELSE m.n <= n.n

InOrder ==
  ports = 0 =>
  \A c \in Conns : \A j \in 1 .. Len(got[c]) : \A i \in 1 .. j - 1 :
    got[c][i].kind = "overtaking" \/ Before(got[c][i], got[c][j])

(* disconnect, stop_buffering: an open ZMQ stream belongs to an open       *)
(* connection or to the buffer, whatever the order in which connections    *)
(* come, are nudged and go.  (Ports that change leave streams behind, and  *)
(* so does a client that reconnects to a kernel that died meanwhile.)      *)
NoStreamLeaks ==
  ports = 0 /\ kernel # "gone" =>
  \A s \in Conns : IsOpen(s) =>
    \/ \E c \in Conns : Live(c) /\ stream[c] = s
    \/ buffer # None /\ stream[buffer] = s

(* connect() waits for the nudge, and the nudge for the kernel: what waits *)
(* for a client, in the buffer it took or queued in its stream, is sent to *)
(* it all the same, also when the kernel says nothing more or is gone,     *)
(* unless its websocket is closed.  (The nudge itself swallows one message *)
(* of the queue; and that of a client that has left subscribes to a stream *)
(* that another one has taken over since, which then may lose messages.)   *)
OutputIn(ms) == {ms[i].n : i \in {j \in 1 .. Len(ms) : ms[j].kind = "output"}}
OutputTo(c) == OutputIn(got[c])

Undisturbed(c) ==
  /\ \A d \in Conns \ {c} : stream[d] = stream[c] => task[d] # "nudge"
  /\ sock[stream[c]].to = "client" => sock[stream[c]].of = c

QueuedIn(s) == IF sock[s].to = "nudge" /\ sock[s].queue # <<>>
             THEN OutputIn(Tail(sock[s].queue)) ELSE OutputIn(sock[s].queue)

Owed(c) == (IF task[c] = "nudge" THEN OutputIn(Replayed(c)) ELSE {})
           \cup (IF IsOpen(stream[c]) /\ Undisturbed(c) THEN QueuedIn(stream[c]) ELSE {})

WaitingArrives ==
  \A c \in Conns : \A n \in 1 .. MaxMessages :
    Writable(c) /\ n \in Owed(c) ~> ~Writable(c) \/ n \in OutputTo(c)

(* Not a property of the code.  buffer_offline_messages: messages are      *)
(* buffered and replayed on reconnect, so that a restored client is sent   *)
(* every output between two it was sent.                                   *)
NothingMissed ==
  ports = 0 /\ surplus = 0 =>
  \A c \in Conns :
    restored[c] # None /\ task[c] = "done" =>
      \A m, n \in OutputTo(c) : m .. n \subseteq OutputTo(c)
=============================================================================
