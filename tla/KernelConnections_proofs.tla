----------------------- MODULE KernelConnections_proofs -----------------------
(***************************************************************************)
(* The websockets of a kernel, for any number of connections, session      *)
(* keys, messages and restarts.                                            *)
(*                                                                         *)
(* TInv is inductive by itself.  Each section after it adds an invariant   *)
(* that is inductive given the ones before: the count, who has which       *)
(* stream (Owned), which streams are open, the registry, what a session    *)
(* may have been sent, and the order of what is on its way.                *)
(***************************************************************************)
EXTENDS KernelConnections, FiniteSetTheorems, SequenceTheorems, TLAPS

USE ConnsAssumption, BoundsAssumption

-----------------------------------------------------------------------------
(* Types.                                                                  *)
States == {"none", "open", "closed"}
Targets == {"off", "buffer", "nudge", "client"}
Holders == Conns \cup {None}
Messages == Seq(MessageType)

LEMMA StreamTyped ==
  ASSUME NEW st \in States, NEW to \in Targets, NEW of \in Holders, NEW q \in Messages, NEW p \in Nat
  PROVE  Stream(st, to, of, q, p) \in StreamType
BY DEF Stream, StreamType, States, Targets, Holders, Messages

LEMMA StreamFields ==
  ASSUME NEW st, NEW to, NEW of, NEW q, NEW p
  PROVE  /\ Stream(st, to, of, q, p).st = st /\ Stream(st, to, of, q, p).to = to
         /\ Stream(st, to, of, q, p).of = of /\ Stream(st, to, of, q, p).queue = q
         /\ Stream(st, to, of, q, p).ports = p
BY DEF Stream

LEMMA SocketTyped ==
  ASSUME TypeOK, NEW s \in Conns
  PROVE  /\ sock[s] \in StreamType /\ sock[s].st \in States /\ sock[s].to \in Targets
         /\ sock[s].of \in Holders /\ sock[s].queue \in Messages /\ sock[s].ports \in Nat
<1>1. sock[s] \in StreamType
  BY DEF TypeOK
<1> QED BY <1>1 DEF StreamType, States, Targets, Holders, Messages

LEMMA GoneTyped == Gone \in StreamType /\ NoStream \in StreamType
<1>1. <<>> \in Messages /\ 0 \in Nat /\ {"closed", "none"} \subseteq States /\ "off" \in Targets /\ None \in Holders
  BY DEF Messages, States, Targets, Holders
<1> QED BY <1>1, StreamTyped DEF Gone, NoStream

LEMMA OpenTyped ==
  ASSUME TypeOK, NEW to \in Targets, NEW of \in Holders
  PROVE  /\ Stream("open", to, of, <<>>, ports) \in StreamType
         /\ \A s \in Conns :
              /\ Stream("open", to, of, sock[s].queue, sock[s].ports) \in StreamType
              /\ Stream("open", to, of, <<>>, sock[s].ports) \in StreamType
<1>1. "open" \in States /\ <<>> \in Messages /\ ports \in Nat
  BY DEF States, Messages, TypeOK
<1> QED BY <1>1, SocketTyped, StreamTyped

LEMMA WithTyped ==
  ASSUME TypeOK, NEW s \in Conns, NEW to \in Targets, NEW c \in Holders
  PROVE  With(s, to, c) \in StreamType
BY OpenTyped DEF With

LEMMA CreatedTyped == TypeOK => Created \in StreamType
<1>1. "off" \in Targets /\ None \in Holders
  BY DEF Targets, Holders
<1> QED BY <1>1, OpenTyped DEF Created

(* Everything but the messages and the sockets.                            *)
PlainTypes ==
  /\ kernel \in {"up", "stopping", "gone"}
  /\ restarts \in 0 .. MaxRestarts /\ ports \in Nat /\ captured \in Nat
  /\ count \in Int /\ surplus \in Nat /\ clock \in 0 .. MaxMessages
  /\ registry \in [Keys -> Conns \cup {None}]
  /\ phase \in [Conns -> {"new", "preparing", "open", "closed", "failed"}]
  /\ key \in [Conns -> Keys \cup {None}]
  /\ told \in [Conns -> {"no", "missed", "closed"}]
  /\ stream \in [Conns -> Conns \cup {None}]
  /\ task \in [Conns -> {"none", "nudge", "done"}]
  /\ restored \in [Conns -> Conns \cup {None}]
  /\ buffer \in Conns \cup {None}
  /\ since \in [Keys -> 0 .. MaxMessages \cup {None}]
Lists == buf \in [Conns -> Messages] /\ got \in [Conns -> Messages]
Sockets == sock \in [Conns -> StreamType]

LEMMA Types ==
  /\ TypeOK <=> PlainTypes /\ Lists /\ Sockets
  /\ PlainTypes' /\ Lists' /\ Sockets' => TypeOK'
BY DEF TypeOK, PlainTypes, Lists, Sockets, Messages

(* A connection whose session is known.                                    *)
Keyed == \A c \in Conns : phase[c] # "new" => key[c] \in Keys

TInv == TypeOK /\ Keyed

USE DEF kernelVars, socketVars, bufferVars

LEMMA DisconnectTypes ==
  ASSUME TypeOK, NEW c \in Conns, Disconnect(c)
  PROVE  /\ registry' \in [Keys -> Conns \cup {None}] /\ count' \in Int
         /\ buffer' \in Conns \cup {None} /\ stream' \in [Conns -> Conns \cup {None}]
         /\ sock' \in [Conns -> StreamType] /\ buf' \in [Conns -> Messages]
<1>1. <<>> \in Messages /\ "buffer" \in Targets /\ c \in Holders
  BY DEF Messages, Targets, Holders
<1>2. \A s \in Conns : With(s, "buffer", c) \in StreamType
  BY <1>1, WithTyped
<1>3. /\ registry' \in [Keys -> Conns \cup {None}] /\ count' \in Int
  BY DEF Disconnect, Unregistered, TypeOK
<1>4. CASE LastOne
  <2>1. StartBuffering(c)
    BY <1>4 DEF Disconnect
  <2>2. sock' \in [Conns -> StreamType]
    BY <1>2, <2>1, GoneTyped, SocketTyped DEF StartBuffering
  <2>3. buf \in [Conns -> Messages] /\ stream \in [Conns -> Conns \cup {None}]
    BY DEF TypeOK, Messages
  <2>4. buf' \in [Conns -> Messages]
    BY <1>1, <2>1, <2>3 DEF StartBuffering
  <2> QED BY <1>3, <2>1, <2>2, <2>3, <2>4 DEF StartBuffering
<1>5. CASE ~LastOne
  <2>1. CloseStreams(c)
    BY <1>5 DEF Disconnect
  <2>2. /\ sock \in [Conns -> StreamType] /\ buf \in [Conns -> Messages] /\ buffer \in Conns \cup {None}
        /\ stream \in [Conns -> Conns \cup {None}]
    BY DEF TypeOK, Messages
  <2>3. sock' \in [Conns -> StreamType]
    BY <2>1, <2>2, GoneTyped DEF CloseStreams
  <2> QED BY <1>3, <2>1, <2>2, <2>3 DEF CloseStreams
<1> QED BY <1>4, <1>5

LEMMA NudgedTyped ==
  ASSUME TypeOK, NEW c \in Conns, NEW s \in Conns, NEW strm \in StreamType, Nudged(c, s, strm)
  PROVE  Sockets'
<1>1. "open" \in States /\ "nudge" \in Targets /\ c \in Holders /\ strm.queue \in Messages /\ strm.ports \in Nat
  BY DEF States, Targets, Holders, Messages, StreamType
<1>2. Stream("open", "nudge", c, strm.queue, strm.ports) \in StreamType
  BY <1>1, StreamTyped
<1>3. sock \in [Conns -> StreamType]
  BY DEF TypeOK
<1> QED BY <1>2, <1>3 DEF Nudged, Sockets

LEMMA CountedTypes ==
  ASSUME TInv, NEW c \in Conns, Counted(c)
  PROVE  /\ UNCHANGED <<kernel, restarts, ports, surplus, key, registry, clock, got>>
         /\ count' \in Int /\ since' \in [Keys -> 0 .. MaxMessages \cup {None}]
         /\ phase' \in [Conns -> {"new", "preparing", "open", "closed", "failed"}]
         /\ key[c] \in Keys /\ Keyed'
<1>1. /\ PlainTypes /\ Keyed /\ UNCHANGED <<kernel, restarts, ports, surplus, key, registry, clock, got>>
      /\ phase[c] = "preparing" /\ phase' = [phase EXCEPT ![c] = "open"] /\ count' = count + 1
      /\ since' = [since EXCEPT ![key[c]] = IF @ = None THEN clock ELSE @]
  BY Types DEF TInv, Counted
<1>2. key[c] \in Keys
  BY <1>1 DEF Keyed
<1>3. count' \in Int
  BY <1>1 DEF PlainTypes
<1>4. phase' \in [Conns -> {"new", "preparing", "open", "closed", "failed"}]
  BY <1>1 DEF PlainTypes
<1>5. since' \in [Keys -> 0 .. MaxMessages \cup {None}]
  <2>1. since \in [Keys -> 0 .. MaxMessages \cup {None}] /\ clock \in 0 .. MaxMessages
    BY <1>1 DEF PlainTypes
  <2> QED BY <1>1, <1>2, <2>1
<1>6. Keyed'
  BY <1>1 DEF Keyed, PlainTypes
<1> QED BY <1>1, <1>2, <1>3, <1>4, <1>5, <1>6

LEMMA RegisterTypes ==
  ASSUME TInv, NEW c \in Conns, NEW k \in Keys, Register(c, k)
  PROVE  TInv'
<1>1. PlainTypes /\ Lists /\ Sockets /\ Keyed
  BY Types DEF TInv
<1>2. told' \in [Conns -> {"no", "missed", "closed"}]
  BY <1>1 DEF Register, CloseStale, Stale, PlainTypes
<1>3. PlainTypes'
  BY <1>1, <1>2 DEF Register, PlainTypes
<1>4. Lists' /\ Sockets'
  BY <1>1 DEF Register, Lists, Sockets
<1>5. Keyed'
  BY <1>1 DEF Register, Keyed, PlainTypes
<1> QED BY <1>3, <1>4, <1>5, Types DEF TInv

LEMMA PrepareFailsTypes ==
  ASSUME TInv, NEW c \in Conns, PrepareFails(c)
  PROVE  TInv'
<1>1. PlainTypes /\ Lists /\ Sockets /\ Keyed
  BY Types DEF TInv
<1>2. PlainTypes' /\ Lists' /\ Sockets' /\ Keyed'
  BY <1>1 DEF PrepareFails, PlainTypes, Lists, Sockets, Keyed
<1> QED BY <1>2, Types DEF TInv

LEMMA LeaveEarlyTypes ==
  ASSUME TInv, NEW c \in Conns, LeaveEarly(c)
  PROVE  TInv'
<1>1. PlainTypes /\ Lists /\ Sockets /\ Keyed /\ TypeOK
  BY Types DEF TInv
<1>2. /\ registry' \in [Keys -> Conns \cup {None}] /\ count' \in Int
      /\ buffer' \in Conns \cup {None} /\ stream' \in [Conns -> Conns \cup {None}]
      /\ sock' \in [Conns -> StreamType] /\ buf' \in [Conns -> Messages]
  BY <1>1, DisconnectTypes DEF LeaveEarly
<1>3. PlainTypes'
  BY <1>1, <1>2 DEF LeaveEarly, PlainTypes
<1>4. Lists' /\ Sockets'
  BY <1>1, <1>2 DEF LeaveEarly, Lists, Sockets
<1>5. Keyed'
  BY <1>1 DEF LeaveEarly, Keyed, PlainTypes
<1> QED BY <1>3, <1>4, <1>5, Types DEF TInv

LEMMA LeaveTypes ==
  ASSUME TInv, NEW c \in Conns, Leave(c)
  PROVE  TInv'
<1>1. PlainTypes /\ Lists /\ Sockets /\ Keyed /\ TypeOK
  BY Types DEF TInv
<1>2. /\ registry' \in [Keys -> Conns \cup {None}] /\ count' \in Int
      /\ buffer' \in Conns \cup {None} /\ stream' \in [Conns -> Conns \cup {None}]
      /\ sock' \in [Conns -> StreamType] /\ buf' \in [Conns -> Messages]
  BY <1>1, DisconnectTypes DEF Leave
<1>3. PlainTypes'
  BY <1>1, <1>2 DEF Leave, PlainTypes
<1>4. Lists' /\ Sockets'
  <2>1. <<>> \in Messages
    BY DEF Messages
  <2> QED BY <1>1, <1>2, <2>1 DEF Leave, Lists, Sockets
<1>5. Keyed'
  BY <1>1 DEF Leave, Live, Keyed, PlainTypes
<1> QED BY <1>3, <1>4, <1>5, Types DEF TInv

LEMMA DisconnectAgainTypes ==
  ASSUME TInv, NEW c \in Conns, DisconnectAgain(c)
  PROVE  TInv'
<1>1. PlainTypes /\ Lists /\ Sockets /\ Keyed /\ TypeOK
  BY Types DEF TInv
<1>2. /\ registry' \in [Keys -> Conns \cup {None}] /\ count' \in Int
      /\ buffer' \in Conns \cup {None} /\ stream' \in [Conns -> Conns \cup {None}]
      /\ sock' \in [Conns -> StreamType] /\ buf' \in [Conns -> Messages]
  BY <1>1, DisconnectTypes DEF DisconnectAgain
<1>3. PlainTypes'
  BY <1>1, <1>2 DEF DisconnectAgain, PlainTypes
<1>4. Lists' /\ Sockets' /\ Keyed'
  BY <1>1, <1>2 DEF DisconnectAgain, Lists, Sockets, Keyed
<1> QED BY <1>3, <1>4, Types DEF TInv

LEMMA ConnectRestoredTypes ==
  ASSUME TInv, NEW c \in Conns, ConnectRestored(c)
  PROVE  TInv'
<1>1. PlainTypes /\ Lists /\ Sockets /\ Keyed /\ TypeOK
  BY Types DEF TInv
<1>2. Counted(c) /\ IsOpen(stream[buffer]) /\ Nudged(c, stream[buffer], sock[stream[buffer]])
  BY DEF ConnectRestored
<1>3. stream[buffer] \in Conns /\ buffer \in Conns
  BY <1>1, <1>2 DEF IsOpen, PlainTypes, ConnectRestored, Matching
<1>4. sock[stream[buffer]] \in StreamType
  BY <1>1, <1>3 DEF Sockets
<1>5. Sockets'
  BY <1>1, <1>2, <1>3, <1>4, NudgedTyped
<1>6. PlainTypes'
  BY <1>1, <1>2, <1>3, CountedTypes DEF ConnectRestored, PlainTypes
<1>7. Lists'
  BY <1>1, <1>2, CountedTypes DEF ConnectRestored, Lists
<1> QED BY <1>2, <1>5, <1>6, <1>7, CountedTypes, Types DEF TInv

LEMMA ConnectBrokenTypes ==
  ASSUME TInv, NEW c \in Conns, ConnectBroken(c)
  PROVE  TInv'
<1>1. PlainTypes /\ Lists /\ Sockets
  BY Types DEF TInv
<1>2. Counted(c) /\ UNCHANGED <<captured, restored, task, sock, buf>> /\ buffer' = None
      /\ told' = [told EXCEPT ![c] = "closed"]
  BY DEF ConnectBroken
<1>3. stream' \in [Conns -> Conns \cup {None}]
  BY <1>1 DEF ConnectBroken, Matching, PlainTypes
<1>4. PlainTypes'
  BY <1>1, <1>2, <1>3, CountedTypes DEF PlainTypes
<1>5. Lists' /\ Sockets'
  BY <1>1, <1>2, CountedTypes DEF Lists, Sockets
<1> QED BY <1>2, <1>4, <1>5, CountedTypes, Types DEF TInv

LEMMA ConnectMovedTypes ==
  ASSUME TInv, NEW c \in Conns, ConnectMoved(c)
  PROVE  TInv'
<1>1. PlainTypes /\ Lists /\ Sockets /\ TypeOK
  BY Types DEF TInv
<1>2. /\ Counted(c) /\ UNCHANGED <<told, buf>> /\ buffer' = None /\ captured' = ports
      /\ stream' = [stream EXCEPT ![c] = c] /\ restored' = [restored EXCEPT ![c] = buffer]
      /\ task' = [task EXCEPT ![c] = "nudge"] /\ Nudged(c, c, Created)
  BY DEF ConnectMoved
<1>3. Sockets'
  BY <1>1, <1>2, CreatedTyped, NudgedTyped
<1>4. PlainTypes'
  BY <1>1, <1>2, CountedTypes DEF PlainTypes
<1>5. Lists'
  BY <1>1, <1>2, CountedTypes DEF Lists
<1> QED BY <1>2, <1>3, <1>4, <1>5, CountedTypes, Types DEF TInv

LEMMA ConnectFreshTypes ==
  ASSUME TInv, NEW c \in Conns, ConnectFresh(c)
  PROVE  TInv'
<1>1. PlainTypes /\ Lists /\ Sockets /\ TypeOK
  BY Types DEF TInv
<1>2. /\ Counted(c) /\ UNCHANGED <<captured, told, restored, buf>> /\ buffer' = None
      /\ stream' = [stream EXCEPT ![c] = c] /\ task' = [task EXCEPT ![c] = "nudge"]
  BY DEF ConnectFresh
<1>3. PICK to \in {"nudge", "off"} :
       sock' = [s \in Conns |->
         IF s = c THEN Stream("open", to, IF to = "nudge" THEN c ELSE None, <<>>, ports)
         ELSE IF buffer # None /\ s = stream[buffer] /\ IsOpen(s) THEN Gone
         ELSE sock[s]]
  BY DEF ConnectFresh
<1>4. to \in Targets /\ (IF to = "nudge" THEN c ELSE None) \in Holders
  BY DEF Targets, Holders
<1>5. Sockets'
  BY <1>1, <1>3, <1>4, OpenTyped, GoneTyped DEF Sockets
<1>6. PlainTypes'
  BY <1>1, <1>2, CountedTypes DEF PlainTypes
<1>7. Lists'
  BY <1>1, <1>2, CountedTypes DEF Lists
<1> QED BY <1>2, <1>5, <1>6, <1>7, CountedTypes, Types DEF TInv

LEMMA ConnectGoneTypes ==
  ASSUME TInv, NEW c \in Conns, ConnectGone(c)
  PROVE  TInv'
<1>1. PlainTypes /\ Lists /\ Sockets /\ TypeOK /\ Keyed
  BY Types DEF TInv
<1>2. Sockets' /\ stream' \in [Conns -> Conns \cup {None}]
  BY <1>1, CreatedTyped DEF ConnectGone, Sockets, PlainTypes
<1>3. PlainTypes'
  BY <1>1, <1>2 DEF ConnectGone, PlainTypes
<1>4. Lists' /\ Keyed'
  BY <1>1 DEF ConnectGone, Lists, Keyed, PlainTypes
<1> QED BY <1>2, <1>3, <1>4, Types DEF TInv

(* The end of a nudge tells the handler at most to close.                  *)
LEMMA TellsAtMost ==
  ASSUME TInv, NEW c \in Conns, Subscribe(c) \/ NudgeTimesOut(c)
  PROVE  told' = told \/ told' = [told EXCEPT ![c] = "closed"]
<1>1. CASE NudgeTimesOut(c)
  BY <1>1 DEF NudgeTimesOut, TInv, TypeOK
<1> QED BY <1>1 DEF Subscribe

LEMMA SubscribeTypes ==
  ASSUME TInv, NEW c \in Conns, HandsOver(c), Subscribe(c) \/ NudgeTimesOut(c)
  PROVE  TInv'
<1>1. PlainTypes /\ Lists /\ Sockets /\ TypeOK /\ Keyed
  BY Types DEF TInv
<1>2. PlainTypes' /\ Keyed'
  BY <1>1, TellsAtMost DEF HandsOver, PlainTypes, Keyed
<1>3. "client" \in Targets /\ c \in Holders
  BY DEF Targets, Holders
<1>4. Sockets'
  <2>1. stream[c] \in Conns
    BY DEF HandsOver, IsOpen
  <2>2. With(stream[c], "client", c) \in StreamType
    BY <1>1, <1>3, <2>1, WithTyped
  <2> QED BY <1>1, <2>2 DEF HandsOver, Sockets
<1>5. <<>> \in Messages
  BY DEF Messages
<1>6. Lists'
  <2>1. Replayed(c) \in Messages
    BY <1>1, <1>5 DEF Replayed, Lists, PlainTypes
  <2>2. got[c] \o Replayed(c) \in Messages
    BY <1>1, <2>1 DEF Lists, Messages
  <2>3. got' \in [Conns -> Messages]
    BY <1>1, <2>2 DEF HandsOver, Lists
  <2>4. buf' \in [Conns -> Messages]
    BY <1>1, <1>5 DEF HandsOver, DropList, Lists
  <2> QED BY <2>3, <2>4 DEF Lists
<1> QED BY <1>2, <1>4, <1>6, Types DEF TInv

LEMMA NudgeEndsClosedTypes ==
  ASSUME TInv, NEW c \in Conns, NudgeEndsClosed(c)
  PROVE  TInv'
<1>1. PlainTypes /\ Lists /\ Sockets /\ Keyed
  BY Types DEF TInv
<1>2. PlainTypes' /\ Lists' /\ Sockets' /\ Keyed'
  BY <1>1 DEF NudgeEndsClosed, PlainTypes, Lists, Sockets, Keyed
<1> QED BY <1>2, Types DEF TInv

(* What takes messages from a stream.                                      *)
LEMMA TakenTyped ==
  ASSUME TypeOK, NEW s \in Conns, sock[s].queue # <<>>
  PROVE  /\ Head(sock[s].queue) \in MessageType /\ <<Head(sock[s].queue)>> \in Messages
         /\ Tail(sock[s].queue) \in Messages /\ AfterOne(s) \in StreamType
<1>1. sock[s].queue \in Seq(MessageType)
  BY SocketTyped DEF Messages
<1>2. /\ Head(sock[s].queue) \in MessageType /\ <<Head(sock[s].queue)>> \in Messages
      /\ Tail(sock[s].queue) \in Messages
  BY <1>1 DEF Messages
<1>3. "open" \in States /\ {"off", "nudge"} \subseteq Targets /\ None \in Holders
  BY DEF States, Targets, Holders
<1>4. AfterOne(s) \in StreamType
  BY <1>2, <1>3, SocketTyped, StreamTyped DEF AfterOne
<1> QED BY <1>2, <1>4

LEMMA ReceiveTypes ==
  ASSUME TInv, NEW s \in Conns, Receive(s)
  PROVE  TInv'
<1>1. PlainTypes /\ Lists /\ Sockets /\ Keyed /\ TypeOK
  BY Types DEF TInv
<1>2. PlainTypes' /\ Keyed'
  BY <1>1 DEF Receive, PlainTypes, Keyed
<1>3. AfterOne(s) \in StreamType /\ <<Head(sock[s].queue)>> \in Messages
  BY <1>1, TakenTyped DEF Receive
<1>4. Sockets'
  BY <1>1, <1>3 DEF Receive, Sockets
<1>5. \A c \in Conns : /\ got[c] \in Messages /\ got[c] \o <<Head(sock[s].queue)>> \in Messages
                       /\ buf[c] \in Messages /\ buf[c] \o <<Head(sock[s].queue)>> \in Messages
  BY <1>1, <1>3 DEF Lists, Messages
<1>6. Lists'
  BY <1>5 DEF Receive, Deliver, Lists
<1> QED BY <1>2, <1>4, <1>6, Types DEF TInv

LEMMA PublishTypes ==
  ASSUME TInv, Publish
  PROVE  TInv'
<1>1. PlainTypes /\ Lists /\ Sockets /\ Keyed /\ TypeOK
  BY Types DEF TInv
<1>2. clock' \in 0 .. MaxMessages
  BY <1>1 DEF Publish, PlainTypes
<1>3. PlainTypes' /\ Keyed' /\ Lists'
  BY <1>1, <1>2 DEF Publish, PlainTypes, Keyed, Lists
<1>4. Message(clock', "output") \in MessageType
  BY <1>2 DEF Message, MessageType, Kinds
<1>5. \A s \in Conns : Append(sock[s].queue, Message(clock', "output")) \in Messages
  BY <1>1, <1>4, SocketTyped DEF Messages
<1>6. "open" \in States /\ ports \in Nat
  BY <1>1 DEF States, PlainTypes
<1>7. \A s \in Conns : Stream("open", sock[s].to, sock[s].of, Append(sock[s].queue, Message(clock', "output")), ports)
                         \in StreamType
  BY <1>1, <1>5, <1>6, SocketTyped, StreamTyped
<1>8. Sockets'
  BY <1>1, <1>7 DEF Publish, Sockets
<1> QED BY <1>3, <1>8, Types DEF TInv

LEMMA FlushTyped ==
  ASSUME TypeOK
  PROVE  /\ \A s \in Conns : AfterFlush(s) \in StreamType
         /\ \A to, c : FlushedTo(to, c) \in Messages
<1>1. <<>> \in Messages /\ None \in Holders
  BY DEF Messages, Holders
<1>2. ASSUME NEW s \in Conns PROVE AfterFlush(s) \in StreamType
  <2>1. /\ Stream("open", sock[s].to, sock[s].of, <<>>, sock[s].ports) \in StreamType /\ sock[s] \in StreamType
    BY SocketTyped, OpenTyped
  <2>2. sock[s].queue # <<>> => AfterOne(s) \in StreamType
    BY TakenTyped
  <2> QED BY <2>1, <2>2 DEF AfterFlush
<1>3. ASSUME NEW to, NEW c PROVE FlushedTo(to, c) \in Messages
  <2> DEFINE P(s) == Flushing(s) /\ sock[s].to = to /\ sock[s].of = c
  <2>1. CASE \E s \in Conns : P(s)
    <3>1. (CHOOSE s \in Conns : P(s)) \in Conns
      BY <2>1
    <3>2. FlushedTo(to, c) = sock[CHOOSE s \in Conns : P(s)].queue
      BY <2>1 DEF FlushedTo
    <3> HIDE DEF P
    <3> QED BY <3>1, <3>2, SocketTyped
  <2>2. CASE ~\E s \in Conns : P(s)
    BY <1>1, <2>2 DEF FlushedTo
  <2> QED BY <2>1, <2>2
<1> QED BY <1>2, <1>3

LEMMA StatusTypes ==
  ASSUME TInv, SendStatus
  PROVE  Lists' /\ Sockets'
<1>1. PlainTypes /\ Lists /\ TypeOK
  BY Types DEF TInv
<1>2. Sockets'
  BY <1>1, FlushTyped DEF SendStatus, Sockets
<1>3. \A c \in Conns : buf[c] \o FlushedTo("buffer", c) \in Messages
  BY <1>1, FlushTyped DEF Lists, Messages
<1>4. \A c \in Conns : Status(c) \in MessageType
  BY <1>1 DEF Status, Message, MessageType, Kinds, PlainTypes
<1>5. \A c \in Conns : (IF Listening(c) THEN <<Status(c)>> ELSE <<>>) \in Messages
  BY <1>4 DEF Messages
<1>6. \A c \in Conns : got[c] \o FlushedTo("client", c) \o (IF Listening(c) THEN <<Status(c)>> ELSE <<>>) \in Messages
  BY <1>1, <1>5, FlushTyped DEF Lists, Messages
<1>7. \A c \in Conns : got[c] \in Messages
  BY <1>1 DEF Lists
<1>8. got' \in [Conns -> Messages]
  BY <1>6, <1>7 DEF SendStatus
<1>9. buf' \in [Conns -> Messages]
  BY <1>3 DEF SendStatus
<1> QED BY <1>2, <1>8, <1>9 DEF Lists

LEMMA KernelTypes ==
  ASSUME TInv, KernelRestarted \/ KernelDied \/ BeginShutdown \/ KernelRemoved
  PROVE  TInv'
<1>1. PlainTypes /\ Lists /\ Sockets /\ Keyed /\ TypeOK
  BY Types DEF TInv
<1>2. CASE KernelRestarted
  <2>1. PlainTypes' /\ Keyed'
    BY <1>1, <1>2 DEF KernelRestarted, PlainTypes, Keyed
  <2> QED BY <1>2, <2>1, StatusTypes, Types DEF KernelRestarted, TInv
<1>3. CASE KernelDied
  <2>1. PlainTypes' /\ Keyed'
    BY <1>1, <1>3 DEF KernelDied, PlainTypes, Keyed
  <2> QED BY <1>3, <2>1, StatusTypes, Types DEF KernelDied, TInv
<1>4. CASE BeginShutdown
  <2>1. PlainTypes' /\ Keyed' /\ Lists'
    BY <1>1, <1>4 DEF BeginShutdown, StopBuffering, PlainTypes, Keyed, Lists
  <2>2. Sockets'
    BY <1>1, <1>4, GoneTyped DEF BeginShutdown, StopBuffering, Sockets
  <2> QED BY <2>1, <2>2, Types DEF TInv
<1>5. CASE KernelRemoved
  <2>1. PlainTypes' /\ Keyed' /\ Lists' /\ Sockets'
    BY <1>1, <1>5 DEF KernelRemoved, PlainTypes, Keyed, Lists, Sockets
  <2> QED BY <2>1, Types DEF TInv
<1> QED BY <1>2, <1>3, <1>4, <1>5

LEMMA StepTypes ==
  ASSUME TInv, [Next]_vars
  PROVE  TInv'
<1>1. ASSUME NEW c \in Conns, Websocket(c) PROVE TInv'
  BY <1>1, RegisterTypes, PrepareFailsTypes, LeaveEarlyTypes, LeaveTypes, DisconnectAgainTypes,
     ConnectRestoredTypes, ConnectBrokenTypes, ConnectMovedTypes, ConnectFreshTypes, ConnectGoneTypes,
     SubscribeTypes, NudgeEndsClosedTypes, ReceiveTypes DEF Websocket, Connect, NudgeEnds, Subscribe, NudgeTimesOut
<1>2. CASE UNCHANGED vars
  BY <1>2 DEF TInv, TypeOK, Keyed, vars
<1> QED BY <1>1, <1>2, PublishTypes, KernelTypes DEF Next, Cull

LEMMA InitTypes == Init => TInv
<1> SUFFICES ASSUME Init PROVE TInv
  OBVIOUS
<1>1. <<>> \in Messages
  BY DEF Messages
<1>2. PlainTypes /\ Lists /\ Keyed
  BY <1>1 DEF Init, PlainTypes, Lists, Keyed
<1>3. Sockets
  BY GoneTyped DEF Init, Sockets
<1> QED BY <1>2, <1>3, Types DEF TInv

(* The variables keep their types, for any number of websockets, sessions  *)
(* and messages (channels.py, kernelmanager.py).                           *)
THEOREM TypesHold == Spec => []TInv
<1> QED BY InitTypes, StepTypes, PTL DEF Spec

-----------------------------------------------------------------------------
(* The connection count.                                                   *)
LEMMA ConnectedFinite == IsFiniteSet(Connected) /\ Cardinality(Connected) \in Nat
<1>1. IsFiniteSet(Connected)
  BY FS_Subset DEF Connected
<1> QED BY <1>1, FS_CardinalityType

LEMMA SameCount ==
  ASSUME CountExact, Connected' = Connected, UNCHANGED <<count, surplus>>, kernel = "gone" => kernel' = "gone"
  PROVE  CountExact'
BY DEF CountExact

LEMMA Joins ==
  ASSUME TInv, CountExact, NEW c \in Conns, Counted(c)
  PROVE  CountExact'
<1>1. Connected' = Connected \cup {c} /\ c \notin Connected
  BY DEF Counted, Connected, Live, TInv, TypeOK
<1>2. Cardinality(Connected') = Cardinality(Connected) + 1
  BY <1>1, ConnectedFinite, FS_AddElement
<1>3. count = Cardinality(Connected) - surplus /\ count' = count + 1 /\ surplus' = surplus
  BY DEF Counted, CountExact
<1> QED BY <1>2, <1>3, ConnectedFinite DEF CountExact, TInv, TypeOK

(* A disconnect that nobody had counted.                                   *)
LEMMA Overcounts ==
  ASSUME TInv, CountExact, NEW c \in Conns, Disconnect(c), Connected' = Connected, UNCHANGED kernel,
         surplus' = IF kernel # "gone" THEN surplus + 1 ELSE surplus
  PROVE  CountExact'
BY ConnectedFinite DEF Disconnect, CountExact, TInv, TypeOK

LEMMA LeavesCount ==
  ASSUME TInv, CountExact, NEW c \in Conns, Leave(c)
  PROVE  CountExact'
<1>1. Connected' = Connected \ {c} /\ c \in Connected
  BY DEF Leave, Connected, Live, TInv, TypeOK
<1>2. Cardinality(Connected') = Cardinality(Connected) - 1
  BY <1>1, ConnectedFinite, FS_RemoveElement
<1> QED BY <1>2, ConnectedFinite DEF Leave, Disconnect, CountExact, TInv, TypeOK

LEMMA StepCounts ==
  ASSUME TInv, CountExact, [Next]_vars
  PROVE  CountExact'
<1> USE DEF Connected, Live
<1>1. ASSUME NEW c \in Conns, Websocket(c) PROVE CountExact'
  <2>1. ASSUME NEW k \in Keys, Register(c, k) PROVE CountExact'
    BY <2>1, SameCount DEF Register, TInv, TypeOK
  <2>2. CASE PrepareFails(c)
    BY <2>2, SameCount DEF PrepareFails, TInv, TypeOK
  <2>3. CASE LeaveEarly(c)
    <3>1. Connected' = Connected
      BY <2>3 DEF LeaveEarly, TInv, TypeOK
    <3> QED BY <2>3, <3>1, Overcounts DEF LeaveEarly
  <2>4. CASE ConnectRestored(c) \/ ConnectBroken(c) \/ ConnectMoved(c) \/ ConnectFresh(c)
    BY <2>4, Joins DEF ConnectRestored, ConnectBroken, ConnectMoved, ConnectFresh
  <2>5. CASE ConnectGone(c)
    BY <2>5 DEF ConnectGone, CountExact
  <2>6. CASE HandsOver(c) \/ NudgeEndsClosed(c) \/ Receive(c)
    BY <2>6, SameCount DEF HandsOver, NudgeEndsClosed, Receive
  <2>7. CASE DisconnectAgain(c)
    BY <2>7, Overcounts DEF DisconnectAgain
  <2> QED BY <1>1, <2>1, <2>2, <2>3, <2>4, <2>5, <2>6, <2>7, LeavesCount DEF Websocket, Connect, NudgeEnds, Subscribe, NudgeTimesOut
<1>2. CASE Publish \/ KernelRestarted \/ KernelDied \/ BeginShutdown \/ KernelRemoved \/ UNCHANGED vars
  BY <1>2, SameCount DEF Publish, KernelRestarted, KernelDied, BeginShutdown, KernelRemoved, vars
<1> QED BY <1>1, <1>2 DEF Next, Cull

(* The connection count is that of the open websockets, less the           *)
(* disconnects that nobody had counted (notify_connect, notify_disconnect).*)
THEOREM CountIsExact == Spec => []CountExact
<1>1. Init => CountExact
  <2> SUFFICES ASSUME Init PROVE CountExact
    OBVIOUS
  <2>1. Connected = {}
    BY DEF Init, Connected, Live
  <2> QED BY <2>1, FS_EmptySet DEF Init, CountExact
<1>2. TInv /\ CountExact /\ [Next]_vars => CountExact'
  BY StepCounts
<1> QED BY <1>1, <1>2, TypesHold, PTL DEF Spec

-----------------------------------------------------------------------------
(* Who has which stream.                                                   *)

(* A stream is there once its connection is, and only streams that are     *)
(* there are held; a nudge is of a connection that was opened.             *)
Unborn == \A c \in Conns : phase[c] \in {"new", "preparing"} => stream[c] = None /\ sock[c].st = "none"
Named == \A c \in Conns : stream[c] # None => sock[stream[c]].st # "none"
Tasked == \A c \in Conns : task[c] # "none" => phase[c] \in {"open", "closed"}

(* An open connection that was nudged has an open stream, that no other    *)
(* open connection has; the buffer is of one that is closed.               *)
Joined == \A c \in Conns : Live(c) /\ task[c] # "none" => IsOpen(stream[c])
Apart ==
  \A c, d \in Conns : Live(c) /\ Live(d) /\ c # d /\ IsOpen(stream[c]) => stream[c] # stream[d]
Kept ==
  buffer # None =>
    /\ phase[buffer] = "closed"
    /\ \A c \in Conns : Live(c) /\ IsOpen(stream[c]) => stream[c] # stream[buffer]

Owned == Unborn /\ Named /\ Tasked /\ Joined /\ Apart /\ Kept

(* Steps that open no stream, close none and hand none over.               *)
Steady == \A s \in Conns : sock'[s].st = sock[s].st

LEMMA SteadyOwned ==
  ASSUME TInv, Owned, Steady, UNCHANGED <<phase, stream>>, buffer' \in {buffer, None},
         \A c \in Conns : task'[c] # "none" => task[c] # "none"
  PROVE  Owned'
<1>1. Unborn /\ Named /\ Tasked /\ Joined /\ Apart /\ Kept
  BY DEF Owned
<1>2. \A c \in Conns : IsOpen(stream[c])' <=> IsOpen(stream[c])
  BY DEF Steady, IsOpen
<1>3. \A c \in Conns : stream[c] # None => stream[c] \in Conns
  BY DEF TInv, TypeOK
<1>4. Unborn' /\ Tasked' /\ Named'
  BY <1>1, <1>3 DEF Unborn, Tasked, Named, Steady
<1>5. Joined'
  BY <1>1, <1>2 DEF Joined, Live
<1>6. Apart'
  BY <1>1, <1>2 DEF Apart, Live
<1>7. Kept'
  BY <1>1, <1>2 DEF Kept, Live
<1> QED BY <1>4, <1>5, <1>6, <1>7 DEF Owned

LEMMA Fields ==
  ASSUME TypeOK
  PROVE  /\ Gone.st = "closed" /\ Gone.to = "off" /\ Gone.of = None /\ Gone.queue = <<>>
         /\ Created.st = "open" /\ Created.to = "off" /\ Created.of = None /\ Created.queue = <<>>
         /\ \A s, to, c : /\ With(s, to, c).st = "open" /\ With(s, to, c).to = to /\ With(s, to, c).of = c
                          /\ With(s, to, c).queue = sock[s].queue
         /\ \A s : AfterOne(s).st = "open" /\ AfterOne(s).queue = Tail(sock[s].queue)
BY DEF Stream, Gone, Created, With, AfterOne

(* disconnect(): which stream is closed, and which one is kept.            *)
LEMMA Disconnects ==
  ASSUME TInv, NEW c \in Conns, Disconnect(c)
  PROVE  \/ /\ buffer' = c /\ UNCHANGED stream
            /\ \A s \in Conns : sock'[s].st =
                 IF s # stream[c] /\ buffer # None /\ s = stream[buffer] /\ IsOpen(s) THEN "closed" ELSE sock[s].st
         \/ /\ UNCHANGED buffer /\ stream' = [stream EXCEPT ![c] = None]
            /\ \A s \in Conns : sock'[s].st = IF s = stream[c] /\ IsOpen(s) THEN "closed" ELSE sock[s].st
<1>0. TypeOK /\ sock \in [Conns -> StreamType]
  BY DEF TInv, TypeOK
<1>1. CASE LastOne
  BY <1>0, <1>1, Fields DEF Disconnect, StartBuffering, IsOpen
<1>2. CASE ~LastOne
  BY <1>0, <1>2, Fields DEF Disconnect, CloseStreams, IsOpen
<1> QED BY <1>1, <1>2

LEMMA DisconnectOwned ==
  ASSUME TInv, Owned, NEW c \in Conns, Disconnect(c), phase[c] \in {"preparing", "open", "closed"},
         phase' = [phase EXCEPT ![c] = "closed"], \A d \in Conns \ {c} : task'[d] = task[d],
         phase[c] = "preparing" => task'[c] = "none", phase[c] = "closed" => ~IsOpen(stream[c])
  PROVE  Owned'
<1>1. Unborn /\ Named /\ Tasked /\ Joined /\ Apart /\ Kept
  BY DEF Owned
<1>2. /\ \A d \in Conns : phase'[d] = IF d = c THEN "closed" ELSE phase[d]
      /\ \A d \in Conns : stream[d] \in Conns \/ stream[d] = None
      /\ None \notin Conns /\ (buffer # None => buffer \in Conns)
  BY DEF TInv, TypeOK
<1>3. \A d \in Conns : IsOpen(stream[d]) <=> stream[d] # None /\ sock[stream[d]].st = "open"
  BY <1>2 DEF IsOpen
<1>4. CASE /\ buffer' = c /\ UNCHANGED stream
           /\ \A s \in Conns : sock'[s].st =
                IF s # stream[c] /\ buffer # None /\ s = stream[buffer] /\ IsOpen(s) THEN "closed" ELSE sock[s].st
  <2>1. Unborn' /\ Tasked' /\ Named'
    BY <1>1, <1>2, <1>4 DEF Unborn, Tasked, Named, IsOpen
  <2>2. \A d \in Conns : IsOpen(stream[d])' => IsOpen(stream[d])
    BY <1>4 DEF IsOpen
  <2>3. \A d \in Conns : phase[d] = "open" /\ IsOpen(stream[d]) => IsOpen(stream[d])'
    BY <1>1, <1>4 DEF Kept, Live, IsOpen
  <2>4. Joined'
    BY <1>1, <1>2, <1>4, <2>3 DEF Joined, Live
  <2>5. Apart'
    BY <1>1, <1>2, <1>4, <2>2 DEF Apart, Live
  <2>6. Kept'
    <3>1. phase'[c] = "closed"
      BY <1>2
    <3>2. ASSUME NEW d \in Conns, phase'[d] = "open", IsOpen(stream[d])' PROVE stream[d] # stream[c]
      <4>1. d # c /\ phase[d] = "open" /\ IsOpen(stream[d]) /\ stream[d] \in Conns
        BY <1>2, <2>2, <3>2 DEF IsOpen
      <4>2. CASE phase[c] = "open"
        BY <1>1, <4>1, <4>2 DEF Apart, Live
      <4>3. CASE phase[c] = "preparing"
        BY <1>1, <1>2, <4>1, <4>3 DEF Unborn
      <4>4. CASE phase[c] = "closed"
        BY <4>1, <4>4
      <4> QED BY <4>1, <4>2, <4>3, <4>4
    <3> QED BY <1>4, <3>1, <3>2 DEF Kept, Live
  <2> QED BY <2>1, <2>4, <2>5, <2>6 DEF Owned
<1>5. CASE /\ UNCHANGED buffer /\ stream' = [stream EXCEPT ![c] = None]
           /\ \A s \in Conns : sock'[s].st = IF s = stream[c] /\ IsOpen(s) THEN "closed" ELSE sock[s].st
  <2>0. \A d \in Conns : stream'[d] = IF d = c THEN None ELSE stream[d]
    BY <1>5 DEF TInv, TypeOK
  <2>1. Unborn' /\ Tasked' /\ Named'
    BY <1>1, <1>2, <1>5, <2>0 DEF Unborn, Tasked, Named, IsOpen
  <2>2. \A d \in Conns : IsOpen(stream[d])' => IsOpen(stream[d]) /\ d # c
    BY <1>2, <1>5, <2>0 DEF IsOpen
  <2>3. \A d \in Conns \ {c} : phase[d] = "open" /\ IsOpen(stream[d]) => IsOpen(stream[d])'
    <3> SUFFICES ASSUME NEW d \in Conns \ {c}, phase[d] = "open", IsOpen(stream[d]) PROVE IsOpen(stream[d])'
      OBVIOUS
    <3>1. IsOpen(stream[c]) => stream[c] # stream[d]
      <4>1. CASE phase[c] = "open"
        BY <1>1, <4>1 DEF Apart, Live
      <4>2. CASE phase[c] = "preparing"
        BY <1>1, <1>2, <4>2 DEF Unborn, IsOpen
      <4> QED BY <4>1, <4>2
    <3> QED BY <1>5, <2>0, <3>1 DEF IsOpen
  <2>4. Joined'
    BY <1>1, <1>2, <2>3 DEF Joined, Live
  <2>5. Apart'
    BY <1>1, <1>2, <2>0, <2>2 DEF Apart, Live
  <2>6. Kept'
    BY <1>1, <1>2, <1>5, <2>0, <2>2 DEF Kept, Live
  <2> QED BY <2>1, <2>4, <2>5, <2>6 DEF Owned
<1> QED BY <1>4, <1>5, Disconnects

(* A connection is opened: with a stream of its own, with that of the      *)
(* buffer, or with none.                                                   *)
LEMMA OpenedOwned ==
  ASSUME TInv, Owned, NEW c \in Conns, phase[c] = "preparing", phase' = [phase EXCEPT ![c] = "open"],
         stream' = [stream EXCEPT ![c] = c], buffer' = None, \A d \in Conns \ {c} : task'[d] = task[d],
         sock'[c].st = "open",
         \A s \in Conns \ {c} :
           \/ sock'[s].st = sock[s].st
           \/ sock'[s].st = "closed" /\ buffer # None /\ s = stream[buffer] /\ IsOpen(s)
  PROVE  Owned'
<1>1. Unborn /\ Named /\ Tasked /\ Joined /\ Apart /\ Kept
  BY DEF Owned
<1>2. /\ \A d \in Conns : phase'[d] = IF d = c THEN "open" ELSE phase[d]
      /\ \A d \in Conns : stream'[d] = IF d = c THEN c ELSE stream[d]
      /\ \A d \in Conns : stream[d] \in Conns \/ stream[d] = None
      /\ None \notin Conns /\ c # None
  BY DEF TInv, TypeOK
<1>3. sock[c].st = "none" /\ \A d \in Conns : stream[d] # c
  BY <1>1, <1>2 DEF Named, Unborn
<1>4. Unborn' /\ Tasked' /\ Named'
  BY <1>1, <1>2, <1>3 DEF Unborn, Tasked, Named, IsOpen
<1>5. \A d \in Conns \ {c} : phase[d] = "open" /\ IsOpen(stream[d]) => IsOpen(stream[d])'
  BY <1>1, <1>2, <1>3 DEF Kept, Live, IsOpen
<1>6. \A d \in Conns \ {c} : IsOpen(stream[d])' => IsOpen(stream[d])
  BY <1>2, <1>3 DEF IsOpen
<1>7. IsOpen(stream[c])'
  BY <1>2 DEF IsOpen
<1>8. Joined'
  BY <1>1, <1>2, <1>5, <1>7 DEF Joined, Live
<1>9. Apart'
  BY <1>1, <1>2, <1>3, <1>6 DEF Apart, Live
<1>10. Kept'
  BY DEF Kept
<1> QED BY <1>4, <1>8, <1>9, <1>10 DEF Owned

LEMMA OpenedSteady ==
  ASSUME TInv, Owned, NEW c \in Conns, phase[c] = "preparing", phase' = [phase EXCEPT ![c] = "open"],
         buffer' \in {buffer, None}, \A d \in Conns \ {c} : task'[d] = task[d], Steady,
         \/ UNCHANGED stream /\ task'[c] = task[c]
         \/ /\ buffer # None /\ buffer' = None /\ stream' = [stream EXCEPT ![c] = stream[buffer]]
            /\ task'[c] = task[c] \/ IsOpen(stream[buffer])
  PROVE  Owned'
<1>1. Unborn /\ Named /\ Tasked /\ Joined /\ Apart /\ Kept
  BY DEF Owned
<1>2. /\ \A d \in Conns : phase'[d] = IF d = c THEN "open" ELSE phase[d]
      /\ \A d \in Conns : stream[d] \in Conns \/ stream[d] = None
      /\ None \notin Conns /\ c # None /\ (buffer # None => buffer \in Conns)
  BY DEF TInv, TypeOK
<1>3. task[c] = "none" /\ stream[c] = None
  BY <1>1, <1>2 DEF TInv, TypeOK, Tasked, Unborn
<1>4. \A s : IsOpen(s)' <=> IsOpen(s)
  BY DEF Steady, IsOpen
<1>5. CASE UNCHANGED stream /\ task'[c] = task[c]
  <2>1. Unborn' /\ Tasked' /\ Named'
    BY <1>1, <1>2, <1>3, <1>5 DEF Unborn, Tasked, Named, Steady
  <2>2. \A d \in Conns : IsOpen(stream[d])' <=> IsOpen(stream[d])
    BY <1>5 DEF Steady, IsOpen
  <2>3. Joined'
    BY <1>1, <1>2, <1>3, <1>5, <2>2 DEF Joined, Live
  <2>4. ~IsOpen(stream[c])
    BY <1>2, <1>3 DEF IsOpen
  <2>5. Apart'
    BY <1>1, <1>2, <1>3, <1>5, <2>2, <2>4 DEF Apart, Live, IsOpen
  <2>6. Kept'
    BY <1>1, <1>2, <1>3, <1>5, <2>2, <2>4 DEF Kept, Live
  <2> QED BY <2>1, <2>3, <2>5, <2>6 DEF Owned
<1>6. CASE /\ buffer # None /\ buffer' = None /\ stream' = [stream EXCEPT ![c] = stream[buffer]]
           /\ task'[c] = task[c] \/ IsOpen(stream[buffer])
  <2>0. \A d \in Conns : stream'[d] = IF d = c THEN stream[buffer] ELSE stream[d]
    BY <1>6 DEF TInv, TypeOK
  <2>1. Unborn' /\ Tasked' /\ Named'
    BY <1>1, <1>2, <1>3, <1>6, <2>0 DEF Unborn, Tasked, Named, Steady
  <2>2. \A d \in Conns : IsOpen(stream[d])' <=> IsOpen(IF d = c THEN stream[buffer] ELSE stream[d])
    BY <2>0 DEF Steady, IsOpen
  <2>3. Joined'
    BY <1>1, <1>2, <1>3, <1>6, <2>2 DEF Joined, Live
  <2>4. Apart'
    BY <1>1, <1>2, <1>6, <2>0, <2>2 DEF Apart, Kept, Live
  <2>5. Kept'
    BY <1>6 DEF Kept
  <2> QED BY <2>1, <2>3, <2>4, <2>5 DEF Owned
<1> QED BY <1>5, <1>6

LEMMA ConnectOwned ==
  ASSUME TInv, Owned, NEW c \in Conns, Connect(c)
  PROVE  Owned'
<1>0. TypeOK /\ sock \in [Conns -> StreamType] /\ task \in [Conns -> {"none", "nudge", "done"}] /\ Unborn
      /\ stream \in [Conns -> Conns \cup {None}]
  BY DEF TInv, TypeOK, Owned
<1>1. CASE ConnectRestored(c)
  <2>1. sock[stream[buffer]].st = "open" /\ stream[buffer] \in Conns
    BY <1>1 DEF ConnectRestored, IsOpen
  <2>2. Steady
    BY <1>0, <1>1, <2>1, StreamFields DEF ConnectRestored, Nudged, Steady
  <2> QED BY <1>0, <1>1, <2>2, OpenedSteady DEF ConnectRestored, Counted, Matching
<1>2. CASE ConnectBroken(c)
  BY <1>0, <1>2, OpenedSteady DEF ConnectBroken, Counted, Matching, Steady
<1>3. CASE ConnectMoved(c)
  <2>1. \A s \in Conns : sock'[s].st = IF s = c THEN "open" ELSE sock[s].st
    BY <1>0, <1>3, Fields, StreamFields DEF ConnectMoved, Nudged
  <2> QED BY <1>0, <1>3, <2>1, OpenedOwned DEF ConnectMoved, Counted
<1>4. CASE ConnectFresh(c)
  <2>1. /\ sock'[c].st = "open"
        /\ \A s \in Conns \ {c} : sock'[s].st =
             IF buffer # None /\ s = stream[buffer] /\ IsOpen(s) THEN "closed" ELSE sock[s].st
    BY <1>0, <1>4, Fields, StreamFields DEF ConnectFresh
  <2> QED BY <1>0, <1>4, <2>1, OpenedOwned DEF ConnectFresh, Counted
<1>5. CASE ConnectGone(c) /\ buffer = None
  <2>1. /\ sock'[c].st = "open" /\ \A s \in Conns \ {c} : sock'[s].st = sock[s].st
    BY <1>0, <1>5, Fields DEF ConnectGone
  <2> QED BY <1>0, <1>5, <2>1, OpenedOwned DEF ConnectGone
<1>6. CASE ConnectGone(c) /\ buffer # None
  BY <1>0, <1>6, OpenedSteady DEF ConnectGone, Steady
<1> QED BY <1>1, <1>2, <1>3, <1>4, <1>5, <1>6 DEF Connect

(* A connection that is disconnected again is not open any more.           *)
LEMMA DanglingClosed ==
  ASSUME TInv, Owned, NEW c \in Conns, Dangling(c)
  PROVE  phase[c] = "closed"
BY DEF Dangling, Owned, Tasked, Joined, Live, TInv, TypeOK

LEMMA Untouched ==
  ASSUME Owned, UNCHANGED <<stream, task, sock, buffer>>,
         \A d \in Conns :
           \/ phase'[d] = phase[d]
           \/ phase[d] \in {"new", "preparing"} /\ phase'[d] \in {"preparing", "failed"},
         buffer # None => buffer \in Conns
  PROVE  Owned'
<1>1. Unborn /\ Named /\ Tasked /\ Joined /\ Apart /\ Kept
  BY DEF Owned
<1>2. \A d \in Conns : (Live(d)' <=> Live(d)) /\ (IsOpen(stream[d])' <=> IsOpen(stream[d]))
  BY DEF Live, IsOpen
<1>3. Unborn' /\ Named' /\ Tasked'
  BY <1>1 DEF Unborn, Named, Tasked
<1>4. Joined' /\ Kept'
  BY <1>1, <1>2 DEF Joined, Kept
<1>5. Apart'
  BY <1>1, <1>2 DEF Apart
<1> QED BY <1>3, <1>4, <1>5 DEF Owned

LEMMA StepOwned ==
  ASSUME TInv, Owned, [Next]_vars
  PROVE  Owned'
<1>0. /\ TypeOK /\ sock \in [Conns -> StreamType] /\ task \in [Conns -> {"none", "nudge", "done"}]
      /\ phase \in [Conns -> {"new", "preparing", "open", "closed", "failed"}]
  BY DEF TInv, TypeOK
<1>1. ASSUME NEW c \in Conns, Websocket(c) PROVE Owned'
  <2>1. CASE (\E k \in Keys : Register(c, k)) \/ PrepareFails(c)
    <3>1. /\ UNCHANGED <<stream, task, sock, buffer>>
          /\ \A d \in Conns :
               \/ phase'[d] = phase[d]
               \/ phase[d] \in {"new", "preparing"} /\ phase'[d] \in {"preparing", "failed"}
      BY <1>0, <2>1 DEF Register, PrepareFails
    <3>2. buffer # None => buffer \in Conns
      BY DEF TInv, TypeOK
    <3> QED BY <3>1, <3>2, Untouched
  <2>2. CASE LeaveEarly(c)
    <3>1. task[c] = "none"
      BY <1>0, <2>2 DEF LeaveEarly, Owned, Tasked
    <3> QED BY <1>0, <2>2, <3>1, DisconnectOwned DEF LeaveEarly
  <2>3. CASE Leave(c)
    BY <1>0, <2>3, DisconnectOwned DEF Leave, Live
  <2>4. CASE HandsOver(c)
    <3>1. Steady
      BY <1>0, <2>4, Fields DEF HandsOver, Steady, IsOpen
    <3> QED BY <1>0, <2>4, <3>1, SteadyOwned DEF HandsOver
  <2>5. CASE NudgeEndsClosed(c)
    BY <1>0, <2>5, SteadyOwned DEF NudgeEndsClosed, Steady, Dangling
  <2>6. CASE DisconnectAgain(c)
    <3>1. phase[c] = "closed"
      BY <2>6, DanglingClosed DEF DisconnectAgain
    <3>2. phase' = [phase EXCEPT ![c] = "closed"]
      BY <1>0, <2>6, <3>1 DEF DisconnectAgain
    <3>3. ~IsOpen(stream[c]) /\ Disconnect(c) /\ \A d \in Conns \ {c} : task'[d] = task[d]
      BY <1>0, <2>6 DEF DisconnectAgain, Dangling
    <3> QED BY <3>1, <3>2, <3>3, DisconnectOwned
  <2>7. CASE Receive(c)
    <3>1. Steady
      BY <1>0, <2>7, Fields DEF Receive, Steady, IsOpen
    <3> QED BY <2>7, <3>1, SteadyOwned DEF Receive
  <2> QED BY <1>1, <2>1, <2>2, <2>3, <2>4, <2>5, <2>6, <2>7, ConnectOwned DEF Websocket, NudgeEnds, Subscribe, NudgeTimesOut
<1>2. CASE Publish
  <2>1. Steady
    BY <1>0, <1>2, StreamFields DEF Publish, Steady, IsOpen
  <2> QED BY <1>2, <2>1, SteadyOwned DEF Publish
<1>3. CASE KernelRestarted \/ KernelDied
  <2>1. \A s \in Conns : AfterFlush(s).st = sock[s].st
    BY <1>0, Fields, StreamFields DEF AfterFlush, Flushing, IsOpen
  <2>2. Steady
    BY <1>3, <2>1 DEF KernelRestarted, KernelDied, SendStatus, Steady
  <2> QED BY <1>3, <2>2, SteadyOwned DEF KernelRestarted, KernelDied
<1>4. CASE BeginShutdown
  <2>1. /\ UNCHANGED <<phase, stream, task>> /\ buffer' = None
        /\ \A s \in Conns : sock'[s].st =
             IF buffer # None /\ s = stream[buffer] /\ IsOpen(s) THEN "closed" ELSE sock[s].st
    BY <1>0, <1>4, Fields DEF BeginShutdown, StopBuffering, IsOpen
  <2>2. Unborn /\ Named /\ Tasked /\ Joined /\ Apart /\ Kept
    BY DEF Owned
  <2>3. \A d \in Conns : stream[d] \in Conns \/ stream[d] = None
    BY DEF TInv, TypeOK
  <2>4. Unborn' /\ Tasked' /\ Named'
    BY <2>1, <2>2, <2>3 DEF Unborn, Tasked, Named, IsOpen
  <2>5. \A d \in Conns : Live(d) => (IsOpen(stream[d])' <=> IsOpen(stream[d]))
    BY <2>1, <2>2 DEF Kept, IsOpen
  <2>6. Joined'
    BY <2>1, <2>2, <2>5 DEF Joined, Live
  <2>7. Apart'
    BY <2>1, <2>2, <2>5 DEF Apart, Live
  <2>8. Kept'
    BY <2>1 DEF Kept
  <2> QED BY <2>4, <2>6, <2>7, <2>8 DEF Owned
<1>5. CASE KernelRemoved \/ UNCHANGED vars
  BY <1>5, SteadyOwned DEF KernelRemoved, Steady, vars
<1> QED BY <1>1, <1>2, <1>3, <1>4, <1>5 DEF Next, Cull

LEMMA InitOwned == Init => Owned
<1>1. NoStream.st = "none"
  BY DEF NoStream, Stream
<1> QED BY <1>1 DEF Init, Owned, Unborn, Named, Tasked, Joined, Apart, Kept, Live, IsOpen

(* An open connection that was nudged has an open stream, which it shares  *)
(* with no other open connection and not with the buffer, and the buffer   *)
(* is of a connection that has closed (channels.py connect, disconnect,    *)
(* kernelmanager.py start_buffering).                                      *)
THEOREM StreamsOwned == Spec => []Owned
<1>1. TInv /\ Owned /\ [Next]_vars => Owned'
  BY StepOwned
<1> QED BY <1>1, InitOwned, TypesHold, PTL DEF Spec

-----------------------------------------------------------------------------
(* No stream is left behind.                                               *)
Captured == ports = 0 => captured = 0
LInv == Captured /\ NoStreamLeaks

LEMMA SteadyLeaks ==
  ASSUME LInv, Steady, UNCHANGED <<stream, buffer, captured>>, ports' = 0 => ports = 0,
         kernel' # "gone" => kernel # "gone", \A c \in Conns : Live(c) => Live(c)'
  PROVE  LInv'
<1>1. Captured'
  BY DEF LInv, Captured
<1>2. NoStreamLeaks'
  <2> SUFFICES ASSUME ports' = 0, kernel' # "gone", NEW s \in Conns, IsOpen(s)'
               PROVE  \/ \E c \in Conns : Live(c)' /\ stream[c] = s
                      \/ buffer # None /\ stream[buffer] = s
    BY DEF NoStreamLeaks
  <2>1. IsOpen(s)
    BY DEF Steady, IsOpen
  <2> QED BY <2>1 DEF LInv, NoStreamLeaks
<1> QED BY <1>1, <1>2 DEF LInv

LEMMA DisconnectLeaks ==
  ASSUME TInv, LInv, NEW c \in Conns, Disconnect(c), phase' = [phase EXCEPT ![c] = "closed"],
         UNCHANGED <<kernel, ports, captured>>
  PROVE  LInv'
<1>1. Captured'
  BY DEF LInv, Captured
<1>2. /\ \A d \in Conns \ {c} : Live(d) => Live(d)'
      /\ None \notin Conns /\ (buffer # None => buffer \in Conns)
  BY DEF TInv, TypeOK, Live
<1>3. NoStreamLeaks'
  <2> SUFFICES ASSUME ports = 0, kernel # "gone", NEW s \in Conns, IsOpen(s)'
               PROVE  \/ \E d \in Conns : Live(d)' /\ stream'[d] = s
                      \/ buffer' # None /\ stream'[buffer'] = s
    BY DEF NoStreamLeaks
  <2>1. IsOpen(s) => \/ \E d \in Conns : Live(d) /\ stream[d] = s
                     \/ buffer # None /\ stream[buffer] = s
    BY DEF LInv, NoStreamLeaks
  <2>2. CASE /\ buffer' = c /\ UNCHANGED stream
             /\ \A r \in Conns : sock'[r].st =
                  IF r # stream[c] /\ buffer # None /\ r = stream[buffer] /\ IsOpen(r) THEN "closed" ELSE sock[r].st
    <3>1. IsOpen(s) /\ (s = stream[c] \/ buffer = None \/ s # stream[buffer])
      BY <2>2 DEF IsOpen
    <3> QED BY <1>2, <2>1, <2>2, <3>1
  <2>3. CASE /\ UNCHANGED buffer /\ stream' = [stream EXCEPT ![c] = None]
             /\ \A r \in Conns : sock'[r].st = IF r = stream[c] /\ IsOpen(r) THEN "closed" ELSE sock[r].st
    <3>1. IsOpen(s) /\ s # stream[c]
      BY <2>3 DEF IsOpen
    <3>2. \A d \in Conns \ {c} : stream'[d] = stream[d]
      BY <2>3 DEF TInv, TypeOK
    <3> QED BY <1>2, <2>1, <2>3, <3>1, <3>2
  <2> QED BY <2>2, <2>3, Disconnects
<1> QED BY <1>1, <1>3 DEF LInv

(* A connection takes the place of the buffer.                             *)
LEMMA OpenedLeaks ==
  ASSUME TInv, LInv, Unborn, NEW c \in Conns, phase[c] = "preparing", phase' = [phase EXCEPT ![c] = "open"],
         UNCHANGED <<kernel, ports, captured>>, \A d \in Conns \ {c} : stream'[d] = stream[d],
         \A s \in Conns : IsOpen(s)' =>
           s = stream'[c] \/ (IsOpen(s) /\ (buffer = None \/ s # stream[buffer]))
  PROVE  LInv'
<1>1. Captured'
  BY DEF LInv, Captured
<1>2. /\ \A d \in Conns \ {c} : Live(d) => Live(d)'
      /\ Live(c)' /\ ~Live(c)
  BY DEF TInv, TypeOK, Live
<1>3. NoStreamLeaks'
  <2> SUFFICES ASSUME ports = 0, kernel # "gone", NEW s \in Conns, IsOpen(s)'
               PROVE  \E d \in Conns : Live(d)' /\ stream'[d] = s
    BY DEF NoStreamLeaks
  <2>1. CASE s = stream'[c]
    BY <1>2, <2>1
  <2>2. CASE IsOpen(s) /\ (buffer = None \/ s # stream[buffer])
    <3>1. PICK d \in Conns : Live(d) /\ stream[d] = s
      BY <2>2 DEF LInv, NoStreamLeaks
    <3> QED BY <1>2, <3>1
  <2> QED BY <2>1, <2>2
<1> QED BY <1>1, <1>3 DEF LInv

LEMMA StepLeaks ==
  ASSUME TInv, Owned, LInv, [Next]_vars
  PROVE  LInv'
<1>0. /\ TypeOK /\ sock \in [Conns -> StreamType] /\ stream \in [Conns -> Conns \cup {None}]
      /\ phase \in [Conns -> {"new", "preparing", "open", "closed", "failed"}] /\ ports \in Nat
      /\ Unborn
  BY DEF TInv, TypeOK, Owned
<1>1. ASSUME NEW c \in Conns, Websocket(c) PROVE LInv'
  <2>1. CASE (\E k \in Keys : Register(c, k)) \/ PrepareFails(c)
    <3>1. \A d \in Conns : Live(d) => Live(d)'
      BY <1>0, <2>1 DEF Register, PrepareFails, Live
    <3>2. UNCHANGED <<sock, stream, buffer, captured, ports, kernel>>
      BY <2>1 DEF Register, PrepareFails
    <3> QED BY <3>1, <3>2, SteadyLeaks DEF Steady
  <2>2. CASE LeaveEarly(c) \/ Leave(c)
    BY <2>2, DisconnectLeaks DEF LeaveEarly, Leave
  <2>3. CASE DisconnectAgain(c)
    <3>1. phase' = [phase EXCEPT ![c] = "closed"]
      BY <1>0, <2>3, DanglingClosed DEF DisconnectAgain
    <3> QED BY <2>3, <3>1, DisconnectLeaks DEF DisconnectAgain
  <2>4. CASE HandsOver(c)
    <3>1. Steady
      BY <1>0, <2>4, Fields DEF HandsOver, Steady, IsOpen
    <3> QED BY <2>4, <3>1, SteadyLeaks DEF HandsOver, Live
  <2>5. CASE NudgeEndsClosed(c)
    BY <2>5, SteadyLeaks DEF NudgeEndsClosed, Steady, Live
  <2>6. CASE Receive(c)
    <3>1. Steady
      BY <1>0, <2>6, Fields DEF Receive, Steady, IsOpen
    <3> QED BY <2>6, <3>1, SteadyLeaks DEF Receive, Live
  <2>7. CASE ConnectRestored(c)
    <3>1. sock[stream[buffer]].st = "open" /\ stream[buffer] \in Conns
      BY <2>7 DEF ConnectRestored, IsOpen
    <3>2. Steady
      BY <1>0, <2>7, <3>1, StreamFields DEF ConnectRestored, Nudged, Steady
    <3>3. /\ phase[c] = "preparing" /\ phase' = [phase EXCEPT ![c] = "open"]
          /\ UNCHANGED <<kernel, ports, captured>> /\ stream' = [stream EXCEPT ![c] = stream[buffer]]
      BY <2>7 DEF ConnectRestored, Counted
    <3>4. stream'[c] = stream[buffer] /\ \A d \in Conns \ {c} : stream'[d] = stream[d]
      BY <1>0, <3>3
    <3>5. \A s \in Conns : IsOpen(s)' => IsOpen(s)
      BY <3>2 DEF Steady, IsOpen
    <3> QED BY <1>0, <3>3, <3>4, <3>5, OpenedLeaks
  <2>8. CASE ConnectBroken(c)
    <3>1. /\ phase[c] = "preparing" /\ phase' = [phase EXCEPT ![c] = "open"]
          /\ UNCHANGED <<kernel, ports, captured, sock>>
          /\ buffer # None /\ ~IsOpen(stream[buffer])
          /\ \A d \in Conns \ {c} : stream'[d] = stream[d]
      BY <1>0, <2>8 DEF ConnectBroken, Counted, Matching, Unclosable
    <3>2. \A s \in Conns : IsOpen(s)' => IsOpen(s)
      BY <3>1 DEF IsOpen
    <3> QED BY <1>0, <3>1, <3>2, OpenedLeaks
  <2>9. CASE ConnectMoved(c)
    BY <2>9 DEF ConnectMoved, Counted, LInv, Captured, NoStreamLeaks
  <2>10. CASE ConnectFresh(c)
    <3>1. \A s \in Conns \ {c} : sock'[s].st =
            IF buffer # None /\ s = stream[buffer] /\ IsOpen(s) THEN "closed" ELSE sock[s].st
      BY <1>0, <2>10, Fields, StreamFields DEF ConnectFresh
    <3>2. /\ phase[c] = "preparing" /\ phase' = [phase EXCEPT ![c] = "open"]
          /\ UNCHANGED <<kernel, ports, captured>> /\ stream'[c] = c
          /\ \A d \in Conns \ {c} : stream'[d] = stream[d]
      BY <1>0, <2>10 DEF ConnectFresh, Counted
    <3>3. \A s \in Conns : IsOpen(s)' => s = c \/ (IsOpen(s) /\ (buffer = None \/ s # stream[buffer]))
      BY <3>1 DEF IsOpen
    <3> QED BY <1>0, <3>2, <3>3, OpenedLeaks
  <2>11. CASE ConnectGone(c)
    BY <2>11 DEF ConnectGone, LInv, Captured, NoStreamLeaks
  <2> QED BY <1>1, <2>1, <2>2, <2>3, <2>4, <2>5, <2>6, <2>7, <2>8, <2>9, <2>10, <2>11 DEF Websocket, Connect, NudgeEnds, Subscribe, NudgeTimesOut
<1>2. CASE Publish
  <2>1. Steady
    BY <1>0, <1>2, StreamFields DEF Publish, Steady, IsOpen
  <2> QED BY <1>2, <2>1, SteadyLeaks DEF Publish, Live
<1>3. CASE KernelRestarted \/ KernelDied
  <2>1. \A s \in Conns : AfterFlush(s).st = sock[s].st
    BY <1>0, Fields, StreamFields DEF AfterFlush, Flushing, IsOpen
  <2>2. Steady
    BY <1>3, <2>1 DEF KernelRestarted, KernelDied, SendStatus, Steady
  <2>3. /\ UNCHANGED <<stream, buffer, captured, phase>> /\ (ports' = 0 => ports = 0)
        /\ kernel # "gone"
    BY <1>0, <1>3 DEF KernelRestarted, KernelDied
  <2> QED BY <2>2, <2>3, SteadyLeaks DEF Live
<1>4. CASE BeginShutdown
  <2>1. \A s \in Conns : IsOpen(s)' => IsOpen(s) /\ (buffer = None \/ s # stream[buffer])
    BY <1>0, <1>4, Fields DEF BeginShutdown, StopBuffering, IsOpen
  <2>2. UNCHANGED <<stream, ports, captured, phase>> /\ kernel # "gone"
    BY <1>4 DEF BeginShutdown
  <2> QED BY <2>1, <2>2 DEF LInv, Captured, NoStreamLeaks, Live
<1>5. CASE KernelRemoved \/ UNCHANGED vars
  BY <1>5, SteadyLeaks DEF KernelRemoved, Steady, vars, Live
<1> QED BY <1>1, <1>2, <1>3, <1>4, <1>5 DEF Next, Cull

(* While the kernel keeps its ports, every open stream is held by an open  *)
(* connection or by the buffer (disconnect, stop_buffering).               *)
THEOREM StreamsAreHeld == Spec => []NoStreamLeaks
<1>1. Init => LInv
  <2>1. NoStream.st = "none"
    BY DEF NoStream, Stream
  <2> QED BY <2>1 DEF Init, LInv, Captured, NoStreamLeaks, IsOpen
<1>2. TInv /\ Owned /\ LInv /\ [Next]_vars => LInv'
  BY StepLeaks
<1>3. LInv => NoStreamLeaks
  BY DEF LInv
<1> QED BY <1>1, <1>2, <1>3, TypesHold, StreamsOwned, PTL DEF Spec

-----------------------------------------------------------------------------
(* The registry of sessions: an open connection that was not told to close *)
(* is the one of its session.                                              *)
Registered ==
  \A c \in Conns : phase[c] \in {"preparing", "open"} /\ told[c] = "no" => registry[key[c]] = c

LEMMA SameRegistry ==
  ASSUME Registered, UNCHANGED <<registry, key>>,
         \A d \in Conns : /\ phase'[d] \in {"preparing", "open"} => phase[d] \in {"preparing", "open"}
                          /\ told'[d] \in {told[d], "closed"}
  PROVE  Registered'
BY DEF Registered

LEMMA DisconnectRegistry ==
  ASSUME TInv, Registered, NEW c \in Conns, Disconnect(c), phase' = [phase EXCEPT ![c] = "closed"],
         phase[c] # "new", UNCHANGED key, \A d \in Conns \ {c} : told'[d] = told[d]
  PROVE  Registered'
<1>1. ASSUME NEW d \in Conns, phase'[d] \in {"preparing", "open"}, told'[d] = "no" PROVE registry'[key[d]] = d
  <2>1. d # c /\ phase[d] \in {"preparing", "open"} /\ told[d] = "no"
    BY <1>1 DEF TInv, TypeOK
  <2>2. registry[key[d]] = d /\ key[d] \in Keys
    BY <2>1 DEF Registered, TInv, Keyed
  <2>3. registry' = Unregistered(c)
    BY DEF Disconnect
  <2> QED BY <2>1, <2>2, <2>3 DEF Unregistered
<1> QED BY <1>1 DEF Registered

LEMMA StepRegistered ==
  ASSUME TInv, Owned, Registered, [Next]_vars
  PROVE  Registered'
<1>0. /\ told \in [Conns -> {"no", "missed", "closed"}]
      /\ phase \in [Conns -> {"new", "preparing", "open", "closed", "failed"}]
  BY DEF TInv, TypeOK
<1>1. ASSUME NEW c \in Conns, Websocket(c) PROVE Registered'
  <2>1. ASSUME NEW k \in Keys, Register(c, k) PROVE Registered'
    <3>1. /\ phase' = [phase EXCEPT ![c] = "preparing"] /\ key' = [key EXCEPT ![c] = k]
          /\ registry' = [registry EXCEPT ![k] = c]
      BY <2>1 DEF Register
    <3>2. /\ key'[c] = k /\ registry'[k] = c
          /\ \A d \in Conns \ {c} : key'[d] = key[d] /\ phase'[d] = phase[d]
          /\ \A j \in Keys \ {k} : registry'[j] = registry[j]
      BY <3>1 DEF TInv, TypeOK
    <3>3. ASSUME NEW d \in Conns \ {c}, phase[d] \in {"preparing", "open"}, told'[d] = "no"
          PROVE registry'[key[d]] = d
      <4>1. registry[k] # d /\ told[d] = "no"
        BY <1>0, <2>1, <3>3 DEF Register, CloseStale, Stale, TInv, TypeOK
      <4>2. registry[key[d]] = d /\ key[d] \in Keys
        BY <3>3, <4>1 DEF Registered, TInv, Keyed
      <4> QED BY <3>2, <4>1, <4>2
    <3> QED BY <3>2, <3>3 DEF Registered
  <2>2. CASE PrepareFails(c)
    BY <1>0, <2>2, SameRegistry DEF PrepareFails
  <2>3. CASE LeaveEarly(c) \/ Leave(c)
    BY <1>0, <2>3, DisconnectRegistry DEF LeaveEarly, Leave, Live
  <2>4. CASE DisconnectAgain(c)
    <3>1. phase[c] = "closed"
      BY <2>4, DanglingClosed DEF DisconnectAgain
    <3>2. phase' = [phase EXCEPT ![c] = "closed"]
      BY <1>0, <2>4, <3>1 DEF DisconnectAgain
    <3> QED BY <2>4, <3>1, <3>2, DisconnectRegistry DEF DisconnectAgain
  <2>5. CASE NudgeEndsClosed(c) \/ Receive(c)
    BY <2>5, SameRegistry DEF NudgeEndsClosed, Receive
  <2>7. CASE Subscribe(c) \/ NudgeTimesOut(c)
    <3>1. UNCHANGED <<registry, key, phase>>
      BY <2>7 DEF Subscribe, NudgeTimesOut, HandsOver
    <3>2. \A d \in Conns : told'[d] \in {told[d], "closed"}
      BY <1>0, <2>7, TellsAtMost
    <3> QED BY <1>0, <3>1, <3>2, SameRegistry
  <2>6. CASE Connect(c)
    <3>1. UNCHANGED <<registry, key>>
      BY <2>6 DEF Connect, ConnectRestored, ConnectBroken, ConnectMoved, ConnectFresh, ConnectGone, Counted
    <3>2. phase[c] = "preparing" /\ phase' = [phase EXCEPT ![c] = "open"]
      BY <2>6 DEF Connect, ConnectRestored, ConnectBroken, ConnectMoved, ConnectFresh, ConnectGone, Counted
    <3>3. told' = told \/ told' = [told EXCEPT ![c] = "closed"]
      BY <2>6 DEF Connect, ConnectRestored, ConnectBroken, ConnectMoved, ConnectFresh, ConnectGone
    <3> QED BY <1>0, <3>1, <3>2, <3>3, SameRegistry
  <2> QED BY <1>1, <2>1, <2>2, <2>3, <2>4, <2>5, <2>6, <2>7 DEF Websocket, NudgeEnds
<1>2. CASE Publish \/ KernelRestarted \/ KernelDied \/ BeginShutdown \/ KernelRemoved \/ UNCHANGED vars
  BY <1>2, SameRegistry DEF Publish, KernelRestarted, KernelDied, BeginShutdown, KernelRemoved, vars
<1> QED BY <1>1, <1>2 DEF Next, Cull

(* Of the open connections of one session, all but one were told to close, *)
(* or missed it (channels.py _register_session).                           *)
THEOREM SessionsHaveOneSocket == Spec => []OneSocketPerSession
<1>1. Init => Registered
  BY DEF Init, Registered
<1>2. TInv /\ Owned /\ Registered /\ [Next]_vars => Registered'
  BY StepRegistered
<1>3. Registered => OneSocketPerSession
  BY DEF Registered, OneSocketPerSession, Live
<1> QED BY <1>1, <1>2, <1>3, TypesHold, StreamsOwned, PTL DEF Spec

-----------------------------------------------------------------------------
(* Sessions: what is published after x, and how lists of messages keep to  *)
(* it.                                                                     *)
Fresh(x, q) == \A i \in 1 .. Len(q) : q[i].kind = "output" => x # None /\ q[i].n > x

LEMMA FreshEmpty == \A x : Fresh(x, <<>>)
BY DEF Fresh

LEMMA FreshCat ==
  ASSUME NEW q \in Messages, NEW r \in Messages, NEW x, Fresh(x, q), Fresh(x, r)
  PROVE  Fresh(x, q \o r)
<1> SUFFICES ASSUME NEW i \in 1 .. Len(q \o r), (q \o r)[i].kind = "output"
             PROVE  x # None /\ (q \o r)[i].n > x
  BY DEF Fresh
<1>1. CASE i \in 1 .. Len(q)
  <2>1. (q \o r)[i] = q[i]
    BY <1>1 DEF Messages
  <2> QED BY <1>1, <2>1 DEF Fresh
<1>2. CASE i \notin 1 .. Len(q)
  <2>1. (q \o r)[i] = r[i - Len(q)] /\ i - Len(q) \in 1 .. Len(r)
    BY <1>2 DEF Messages
  <2> QED BY <2>1 DEF Fresh
<1> QED BY <1>1, <1>2

LEMMA FreshTake ==
  ASSUME NEW q \in Messages, NEW x, Fresh(x, q), q # <<>>
  PROVE  Fresh(x, Tail(q)) /\ Fresh(x, <<Head(q)>>)
<1>1. \A i \in 1 .. Len(Tail(q)) : Tail(q)[i] = q[i + 1] /\ i + 1 \in 1 .. Len(q)
  BY DEF Messages
<1>2. Fresh(x, Tail(q))
  BY <1>1 DEF Fresh
<1>3. 1 \in 1 .. Len(q) /\ Head(q) = q[1]
  BY DEF Messages
<1> QED BY <1>2, <1>3 DEF Fresh

LEMMA FreshOne ==
  ASSUME NEW m \in MessageType, NEW x, m.kind = "output" => x # None /\ m.n > x
  PROVE  Fresh(x, <<m>>)
BY DEF Fresh

LEMMA FreshAppend ==
  ASSUME NEW q \in Messages, NEW m \in MessageType, NEW x, Fresh(x, q), x # None, m.n > x
  PROVE  Fresh(x, Append(q, m))
<1>1. <<m>> \in Messages /\ Append(q, m) = q \o <<m>>
  BY DEF Messages
<1> QED BY <1>1, FreshOne, FreshCat

(* A connection that was opened or given up; before that it has nothing.   *)
Began(c) == phase[c] \notin {"new", "preparing"}
Blank == \A c \in Conns : ~Began(c) => got[c] = <<>> /\ buf[c] = <<>> /\ sock[c].queue = <<>>

(* Streams, their callbacks and the buffers taken over stay in the session. *)
Kin ==
  /\ \A c \in Conns : stream[c] # None => key[stream[c]] = key[c]
  /\ \A s \in Conns : sock[s].of # None => Began(sock[s].of) /\ key[sock[s].of] = key[s]
  /\ \A c \in Conns : restored[c] # None =>
       Began(c) /\ phase[restored[c]] = "closed" /\ key[restored[c]] = key[c]

(* The session of a stream was connected before the stream could hear.     *)
Known ==
  /\ \A k \in Keys : since[k] # None => since[k] <= clock
  /\ kernel # "gone" => \A s \in Conns : sock[s].st = "open" => since[key[s]] # None

AllFresh ==
  \A c \in Conns : phase[c] # "new" =>
    Fresh(since[key[c]], sock[c].queue) /\ Fresh(since[key[c]], buf[c]) /\ Fresh(since[key[c]], got[c])

SInv == Blank /\ Kin /\ Known /\ AllFresh

-----------------------------------------------------------------------------
(* What a disconnect does to streams and lists.                            *)
LEMMA DisconnectSockets ==
  ASSUME TInv, NEW c \in Conns, Disconnect(c)
  PROVE  /\ \A s \in Conns : \/ sock'[s] = sock[s]
                             \/ IsOpen(s) /\ sock'[s] = Gone
                             \/ s = stream[c] /\ IsOpen(s) /\ UNCHANGED stream /\ sock'[s] = With(s, "buffer", c)
         /\ \A d \in Conns : buf'[d] \in {buf[d], <<>>}
         /\ \A d \in Conns : stream'[d] \in {stream[d], None}
<1>0. sock \in [Conns -> StreamType] /\ buf \in [Conns -> Seq(MessageType)] /\ stream \in [Conns -> Conns \cup {None}]
  BY DEF TInv, TypeOK
<1>1. CASE LastOne
  BY <1>0, <1>1 DEF Disconnect, StartBuffering
<1>2. CASE ~LastOne
  BY <1>0, <1>2 DEF Disconnect, CloseStreams
<1> QED BY <1>1, <1>2

(* Lists that stay, or are emptied.                                        *)
LEMMA KeepsFresh ==
  ASSUME AllFresh, UNCHANGED <<key, since>>, \A c \in Conns : phase'[c] # "new" => phase[c] # "new",
         \A c \in Conns : /\ sock'[c].queue \in {sock[c].queue, <<>>}
                          /\ buf'[c] \in {buf[c], <<>>} /\ got'[c] \in {got[c], <<>>}
  PROVE  AllFresh'
BY FreshEmpty DEF AllFresh

LEMMA DisconnectSession ==
  ASSUME TInv, Owned, SInv, NEW c \in Conns, Disconnect(c), phase[c] # "new",
         phase' = [phase EXCEPT ![c] = "closed"], UNCHANGED <<key, since, clock, restored, kernel>>,
         \A d \in Conns : got'[d] \in {got[d], <<>>}
  PROVE  SInv'
<1>1. /\ \A s \in Conns : \/ sock'[s] = sock[s]
                          \/ IsOpen(s) /\ sock'[s] = Gone
                          \/ s = stream[c] /\ IsOpen(s) /\ UNCHANGED stream /\ sock'[s] = With(s, "buffer", c)
      /\ \A d \in Conns : buf'[d] \in {buf[d], <<>>}
      /\ \A d \in Conns : stream'[d] \in {stream[d], None}
  BY DisconnectSockets
<1>2. TypeOK /\ \A d \in Conns : phase'[d] = IF d = c THEN "closed" ELSE phase[d]
  BY DEF TInv, TypeOK
<1>3. \A s \in Conns :
        /\ sock'[s].queue \in {sock[s].queue, <<>>}
        /\ sock'[s].st = "open" => sock[s].st = "open"
        /\ sock'[s].of \in {sock[s].of, None} \/ (s = stream[c] /\ sock'[s].of = c)
        /\ sock'[s].queue # sock[s].queue => IsOpen(s)
  BY <1>1, <1>2, Fields DEF IsOpen
<1>4. Blank'
  BY <1>1, <1>2, <1>3 DEF SInv, Blank, Began, Owned, Unborn
<1>5. Kin'
  <2>1. \A d \in Conns : Began(d) => Began(d)'
    BY <1>2 DEF Began
  <2>2. Began(c)' /\ Kin
    BY <1>2 DEF Began, SInv
  <2>3. \A s \in Conns : (sock[s].of # None => Began(sock[s].of) /\ key[sock[s].of] = key[s])'
    <3> SUFFICES ASSUME NEW s \in Conns, sock'[s].of # None
                 PROVE  Began(sock[s].of)' /\ key[sock'[s].of] = key[s]
      OBVIOUS
    <3>1. CASE sock'[s].of = sock[s].of
      <4>1. sock[s].of \in Conns
        BY <1>2, <3>1, SocketTyped DEF Holders
      <4> QED BY <2>1, <2>2, <3>1, <4>1 DEF Kin
    <3>2. CASE s = stream[c] /\ sock'[s].of = c
      <4>1. s # None
        BY <3>2
      <4> QED BY <2>2, <3>2, <4>1 DEF Kin
    <3> QED BY <1>3, <3>1, <3>2
  <2>4. \A d \in Conns : restored[d] # None =>
          Began(d)' /\ phase'[restored[d]] = "closed" /\ key[restored[d]] = key[d]
    <3>1. restored \in [Conns -> Conns \cup {None}]
      BY <1>2 DEF TypeOK
    <3> QED BY <1>2, <2>1, <2>2, <3>1 DEF Kin
  <2>5. \A d \in Conns : stream'[d] # None => key[stream'[d]] = key[d]
    BY <1>1, <2>2 DEF Kin
  <2> QED BY <2>3, <2>4, <2>5 DEF Kin
<1>6. Known'
  BY <1>3 DEF SInv, Known
<1>7. AllFresh'
  BY <1>1, <1>2, <1>3, KeepsFresh DEF SInv
<1> QED BY <1>4, <1>5, <1>6, <1>7 DEF SInv

(* Connections are opened.                                                 *)
LEMMA OpenedSession ==
  ASSUME TInv, Owned, SInv, NEW c \in Conns, phase[c] = "preparing", phase' = [phase EXCEPT ![c] = "open"],
         UNCHANGED <<key, clock, got, buf, kernel>>,
         \A k \in Keys : since'[k] = since[k] \/ (since[k] = None /\ since'[k] = clock),
         kernel # "gone" => since'[key[c]] # None,
         \A d \in Conns \ {c} : stream'[d] = stream[d] /\ restored'[d] = restored[d],
         stream'[c] # None => key[stream'[c]] = key[c],
         restored'[c] # None => restored'[c] \in Conns /\ phase[restored'[c]] = "closed" /\ key[restored'[c]] = key[c],
         \A s \in Conns : /\ sock'[s].queue \in {sock[s].queue, <<>>}
                          /\ sock'[s].st = "open" => sock[s].st = "open" \/ s = c
                          /\ sock'[s].of \in {sock[s].of, None} \/ (sock'[s].of = c /\ key[s] = key[c])
                          /\ sock'[s].queue # sock[s].queue => IsOpen(s)
  PROVE  SInv'
<1>1. TypeOK /\ \A d \in Conns : phase'[d] = IF d = c THEN "open" ELSE phase[d]
  BY DEF TInv, TypeOK
<1>2. Blank'
  BY <1>1 DEF SInv, Blank, Began, Owned, Unborn, IsOpen
<1>3. Kin'
  <2>1. \A d \in Conns : Began(d) => Began(d)'
    BY <1>1 DEF Began
  <2>2. Began(c)' /\ Kin
    BY <1>1 DEF Began, SInv
  <2>3. \A s \in Conns : (sock[s].of # None => Began(sock[s].of) /\ key[sock[s].of] = key[s])'
    <3> SUFFICES ASSUME NEW s \in Conns, sock'[s].of # None
                 PROVE  Began(sock[s].of)' /\ key[sock'[s].of] = key[s]
      OBVIOUS
    <3>1. CASE sock'[s].of = sock[s].of
      <4>1. sock[s].of \in Conns
        BY <1>1, <3>1, SocketTyped DEF Holders
      <4> QED BY <2>1, <2>2, <3>1, <4>1 DEF Kin
    <3>2. CASE sock'[s].of = c /\ key[s] = key[c]
      BY <2>2, <3>2
    <3> QED BY <3>1, <3>2
  <2>4. \A d \in Conns : (restored[d] # None =>
          Began(d) /\ phase[restored[d]] = "closed" /\ key[restored[d]] = key[d])'
    <3>1. restored \in [Conns -> Conns \cup {None}]
      BY <1>1 DEF TypeOK
    <3>2. ASSUME NEW d \in Conns, restored'[d] # None
          PROVE  Began(d)' /\ phase'[restored'[d]] = "closed" /\ key[restored'[d]] = key[d]
      <4>1. CASE d = c
        BY <1>1, <2>2, <3>2, <4>1
      <4>2. CASE d # c
        BY <1>1, <2>1, <2>2, <3>1, <3>2, <4>2 DEF Kin
      <4> QED BY <4>1, <4>2
    <3> QED BY <3>2
  <2>5. \A d \in Conns : stream'[d] # None => key[stream'[d]] = key[d]
    BY <2>2 DEF Kin
  <2> QED BY <2>3, <2>4, <2>5 DEF Kin
<1>4. clock \in Nat /\ clock # None
  BY <1>1 DEF TypeOK
<1>5. Known'
  <2>1. \A k \in Keys : since'[k] # None => since'[k] <= clock
    BY <1>4 DEF SInv, Known
  <2>2. ASSUME NEW s \in Conns, kernel # "gone", sock'[s].st = "open" PROVE since'[key[s]] # None
    <3>1. CASE s = c
      BY <2>2, <3>1
    <3>2. CASE sock[s].st = "open"
      <4>1. phase[s] # "new"
        BY <3>2 DEF Owned, Unborn
      <4>2. key[s] \in Keys /\ since[key[s]] # None
        BY <2>2, <3>2, <4>1 DEF SInv, Known, TInv, Keyed
      <4> QED BY <1>4, <4>2
    <3> QED BY <2>2, <3>1, <3>2
  <2> QED BY <2>1, <2>2 DEF Known
<1>6. AllFresh'
  <2> SUFFICES ASSUME NEW d \in Conns, phase'[d] # "new"
               PROVE  /\ Fresh(since'[key[d]], sock'[d].queue) /\ Fresh(since'[key[d]], buf[d])
                      /\ Fresh(since'[key[d]], got[d])
    BY DEF AllFresh
  <2>1. phase[d] # "new"
    BY <1>1
  <2>2. /\ Fresh(since[key[d]], sock[d].queue) /\ Fresh(since[key[d]], buf[d]) /\ Fresh(since[key[d]], got[d])
    BY <2>1 DEF SInv, AllFresh
  <2>3. key[d] \in Keys
    BY <2>1 DEF TInv, Keyed
  <2>4. ASSUME NEW q, Fresh(since[key[d]], q) PROVE Fresh(since'[key[d]], q)
    BY <2>3, <2>4 DEF Fresh
  <2> QED BY <2>2, <2>4, FreshEmpty
<1> QED BY <1>2, <1>3, <1>5, <1>6 DEF SInv

LEMMA ConnectSession ==
  ASSUME TInv, Owned, SInv, NEW c \in Conns, Connect(c)
  PROVE  SInv'
<1>0. /\ TypeOK /\ sock \in [Conns -> StreamType] /\ stream \in [Conns -> Conns \cup {None}]
      /\ restored \in [Conns -> Conns \cup {None}] /\ since \in [Keys -> 0 .. MaxMessages \cup {None}]
      /\ clock # None /\ (buffer # None => buffer \in Conns)
  BY DEF TInv, TypeOK
<1>1. phase[c] = "preparing" /\ phase' = [phase EXCEPT ![c] = "open"] /\ UNCHANGED <<key, clock, got, buf, kernel>>
  BY DEF Connect, ConnectRestored, ConnectBroken, ConnectMoved, ConnectFresh, ConnectGone, Counted
<1>2. stream[c] = None /\ restored[c] = None /\ sock[c].queue = <<>> /\ key[c] \in Keys
  BY <1>1 DEF Owned, Unborn, SInv, Kin, Blank, Began, TInv, Keyed
<1>3. ASSUME Counted(c)
      PROVE  /\ since'[key[c]] # None
             /\ \A k \in Keys : since'[k] = since[k] \/ (since[k] = None /\ since'[k] = clock)
  BY <1>0, <1>2, <1>3 DEF Counted
<1>4. CASE ConnectRestored(c)
  <2>1. IsOpen(stream[buffer]) /\ buffer \in Conns /\ stream[buffer] \in Conns /\ key[stream[buffer]] = key[c]
        /\ key[buffer] = key[c] /\ phase[buffer] = "closed"
    BY <1>0, <1>4 DEF ConnectRestored, Matching, IsOpen, SInv, Kin, Owned, Kept
  <2>2. Counted(c) /\ stream' = [stream EXCEPT ![c] = stream[buffer]] /\ restored' = [restored EXCEPT ![c] = buffer]
        /\ Nudged(c, stream[buffer], sock[stream[buffer]])
    BY <1>4 DEF ConnectRestored
  <2>3. \A s \in Conns : /\ sock'[s].queue = sock[s].queue /\ (sock'[s].st = "open" => sock[s].st = "open")
                         /\ sock'[s].of = sock[s].of \/ (sock'[s].of = c /\ s = stream[buffer])
    BY <1>0, <2>1, <2>2, StreamFields DEF Nudged, IsOpen
  <2>4. /\ \A d \in Conns \ {c} : stream'[d] = stream[d] /\ restored'[d] = restored[d]
        /\ stream'[c] = stream[buffer] /\ restored'[c] = buffer
    BY <1>0, <2>2
  <2>5. \A s \in Conns : /\ sock'[s].queue \in {sock[s].queue, <<>>}
                         /\ sock'[s].st = "open" => sock[s].st = "open" \/ s = c
                         /\ sock'[s].of \in {sock[s].of, None} \/ (sock'[s].of = c /\ key[s] = key[c])
                         /\ sock'[s].queue # sock[s].queue => IsOpen(s)
    BY <2>1, <2>3
  <2>6. /\ \A k \in Keys : since'[k] = since[k] \/ (since[k] = None /\ since'[k] = clock)
        /\ kernel # "gone" => since'[key[c]] # None
    BY <1>3, <2>2
  <2>7. restored'[c] # None => restored'[c] \in Conns /\ phase[restored'[c]] = "closed" /\ key[restored'[c]] = key[c]
    BY <2>1, <2>4
  <2>8. /\ \A d \in Conns \ {c} : stream'[d] = stream[d] /\ restored'[d] = restored[d]
        /\ stream'[c] # None => key[stream'[c]] = key[c]
    BY <2>1, <2>4
  <2> QED BY <1>1, <2>5, <2>6, <2>7, <2>8, OpenedSession
<1>5. CASE ConnectBroken(c)
  <2>1. Counted(c) /\ UNCHANGED <<restored, sock>> /\ \A d \in Conns \ {c} : stream'[d] = stream[d]
    BY <1>0, <1>5 DEF ConnectBroken
  <2>2. stream'[c] # None => key[stream'[c]] = key[c]
    BY <1>0, <1>2, <1>5 DEF ConnectBroken, Matching, SInv, Kin
  <2> QED BY <1>1, <1>2, <1>3, <2>1, <2>2, OpenedSession
<1>6. CASE ConnectMoved(c)
  <2>1. Counted(c) /\ stream' = [stream EXCEPT ![c] = c] /\ restored' = [restored EXCEPT ![c] = buffer]
        /\ Nudged(c, c, Created) /\ buffer \in Conns /\ key[buffer] = key[c] /\ phase[buffer] = "closed"
    BY <1>0, <1>6 DEF ConnectMoved, Matching, Owned, Kept
  <2>2. /\ \A s \in Conns \ {c} : sock'[s] = sock[s]
        /\ sock'[c].queue = <<>> /\ sock'[c].of \in {None, c}
    BY <1>0, <2>1, Fields, StreamFields DEF Nudged
  <2>3. /\ \A d \in Conns \ {c} : stream'[d] = stream[d] /\ restored'[d] = restored[d]
        /\ stream'[c] = c /\ restored'[c] = buffer
    BY <1>0, <2>1
  <2>5. \A s \in Conns : /\ sock'[s].queue \in {sock[s].queue, <<>>}
                         /\ sock'[s].st = "open" => sock[s].st = "open" \/ s = c
                         /\ sock'[s].of \in {sock[s].of, None} \/ (sock'[s].of = c /\ key[s] = key[c])
                         /\ sock'[s].queue # sock[s].queue => IsOpen(s)
    BY <1>2, <2>2
  <2>6. /\ \A k \in Keys : since'[k] = since[k] \/ (since[k] = None /\ since'[k] = clock)
        /\ kernel # "gone" => since'[key[c]] # None
    BY <1>3, <2>1
  <2>7. restored'[c] # None => restored'[c] \in Conns /\ phase[restored'[c]] = "closed" /\ key[restored'[c]] = key[c]
    BY <2>1, <2>3
  <2>8. /\ \A d \in Conns \ {c} : stream'[d] = stream[d] /\ restored'[d] = restored[d]
        /\ stream'[c] # None => key[stream'[c]] = key[c]
    BY <2>3
  <2> QED BY <1>1, <2>5, <2>6, <2>7, <2>8, OpenedSession
<1>7. CASE ConnectFresh(c)
  <2>1. Counted(c) /\ stream' = [stream EXCEPT ![c] = c] /\ UNCHANGED restored
    BY <1>7 DEF ConnectFresh
  <2>2. /\ \A s \in Conns \ {c} : sock'[s] = sock[s] \/ (sock'[s] = Gone /\ IsOpen(s))
        /\ sock'[c].queue = <<>> /\ sock'[c].of \in {None, c}
    BY <1>0, <1>7, StreamFields DEF ConnectFresh
  <2>3. \A s \in Conns \ {c} : /\ sock'[s].queue \in {sock[s].queue, <<>>} /\ sock'[s].of \in {sock[s].of, None}
                               /\ sock'[s].st = "open" => sock[s].st = "open"
                               /\ sock'[s].queue # sock[s].queue => IsOpen(s)
    BY <1>0, <2>2, Fields
  <2>4. stream'[c] = c /\ \A d \in Conns \ {c} : stream'[d] = stream[d]
    BY <1>0, <2>1
  <2>5. \A s \in Conns : /\ sock'[s].queue \in {sock[s].queue, <<>>}
                         /\ sock'[s].st = "open" => sock[s].st = "open" \/ s = c
                         /\ sock'[s].of \in {sock[s].of, None} \/ (sock'[s].of = c /\ key[s] = key[c])
                         /\ sock'[s].queue # sock[s].queue => IsOpen(s)
    BY <1>2, <2>2, <2>3
  <2>6. /\ \A k \in Keys : since'[k] = since[k] \/ (since[k] = None /\ since'[k] = clock)
        /\ kernel # "gone" => since'[key[c]] # None
    BY <1>3, <2>1
  <2>7. restored'[c] # None => restored'[c] \in Conns /\ phase[restored'[c]] = "closed" /\ key[restored'[c]] = key[c]
    BY <1>2, <2>1
  <2>8. /\ \A d \in Conns \ {c} : stream'[d] = stream[d] /\ restored'[d] = restored[d]
        /\ stream'[c] # None => key[stream'[c]] = key[c]
    BY <2>1, <2>4
  <2> QED BY <1>1, <2>5, <2>6, <2>7, <2>8, OpenedSession
<1>8. CASE ConnectGone(c)
  <2>1. /\ UNCHANGED <<restored, since>> /\ kernel = "gone"
        /\ \A d \in Conns \ {c} : stream'[d] = stream[d] /\ sock'[d] = sock[d]
        /\ stream'[c] \in {None, c} /\ sock'[c] \in {sock[c], Created}
    BY <1>0, <1>2, <1>8 DEF ConnectGone
  <2>2. sock'[c].queue = <<>> /\ sock'[c].of \in {sock[c].of, None}
    BY <1>0, <1>2, <2>1, Fields
  <2> QED BY <1>1, <1>2, <2>1, <2>2, OpenedSession
<1> QED BY <1>4, <1>5, <1>6, <1>7, <1>8 DEF Connect

(* Steps in which nobody comes or goes.                                    *)
LEMMA QuietSession ==
  ASSUME TInv, SInv, UNCHANGED <<phase, key, since, stream, restored>>, clock' \in Nat, clock <= clock',
         kernel' # "gone" => kernel # "gone",
         \A s \in Conns : /\ sock'[s].st = "open" => sock[s].st = "open"
                          /\ \/ sock'[s].of \in {sock[s].of, None}
                             \/ Began(sock'[s].of) /\ key[sock'[s].of] = key[s],
         \A c \in Conns : ~Began(c) => UNCHANGED <<got[c], buf[c], sock[c]>>,
         AllFresh'
  PROVE  SInv'
<1>1. TypeOK /\ Blank /\ Kin /\ Known
  BY DEF TInv, SInv
<1>2. Blank'
  BY <1>1 DEF Blank, Began
<1>3. Kin'
  BY <1>1 DEF Kin, Began
<1>4. Known'
  <2>1. \A k \in Keys : since[k] # None => since[k] \in Nat
    BY <1>1 DEF TypeOK
  <2>2. clock \in Nat
    BY <1>1 DEF TypeOK
  <2> QED BY <1>1, <2>1, <2>2 DEF Known
<1> QED BY <1>2, <1>3, <1>4 DEF SInv

LEMMA SubscribeSession ==
  ASSUME TInv, Owned, SInv, NEW c \in Conns, HandsOver(c)
  PROVE  SInv'
<1>0. /\ TypeOK /\ sock \in [Conns -> StreamType] /\ got \in [Conns -> Seq(MessageType)]
      /\ buf \in [Conns -> Seq(MessageType)] /\ clock \in Nat /\ restored \in [Conns -> Conns \cup {None}]
  BY DEF TInv, TypeOK
<1>1. /\ UNCHANGED <<phase, key, since, stream, restored, clock, kernel>> /\ stream[c] \in Conns
      /\ IsOpen(stream[c]) /\ Began(c) /\ key[stream[c]] = key[c]
  BY DEF HandsOver, IsOpen, Owned, Tasked, Began, SInv, Kin
<1>2. sock' = [sock EXCEPT ![stream[c]] = With(stream[c], "client", c)]
  BY DEF HandsOver
<1>3. \A s \in Conns : /\ sock'[s].queue = sock[s].queue /\ (sock'[s].st = "open" => sock[s].st = "open")
                       /\ sock'[s].of = sock[s].of \/ (sock'[s].of = c /\ s = stream[c])
                       /\ ~IsOpen(s) => sock'[s] = sock[s]
  BY <1>0, <1>1, <1>2, Fields DEF IsOpen
<1>4. \A d \in Conns : /\ buf'[d] \in {buf[d], <<>>} /\ (buf'[d] # buf[d] => d = restored[c])
                       /\ d # c => got'[d] = got[d]
  BY <1>0 DEF HandsOver, DropList
<1>5. got'[c] = got[c] \/ got'[c] = got[c] \o Replayed(c)
  BY <1>0 DEF HandsOver
<1>6. restored[c] # None => Began(restored[c]) /\ restored[c] \in Conns /\ key[restored[c]] = key[c]
  BY <1>0 DEF SInv, Kin, Began
<1>7. Fresh(since[key[c]], Replayed(c)) /\ Replayed(c) \in Messages
  <2>1. <<>> \in Messages /\ \A d \in Conns : buf[d] \in Messages
    BY <1>0 DEF Messages
  <2> QED BY <1>6, <2>1, FreshEmpty DEF Replayed, SInv, AllFresh, Began
<1>8. Fresh(since[key[c]], got[c]) /\ got[c] \in Messages
  BY <1>0, <1>1 DEF SInv, AllFresh, Began, Messages
<1>9. Fresh(since[key[c]], got'[c])
  BY <1>5, <1>7, <1>8, FreshCat
<1>10. AllFresh'
  BY <1>1, <1>3, <1>4, <1>9, FreshEmpty DEF SInv, AllFresh
<1>11. \A d \in Conns : ~Began(d) => UNCHANGED <<got[d], buf[d], sock[d]>>
  <2>1. \A d \in Conns : ~Began(d) => ~IsOpen(d)
    BY DEF Owned, Unborn, Began, IsOpen
  <2> QED BY <1>1, <1>3, <1>4, <1>6, <2>1
<1>12. \A s \in Conns : /\ sock'[s].st = "open" => sock[s].st = "open"
                        /\ \/ sock'[s].of \in {sock[s].of, None}
                           \/ Began(sock'[s].of) /\ key[sock'[s].of] = key[s]
  BY <1>1, <1>3
<1> QED BY <1>0, <1>1, <1>10, <1>11, <1>12, QuietSession

(* Only an open stream has a callback.                                     *)
Vacant == \A s \in Conns : sock[s].st # "open" => sock[s].of = None

LEMMA StepVacant ==
  ASSUME TInv, Vacant, [Next]_vars
  PROVE  Vacant'
<1>0. TypeOK /\ sock \in [Conns -> StreamType]
  BY DEF TInv, TypeOK
<1> SUFFICES ASSUME NEW s \in Conns
             PROVE  sock'[s] = sock[s] \/ sock'[s] = Gone \/ sock'[s].st = "open"
  BY <1>0, Fields DEF Vacant
<1>1. ASSUME NEW c \in Conns, Websocket(c) PROVE sock'[s] = sock[s] \/ sock'[s] = Gone \/ sock'[s].st = "open"
  <2>1. CASE Disconnect(c)
    BY <1>0, <2>1, DisconnectSockets, Fields
  <2>2. CASE (\E k \in Keys : Register(c, k)) \/ PrepareFails(c) \/ ConnectBroken(c) \/ NudgeEndsClosed(c)
    BY <2>2 DEF Register, PrepareFails, ConnectBroken, NudgeEndsClosed
  <2>3. CASE ConnectRestored(c) \/ ConnectMoved(c)
    BY <1>0, <2>3, Fields, StreamFields DEF ConnectRestored, ConnectMoved, Nudged, IsOpen
  <2>4. CASE ConnectFresh(c) \/ ConnectGone(c)
    BY <1>0, <2>4, Fields, StreamFields DEF ConnectFresh, ConnectGone
  <2>5. CASE HandsOver(c) \/ Receive(c)
    BY <1>0, <2>5, Fields DEF HandsOver, Receive
  <2> QED BY <1>1, <2>1, <2>2, <2>3, <2>4, <2>5
          DEF Websocket, Connect, NudgeEnds, Subscribe, NudgeTimesOut, LeaveEarly, Leave, DisconnectAgain
<1>2. CASE Publish
  BY <1>0, <1>2, StreamFields DEF Publish
<1>3. CASE KernelRestarted \/ KernelDied
  <2>1. AfterFlush(s) = sock[s] \/ AfterFlush(s).st = "open"
    BY <1>0, Fields, StreamFields DEF AfterFlush
  <2> QED BY <1>3, <2>1 DEF KernelRestarted, KernelDied, SendStatus
<1>4. CASE BeginShutdown \/ KernelRemoved \/ UNCHANGED vars
  BY <1>0, <1>4 DEF BeginShutdown, StopBuffering, KernelRemoved, vars
<1> QED BY <1>1, <1>2, <1>3, <1>4 DEF Next, Cull

LEMMA RegisterSession ==
  ASSUME TInv, Owned, Vacant, SInv, NEW c \in Conns, NEW k \in Keys, Register(c, k)
  PROVE  SInv'
<1>0. /\ TypeOK /\ phase[c] = "new" /\ UNCHANGED <<clock, since, stream, restored, sock, buf, got, kernel>>
      /\ \A d \in Conns : phase'[d] = IF d = c THEN "preparing" ELSE phase[d]
      /\ key'[c] = k /\ \A d \in Conns \ {c} : key'[d] = key[d]
  BY DEF TInv, TypeOK, Register
<1>1. Blank /\ Kin /\ Known /\ AllFresh
  BY DEF SInv
<1>2. /\ stream[c] = None /\ sock[c].st = "none" /\ sock[c].of = None
      /\ \A d \in Conns : stream[d] # c /\ stream[d] \in Conns \cup {None}
  BY <1>0 DEF Owned, Unborn, Named, Vacant, TypeOK
<1>3. Blank'
  BY <1>0, <1>1 DEF Blank, Began
<1>4. Kin'
  <2>1. \A d \in Conns : Began(d) => Began(d)' /\ d # c
    BY <1>0 DEF Began
  <2>2. \A s \in Conns : sock[s].of # None => s # c /\ sock[s].of # c /\ Began(sock[s].of)' /\ key[sock[s].of] = key[s]
    <3> SUFFICES ASSUME NEW s \in Conns, sock[s].of # None
                 PROVE  s # c /\ sock[s].of # c /\ Began(sock[s].of)' /\ key[sock[s].of] = key[s]
      OBVIOUS
    <3>1. sock[s].of \in Conns /\ Began(sock[s].of)
      BY <1>0, <1>1, SocketTyped DEF Holders, Kin
    <3> QED BY <1>0, <1>1, <1>2, <2>1, <3>1 DEF Kin
  <2>3. \A s \in Conns : sock[s].of # None => sock[s].of \in Conns
    BY <1>0, SocketTyped DEF Holders
  <2>4. \A d \in Conns : restored[d] # None =>
          d # c /\ restored[d] # c /\ restored[d] \in Conns /\ Began(d)' /\ phase'[restored[d]] = "closed"
    BY <1>0, <1>1, <2>1 DEF Kin, TypeOK
  <2>5. \A d \in Conns : stream[d] # None => d # c
    BY <1>2
  <2>6. \A d \in Conns : stream[d] # None => key'[stream[d]] = key'[d]
    BY <1>0, <1>1, <1>2 DEF Kin
  <2>7. \A s \in Conns : (sock[s].of # None => Began(sock[s].of) /\ key[sock[s].of] = key[s])'
    BY <1>0, <2>2, <2>3
  <2>8. \A d \in Conns : restored[d] # None => Began(d)' /\ phase'[restored[d]] = "closed" /\ key'[restored[d]] = key'[d]
    BY <1>0, <1>1, <2>4 DEF Kin
  <2> QED BY <1>0, <2>6, <2>7, <2>8 DEF Kin
<1>5. Known'
  BY <1>0, <1>1, <1>2 DEF Known
<1>6. AllFresh'
  <2>1. got[c] = <<>> /\ buf[c] = <<>> /\ sock[c].queue = <<>>
    BY <1>0, <1>1 DEF Blank, Began
  <2> QED BY <1>0, <1>1, <2>1, FreshEmpty DEF AllFresh
<1> QED BY <1>3, <1>4, <1>5, <1>6 DEF SInv

LEMMA PrepareFailsSession ==
  ASSUME TInv, SInv, NEW c \in Conns, PrepareFails(c)
  PROVE  SInv'
<1>0. /\ phase[c] = "preparing" /\ UNCHANGED <<clock, since, stream, restored, sock, buf, got, kernel, key>>
      /\ \A d \in Conns : phase'[d] = IF d = c THEN "failed" ELSE phase[d]
  BY DEF TInv, TypeOK, PrepareFails
<1>1. \A d : d \in Conns /\ Began(d) => Began(d)'
  BY <1>0 DEF Began
<1>2. \A s \in Conns : sock[s].of \in Conns \cup {None} /\ restored[s] \in Conns \cup {None}
  BY SocketTyped DEF Holders, TInv, TypeOK
<1>3. Kin'
  BY <1>0, <1>1, <1>2 DEF SInv, Kin
<1>4. Blank' /\ Known' /\ AllFresh'
  BY <1>0 DEF SInv, Blank, Began, Known, AllFresh
<1> QED BY <1>3, <1>4 DEF SInv

LEMMA ReceiveSession ==
  ASSUME TInv, Owned, SInv, NEW s \in Conns, Receive(s)
  PROVE  SInv'
<1>0. /\ TypeOK /\ sock \in [Conns -> StreamType] /\ buf \in [Conns -> Messages] /\ got \in [Conns -> Messages]
      /\ clock \in Nat
  BY DEF TInv, TypeOK, Messages
<1>1. /\ UNCHANGED <<phase, key, since, stream, restored, clock, kernel>> /\ IsOpen(s) /\ sock[s].queue # <<>>
      /\ sock[s].queue \in Messages /\ Began(s)
  BY <1>0, SocketTyped DEF Receive, IsOpen, Owned, Unborn, Began
<1>2. /\ sock'[s].queue = Tail(sock[s].queue) /\ sock'[s].st = "open" /\ sock[s].st = "open"
      /\ sock'[s].of \in {sock[s].of, None} /\ \A r \in Conns \ {s} : sock'[r] = sock[r]
  BY <1>0, StreamFields DEF Receive, AfterOne, IsOpen
<1>3. \A c \in Conns : /\ got'[c] = got[c] \/ (sock[s].of = c /\ got'[c] = got[c] \o <<Head(sock[s].queue)>>)
                       /\ buf'[c] = buf[c] \/ (sock[s].of = c /\ buf'[c] = buf[c] \o <<Head(sock[s].queue)>>)
  BY DEF Receive, Deliver
<1>4. \A c \in Conns : sock[s].of = c => Began(c) /\ key[c] = key[s]
  BY DEF SInv, Kin
<1>5. Fresh(since[key[s]], Tail(sock[s].queue)) /\ Fresh(since[key[s]], <<Head(sock[s].queue)>>)
  BY <1>1, FreshTake DEF SInv, AllFresh, Began
<1>6. <<Head(sock[s].queue)>> \in Messages
  BY <1>0, <1>1, TakenTyped
<1>7. AllFresh'
  <2> SUFFICES ASSUME NEW c \in Conns, phase[c] # "new"
               PROVE  /\ Fresh(since[key[c]], sock'[c].queue) /\ Fresh(since[key[c]], buf'[c])
                      /\ Fresh(since[key[c]], got'[c])
    BY <1>1 DEF AllFresh
  <2>1. /\ Fresh(since[key[c]], sock[c].queue) /\ Fresh(since[key[c]], buf[c]) /\ Fresh(since[key[c]], got[c])
    BY DEF SInv, AllFresh
  <2>2. ASSUME sock[s].of = c
        PROVE  /\ Fresh(since[key[c]], got[c] \o <<Head(sock[s].queue)>>)
               /\ Fresh(since[key[c]], buf[c] \o <<Head(sock[s].queue)>>)
    <3>1. Fresh(since[key[c]], <<Head(sock[s].queue)>>)
      BY <1>4, <1>5, <2>2
    <3> QED BY <1>0, <1>6, <2>1, <3>1, FreshCat
  <2> QED BY <1>2, <1>3, <1>5, <2>1, <2>2
<1>8. \A c \in Conns : ~Began(c) => UNCHANGED <<got[c], buf[c], sock[c]>>
  BY <1>1, <1>2, <1>3, <1>4
<1>9. \A r \in Conns : /\ sock'[r].st = "open" => sock[r].st = "open"
                       /\ sock'[r].of \in {sock[r].of, None}
  BY <1>2
<1> QED BY <1>0, <1>1, <1>7, <1>8, <1>9, QuietSession

LEMMA PublishSession ==
  ASSUME TInv, Owned, SInv, Publish
  PROVE  SInv'
<1>0. /\ TypeOK /\ clock \in Nat /\ \A k \in Keys : since[k] # None => since[k] \in Nat
  BY DEF TInv, TypeOK
<1>1. /\ UNCHANGED <<phase, key, since, stream, restored, kernel, got, buf>> /\ clock' = clock + 1
      /\ kernel # "gone"
  BY DEF Publish
<1>2. Message(clock', "output") \in MessageType /\ Message(clock', "output").n = clock + 1
  BY <1>0, <1>1 DEF Publish, Message, MessageType, Kinds
<1>3. \A s \in Conns : /\ sock'[s].st = sock[s].st /\ sock'[s].of = sock[s].of
                       /\ IF IsOpen(s) /\ sock[s].ports = ports
                            THEN sock'[s].queue = Append(sock[s].queue, Message(clock', "output"))
                            ELSE sock'[s] = sock[s]
  <2> SUFFICES ASSUME NEW s \in Conns
               PROVE  /\ sock'[s].st = sock[s].st /\ sock'[s].of = sock[s].of
                      /\ IF IsOpen(s) /\ sock[s].ports = ports
                           THEN sock'[s].queue = Append(sock[s].queue, Message(clock', "output"))
                           ELSE sock'[s] = sock[s]
    OBVIOUS
  <2>1. sock'[s] = IF IsOpen(s) /\ sock[s].ports = ports
                     THEN Stream("open", sock[s].to, sock[s].of,
                                 Append(sock[s].queue, Message(clock', "output")), ports)
                     ELSE sock[s]
    BY DEF Publish
  <2>2. IsOpen(s) => sock[s].st = "open"
    BY DEF IsOpen
  <2>3. ASSUME NEW q, sock'[s] = Stream("open", sock[s].to, sock[s].of, q, ports)
        PROVE  sock'[s].st = "open" /\ sock'[s].of = sock[s].of /\ sock'[s].queue = q
    BY <2>3, StreamFields
  <2>4. CASE IsOpen(s) /\ sock[s].ports = ports
    BY <2>1, <2>2, <2>3, <2>4
  <2>5. CASE ~(IsOpen(s) /\ sock[s].ports = ports)
    BY <2>1, <2>5
  <2> QED BY <2>4, <2>5
<1>4. \A s \in Conns : IsOpen(s) => Began(s)
  BY DEF Owned, Unborn, Began, IsOpen
<1>5. AllFresh'
  <2> SUFFICES ASSUME NEW c \in Conns, phase[c] # "new", IsOpen(c)
               PROVE  Fresh(since[key[c]], Append(sock[c].queue, Message(clock', "output")))
    BY <1>1, <1>3 DEF SInv, AllFresh
  <2>1. Fresh(since[key[c]], sock[c].queue) /\ sock[c].queue \in Messages
    BY <1>0, SocketTyped DEF SInv, AllFresh
  <2>2. since[key[c]] # None /\ key[c] \in Keys /\ since[key[c]] <= clock
    BY <1>1 DEF SInv, Known, IsOpen, TInv, Keyed
  <2>3. Message(clock', "output").n > since[key[c]]
    BY <1>0, <1>2, <2>2
  <2> QED BY <1>2, <2>1, <2>2, <2>3, FreshAppend
<1>6. \A c \in Conns : ~Began(c) => UNCHANGED <<got[c], buf[c], sock[c]>>
  BY <1>1, <1>3, <1>4
<1>7. clock' \in Nat /\ clock <= clock'
  BY <1>0, <1>1
<1> QED BY <1>1, <1>3, <1>5, <1>6, <1>7, QuietSession

(* What the flush of a restart callback hands over.                        *)
LEMMA Flushes ==
  ASSUME TypeOK
  PROVE  /\ \A s \in Conns : /\ AfterFlush(s).st = sock[s].st /\ AfterFlush(s).of \in {sock[s].of, None}
                             /\ \/ AfterFlush(s).queue = sock[s].queue
                                \/ AfterFlush(s).queue = <<>>
                                \/ sock[s].queue # <<>> /\ AfterFlush(s).queue = Tail(sock[s].queue)
                             /\ AfterFlush(s) # sock[s] => IsOpen(s)
         /\ \A to, c : FlushedTo(to, c) = <<>> \/
              \E s \in Conns : Flushing(s) /\ sock[s].to = to /\ sock[s].of = c /\ FlushedTo(to, c) = sock[s].queue
<1>1. \A s \in Conns : IsOpen(s) => sock[s].st = "open"
  BY DEF IsOpen
<1>2. ASSUME NEW s \in Conns
      PROVE  /\ AfterFlush(s).st = sock[s].st /\ AfterFlush(s).of \in {sock[s].of, None}
             /\ \/ AfterFlush(s).queue = sock[s].queue
                \/ AfterFlush(s).queue = <<>>
                \/ sock[s].queue # <<>> /\ AfterFlush(s).queue = Tail(sock[s].queue)
             /\ AfterFlush(s) # sock[s] => IsOpen(s)
  BY <1>1, StreamFields DEF AfterFlush, AfterOne, Flushing
<1>3. ASSUME NEW to, NEW c, FlushedTo(to, c) # <<>>
      PROVE  \E s \in Conns : Flushing(s) /\ sock[s].to = to /\ sock[s].of = c /\ FlushedTo(to, c) = sock[s].queue
  <2>1. \E s \in Conns : Flushing(s) /\ sock[s].to = to /\ sock[s].of = c
    BY <1>3 DEF FlushedTo
  <2> DEFINE r == CHOOSE s \in Conns : Flushing(s) /\ sock[s].to = to /\ sock[s].of = c
  <2>2. r \in Conns /\ Flushing(r) /\ sock[r].to = to /\ sock[r].of = c
    BY <2>1
  <2>3. FlushedTo(to, c) = sock[r].queue
    BY <2>1 DEF FlushedTo
  <2> QED BY <2>2, <2>3
<1> QED BY <1>2, <1>3

LEMMA StatusSession ==
  ASSUME TInv, Owned, SInv, SendStatus, UNCHANGED <<phase, key, since, stream, restored, clock>>,
         kernel # "gone"
  PROVE  SInv'
<1>0. /\ TypeOK /\ buf \in [Conns -> Messages] /\ got \in [Conns -> Messages] /\ clock \in Nat
      /\ clock \in 0 .. MaxMessages
  BY DEF TInv, TypeOK, Messages
<1>1. \A s \in Conns : /\ sock'[s].st = sock[s].st /\ sock'[s].of \in {sock[s].of, None}
                       /\ \/ sock'[s].queue = sock[s].queue
                          \/ sock'[s].queue = <<>>
                          \/ sock[s].queue # <<>> /\ sock'[s].queue = Tail(sock[s].queue)
                       /\ sock'[s] # sock[s] => IsOpen(s)
  BY <1>0, Flushes DEF SendStatus
<1>2. \A s \in Conns : IsOpen(s) => Began(s)
  BY DEF Owned, Unborn, Began, IsOpen
<1>3. ASSUME NEW to, NEW c \in Conns
      PROVE  /\ FlushedTo(to, c) \in Messages /\ Fresh(since[key[c]], FlushedTo(to, c))
             /\ ~Began(c) => FlushedTo(to, c) = <<>>
  <2>1. FlushedTo(to, c) \in Messages
    BY <1>0, FlushTyped
  <2>2. CASE FlushedTo(to, c) = <<>>
    BY <2>1, <2>2, FreshEmpty
  <2>3. CASE FlushedTo(to, c) # <<>>
    <3>1. PICK s \in Conns : Flushing(s) /\ sock[s].of = c /\ FlushedTo(to, c) = sock[s].queue
      BY <1>0, <2>3, Flushes
    <3>2. Began(c) /\ key[c] = key[s] /\ phase[s] # "new"
      BY <1>2, <3>1 DEF SInv, Kin, Flushing, Began
    <3>3. Fresh(since[key[s]], sock[s].queue)
      BY <3>2 DEF SInv, AllFresh
    <3> QED BY <2>1, <3>1, <3>2, <3>3
  <2> QED BY <2>2, <2>3
<1>4. ASSUME NEW c \in Conns, NEW x PROVE <<Status(c)>> \in Messages /\ Fresh(x, <<Status(c)>>)
  <2>1. Status(c) \in MessageType /\ Status(c).kind # "output"
    BY <1>0 DEF Status, Message, MessageType, Kinds
  <2> QED BY <2>1, FreshOne DEF Messages
<1>5. AllFresh'
  <2> SUFFICES ASSUME NEW c \in Conns, phase[c] # "new"
               PROVE  /\ Fresh(since[key[c]], sock'[c].queue) /\ Fresh(since[key[c]], buf'[c])
                      /\ Fresh(since[key[c]], got'[c])
    BY DEF AllFresh
  <2>1. /\ Fresh(since[key[c]], sock[c].queue) /\ Fresh(since[key[c]], buf[c]) /\ Fresh(since[key[c]], got[c])
    BY DEF SInv, AllFresh
  <2>2. Fresh(since[key[c]], sock'[c].queue)
    <3>1. sock[c].queue # <<>> => Fresh(since[key[c]], Tail(sock[c].queue))
      BY <1>0, <2>1, SocketTyped, FreshTake
    <3> QED BY <1>1, <2>1, <3>1, FreshEmpty
  <2>3. Fresh(since[key[c]], buf[c] \o FlushedTo("buffer", c))
    BY <1>0, <1>3, <2>1, FreshCat
  <2>4. Fresh(since[key[c]], got[c] \o FlushedTo("client", c)) /\ got[c] \o FlushedTo("client", c) \in Messages
    <3>1. got[c] \in Messages /\ FlushedTo("client", c) \in Messages /\ Fresh(since[key[c]], FlushedTo("client", c))
      BY <1>0, <1>3
    <3>2. got[c] \o FlushedTo("client", c) \in Messages
      BY <3>1 DEF Messages
    <3> QED BY <2>1, <3>1, <3>2, FreshCat
  <2>5. /\ Fresh(since[key[c]], (got[c] \o FlushedTo("client", c)) \o <<Status(c)>>)
        /\ Fresh(since[key[c]], (got[c] \o FlushedTo("client", c)) \o <<>>)
    <3>1. <<>> \in Messages
      BY DEF Messages
    <3> QED BY <1>4, <2>4, <3>1, FreshEmpty, FreshCat
  <2> QED BY <2>1, <2>2, <2>3, <2>5 DEF SendStatus
<1>6. \A c \in Conns : ~Began(c) => UNCHANGED <<got[c], buf[c], sock[c]>>
  <2> SUFFICES ASSUME NEW c \in Conns, ~Began(c) PROVE UNCHANGED <<got[c], buf[c], sock[c]>>
    OBVIOUS
  <2>1. ~Writable(c) /\ FlushedTo("buffer", c) = <<>> /\ sock'[c] = sock[c]
    BY <1>1, <1>2, <1>3 DEF Writable, Live, Began
  <2>2. buf[c] \o <<>> = buf[c]
    BY <1>0 DEF Messages
  <2> QED BY <2>1, <2>2 DEF SendStatus
<1> QED BY <1>0, <1>1, <1>5, <1>6, QuietSession

LEMMA StepSession ==
  ASSUME TInv, Owned, Vacant, SInv, [Next]_vars
  PROVE  SInv'
<1>0. /\ TypeOK /\ clock \in Nat /\ sock \in [Conns -> StreamType]
      /\ phase \in [Conns -> {"new", "preparing", "open", "closed", "failed"}]
  BY DEF TInv, TypeOK
<1>1. ASSUME NEW c \in Conns, Websocket(c) PROVE SInv'
  <2>1. CASE LeaveEarly(c)
    BY <2>1, DisconnectSession DEF LeaveEarly
  <2>2. CASE Leave(c)
    <3>1. phase[c] # "new" /\ \A d \in Conns : got'[d] \in {got[d], <<>>}
      BY <2>2 DEF Leave, Live, TInv, TypeOK
    <3> QED BY <2>2, <3>1, DisconnectSession DEF Leave
  <2>3. CASE DisconnectAgain(c)
    <3>1. phase[c] # "new" /\ phase' = [phase EXCEPT ![c] = "closed"]
      BY <1>0, <2>3, DanglingClosed DEF DisconnectAgain
    <3> QED BY <2>3, <3>1, DisconnectSession DEF DisconnectAgain
  <2>4. CASE NudgeEndsClosed(c)
    <3>1. UNCHANGED <<phase, key, since, stream, restored, clock, kernel, sock, buf, got>>
      BY <2>4 DEF NudgeEndsClosed
    <3>2. AllFresh'
      BY <3>1 DEF SInv, AllFresh
    <3> QED BY <1>0, <3>1, <3>2, QuietSession
  <2> QED BY <1>1, <2>1, <2>2, <2>3, <2>4, RegisterSession, PrepareFailsSession, ConnectSession, SubscribeSession,
             ReceiveSession DEF Websocket, NudgeEnds, Subscribe, NudgeTimesOut
<1>2. CASE KernelRestarted \/ KernelDied
  BY <1>2, StatusSession DEF KernelRestarted, KernelDied
<1>3. CASE BeginShutdown \/ KernelRemoved \/ UNCHANGED vars
  <2>1. /\ UNCHANGED <<phase, key, since, stream, restored, clock, buf, got>>
        /\ kernel' # "gone" => kernel # "gone"
    BY <1>3 DEF BeginShutdown, KernelRemoved, vars
  <2>2. \A s \in Conns : sock'[s] = sock[s] \/ (sock'[s] = Gone /\ IsOpen(s))
    BY <1>0, <1>3 DEF BeginShutdown, StopBuffering, KernelRemoved, vars
  <2>3. \A s \in Conns : /\ sock'[s].queue \in {sock[s].queue, <<>>} /\ sock'[s].of \in {sock[s].of, None}
                         /\ sock'[s].st = "open" => sock[s].st = "open"
    BY <1>0, <2>2, Fields
  <2>4. AllFresh'
    BY <2>1, <2>3, KeepsFresh DEF SInv
  <2>5. \A s \in Conns : ~Began(s) => UNCHANGED <<got[s], buf[s], sock[s]>>
    BY <2>1, <2>2 DEF Owned, Unborn, Began, IsOpen
  <2> QED BY <1>0, <2>1, <2>3, <2>4, <2>5, QuietSession
<1> QED BY <1>1, <1>2, <1>3, PublishSession DEF Next, Cull

(* A client is sent nothing that was published before its session first    *)
(* connected, whoever's messages were buffered in between.                 *)
THEOREM NothingForeignIsReplayed == Spec => []NoForeignReplay
<1>1. Init => SInv /\ Vacant
  <2>1. NoStream.st = "none" /\ NoStream.of = None /\ NoStream.queue = <<>>
    BY DEF NoStream, Stream
  <2> QED BY <2>1 DEF Init, SInv, Vacant, Blank, Kin, Known, AllFresh
<1>2. TInv /\ Owned /\ Vacant /\ SInv /\ [Next]_vars => SInv' /\ Vacant'
  BY StepSession, StepVacant
<1>3. SInv => NoForeignReplay
  <2> SUFFICES ASSUME SInv, NEW c \in Conns, NEW i \in 1 .. Len(got[c]), got[c][i].kind = "output"
               PROVE  since[key[c]] # None /\ got[c][i].n > since[key[c]]
    BY DEF NoForeignReplay
  <2>1. CASE phase[c] = "new"
    BY <2>1 DEF SInv, Blank, Began
  <2>2. CASE phase[c] # "new"
    BY <2>2 DEF SInv, AllFresh, Fresh
  <2> QED BY <2>1, <2>2
<1> QED BY <1>1, <1>2, <1>3, TypesHold, StreamsOwned, PTL DEF Spec

-----------------------------------------------------------------------------
(* Order: lists of output with rising numbers, lists that go before others, *)
(* and what taking, appending and concatenating does to them.              *)
Rising(q) == \A j \in 1 .. Len(q) : q[j].kind = "output" /\ \A i \in 1 .. j - 1 : q[i].n < q[j].n
Upto(x, q) == \A i \in 1 .. Len(q) : q[i].n <= x
Ahead(q, r) ==
  \A i \in 1 .. Len(q), j \in 1 .. Len(r) : q[i].kind = "overtaking" \/ q[i].n < r[j].n
Sorted(q) == \A j \in 1 .. Len(q) : \A i \in 1 .. j - 1 : q[i].kind = "overtaking" \/ Before(q[i], q[j])
Overtaking(q) == \A i \in 1 .. Len(q) : q[i].kind = "overtaking"

LEMMA CatAt ==
  ASSUME NEW p \in Messages, NEW q \in Messages, NEW i \in 1 .. Len(p \o q)
  PROVE  /\ p \o q \in Messages /\ Len(p) \in Nat /\ Len(q) \in Nat /\ i \in Nat
         /\ \/ i \in 1 .. Len(p) /\ (p \o q)[i] = p[i]
            \/ i > Len(p) /\ i - Len(p) \in 1 .. Len(q) /\ (p \o q)[i] = q[i - Len(p)]
BY DEF Messages

LEMMA TailAt ==
  ASSUME NEW q \in Messages, q # <<>>
  PROVE  /\ Len(q) \in Nat /\ 1 \in 1 .. Len(q) /\ Head(q) = q[1] /\ Len(Tail(q)) = Len(q) - 1 /\ Tail(q) \in Messages
         /\ \A i \in 1 .. Len(Tail(q)) : Tail(q)[i] = q[i + 1] /\ i + 1 \in 2 .. Len(q)
BY DEF Messages

LEMMA MessageAt ==
  ASSUME NEW q \in Messages, NEW i \in 1 .. Len(q)
  PROVE  q[i] \in MessageType /\ q[i].n \in Nat /\ Len(q) \in Nat
<1>1. q[i] \in MessageType
  BY DEF Messages
<1> QED BY <1>1 DEF MessageType, Messages

LEMMA EmptyLists ==
  ASSUME NEW x, NEW q
  PROVE  Rising(<<>>) /\ Upto(x, <<>>) /\ Ahead(<<>>, q) /\ Ahead(q, <<>>) /\ Sorted(<<>>) /\ Overtaking(<<>>)
BY DEF Rising, Upto, Ahead, Sorted, Overtaking

(* What is left of a list when its first message is taken.                 *)
LEMMA RisingTake ==
  ASSUME NEW q \in Messages, q # <<>>, Rising(q)
  PROVE  Rising(Tail(q)) /\ Rising(<<Head(q)>>) /\ Ahead(<<Head(q)>>, Tail(q))
<1>1. Rising(Tail(q))
  <2> SUFFICES ASSUME NEW j \in 1 .. Len(Tail(q))
               PROVE  Tail(q)[j].kind = "output" /\ \A i \in 1 .. j - 1 : Tail(q)[i].n < Tail(q)[j].n
    BY DEF Rising
  <2>1. Tail(q)[j] = q[j + 1] /\ j + 1 \in 1 .. Len(q)
    BY TailAt
  <2>2. \A i \in 1 .. j - 1 : Tail(q)[i] = q[i + 1] /\ i + 1 \in 1 .. j
    BY TailAt
  <2> QED BY <2>1, <2>2 DEF Rising
<1>2. Rising(<<Head(q)>>)
  BY TailAt DEF Rising
<1>3. Ahead(<<Head(q)>>, Tail(q))
  BY TailAt DEF Rising, Ahead
<1> QED BY <1>1, <1>2, <1>3

LEMMA AheadTake ==
  ASSUME NEW q \in Messages, NEW r \in Messages, r # <<>>, Ahead(q, r)
  PROVE  Ahead(q, Tail(r)) /\ Ahead(q, <<Head(r)>>)
BY TailAt DEF Ahead

LEMMA UptoTake ==
  ASSUME NEW q \in Messages, q # <<>>, NEW x, Upto(x, q)
  PROVE  Upto(x, Tail(q)) /\ Upto(x, <<Head(q)>>)
BY TailAt DEF Upto

(* Concatenations.                                                         *)
LEMMA AheadCat ==
  ASSUME NEW p \in Messages, NEW q \in Messages, NEW r \in Messages, Ahead(p, r), Ahead(q, r)
  PROVE  Ahead(p \o q, r)
BY CatAt DEF Ahead

LEMMA UptoCat ==
  ASSUME NEW p \in Messages, NEW q \in Messages, NEW x, Upto(x, p), Upto(x, q)
  PROVE  Upto(x, p \o q)
BY CatAt DEF Upto

LEMMA OvertakingCat ==
  ASSUME NEW p \in Messages, NEW q \in Messages, Overtaking(p), Overtaking(q)
  PROVE  Overtaking(p \o q)
BY CatAt DEF Overtaking

LEMMA OvertakingFree ==
  ASSUME NEW q, Overtaking(q), NEW r
  PROVE  Ahead(q, r) /\ (Len(q) \in Nat => Sorted(q))
BY DEF Overtaking, Ahead, Sorted

LEMMA RisingCat ==
  ASSUME NEW p \in Messages, NEW q \in Messages, Rising(p), Rising(q), Ahead(p, q)
  PROVE  Rising(p \o q)
<1> SUFFICES ASSUME NEW j \in 1 .. Len(p \o q)
             PROVE  (p \o q)[j].kind = "output" /\ \A i \in 1 .. j - 1 : (p \o q)[i].n < (p \o q)[j].n
  BY DEF Rising
<1>1. \A i \in 1 .. j - 1 : i \in 1 .. Len(p \o q)
  BY CatAt
<1>2. CASE j \in 1 .. Len(p) /\ (p \o q)[j] = p[j]
  BY <1>1, <1>2, CatAt DEF Rising
<1>3. CASE j > Len(p) /\ j - Len(p) \in 1 .. Len(q) /\ (p \o q)[j] = q[j - Len(p)]
  <2> SUFFICES ASSUME NEW i \in 1 .. j - 1 PROVE (p \o q)[i].n < q[j - Len(p)].n
    BY <1>3 DEF Rising
  <2>1. CASE i \in 1 .. Len(p) /\ (p \o q)[i] = p[i]
    BY <1>3, <2>1 DEF Rising, Ahead
  <2>2. CASE i > Len(p) /\ i - Len(p) \in 1 .. Len(q) /\ (p \o q)[i] = q[i - Len(p)]
    <3>1. i - Len(p) \in 1 .. (j - Len(p)) - 1
      BY <1>3, <2>2, CatAt
    <3> QED BY <1>3, <2>2, <3>1 DEF Rising
  <2> QED BY <1>1, <2>1, <2>2, CatAt
<1> QED BY <1>2, <1>3, CatAt

LEMMA SortedCat ==
  ASSUME NEW p \in Messages, NEW q \in Messages, Sorted(p), Rising(q), Ahead(p, q)
  PROVE  Sorted(p \o q)
<1> SUFFICES ASSUME NEW j \in 1 .. Len(p \o q), NEW i \in 1 .. j - 1
             PROVE  (p \o q)[i].kind = "overtaking" \/ Before((p \o q)[i], (p \o q)[j])
  BY DEF Sorted
<1>1. i \in 1 .. Len(p \o q)
  BY CatAt
<1>2. CASE j \in 1 .. Len(p) /\ (p \o q)[j] = p[j]
  BY <1>1, <1>2, CatAt DEF Sorted
<1>3. CASE j > Len(p) /\ j - Len(p) \in 1 .. Len(q) /\ (p \o q)[j] = q[j - Len(p)]
  <2>1. q[j - Len(p)].kind = "output"
    BY <1>3 DEF Rising
  <2>2. CASE i \in 1 .. Len(p) /\ (p \o q)[i] = p[i]
    BY <1>3, <2>1, <2>2 DEF Before, Ahead
  <2>3. CASE i > Len(p) /\ i - Len(p) \in 1 .. Len(q) /\ (p \o q)[i] = q[i - Len(p)]
    <3>1. i - Len(p) \in 1 .. (j - Len(p)) - 1
      BY <1>3, <2>3, CatAt
    <3> QED BY <1>3, <2>1, <2>3, <3>1 DEF Rising, Before
  <2> QED BY <1>1, <2>2, <2>3, CatAt
<1> QED BY <1>2, <1>3, CatAt

(* A status goes after everything that was published.                      *)
LEMMA SortedStatus ==
  ASSUME NEW p \in Messages, NEW m \in MessageType, Sorted(p), m.kind # "output", Upto(m.n, p)
  PROVE  Sorted(p \o <<m>>)
<1> SUFFICES ASSUME NEW j \in 1 .. Len(p \o <<m>>), NEW i \in 1 .. j - 1
             PROVE  (p \o <<m>>)[i].kind = "overtaking" \/ Before((p \o <<m>>)[i], (p \o <<m>>)[j])
  BY DEF Sorted
<1>0. <<m>> \in Messages /\ Len(p) \in Nat /\ Len(<<m>>) = 1 /\ <<m>>[1] = m
  BY DEF Messages
<1>1. i \in 1 .. Len(p \o <<m>>)
  BY <1>0, CatAt
<1>2. CASE j \in 1 .. Len(p) /\ (p \o <<m>>)[j] = p[j]
  BY <1>0, <1>1, <1>2, CatAt DEF Sorted
<1>3. CASE j > Len(p) /\ j - Len(p) \in 1 .. Len(<<m>>) /\ (p \o <<m>>)[j] = <<m>>[j - Len(p)]
  <2>1. j = Len(p) + 1 /\ (p \o <<m>>)[j] = m
    BY <1>0, <1>3
  <2>2. i \in 1 .. Len(p) /\ (p \o <<m>>)[i] = p[i]
    BY <1>0, <1>1, <2>1, CatAt
  <2> QED BY <2>1, <2>2 DEF Before, Upto
<1> QED BY <1>0, <1>2, <1>3, CatAt

(* The kernel publishes message x + 1.                                     *)
LEMMA AppendNext ==
  ASSUME NEW q \in Messages, NEW x \in Nat, NEW m \in MessageType, m.kind = "output", m.n = x + 1,
         Upto(x, q)
  PROVE  /\ Rising(q) => Rising(Append(q, m))
         /\ Upto(x + 1, Append(q, m)) /\ Upto(x + 1, q)
         /\ \A r \in Messages : Upto(x, r) /\ Ahead(r, q) => Ahead(r, Append(q, m))
<1>1. <<m>> \in Messages /\ Append(q, m) = q \o <<m>> /\ Rising(<<m>>) /\ Upto(x + 1, <<m>>)
  BY DEF Messages, Rising, Upto
<1>2. Upto(x + 1, q)
  BY MessageAt DEF Upto
<1>3. \A r \in Messages : Upto(x, r) => Ahead(r, <<m>>)
  BY MessageAt DEF Upto, Ahead
<1>4. ASSUME NEW r \in Messages, Upto(x, r), Ahead(r, q) PROVE Ahead(r, q \o <<m>>)
  <2>1. Ahead(r, <<m>>)
    BY <1>3, <1>4
  <2> QED BY <1>1, <1>4, <2>1, CatAt DEF Ahead
<1>5. Rising(q) => Rising(q \o <<m>>)
  BY <1>1, <1>3, RisingCat
<1>6. Upto(x + 1, q \o <<m>>)
  BY <1>1, <1>2, UptoCat
<1> QED BY <1>1, <1>2, <1>4, <1>5, <1>6

-----------------------------------------------------------------------------
(* Whose callback is on which stream.  The one of a buffer is on the       *)
(* stream of who left it, the one of an open connection on its own stream. *)
Fed ==
  \A s \in Conns : sock[s].of # None =>
    /\ sock[s].to = "buffer" => stream[sock[s].of] = s
    /\ sock[s].to = "client" /\ Live(sock[s].of) => stream[sock[s].of] = s /\ task[sock[s].of] = "done"

LEMMA FedKept ==
  ASSUME TInv, Fed,
         \A d \in Conns : /\ Live(d)' => Live(d)
                          /\ task'[d] = task[d] \/ task'[d] = "done",
         \A s \in Conns : sock'[s].of # None =>
           /\ sock'[s].of = sock[s].of /\ sock'[s].to = sock[s].to
           /\ stream[sock[s].of] = s => stream'[sock[s].of] = s
  PROVE  Fed'
<1> SUFFICES ASSUME NEW s \in Conns, sock'[s].of # None
             PROVE  /\ sock'[s].to = "buffer" => stream'[sock'[s].of] = s
                    /\ sock'[s].to = "client" /\ Live(sock[s].of)' =>
                         stream'[sock'[s].of] = s /\ task'[sock'[s].of] = "done"
  BY DEF Fed
<1>1. sock'[s].of \in Conns /\ sock'[s].of = sock[s].of /\ sock'[s].to = sock[s].to
  BY SocketTyped DEF TInv, Holders
<1>2. Live(sock[s].of)' => Live(sock[s].of)
  BY <1>1
<1> QED BY <1>1, <1>2 DEF Fed

LEMMA DisconnectFed ==
  ASSUME TInv, Vacant, Fed, NEW c \in Conns, Disconnect(c), phase' = [phase EXCEPT ![c] = "closed"],
         \A d \in Conns : task'[d] = task[d] \/ task'[d] = "done"
  PROVE  Fed'
<1>0. /\ TypeOK /\ \A d \in Conns : Live(d)' => Live(d) /\ d # c
      /\ stream \in [Conns -> Conns \cup {None}]
  BY DEF TInv, TypeOK, Live
<1> SUFFICES ASSUME NEW s \in Conns, sock'[s].of # None
             PROVE  /\ sock'[s].to = "buffer" => stream'[sock'[s].of] = s
                    /\ sock'[s].to = "client" /\ Live(sock[s].of)' =>
                         stream'[sock'[s].of] = s /\ task'[sock'[s].of] = "done"
  BY DEF Fed
<1>1. CASE s = stream[c] /\ UNCHANGED stream /\ sock'[s] = With(s, "buffer", c)
  BY <1>0, <1>1, Fields
<1>2. CASE sock'[s] = sock[s]
  <2>1. sock[s].of \in Conns /\ sock[s].st = "open" /\ IsOpen(s)
    BY <1>0, <1>2, SocketTyped DEF Vacant, Holders, IsOpen
  <2>2. stream'[sock[s].of] = stream[sock[s].of] \/ (sock[s].of = c /\ stream[c] # s)
    BY <1>0, <1>2, <2>1, Disconnects
  <2>3. Live(sock[s].of)' => Live(sock[s].of)
    BY <1>0, <1>2, <2>1
  <2>4. task'[sock[s].of] = task[sock[s].of] \/ task'[sock[s].of] = "done"
    BY <2>1
  <2> QED BY <1>2, <2>1, <2>2, <2>3, <2>4 DEF Fed
<1>3. CASE sock'[s] = Gone
  BY <1>0, <1>3, Fields
<1> QED BY <1>1, <1>2, <1>3, DisconnectSockets

(* A connection is opened: a callback of its own is that of the nudge.     *)
LEMMA OpenedFed ==
  ASSUME TInv, SInv, Fed, NEW c \in Conns, phase[c] = "preparing", phase' = [phase EXCEPT ![c] = "open"],
         \A d \in Conns \ {c} : stream'[d] = stream[d] /\ task'[d] = task[d],
         \A s \in Conns : sock'[s] = sock[s] \/ sock'[s].of = None \/ (sock'[s].of = c /\ sock'[s].to = "nudge")
  PROVE  Fed'
<1>0. TypeOK /\ \A d \in Conns : Live(d)' => Live(d) \/ d = c
  BY DEF TInv, TypeOK, Live
<1> SUFFICES ASSUME NEW s \in Conns, sock'[s].of # None, sock'[s] = sock[s]
             PROVE  /\ sock[s].to = "buffer" => stream'[sock[s].of] = s
                    /\ sock[s].to = "client" /\ Live(sock[s].of)' =>
                         stream'[sock[s].of] = s /\ task'[sock[s].of] = "done"
  BY DEF Fed
<1>1. sock[s].of \in Conns /\ sock[s].of # c
  BY <1>0, SocketTyped DEF SInv, Kin, Began, Holders
<1>2. Live(sock[s].of)' => Live(sock[s].of)
  BY <1>0, <1>1
<1>3. stream'[sock[s].of] = stream[sock[s].of] /\ task'[sock[s].of] = task[sock[s].of]
  BY <1>1
<1> QED BY <1>1, <1>2, <1>3 DEF Fed

(* What connect() does to the sockets.                                     *)
LEMMA ConnectSockets ==
  ASSUME TInv, Owned, NEW c \in Conns, Connect(c)
  PROVE  /\ phase[c] = "preparing" /\ phase' = [phase EXCEPT ![c] = "open"]
         /\ UNCHANGED <<kernel, ports, key, clock, got, buf>>
         /\ \A d \in Conns \ {c} : stream'[d] = stream[d] /\ task'[d] = task[d] /\ restored'[d] = restored[d]
         /\ task'[c] # "done" /\ (task'[c] = "none" => restored'[c] = restored[c])
         /\ restored'[c] # None /\ restored'[c] # restored[c] =>
              restored'[c] = buffer /\ (ports = captured => stream'[c] = stream[buffer])
         /\ \A s \in Conns : \/ sock'[s] = sock[s]
                             \/ /\ s = c \/ (buffer # None /\ s = stream[buffer] /\ IsOpen(s))
                                /\ sock'[s].of = None \/ (sock'[s].of = c /\ sock'[s].to = "nudge")
                                /\ sock'[s].queue \in {sock[s].queue, <<>>}
<1>0. /\ TypeOK /\ sock \in [Conns -> StreamType] /\ stream \in [Conns -> Conns \cup {None}]
      /\ restored \in [Conns -> Conns \cup {None}] /\ task \in [Conns -> {"none", "nudge", "done"}]
      /\ buffer \in Conns \cup {None}
  BY DEF TInv, TypeOK
<1>1. /\ phase[c] = "preparing" /\ phase' = [phase EXCEPT ![c] = "open"]
      /\ UNCHANGED <<kernel, ports, key, clock, got, buf>>
  BY DEF Connect, ConnectRestored, ConnectBroken, ConnectMoved, ConnectFresh, ConnectGone, Counted
<1>2. task[c] = "none"
  BY <1>0, <1>1 DEF Owned, Tasked
<1>3. /\ \A d \in Conns \ {c} : stream'[d] = stream[d] /\ task'[d] = task[d] /\ restored'[d] = restored[d]
      /\ task'[c] # "done" /\ (task'[c] = "none" => restored'[c] = restored[c])
  BY <1>0, <1>2 DEF Connect, ConnectRestored, ConnectBroken, ConnectMoved, ConnectFresh, ConnectGone
<1>4. restored'[c] # None /\ restored'[c] # restored[c] =>
        restored'[c] = buffer /\ (ports = captured => stream'[c] = stream[buffer])
  BY <1>0 DEF Connect, ConnectRestored, ConnectBroken, ConnectMoved, ConnectFresh, ConnectGone
<1>5. ASSUME NEW s \in Conns
      PROVE  \/ sock'[s] = sock[s]
             \/ /\ s = c \/ (buffer # None /\ s = stream[buffer] /\ IsOpen(s))
                /\ sock'[s].of = None \/ (sock'[s].of = c /\ sock'[s].to = "nudge")
                /\ sock'[s].queue \in {sock[s].queue, <<>>}
  <2>1. CASE ConnectRestored(c)
    <3>1. /\ \A r \in Conns \ {stream[buffer]} : sock'[r] = sock[r]
          /\ stream[buffer] \in Conns /\ IsOpen(stream[buffer]) /\ buffer # None
          /\ sock'[stream[buffer]] = sock[stream[buffer]] \/
               sock'[stream[buffer]] = Stream("open", "nudge", c, sock[stream[buffer]].queue, sock[stream[buffer]].ports)
      BY <1>0, <2>1 DEF ConnectRestored, Nudged, IsOpen, Matching
    <3> QED BY <3>1, StreamFields
  <2>2. CASE ConnectMoved(c)
    BY <1>0, <2>2, Fields, StreamFields DEF ConnectMoved, Nudged
  <2>3. CASE ConnectFresh(c)
    BY <1>0, <2>3, Fields, StreamFields DEF ConnectFresh
  <2>4. CASE ConnectGone(c)
    BY <1>0, <2>4, Fields DEF ConnectGone
  <2>5. CASE ConnectBroken(c)
    BY <2>5 DEF ConnectBroken
  <2> QED BY <2>1, <2>2, <2>3, <2>4, <2>5 DEF Connect
<1> QED BY <1>1, <1>3, <1>4, <1>5

LEMMA StepFed ==
  ASSUME TInv, Owned, Vacant, SInv, Fed, [Next]_vars
  PROVE  Fed'
<1>0. /\ TypeOK /\ sock \in [Conns -> StreamType] /\ stream \in [Conns -> Conns \cup {None}]
      /\ phase \in [Conns -> {"new", "preparing", "open", "closed", "failed"}]
      /\ task \in [Conns -> {"none", "nudge", "done"}]
  BY DEF TInv, TypeOK
<1>1. ASSUME NEW c \in Conns, Websocket(c) PROVE Fed'
  <2>1. CASE (\E k \in Keys : Register(c, k)) \/ PrepareFails(c) \/ NudgeEndsClosed(c)
    <3>1. UNCHANGED <<sock, stream>>
      BY <2>1 DEF Register, PrepareFails, NudgeEndsClosed
    <3>2. \A d \in Conns : (Live(d)' => Live(d)) /\ (task'[d] = task[d] \/ task'[d] = "done")
      BY <1>0, <2>1 DEF Register, PrepareFails, NudgeEndsClosed, Live
    <3> QED BY <3>1, <3>2, FedKept
  <2>2. CASE LeaveEarly(c) \/ Leave(c)
    BY <2>2, DisconnectFed DEF LeaveEarly, Leave
  <2>3. CASE DisconnectAgain(c)
    <3>1. phase' = [phase EXCEPT ![c] = "closed"]
      BY <1>0, <2>3, DanglingClosed DEF DisconnectAgain
    <3> QED BY <1>0, <2>3, <3>1, DisconnectFed DEF DisconnectAgain
  <2>4. CASE Connect(c)
    BY <2>4, ConnectSockets, OpenedFed
  <2>5. CASE HandsOver(c)
    <3>1. /\ stream[c] \in Conns /\ UNCHANGED <<stream, phase>> /\ task'[c] = "done"
          /\ sock'[stream[c]] = With(stream[c], "client", c)
          /\ \A s \in Conns \ {stream[c]} : sock'[s] = sock[s]
          /\ \A d \in Conns : task'[d] = task[d] \/ task'[d] = "done"
      BY <1>0, <2>5 DEF HandsOver, IsOpen
    <3>2. \A s \in Conns : sock[s].of # None => sock[s].of \in Conns
      BY <1>0, SocketTyped DEF Holders
    <3> QED BY <1>0, <3>1, <3>2, Fields DEF Fed, Live
  <2>6. CASE Receive(c)
    <3>1. /\ UNCHANGED <<stream, phase, task>>
          /\ \A s \in Conns \ {c} : sock'[s] = sock[s]
          /\ sock'[c].of # None => sock'[c].of = sock[c].of /\ sock'[c].to = sock[c].to
      BY <1>0, <2>6, StreamFields DEF Receive, AfterOne
    <3> QED BY <3>1, FedKept DEF Live
  <2> QED BY <1>1, <2>1, <2>2, <2>3, <2>4, <2>5, <2>6 DEF Websocket, NudgeEnds, Subscribe, NudgeTimesOut
<1>2. CASE Publish
  <2>1. UNCHANGED <<stream, phase, task>> /\ \A s \in Conns : sock'[s].of = sock[s].of /\ sock'[s].to = sock[s].to
    BY <1>0, <1>2, StreamFields DEF Publish
  <2> QED BY <2>1, FedKept DEF Live
<1>3. CASE KernelRestarted \/ KernelDied
  <2>1. \A s \in Conns : AfterFlush(s).of # None => AfterFlush(s).of = sock[s].of /\ AfterFlush(s).to = sock[s].to
    BY StreamFields DEF AfterFlush, AfterOne
  <2>2. UNCHANGED <<stream, phase, task>> /\ \A s \in Conns : sock'[s] = AfterFlush(s)
    BY <1>3 DEF KernelRestarted, KernelDied, SendStatus
  <2> QED BY <2>1, <2>2, FedKept DEF Live
<1>4. CASE BeginShutdown \/ KernelRemoved \/ UNCHANGED vars
  <2>1. UNCHANGED <<stream, phase, task>> /\ \A s \in Conns : sock'[s] = sock[s] \/ sock'[s] = Gone
    BY <1>0, <1>4 DEF BeginShutdown, StopBuffering, KernelRemoved, vars
  <2>2. \A s \in Conns : sock'[s].of # None => sock'[s].of = sock[s].of /\ sock'[s].to = sock[s].to
    BY <1>0, <2>1, Fields
  <2> QED BY <2>1, <2>2, FedKept DEF Live
<1> QED BY <1>1, <1>2, <1>3, <1>4 DEF Next, Cull

(* An open connection that has subscribed is its stream's client, or some  *)
(* other connection that was on this stream is.                            *)
Served == \A c \in Conns : Live(c) /\ task[c] = "done" => sock[stream[c]].to = "client"

LEMMA ServedKept ==
  ASSUME Served, Joined', UNCHANGED phase,
         \A d \in Conns : Live(d) /\ task'[d] = "done" => task[d] = "done" /\ stream'[d] = stream[d],
         \A s \in Conns : sock'[s].to \in {sock[s].to, "client"} \/ sock'[s].st # "open" \/ sock[s].to = "nudge"
  PROVE  Served'
<1> SUFFICES ASSUME NEW d \in Conns, Live(d), task'[d] = "done" PROVE sock'[stream'[d]].to = "client"
  BY DEF Served, Live
<1>1. task[d] = "done" /\ stream'[d] = stream[d] /\ sock[stream[d]].to = "client"
  BY DEF Served
<1>2. stream'[d] \in Conns /\ sock'[stream'[d]].st = "open"
  BY DEF Joined, IsOpen, Live
<1> QED BY <1>1, <1>2

LEMMA StepServed ==
  ASSUME TInv, Owned, Owned', Served, [Next]_vars
  PROVE  Served'
<1>0. /\ TypeOK /\ sock \in [Conns -> StreamType] /\ stream \in [Conns -> Conns \cup {None}]
      /\ phase \in [Conns -> {"new", "preparing", "open", "closed", "failed"}]
      /\ task \in [Conns -> {"none", "nudge", "done"}] /\ Joined /\ Joined' /\ Kept /\ Unborn /\ Tasked
  BY DEF TInv, TypeOK, Owned
<1>1. \A d \in Conns : Live(d) /\ task[d] # "none" => stream[d] \in Conns /\ sock[stream[d]].st = "open"
  BY <1>0 DEF Joined, IsOpen
<1>2. \A d \in Conns : Live(d)' /\ task'[d] = "done" => stream'[d] \in Conns /\ sock'[stream'[d]].st = "open"
  BY <1>0 DEF Joined, IsOpen
<1>3. ASSUME NEW c \in Conns, Websocket(c) PROVE Served'
  <2>1. CASE (\E k \in Keys : Register(c, k)) \/ PrepareFails(c)
    <3>1. UNCHANGED <<sock, stream, task>> /\ \A d \in Conns : Live(d)' => Live(d)
      BY <1>0, <2>1 DEF Register, PrepareFails, Live
    <3> QED BY <3>1 DEF Served
  <2>2. CASE LeaveEarly(c) \/ Leave(c) \/ DisconnectAgain(c)
    <3>1. /\ Disconnect(c) /\ \A d \in Conns : Live(d)' => Live(d) /\ d # c /\ task'[d] = task[d]
      BY <1>0, <2>2, DanglingClosed DEF LeaveEarly, Leave, DisconnectAgain, Live
    <3>2. \A d \in Conns \ {c} : stream'[d] = stream[d]
      BY <1>0, <3>1, Disconnects
    <3>3. \A s \in Conns : sock'[s] = sock[s] \/ sock'[s].st = "closed" \/ s = stream[c]
      BY <1>0, <3>1, DisconnectSockets, Fields
    <3> SUFFICES ASSUME NEW d \in Conns, Live(d)', task'[d] = "done" PROVE sock'[stream'[d]].to = "client"
      BY DEF Served
    <3>4. d # c /\ Live(d) /\ task[d] = "done" /\ stream'[d] = stream[d] /\ IsOpen(stream[d]) /\ stream[d] \in Conns
      BY <1>1, <3>1, <3>2 DEF IsOpen
    <3>5. sock'[stream[d]].st = "open"
      BY <1>2, <3>4
    <3>6. stream[d] = stream[c] => ~Live(c) /\ c \in Conns /\ phase[c] # "preparing"
      BY <1>0, <3>4 DEF Owned, Apart, Unborn
    <3>7. stream[d] = stream[c] => ~IsOpen(stream[c])
      BY <1>0, <2>2, <3>6 DEF LeaveEarly, Leave, DisconnectAgain, Dangling
    <3>8. sock'[stream[d]] = sock[stream[d]]
      BY <3>3, <3>4, <3>5, <3>7
    <3> QED BY <3>4, <3>8 DEF Served
  <2>3. CASE Connect(c)
    <3>1. \A d \in Conns : Live(d)' /\ task'[d] = "done" =>
            /\ d # c /\ Live(d) /\ task[d] = "done" /\ stream'[d] = stream[d] /\ stream[d] \in Conns
            /\ stream[d] # c /\ (buffer # None => stream[d] # stream[buffer])
      <4>1. sock[c].st = "none" /\ \A d \in Conns : Live(d)' => d = c \/ Live(d)
        BY <1>0, <2>3, ConnectSockets DEF Unborn, Live
      <4>2. \A d \in Conns : Live(d) /\ task[d] = "done" => IsOpen(stream[d])
        BY <1>0 DEF Joined
      <4> QED BY <1>0, <1>1, <2>3, <4>1, <4>2, ConnectSockets DEF Kept
    <3>2. \A s \in Conns : sock'[s] = sock[s] \/ s = c \/ (buffer # None /\ s = stream[buffer])
      BY <2>3, ConnectSockets
    <3> SUFFICES ASSUME NEW d \in Conns, Live(d)', task'[d] = "done" PROVE sock'[stream'[d]].to = "client"
      BY DEF Served
    <3>3. sock'[stream[d]] = sock[stream[d]]
      BY <3>1, <3>2
    <3> QED BY <3>1, <3>3 DEF Served
  <2>4. CASE HandsOver(c)
    <3>1. /\ stream[c] \in Conns /\ UNCHANGED <<stream, phase>>
          /\ sock'[stream[c]].to = "client"
          /\ \A s \in Conns \ {stream[c]} : sock'[s] = sock[s]
          /\ \A d \in Conns \ {c} : task'[d] = task[d]
      BY <1>0, <2>4, Fields DEF HandsOver, IsOpen
    <3> QED BY <1>1, <3>1 DEF Served, Live
  <2>5. CASE NudgeEndsClosed(c)
    <3>1. ~Live(c)
      BY <1>0, <2>5 DEF NudgeEndsClosed, Dangling, Joined
    <3> QED BY <1>0, <2>5, <3>1 DEF NudgeEndsClosed, Served, Live
  <2>6. CASE Receive(c)
    <3>1. /\ UNCHANGED <<stream, phase, task>> /\ \A s \in Conns \ {c} : sock'[s] = sock[s]
          /\ sock'[c].to = sock[c].to \/ sock[c].to = "nudge"
      BY <1>0, <2>6, StreamFields DEF Receive, AfterOne
    <3> QED BY <1>0, <3>1, ServedKept
  <2> QED BY <1>3, <2>1, <2>2, <2>3, <2>4, <2>5, <2>6 DEF Websocket, NudgeEnds, Subscribe, NudgeTimesOut
<1>4. CASE Publish
  <2>1. UNCHANGED <<stream, phase, task>> /\ \A s \in Conns : sock'[s].to = sock[s].to
    BY <1>0, <1>4, StreamFields DEF Publish
  <2> QED BY <1>0, <2>1, ServedKept
<1>5. CASE KernelRestarted \/ KernelDied
  <2>1. \A s \in Conns : AfterFlush(s).to = sock[s].to \/ sock[s].to = "nudge"
    BY StreamFields DEF AfterFlush, AfterOne
  <2>2. UNCHANGED <<stream, phase, task>> /\ \A s \in Conns : sock'[s] = AfterFlush(s)
    BY <1>5 DEF KernelRestarted, KernelDied, SendStatus
  <2> QED BY <1>0, <2>1, <2>2, ServedKept
<1>6. CASE BeginShutdown \/ KernelRemoved \/ UNCHANGED vars
  <2>1. UNCHANGED <<stream, phase, task>> /\ \A s \in Conns : sock'[s] = sock[s] \/ sock'[s] = Gone
    BY <1>0, <1>6 DEF BeginShutdown, StopBuffering, KernelRemoved, vars
  <2>2. \A s \in Conns : sock'[s].to = sock[s].to \/ sock'[s].st # "open"
    BY <1>0, <2>1, Fields
  <2> QED BY <1>0, <2>1, <2>2, ServedKept
<1> QED BY <1>3, <1>4, <1>5, <1>6 DEF Next, Cull

-----------------------------------------------------------------------------
(* What a connection has before it subscribes: nothing, or the status of a *)
(* restart that overtook what it is to replay.  What it is to replay comes *)
(* from the stream it has.                                                 *)
Waiting ==
  \A c \in Conns :
    /\ task[c] = "none" => got[c] = <<>>
    /\ Live(c) /\ task[c] = "nudge" => Overtaking(got[c])
    /\ ports = 0 /\ Live(c) /\ task[c] = "nudge" /\ restored[c] # None => stream[restored[c]] = stream[c]

(* What the callbacks hand to an open connection, it has subscribed for.   *)
LEMMA FlushedToClient ==
  ASSUME TInv, Fed, NEW c \in Conns, Live(c)
  PROVE  /\ task[c] # "done" => FlushedTo("client", c) = <<>>
         /\ FlushedTo("client", c) # <<>> => FlushedTo("client", c) = sock[stream[c]].queue
<1>1. CASE FlushedTo("client", c) = <<>>
  BY <1>1
<1>2. CASE FlushedTo("client", c) # <<>>
  <2>1. PICK s \in Conns : sock[s].to = "client" /\ sock[s].of = c /\ FlushedTo("client", c) = sock[s].queue
    BY <1>2, Flushes DEF TInv
  <2>2. c # None
    OBVIOUS
  <2> QED BY <2>1, <2>2 DEF Fed
<1> QED BY <1>1, <1>2

LEMMA WaitingKept ==
  ASSUME Waiting, ports' = 0 => ports = 0,
         \A c \in Conns : /\ task'[c] = "none" => task[c] = "none" /\ got'[c] = got[c]
                          /\ Live(c)' /\ task'[c] = "nudge" =>
                               /\ Live(c) /\ task[c] = "nudge" /\ restored'[c] = restored[c]
                               /\ got'[c] = got[c] \/ Overtaking(got'[c])
                               /\ ports' = 0 /\ restored[c] # None =>
                                    stream'[c] = stream[c] /\ stream'[restored[c]] = stream[restored[c]]
  PROVE  Waiting'
BY DEF Waiting

LEMMA StepWaiting ==
  ASSUME TInv, Owned, Owned', SInv, Captured, Fed, Waiting, [Next]_vars
  PROVE  Waiting'
<1>0. /\ TypeOK /\ sock \in [Conns -> StreamType] /\ stream \in [Conns -> Conns \cup {None}]
      /\ restored \in [Conns -> Conns \cup {None}] /\ got \in [Conns -> Messages]
      /\ phase \in [Conns -> {"new", "preparing", "open", "closed", "failed"}]
      /\ task \in [Conns -> {"none", "nudge", "done"}] /\ Joined /\ Joined' /\ Tasked /\ ports \in Nat
  BY DEF TInv, TypeOK, Owned, Messages
<1>1. ASSUME NEW c \in Conns, Websocket(c) PROVE Waiting'
  <2>1. CASE (\E k \in Keys : Register(c, k)) \/ PrepareFails(c) \/ NudgeEndsClosed(c)
    <3>1. /\ UNCHANGED <<stream, restored, ports, got>>
          /\ \A d \in Conns : /\ Live(d)' => Live(d)
                              /\ task'[d] = task[d] \/ (task[d] # "none" /\ task'[d] = "done")
      BY <1>0, <2>1 DEF Register, PrepareFails, NudgeEndsClosed, Dangling, Live
    <3> QED BY <3>1, WaitingKept
  <2>2. CASE LeaveEarly(c) \/ Leave(c) \/ DisconnectAgain(c)
    <3>1. /\ Disconnect(c) /\ \A d \in Conns : Live(d)' => Live(d) /\ d # c /\ task'[d] = task[d]
      BY <1>0, <2>2, DanglingClosed DEF LeaveEarly, Leave, DisconnectAgain, Live
    <3>2. \A d \in Conns \ {c} : stream'[d] = stream[d]
      BY <1>0, <3>1, Disconnects
    <3>3. /\ UNCHANGED <<restored, ports>> /\ \A d \in Conns \ {c} : got'[d] = got[d] /\ task'[d] = task[d]
          /\ task'[c] = "none" => task[c] = "none" /\ got'[c] \in {got[c], <<>>}
      BY <1>0, <2>2 DEF LeaveEarly, Leave, DisconnectAgain
    <3>4. task'[c] = "none" => got'[c] = got[c]
      BY <3>3 DEF Waiting
    <3>5. ASSUME NEW d \in Conns, Live(d)', task[d] = "nudge", ports = 0, restored[d] # None
          PROVE  stream'[restored[d]] = stream[restored[d]]
      <4>1. Live(d) /\ d # c /\ restored[d] \in Conns /\ stream[restored[d]] = stream[d] /\ phase[restored[d]] = "closed"
        BY <1>0, <3>1, <3>5 DEF Waiting, SInv, Kin
      <4>2. CASE restored[d] = c
        <5>1. IsOpen(stream[c])
          BY <1>0, <3>5, <4>1, <4>2 DEF Joined
        <5> QED BY <2>2, <4>1, <4>2, <5>1 DEF LeaveEarly, Leave, DisconnectAgain, Dangling, Live
      <4> QED BY <3>2, <4>1, <4>2
    <3>6. \A d \in Conns : Live(d)' /\ task'[d] = "nudge" => d # c /\ Live(d) /\ task[d] = "nudge"
      BY <3>1
    <3> QED BY <3>2, <3>3, <3>4, <3>5, <3>6, WaitingKept
  <2>3. CASE Connect(c)
    <3>1. /\ phase[c] = "preparing" /\ UNCHANGED <<ports, got>>
          /\ \A d \in Conns : Live(d)' => Live(d) \/ d = c
          /\ \A d \in Conns \ {c} : stream'[d] = stream[d] /\ task'[d] = task[d] /\ restored'[d] = restored[d]
          /\ restored'[c] # None /\ restored'[c] # restored[c] =>
              restored'[c] = buffer /\ (ports = captured => stream'[c] = stream[buffer])
      BY <1>0, <2>3, ConnectSockets DEF Live
    <3>2. got[c] = <<>> /\ restored[c] = None /\ (buffer # None => buffer \in Conns \ {c})
      BY <1>0, <3>1 DEF SInv, Blank, Began, Kin, Owned, Kept, TypeOK
    <3>3. Overtaking(got[c])
      BY <3>2, EmptyLists
    <3>4. ASSUME NEW d \in Conns, ports = 0, Live(d)', task'[d] = "nudge", restored'[d] # None
          PROVE  stream'[restored'[d]] = stream'[d]
      <4>1. CASE d = c
        <5>1. restored'[c] = buffer /\ buffer \in Conns \ {c} /\ ports = captured
          BY <1>0, <3>1, <3>2, <3>4, <4>1 DEF Captured
        <5> QED BY <3>1, <3>2, <3>4, <4>1, <5>1
      <4>2. CASE d # c
        <5>1. Live(d) /\ restored[d] # None /\ task[d] = "nudge" /\ restored'[d] = restored[d]
          BY <3>1, <3>4, <4>2
        <5>2. restored[d] \in Conns \ {c}
          BY <1>0, <3>1, <5>1 DEF SInv, Kin
        <5> QED BY <3>1, <3>4, <4>2, <5>1, <5>2 DEF Waiting
      <4> QED BY <4>1, <4>2
    <3>5. \A d \in Conns : task'[d] = "none" => got[d] = <<>>
      BY <3>1, <3>2 DEF Waiting
    <3>6. \A d \in Conns : Live(d)' /\ task'[d] = "nudge" => Overtaking(got[d])
      BY <3>1, <3>3 DEF Waiting
    <3> QED BY <3>1, <3>4, <3>5, <3>6 DEF Waiting
  <2>4. CASE HandsOver(c)
    <3>1. /\ UNCHANGED <<stream, phase, restored, ports>> /\ task'[c] = "done"
          /\ \A d \in Conns \ {c} : task'[d] = task[d] /\ got'[d] = got[d]
      BY <1>0, <2>4 DEF HandsOver
    <3> QED BY <3>1, WaitingKept DEF Live
  <2>5. CASE Receive(c)
    <3>1. UNCHANGED <<stream, phase, restored, ports, task>>
      BY <2>5 DEF Receive
    <3>2. \A d \in Conns : got'[d] = got[d] \/ (sock[c].to = "client" /\ sock[c].of = d /\ Live(d))
      BY <2>5 DEF Receive, Deliver, Writable
    <3>3. \A d \in Conns : got'[d] = got[d] \/ task[d] = "done"
      BY <3>2 DEF Fed
    <3> QED BY <3>1, <3>3, WaitingKept DEF Live
  <2> QED BY <1>1, <2>1, <2>2, <2>3, <2>4, <2>5 DEF Websocket, NudgeEnds, Subscribe, NudgeTimesOut
<1>2. CASE KernelRestarted \/ KernelDied
  <2>1. UNCHANGED <<stream, phase, restored, task>> /\ (ports' = 0 => ports = 0) /\ SendStatus
    BY <1>0, <1>2 DEF KernelRestarted, KernelDied
  <2>2. ASSUME NEW c \in Conns, task[c] = "none" PROVE got'[c] = got[c]
    <3>1. CASE Writable(c)
      <4>1. FlushedTo("client", c) = <<>> /\ ~Listening(c) /\ got[c] \in Messages
        BY <1>0, <2>2, <3>1, FlushedToClient DEF Writable, Listening
      <4>2. got'[c] = (got[c] \o <<>>) \o <<>>
        BY <2>1, <3>1, <4>1 DEF SendStatus
      <4> QED BY <4>1, <4>2 DEF Messages
    <3>2. CASE ~Writable(c)
      BY <2>1, <3>2 DEF SendStatus
    <3> QED BY <3>1, <3>2
  <2>3. ASSUME NEW c \in Conns, task[c] = "nudge", Live(c) PROVE got'[c] = got[c] \/ Overtaking(got'[c])
    <3>1. CASE Writable(c)
      <4>1. FlushedTo("client", c) = <<>> /\ Overtaking(got[c]) /\ got[c] \in Messages /\ clock \in 0 .. MaxMessages
        BY <1>0, <2>3, FlushedToClient DEF Waiting, TypeOK
      <4>2. got[c] \o <<>> = got[c]
        BY <4>1 DEF Messages
      <4>3. got'[c] = got[c] \o IF Listening(c) THEN <<Status(c)>> ELSE <<>>
        BY <2>1, <3>1, <4>1, <4>2 DEF SendStatus
      <4>4. Status(c) \in MessageType /\ Status(c).kind = "overtaking"
        BY <2>3, <4>1 DEF Status, Message, MessageType, Kinds
      <4>5. <<Status(c)>> \in Messages /\ Overtaking(<<Status(c)>>)
        BY <4>4 DEF Messages, Overtaking
      <4> QED BY <4>1, <4>2, <4>3, <4>5, OvertakingCat
    <3>2. CASE ~Writable(c)
      BY <2>1, <3>2 DEF SendStatus
    <3> QED BY <3>1, <3>2
  <2> QED BY <2>1, <2>2, <2>3, WaitingKept DEF Live
<1>3. CASE Publish \/ BeginShutdown \/ KernelRemoved \/ UNCHANGED vars
  <2>1. UNCHANGED <<stream, phase, restored, task, ports, got>>
    BY <1>3 DEF Publish, BeginShutdown, KernelRemoved, vars
  <2> QED BY <2>1, WaitingKept DEF Live
<1> QED BY <1>1, <1>2, <1>3 DEF Next, Cull

-----------------------------------------------------------------------------
(* The lists are in order, and what a connection has, or will replay, goes *)
(* before what its stream still queues.                                    *)
Lined ==
  \A c \in Conns : /\ Rising(sock[c].queue) /\ Rising(buf[c])
                   /\ Upto(clock, sock[c].queue) /\ Upto(clock, buf[c]) /\ Upto(clock, got[c])
Queued == \A c \in Conns : IsOpen(stream[c]) => Ahead(buf[c], sock[stream[c]].queue)
Ordered ==
  ports = 0 =>
  \A c \in Conns : /\ Sorted(got[c])
                   /\ Live(c) /\ IsOpen(stream[c]) => Ahead(got[c], sock[stream[c]].queue)
OInv == Lined /\ Queued /\ Ordered

(* A queue loses its first message, or all of them.                        *)
Thinner(q, r) == q = r \/ q = <<>> \/ (r # <<>> /\ q = Tail(r))

LEMMA ThinnerLists ==
  ASSUME NEW r \in Messages, NEW q, Thinner(q, r), NEW x
  PROVE  /\ Rising(r) => Rising(q)
         /\ Upto(x, r) => Upto(x, q)
         /\ \A p \in Messages : Ahead(p, r) => Ahead(p, q)
BY EmptyLists, RisingTake, UptoTake, AheadTake DEF Thinner

LEMMA ListsTyped ==
  ASSUME TypeOK
  PROVE  \A c \in Conns : sock[c].queue \in Messages /\ buf[c] \in Messages /\ got[c] \in Messages
BY SocketTyped DEF TypeOK, Messages

(* Steps that add nothing to a list.                                       *)
LEMMA ThinnerOrder ==
  ASSUME TInv, OInv, UNCHANGED clock, ports' = 0 => ports = 0,
         \A c \in Conns : /\ Thinner(sock'[c].queue, sock[c].queue)
                          /\ buf'[c] \in {buf[c], <<>>} /\ got'[c] \in {got[c], <<>>}
                          /\ IsOpen(stream[c])' =>
                               buf'[c] = <<>> \/ (stream'[c] = stream[c] /\ IsOpen(stream[c]))
                          /\ IsOpen(stream[c])' /\ Live(c)' =>
                               got'[c] = <<>> \/ (stream'[c] = stream[c] /\ IsOpen(stream[c]) /\ Live(c))
  PROVE  OInv'
<1>0. TypeOK
  BY DEF TInv
<1>1. Lined'
  <2> SUFFICES ASSUME NEW c \in Conns
               PROVE  /\ Rising(sock'[c].queue) /\ Rising(buf'[c])
                      /\ Upto(clock, sock'[c].queue) /\ Upto(clock, buf'[c]) /\ Upto(clock, got'[c])
    BY DEF Lined
  <2>1. Rising(sock'[c].queue) /\ Upto(clock, sock'[c].queue)
    BY <1>0, ListsTyped, ThinnerLists DEF OInv, Lined
  <2>2. Rising(buf'[c]) /\ Upto(clock, buf'[c]) /\ Upto(clock, got'[c])
    BY EmptyLists DEF OInv, Lined
  <2> QED BY <2>1, <2>2
<1>2. \A c, s \in Conns : /\ Ahead(buf[c], sock[s].queue) => Ahead(buf[c], sock'[s].queue)
                          /\ Ahead(got[c], sock[s].queue) => Ahead(got[c], sock'[s].queue)
  BY <1>0, ListsTyped, ThinnerLists
<1>3. Queued'
  <2> SUFFICES ASSUME NEW c \in Conns, IsOpen(stream[c])' PROVE Ahead(buf'[c], sock'[stream'[c]].queue)
    BY DEF Queued
  <2>1. CASE buf'[c] = <<>>
    BY <2>1, EmptyLists
  <2>2. CASE buf'[c] = buf[c] /\ stream'[c] = stream[c] /\ IsOpen(stream[c])
    BY <1>2, <2>2 DEF OInv, Queued, IsOpen
  <2> QED BY <2>1, <2>2
<1>4. Ordered'
  <2> SUFFICES ASSUME ports = 0, NEW c \in Conns
               PROVE  /\ Sorted(got'[c])
                      /\ Live(c)' /\ IsOpen(stream[c])' => Ahead(got'[c], sock'[stream'[c]].queue)
    BY DEF Ordered
  <2>1. Sorted(got'[c])
    BY EmptyLists DEF OInv, Ordered
  <2>2. ASSUME Live(c)', IsOpen(stream[c])' PROVE Ahead(got'[c], sock'[stream'[c]].queue)
    <3>1. CASE got'[c] = <<>>
      BY <3>1, EmptyLists
    <3>2. CASE got'[c] = got[c] /\ stream'[c] = stream[c] /\ IsOpen(stream[c]) /\ Live(c)
      BY <1>2, <3>2 DEF OInv, Ordered, IsOpen
    <3> QED BY <2>2, <3>1, <3>2
  <2> QED BY <2>1, <2>2
<1> QED BY <1>1, <1>3, <1>4 DEF OInv

LEMMA DisconnectOrder ==
  ASSUME TInv, OInv, NEW c \in Conns, Disconnect(c), UNCHANGED <<clock, ports>>,
         \A d \in Conns : got'[d] \in {got[d], <<>>} /\ (Live(d)' => Live(d))
  PROVE  OInv'
<1>0. TypeOK
  BY DEF TInv
<1>1. /\ \A s \in Conns : \/ sock'[s] = sock[s]
                          \/ IsOpen(s) /\ sock'[s] = Gone
                          \/ s = stream[c] /\ IsOpen(s) /\ UNCHANGED stream /\ sock'[s] = With(s, "buffer", c)
      /\ \A d \in Conns : buf'[d] \in {buf[d], <<>>}
      /\ \A d \in Conns : stream'[d] \in {stream[d], None}
  BY DisconnectSockets
<1>2. \A s \in Conns : sock'[s].queue \in {sock[s].queue, <<>>} /\ (IsOpen(s)' => IsOpen(s))
  BY <1>0, <1>1, Fields DEF IsOpen
<1>3. \A d \in Conns : IsOpen(stream[d])' => stream'[d] = stream[d] /\ IsOpen(stream[d])
  BY <1>1, <1>2 DEF IsOpen
<1>4. \A s \in Conns : Thinner(sock'[s].queue, sock[s].queue)
  BY <1>2 DEF Thinner
<1> QED BY <1>1, <1>3, <1>4, ThinnerOrder

LEMMA ConnectOrder ==
  ASSUME TInv, Owned, SInv, OInv, NEW c \in Conns, Connect(c)
  PROVE  OInv'
<1>0. TypeOK
  BY DEF TInv
<1>1. /\ phase[c] = "preparing" /\ UNCHANGED <<ports, clock, got, buf>>
      /\ \A d \in Conns \ {c} : stream'[d] = stream[d]
      /\ \A s \in Conns : \/ sock'[s] = sock[s]
                          \/ /\ s = c \/ (buffer # None /\ s = stream[buffer] /\ IsOpen(s))
                             /\ sock'[s].queue \in {sock[s].queue, <<>>}
      /\ \A d \in Conns : Live(d)' => Live(d) \/ d = c
  BY ConnectSockets DEF TInv, TypeOK, Live
<1>2. got[c] = <<>> /\ buf[c] = <<>> /\ sock[c].st = "none"
  BY <1>1 DEF SInv, Blank, Began, Owned, Unborn
<1>3. \A d \in Conns \ {c} : IsOpen(stream[d])' => IsOpen(stream[d])
  <2> SUFFICES ASSUME NEW d \in Conns \ {c}, IsOpen(stream[d])' PROVE IsOpen(stream[d])
    OBVIOUS
  <2>1. stream[d] \in Conns /\ sock'[stream[d]].st = "open"
    BY <1>1 DEF IsOpen
  <2>2. stream[d] # c
    BY <1>2, <2>1 DEF Owned, Named
  <2> QED BY <1>1, <2>1, <2>2 DEF IsOpen
<1>4. \A s \in Conns : Thinner(sock'[s].queue, sock[s].queue)
  BY <1>1 DEF Thinner
<1> QED BY <1>1, <1>2, <1>3, <1>4, ThinnerOrder

LEMMA SubscribeOrder ==
  ASSUME TInv, OInv, Waiting, NEW c \in Conns, HandsOver(c)
  PROVE  OInv'
<1>0. /\ TypeOK /\ UNCHANGED <<stream, phase, ports, clock>> /\ stream[c] \in Conns /\ IsOpen(stream[c])
      /\ sock \in [Conns -> StreamType] /\ got \in [Conns -> Seq(MessageType)] /\ task[c] = "nudge"
      /\ restored \in [Conns -> Conns \cup {None}]
  BY DEF TInv, TypeOK, HandsOver, IsOpen
<1>1. \A s \in Conns : sock'[s].queue = sock[s].queue /\ sock'[s].st = sock[s].st
  BY <1>0, Fields DEF HandsOver, IsOpen
<1>2. /\ \A d \in Conns : buf'[d] \in {buf[d], <<>>}
      /\ \A d \in Conns \ {c} : got'[d] = got[d]
      /\ got'[c] = got[c] \/ (Live(c) /\ got'[c] = got[c] \o Replayed(c))
  BY <1>0 DEF HandsOver, DropList, Writable
<1>3. \A d \in Conns : got[d] \in Messages /\ buf[d] \in Messages /\ sock[d].queue \in Messages
  BY <1>0, ListsTyped
<1>4. \A d \in Conns : IsOpen(stream[d])' <=> IsOpen(stream[d])
  BY <1>0, <1>1 DEF IsOpen
<1>5. /\ Replayed(c) \in Messages /\ Rising(Replayed(c)) /\ Upto(clock, Replayed(c))
  <2>1. <<>> \in Messages
    BY DEF Messages
  <2> QED BY <1>0, <1>3, <2>1, EmptyLists DEF Replayed, OInv, Lined
<1>6. Lined'
  <2>1. Upto(clock, got[c] \o Replayed(c))
    BY <1>3, <1>5, UptoCat DEF OInv, Lined
  <2> QED BY <1>0, <1>1, <1>2, <2>1, EmptyLists DEF OInv, Lined
<1>7. Queued'
  BY <1>0, <1>1, <1>2, <1>4, EmptyLists, ZenonT(60) DEF OInv, Queued, IsOpen
<1>8. Ordered'
  <2> SUFFICES ASSUME ports = 0, NEW d \in Conns
               PROVE  /\ Sorted(got'[d])
                      /\ Live(d) /\ IsOpen(stream[d]) => Ahead(got'[d], sock[stream[d]].queue)
    BY <1>0, <1>1, <1>4 DEF Ordered, Live, IsOpen
  <2>1. CASE got'[d] = got[d]
    BY <2>1 DEF OInv, Ordered
  <2>2. CASE d = c /\ Live(c) /\ got'[c] = got[c] \o Replayed(c)
    <3>1. Overtaking(got[c]) /\ Sorted(got[c]) /\ Ahead(got[c], Replayed(c)) /\ Ahead(got[c], sock[stream[c]].queue)
      BY <1>0, <2>2, OvertakingFree DEF Waiting, OInv, Ordered
    <3>2. Sorted(got[c] \o Replayed(c))
      BY <1>3, <1>5, <3>1, SortedCat
    <3>3. Ahead(Replayed(c), sock[stream[c]].queue)
      <4>1. CASE restored[c] = None
        BY <4>1, EmptyLists DEF Replayed
      <4>2. CASE restored[c] # None
        BY <1>0, <2>2, <4>2 DEF Replayed, Waiting, OInv, Queued
      <4> QED BY <4>1, <4>2
    <3>4. Ahead(got[c] \o Replayed(c), sock[stream[c]].queue)
      BY <1>0, <1>3, <1>5, <3>1, <3>3, AheadCat
    <3> QED BY <2>2, <3>2, <3>4
  <2> QED BY <1>2, <2>1, <2>2
<1> QED BY <1>6, <1>7, <1>8 DEF OInv

LEMMA ReceiveOrder ==
  ASSUME TInv, OInv, Fed, NEW s \in Conns, Receive(s)
  PROVE  OInv'
<1>0. /\ TypeOK /\ UNCHANGED <<stream, phase, ports, clock>> /\ IsOpen(s) /\ sock[s].queue # <<>>
      /\ sock \in [Conns -> StreamType] /\ sock'[s].queue = Tail(sock[s].queue) /\ sock'[s].st = "open"
      /\ \A r \in Conns \ {s} : sock'[r] = sock[r]
  BY Fields DEF TInv, TypeOK, Receive
<1>1. \A d \in Conns : got[d] \in Messages /\ buf[d] \in Messages /\ sock[d].queue \in Messages
  BY <1>0, ListsTyped
<1> DEFINE h == <<Head(sock[s].queue)>>
           t == Tail(sock[s].queue)
<1>2. h \in Messages /\ t \in Messages
  BY <1>0, TakenTyped
<1>3. \A d \in Conns : /\ buf'[d] = buf[d] \/ (stream[d] = s /\ buf'[d] = buf[d] \o h)
                       /\ got'[d] = got[d] \/ (stream[d] = s /\ Live(d) /\ got'[d] = got[d] \o h)
  <2> SUFFICES ASSUME NEW d \in Conns
               PROVE  /\ buf'[d] = buf[d] \/ (stream[d] = s /\ buf'[d] = buf[d] \o h)
                      /\ got'[d] = got[d] \/ (stream[d] = s /\ Live(d) /\ got'[d] = got[d] \o h)
    OBVIOUS
  <2>1. d # None
    OBVIOUS
  <2>2. /\ buf'[d] = buf[d] \/ (sock[s].to = "buffer" /\ sock[s].of = d /\ buf'[d] = buf[d] \o h)
        /\ got'[d] = got[d] \/ (sock[s].to = "client" /\ sock[s].of = d /\ Live(d) /\ got'[d] = got[d] \o h)
    BY DEF Receive, Deliver, Writable
  <2> QED BY <2>1, <2>2 DEF Fed
<1>4. /\ Rising(h) /\ Rising(t) /\ Ahead(h, t) /\ Upto(clock, h) /\ Upto(clock, t)
  BY <1>0, <1>1, RisingTake, UptoTake DEF OInv, Lined
<1>5. \A q \in Messages : Ahead(q, sock[s].queue) => Ahead(q, h) /\ Ahead(q, t) /\ Ahead(q \o h, t)
  <2> SUFFICES ASSUME NEW q \in Messages, Ahead(q, sock[s].queue) PROVE Ahead(q, h) /\ Ahead(q, t) /\ Ahead(q \o h, t)
    OBVIOUS
  <2>1. Ahead(q, h) /\ Ahead(q, t)
    BY <1>0, <1>1, AheadTake
  <2> QED BY <1>2, <1>4, <2>1, AheadCat
<1>6. \A d \in Conns : IsOpen(stream[d])' <=> IsOpen(stream[d])
  BY <1>0 DEF IsOpen
<1> HIDE DEF h, t
<1>7. Lined'
  <2>1. ASSUME NEW d \in Conns, stream[d] = s PROVE Rising(buf[d] \o h) /\ Upto(clock, buf[d] \o h)
    <3>1. Ahead(buf[d], h) /\ Rising(buf[d]) /\ Upto(clock, buf[d])
      BY <1>0, <1>1, <1>5, <2>1 DEF OInv, Queued, Lined
    <3> QED BY <1>1, <1>2, <1>4, <3>1, RisingCat, UptoCat
  <2>2. \A d \in Conns : Upto(clock, got[d] \o h)
    BY <1>1, <1>2, <1>4, UptoCat DEF OInv, Lined
  <2>3. \A d \in Conns : Rising(sock'[d].queue) /\ Upto(clock, sock'[d].queue)
    BY <1>0, <1>4 DEF OInv, Lined, t
  <2> QED BY <1>0, <1>3, <2>1, <2>2, <2>3 DEF OInv, Lined
<1>8. Queued'
  <2> SUFFICES ASSUME NEW d \in Conns, IsOpen(stream[d]) PROVE Ahead(buf'[d], sock'[stream[d]].queue)
    BY <1>0, <1>6 DEF Queued
  <2>1. Ahead(buf[d], sock[stream[d]].queue)
    BY DEF OInv, Queued
  <2>2. CASE stream[d] = s
    BY <1>0, <1>1, <1>3, <1>5, <2>1, <2>2 DEF t
  <2>3. CASE stream[d] # s
    BY <1>0, <1>3, <2>1, <2>3 DEF IsOpen
  <2> QED BY <2>2, <2>3
<1>9. Ordered'
  <2> SUFFICES ASSUME ports = 0, NEW d \in Conns
               PROVE  /\ Sorted(got'[d])
                      /\ Live(d) /\ IsOpen(stream[d]) => Ahead(got'[d], sock'[stream[d]].queue)
    BY <1>0, <1>6 DEF Ordered, Live
  <2>1. Sorted(got[d]) /\ (Live(d) /\ IsOpen(stream[d]) => Ahead(got[d], sock[stream[d]].queue))
    BY DEF OInv, Ordered
  <2>2. CASE stream[d] = s /\ Live(d)
    <3>1. Ahead(got[d], h) /\ Ahead(got[d], t) /\ Ahead(got[d] \o h, t)
      BY <1>0, <1>1, <1>5, <2>1, <2>2
    <3>2. Sorted(got[d] \o h)
      BY <1>1, <1>2, <1>4, <2>1, <3>1, SortedCat
    <3> QED BY <1>0, <1>3, <2>1, <2>2, <3>1, <3>2 DEF t
  <2>3. CASE ~(stream[d] = s /\ Live(d))
    BY <1>0, <1>3, <2>1, <2>3 DEF IsOpen
  <2> QED BY <2>2, <2>3
<1> QED BY <1>7, <1>8, <1>9 DEF OInv

LEMMA PublishOrder ==
  ASSUME TInv, OInv, Publish
  PROVE  OInv'
<1>0. /\ TypeOK /\ UNCHANGED <<stream, phase, ports, got, buf>> /\ clock \in Nat /\ clock' = clock + 1
  BY DEF TInv, TypeOK, Publish
<1> DEFINE m == Message(clock', "output")
<1>1. m \in MessageType /\ m.kind = "output" /\ m.n = clock + 1
  BY <1>0 DEF Publish, Message, MessageType, Kinds, TypeOK
<1>2. \A s \in Conns : /\ sock'[s].queue = sock[s].queue \/ sock'[s].queue = Append(sock[s].queue, m)
                       /\ sock'[s].st = sock[s].st
  <2> SUFFICES ASSUME NEW s \in Conns
               PROVE  /\ sock'[s].queue = sock[s].queue \/ sock'[s].queue = Append(sock[s].queue, m)
                      /\ sock'[s].st = sock[s].st
    OBVIOUS
  <2>1. sock'[s] = sock[s] \/
          (IsOpen(s) /\ sock'[s] = Stream("open", sock[s].to, sock[s].of, Append(sock[s].queue, m), ports))
    BY DEF Publish
  <2> HIDE DEF m
  <2>2. ASSUME NEW q, sock'[s] = Stream("open", sock[s].to, sock[s].of, q, ports)
        PROVE  sock'[s].st = "open" /\ sock'[s].queue = q
    BY <2>2, StreamFields
  <2> QED BY <2>1, <2>2 DEF IsOpen
<1> HIDE DEF m
<1>3. \A d \in Conns : got[d] \in Messages /\ buf[d] \in Messages /\ sock[d].queue \in Messages
  BY <1>0, ListsTyped
<1>4. ASSUME NEW d \in Conns
      PROVE  /\ Rising(sock'[d].queue) /\ Upto(clock + 1, sock'[d].queue)
             /\ \A r \in Messages : Upto(clock, r) /\ Ahead(r, sock[d].queue) => Ahead(r, sock'[d].queue)
  <2>1. Rising(sock[d].queue) /\ Upto(clock, sock[d].queue) /\ sock[d].queue \in Messages
    BY <1>3 DEF OInv, Lined
  <2>2. /\ Rising(Append(sock[d].queue, m)) /\ Upto(clock + 1, Append(sock[d].queue, m))
        /\ Upto(clock + 1, sock[d].queue)
        /\ \A r \in Messages : Upto(clock, r) /\ Ahead(r, sock[d].queue) => Ahead(r, Append(sock[d].queue, m))
    BY <1>0, <1>1, <2>1, AppendNext
  <2> QED BY <1>2, <2>1, <2>2
<1>5. \A q \in Messages : Upto(clock, q) => Upto(clock + 1, q)
  BY <1>0, MessageAt DEF Upto
<1>6. Lined'
  BY <1>0, <1>3, <1>4, <1>5 DEF OInv, Lined
<1>7. \A d \in Conns : IsOpen(stream[d])' <=> IsOpen(stream[d])
  BY <1>0, <1>2 DEF IsOpen
<1>8. Queued'
  BY <1>0, <1>3, <1>4, <1>7 DEF OInv, Lined, Queued, IsOpen
<1>9. Ordered'
  BY <1>0, <1>3, <1>4, <1>7 DEF OInv, Lined, Ordered, IsOpen, Live
<1> QED BY <1>6, <1>8, <1>9 DEF OInv

(* A restart callback: the queue goes to the client or to the buffer, then *)
(* the status of the restart.                                              *)
LEMMA FlushedToBuffer ==
  ASSUME TInv, Fed, NEW c \in Conns, FlushedTo("buffer", c) # <<>>
  PROVE  /\ IsOpen(stream[c]) /\ stream[c] \in Conns /\ FlushedTo("buffer", c) = sock[stream[c]].queue
         /\ AfterFlush(stream[c]).queue = <<>>
<1>1. PICK s \in Conns : /\ Flushing(s) /\ sock[s].to = "buffer" /\ sock[s].of = c
                         /\ FlushedTo("buffer", c) = sock[s].queue
  BY Flushes DEF TInv
<1>2. c # None /\ stream[c] = s
  BY <1>1 DEF Fed
<1>3. AfterFlush(s) = Stream("open", sock[s].to, sock[s].of, <<>>, sock[s].ports)
  BY <1>1 DEF AfterFlush
<1> QED BY <1>1, <1>2, <1>3, StreamFields DEF Flushing

LEMMA StatusOrder ==
  ASSUME TInv, Owned, OInv, Fed, Served, Waiting, Waiting', SendStatus,
         UNCHANGED <<stream, phase, clock, task>>, ports' = 0 => ports = 0
  PROVE  OInv'
<1>0. TypeOK /\ clock \in 0 .. MaxMessages /\ \A s \in Conns : sock'[s] = AfterFlush(s)
  BY DEF TInv, TypeOK, SendStatus
<1>1. \A d \in Conns : got[d] \in Messages /\ buf[d] \in Messages /\ sock[d].queue \in Messages
  BY <1>0, ListsTyped
<1>2. \A s \in Conns : /\ sock'[s].st = sock[s].st
                       /\ Thinner(sock'[s].queue, sock[s].queue)
  BY <1>0, Flushes DEF Thinner
<1>3. \A d \in Conns : IsOpen(stream[d])' <=> IsOpen(stream[d])
  BY <1>2 DEF IsOpen
<1>4. \A d \in Conns : /\ Rising(sock'[d].queue) /\ Upto(clock, sock'[d].queue)
                       /\ \A p \in Messages : Ahead(p, sock[d].queue) => Ahead(p, sock'[d].queue)
  BY <1>1, <1>2, ThinnerLists DEF OInv, Lined
<1>5. ASSUME NEW c \in Conns
      PROVE  /\ Rising(buf'[c]) /\ Upto(clock, buf'[c])
             /\ IsOpen(stream[c]) => Ahead(buf'[c], sock'[stream[c]].queue)
  <2>1. buf'[c] = buf[c] \o FlushedTo("buffer", c)
    BY DEF SendStatus
  <2>2. CASE FlushedTo("buffer", c) = <<>>
    <3>1. buf'[c] = buf[c]
      BY <1>1, <2>1, <2>2 DEF Messages
    <3> QED BY <1>1, <1>4, <3>1 DEF OInv, Lined, Queued, IsOpen
  <2>3. CASE FlushedTo("buffer", c) # <<>>
    <3>1. /\ stream[c] \in Conns /\ FlushedTo("buffer", c) = sock[stream[c]].queue
          /\ sock'[stream[c]].queue = <<>> /\ Ahead(buf[c], sock[stream[c]].queue)
      BY <1>0, <2>3, FlushedToBuffer DEF OInv, Queued
    <3>2. /\ Rising(buf[c]) /\ Upto(clock, buf[c])
          /\ Rising(sock[stream[c]].queue) /\ Upto(clock, sock[stream[c]].queue)
      BY <3>1 DEF OInv, Lined
    <3>3. Rising(buf[c] \o sock[stream[c]].queue) /\ Upto(clock, buf[c] \o sock[stream[c]].queue)
      BY <1>1, <3>1, <3>2, RisingCat, UptoCat
    <3> QED BY <2>1, <3>1, <3>3, EmptyLists
  <2> QED BY <2>2, <2>3
<1>6. ASSUME NEW c \in Conns
      PROVE  /\ Upto(clock, got'[c])
             /\ ports = 0 => Sorted(got'[c])
             /\ ports = 0 /\ Live(c) /\ IsOpen(stream[c]) => Ahead(got'[c], sock'[stream[c]].queue)
  <2> DEFINE f == FlushedTo("client", c)
  <2>0. f \in Messages
    BY <1>0, FlushTyped
  <2>1. CASE ~Writable(c)
    <3>1. got'[c] = got[c]
      BY <2>1 DEF SendStatus
    <3> QED BY <1>1, <1>4, <3>1 DEF OInv, Lined, Ordered, IsOpen
  <2>2. CASE Writable(c) /\ task[c] = "none"
    <3>1. got'[c] = <<>>
      BY <2>2 DEF Waiting
    <3> QED BY <3>1, EmptyLists
  <2>3. CASE Writable(c) /\ task[c] # "none"
    <3>1. /\ Live(c) /\ IsOpen(stream[c]) /\ stream[c] \in Conns /\ Listening(c)
          /\ got'[c] = (got[c] \o f) \o <<Status(c)>>
      BY <2>3 DEF Writable, Owned, Joined, IsOpen, Listening, SendStatus
    <3>2. f = <<>> \/ f = sock[stream[c]].queue
      BY <3>1, FlushedToClient
    <3>3. Status(c) \in MessageType /\ Status(c).kind # "output" /\ Status(c).n = clock
          /\ <<Status(c)>> \in Messages /\ Upto(clock, <<Status(c)>>)
      <4>1. Status(c) \in MessageType /\ Status(c).kind # "output" /\ Status(c).n = clock
        BY <1>0 DEF Status, Message, MessageType, Kinds
      <4>2. Upto(clock, <<Status(c)>>)
        BY <1>0, <4>1 DEF Upto
      <4> QED BY <4>1, <4>2 DEF Messages
    <3>4. got[c] \o f \in Messages /\ got[c] \in Messages
      BY <1>1, <2>0 DEF Messages
    <3>5. Upto(clock, got[c] \o f)
      BY <1>1, <2>0, <3>1, <3>2, UptoCat, EmptyLists DEF OInv, Lined
    <3>6. Upto(clock, got'[c])
      BY <3>1, <3>3, <3>4, <3>5, UptoCat
    <3>7. ASSUME ports = 0 PROVE Sorted(got'[c])
      <4>1. Sorted(got[c]) /\ Ahead(got[c], f) /\ Rising(f)
        BY <3>1, <3>2, <3>7, EmptyLists DEF OInv, Ordered, Lined
      <4>2. Sorted(got[c] \o f)
        BY <2>0, <3>4, <4>1, SortedCat
      <4> QED BY <3>1, <3>3, <3>4, <3>5, <4>2, SortedStatus
    <3>8. ASSUME ports = 0 PROVE Ahead(got'[c], sock'[stream[c]].queue)
      <4>1. CASE task[c] = "nudge"
        <5>1. Overtaking(got'[c])
          <6>1. Live(c)'
            BY <3>1 DEF Live
          <6> QED BY <4>1, <6>1 DEF Waiting
        <5> QED BY <5>1, OvertakingFree
      <4>2. CASE task[c] = "done"
        <5>1. sock[stream[c]].to = "client" /\ Flushing(stream[c])
          BY <3>1, <4>2 DEF Served, Flushing
        <5>2. AfterFlush(stream[c]).queue = <<>>
          <6>1. CASE sock[stream[c]].queue = <<>>
            BY <5>1, <6>1 DEF AfterFlush
          <6>2. CASE sock[stream[c]].queue # <<>>
            <7>1. AfterFlush(stream[c]) = Stream("open", "client", sock[stream[c]].of, <<>>, sock[stream[c]].ports)
              BY <5>1, <6>2 DEF AfterFlush
            <7> QED BY <7>1, StreamFields
          <6> QED BY <6>1, <6>2
        <5> QED BY <1>0, <3>1, <5>2, EmptyLists
      <4> QED BY <2>3, <4>1, <4>2 DEF TInv, TypeOK
    <3> QED BY <3>6, <3>7, <3>8
  <2> QED BY <2>1, <2>2, <2>3
<1>7. Lined'
  BY <1>4, <1>5, <1>6 DEF Lined
<1>8. Queued'
  BY <1>3, <1>5 DEF Queued
<1>9. Ordered'
  BY <1>3, <1>6 DEF Ordered, Live
<1> QED BY <1>7, <1>8, <1>9 DEF OInv

LEMMA StepOrder ==
  ASSUME TInv, Owned, SInv, Fed, Served, Waiting, Waiting', OInv, [Next]_vars
  PROVE  OInv'
<1>0. /\ TypeOK /\ sock \in [Conns -> StreamType] /\ ports \in Nat
      /\ got \in [Conns -> Seq(MessageType)]
      /\ phase \in [Conns -> {"new", "preparing", "open", "closed", "failed"}]
  BY DEF TInv, TypeOK
<1>1. ASSUME UNCHANGED <<clock, ports, stream, buf, got>>, \A d \in Conns : Live(d)' => Live(d),
             \A s \in Conns : sock'[s] = sock[s] \/ sock'[s] = Gone
      PROVE  OInv'
  <2>1. \A s \in Conns : Thinner(sock'[s].queue, sock[s].queue) /\ (IsOpen(s)' => IsOpen(s))
    BY <1>0, <1>1, Fields DEF Thinner, IsOpen
  <2>2. \A d \in Conns : IsOpen(stream[d])' => IsOpen(stream[d])
    BY <1>1, <2>1 DEF IsOpen
  <2> QED BY <1>1, <2>1, <2>2, ThinnerOrder
<1>2. ASSUME NEW c \in Conns, Websocket(c) PROVE OInv'
  <2>1. CASE (\E k \in Keys : Register(c, k)) \/ PrepareFails(c) \/ NudgeEndsClosed(c)
    <3>1. UNCHANGED <<clock, ports, stream, buf, got, sock>> /\ \A d \in Conns : Live(d)' => Live(d)
      BY <1>0, <2>1 DEF Register, PrepareFails, NudgeEndsClosed, Live
    <3> QED BY <1>1, <3>1
  <2>2. CASE LeaveEarly(c) \/ Leave(c) \/ DisconnectAgain(c)
    <3>1. /\ Disconnect(c) /\ UNCHANGED <<clock, ports>>
          /\ \A d \in Conns : got'[d] \in {got[d], <<>>} /\ (Live(d)' => Live(d))
      BY <1>0, <2>2 DEF LeaveEarly, Leave, DisconnectAgain, Live
    <3> QED BY <3>1, DisconnectOrder
  <2> QED BY <1>2, <2>1, <2>2, ConnectOrder, SubscribeOrder, ReceiveOrder DEF Websocket, NudgeEnds, Subscribe, NudgeTimesOut
<1>3. CASE KernelRestarted \/ KernelDied
  <2>1. SendStatus /\ UNCHANGED <<stream, phase, clock, task>> /\ (ports' = 0 => ports = 0)
    BY <1>0, <1>3 DEF KernelRestarted, KernelDied
  <2> QED BY <2>1, StatusOrder
<1>4. CASE BeginShutdown \/ KernelRemoved \/ UNCHANGED vars
  <2>1. /\ UNCHANGED <<clock, ports, stream, buf, got, phase>>
        /\ \A s \in Conns : sock'[s] = sock[s] \/ sock'[s] = Gone
    BY <1>0, <1>4 DEF BeginShutdown, StopBuffering, KernelRemoved, vars
  <2> QED BY <1>1, <2>1 DEF Live
<1> QED BY <1>2, <1>3, <1>4, PublishOrder DEF Next, Cull

(* While the kernel keeps its ports, what a client is sent is in the order *)
(* it was published and without repetition; only a restart status may      *)
(* overtake messages still to be replayed.                                 *)
THEOREM ClientsSeeOrder == Spec => []InOrder
<1>1. Init => SInv /\ Vacant /\ LInv /\ Fed /\ Served /\ Waiting /\ OInv
  <2>1. NoStream.st = "none" /\ NoStream.of = None /\ NoStream.queue = <<>>
    BY DEF NoStream, Stream
  <2>2. ASSUME Init PROVE SInv /\ Vacant
    BY <2>1, <2>2 DEF Init, SInv, Vacant, Blank, Kin, Known, AllFresh
  <2>3. ASSUME Init PROVE LInv /\ Fed /\ Served /\ Waiting
    BY <2>1, <2>3 DEF Init, LInv, Captured, NoStreamLeaks, IsOpen, Fed, Served, Waiting, Live
  <2>4. ASSUME Init PROVE OInv
    <3>1. \A c \in Conns : sock[c] = NoStream /\ buf[c] = <<>> /\ got[c] = <<>>
      BY <2>4 DEF Init
    <3> QED BY <2>1, <3>1, EmptyLists DEF OInv, Lined, Queued, Ordered
  <2> QED BY <2>2, <2>3, <2>4
<1>2. TInv /\ Owned /\ Owned' /\ Vacant /\ SInv /\ LInv /\ Fed /\ Served /\ Waiting /\ [Next]_vars
        => SInv' /\ Vacant' /\ LInv' /\ Fed' /\ Served' /\ Waiting'
  BY StepSession, StepVacant, StepLeaks, StepFed, StepServed, StepWaiting DEF LInv
<1>3. TInv /\ Owned /\ SInv /\ Fed /\ Served /\ Waiting /\ Waiting' /\ OInv /\ [Next]_vars => OInv'
  BY StepOrder
<1>4. OInv => InOrder
  BY DEF OInv, Ordered, Sorted, InOrder
<1> QED BY <1>1, <1>2, <1>3, <1>4, TypesHold, StreamsOwned, PTL DEF Spec
=============================================================================
