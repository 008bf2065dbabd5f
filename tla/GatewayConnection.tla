--------------------------- MODULE GatewayConnection ---------------------------
(***************************************************************************)
(* The websocket of one client to a kernel that runs behind a gateway:     *)
(* gateway/connections.py, driven by services/kernels/websocket.py.        *)
(*                                                                         *)
(* The connection dials the gateway, copies what the client writes to the  *)
(* gateway's websocket and what it reads from there to the client, and     *)
(* dials again, after a pause, when that websocket is lost.  Each dial has *)
(* a future; what runs when it is done was registered on it, and the event *)
(* loop runs that later: the client may write or leave in between.         *)
(***************************************************************************)
EXTENDS Integers, Sequences

CONSTANTS
  RetryMax,    \* gateway_retry_max
  MaxLosses,   \* bound: times an established websocket is lost
  MaxAttempts, \* bound: dials, enough for MaxLosses
  MaxMessages, \* bound: messages the client writes
  MaxOutput    \* bound: messages the kernel publishes

ASSUME BoundsAssumption ==
  /\ RetryMax \in Nat /\ MaxLosses \in Nat /\ MaxAttempts \in Nat
  /\ MaxMessages \in Nat /\ MaxOutput \in Nat
  /\ MaxAttempts >= 1

(* A dial is made at first, and RetryMax more after each loss or failure   *)
(* that follows a loss: with this many the bound is never met.             *)
ASSUME EnoughAttempts == MaxAttempts >= (MaxLosses + 1) * (RetryMax + 1)

VARIABLES
  disconnected, \* the client has left
  fut,          \* ws_future: the number of the last dial
  future,       \* what became of the future of each dial
  called,       \* have the callbacks registered on the last future run?
  ws,           \* self.ws: the dial it came from, 0 for None
  link,         \* the websocket of each dial, as the gateway sees it
  queue,        \* read_queue of each: output that nobody has read yet
  reader,       \* _read_messages: not started, reading, in its pause, ended
  retry,        \* retries since the last success
  waiting,      \* messages of the client registered on the last future
  written,      \* history: messages of the client written to the gateway
  passed,       \* history: output the gateway sent while connected
  got,          \* history: output written to the client
  clientClock,  \* messages the client has written
  kernelClock,  \* messages the kernel has published
  losses        \* times an established websocket was lost

dialVars == <<fut, future, called>>
textVars == <<waiting, written, clientClock>>
outVars  == <<queue, passed, got, kernelClock>>
vars == <<disconnected, fut, future, called, ws, link, queue, reader, retry,
          waiting, written, passed, got, clientClock, kernelClock, losses>>

Attempts == 1 .. MaxAttempts
Up == {"dialing", "open"}

-----------------------------------------------------------------------------
(* connect().                                                              *)
Dial(n) ==
  /\ fut' = n
  /\ future' = [future EXCEPT ![n] = "pending"]
  /\ called' = "no"
  /\ link' = [link EXCEPT ![n] = "dialing"]
  /\ ws' = 0

(* spawn_callback(connect) after the pause, whoever has left meanwhile.    *)
(* Mutant: the next dial does not wait for the one before to fail.         *)
Reconnect_Eager ==
  /\ reader \in {"sleeping", "idle"} /\ fut + 1 \in Attempts
  /\ Dial(fut + 1)
  /\ reader' = "idle"
  /\ UNCHANGED <<disconnected, retry, losses, textVars, outVars>>

Reconnect ==
  /\ reader = "sleeping" /\ fut + 1 \in Attempts
  /\ Dial(fut + 1)
  /\ reader' = "idle"
  /\ UNCHANGED <<disconnected, retry, losses, textVars, outVars>>

(* The gateway accepts or refuses a dial.  A future that was cancelled     *)
(* stays so; the websocket comes up all the same.                          *)
Settled(n, outcome) ==
  future' = IF future[n] = "pending" THEN [future EXCEPT ![n] = outcome]
            ELSE future

Accept(n) ==
  /\ link[n] = "dialing"
  /\ link' = [link EXCEPT ![n] = "open"]
  /\ Settled(n, "result")
  /\ UNCHANGED <<disconnected, fut, called, ws, reader, retry, losses,
                 textVars, outVars>>

Refuse(n) ==
  /\ link[n] = "dialing"
  /\ link' = [link EXCEPT ![n] = "down"]
  /\ Settled(n, "error")
  /\ UNCHANGED <<disconnected, fut, called, ws, reader, retry, losses,
                 textVars, outVars>>

(* The gateway, or the network, ends an established websocket.             *)
Lose(n) ==
  /\ link[n] = "open" /\ losses < MaxLosses
  /\ link' = [link EXCEPT ![n] = "down"]
  /\ losses' = losses + 1
  /\ UNCHANGED <<disconnected, dialVars, ws, reader, retry, textVars, outVars>>

-----------------------------------------------------------------------------
(* The end of _read_messages: pause before the next dial, or stop.         *)
(* Mutant: one retry too many.                                             *)
Stop_OneMore ==
  IF ~disconnected /\ retry <= RetryMax
    THEN reader' = "sleeping" /\ retry' = retry + 1
    ELSE reader' = "ended" /\ UNCHANGED retry

(* Mutant: the last retry is not made.                                     *)
Stop_OneShort ==
  IF ~disconnected /\ retry + 1 < RetryMax
    THEN reader' = "sleeping" /\ retry' = retry + 1
    ELSE reader' = "ended" /\ UNCHANGED retry

Stop ==
  IF ~disconnected /\ retry < RetryMax
    THEN reader' = "sleeping" /\ retry' = retry + 1
    ELSE reader' = "ended" /\ UNCHANGED retry

(* The callbacks of the last future, in the order they were registered:    *)
(* _connection_done, _read_messages, and handle_incoming_message for each  *)
(* message that waited.                                                    *)
Done == called = "no" /\ future[fut] \notin {"none", "pending"}

Connected ==
  /\ Done /\ called' = "yes"
  /\ ~disconnected /\ future[fut] = "result"
  /\ ws' = fut /\ retry' = 0 /\ reader' = "reading"
  /\ written' = IF link[fut] = "open" THEN written \o waiting ELSE written
  /\ waiting' = << >>
  /\ UNCHANGED <<disconnected, fut, future, link, clientClock, losses, outVars>>

(* Without a websocket nothing is read.  The messages are ignored when the *)
(* future failed or was cancelled; a result that nobody kept makes each of *)
(* them wait on it again, for ever.                                        *)
(* Mutant: only a dial that succeeded is read, and tried again when lost.  *)
NotConnected_NoReader ==
  /\ Done /\ called' = "yes"
  /\ disconnected \/ future[fut] # "result"
  /\ reader' = (IF disconnected THEN "ended" ELSE reader) /\ UNCHANGED retry
  /\ waiting' = IF future[fut] = "result" THEN waiting ELSE << >>
  /\ UNCHANGED <<disconnected, fut, future, ws, link, written, clientClock,
                 losses, outVars>>

(* Mutant: the messages keep waiting.                                      *)
NotConnected_Waits ==
  /\ Done /\ called' = "yes"
  /\ disconnected \/ future[fut] # "result"
  /\ Stop
  /\ UNCHANGED <<disconnected, fut, future, ws, link, textVars, losses, outVars>>

NotConnected ==
  /\ Done /\ called' = "yes"
  /\ disconnected \/ future[fut] # "result"
  /\ Stop
  /\ waiting' = IF future[fut] = "result" THEN waiting ELSE << >>
  /\ UNCHANGED <<disconnected, fut, future, ws, link, written, clientClock,
                 losses, outVars>>

-----------------------------------------------------------------------------
(* What read_message yields: output, or None at the end of the websocket.  *)
(* A client that has left gets nothing and ends the loop.                  *)
ReadOutput ==
  /\ reader = "reading" /\ queue[ws] # << >>
  /\ queue' = [queue EXCEPT ![ws] = Tail(@)]
  /\ IF disconnected
       THEN reader' = "ended" /\ UNCHANGED got
       ELSE got' = Append(got, Head(queue[ws])) /\ UNCHANGED reader
  /\ UNCHANGED <<disconnected, dialVars, ws, link, retry, textVars,
                 passed, kernelClock, losses>>

(* Mutant: the loss is noticed before what was received has been read.     *)
ReadNone_AtOnce ==
  /\ reader = "reading" /\ link[ws] = "down"
  /\ Stop
  /\ UNCHANGED <<disconnected, dialVars, ws, link, textVars, outVars, losses>>

ReadNone ==
  /\ reader = "reading" /\ queue[ws] = << >> /\ link[ws] = "down"
  /\ Stop
  /\ UNCHANGED <<disconnected, dialVars, ws, link, textVars, outVars, losses>>

(* The gateway passes what the kernel publishes to every open websocket.   *)
Publish ==
  /\ kernelClock < MaxOutput
  /\ kernelClock' = kernelClock + 1
  /\ queue' = [n \in Attempts |-> IF link[n] = "open"
                                    THEN Append(queue[n], kernelClock')
                                    ELSE queue[n]]
  /\ passed' = IF \E n \in Attempts : link[n] = "open"
                 THEN Append(passed, kernelClock') ELSE passed
  /\ UNCHANGED <<disconnected, dialVars, ws, link, reader, retry, textVars,
                 got, losses>>

-----------------------------------------------------------------------------
(* handle_incoming_message.                                                *)
Coming == clientClock + 1
Writes == /\ ~disconnected /\ clientClock < MaxMessages
          /\ clientClock' = Coming
          /\ UNCHANGED <<disconnected, dialVars, ws, link, reader, retry,
                         outVars, losses>>

(* Mutant: a message is written at once if the dial has succeeded.         *)
MessageWaits_NotIfOpen ==
  /\ Writes /\ ws = 0 /\ future[fut] # "error"
  /\ IF link[fut] = "open"
       THEN written' = Append(written, Coming) /\ UNCHANGED waiting
       ELSE waiting' = Append(waiting, Coming) /\ UNCHANGED written

MessageWaits ==
  /\ Writes /\ ws = 0 /\ future[fut] # "error"
  /\ waiting' = Append(waiting, Coming) /\ UNCHANGED written

MessageIgnored ==
  /\ Writes /\ ws = 0 /\ future[fut] = "error"
  /\ UNCHANGED <<waiting, written>>

(* _write_message: an exception of a closed websocket is logged.           *)
MessageWritten ==
  /\ Writes /\ ws # 0
  /\ written' = IF link[ws] = "open" THEN Append(written, Coming) ELSE written
  /\ UNCHANGED waiting

(* on_close of the handler: close the websocket, or cancel the future of a *)
(* dial that is not done; a dial that is done but whose callbacks have not *)
(* run is left alone.                                                      *)
(* Mutant: only the flag is set.                                           *)
Disconnect_FlagOnly ==
  /\ ~disconnected /\ disconnected' = TRUE
  /\ UNCHANGED <<link, future, fut, called, ws, reader, retry, losses,
                 textVars, outVars>>

Disconnect ==
  /\ ~disconnected /\ disconnected' = TRUE
  /\ link' = IF ws # 0 /\ link[ws] = "open" THEN [link EXCEPT ![ws] = "down"]
             ELSE link
  /\ future' = IF ws = 0 /\ future[fut] = "pending"
                 THEN [future EXCEPT ![fut] = "cancelled"] ELSE future
  /\ UNCHANGED <<fut, called, ws, reader, retry, losses, textVars, outVars>>

-----------------------------------------------------------------------------
(* open() of the handler has called connect() once.                        *)
Init ==
  /\ disconnected = FALSE
  /\ fut = 1 /\ called = "no"
  /\ future = [n \in Attempts |-> IF n = 1 THEN "pending" ELSE "none"]
  /\ link = [n \in Attempts |-> IF n = 1 THEN "dialing" ELSE "none"]
  /\ ws = 0 /\ reader = "idle" /\ retry = 0
  /\ queue = [n \in Attempts |-> << >>]
  /\ waiting = << >> /\ written = << >> /\ passed = << >> /\ got = << >>
  /\ clientClock = 0 /\ kernelClock = 0 /\ losses = 0

Gateway == \E n \in Attempts : Accept(n) \/ Refuse(n) \/ Lose(n)
Callbacks == Connected \/ NotConnected
Read == ReadOutput \/ ReadNone
Client == MessageWaits \/ MessageIgnored \/ MessageWritten \/ Disconnect

Next == Reconnect \/ Gateway \/ Callbacks \/ Read \/ Publish \/ Client

Spec == Init /\ [][Next]_vars

(* The event loop runs its callbacks and timers, and a dial ends by its    *)
(* timeout at the latest.                                                  *)
Fairness ==
  /\ WF_vars(Reconnect) /\ WF_vars(Callbacks) /\ WF_vars(Read)
  /\ \A n \in Attempts : WF_vars(Accept(n) \/ Refuse(n))
FairSpec == Spec /\ Fairness

-----------------------------------------------------------------------------
TypeOK ==
  /\ disconnected \in BOOLEAN
  /\ fut \in Attempts /\ called \in {"no", "yes"} /\ ws \in {0, fut}
  /\ future \in [Attempts -> {"none", "pending", "result", "error", "cancelled"}]
  /\ link \in [Attempts -> {"none", "dialing", "open", "down"}]
  /\ queue \in [Attempts -> Seq(1 .. MaxOutput)]
  /\ reader \in {"idle", "reading", "sleeping", "ended"}
  /\ retry \in 0 .. RetryMax
  /\ waiting \in Seq(1 .. MaxMessages) /\ written \in Seq(1 .. MaxMessages)
  /\ passed \in Seq(1 .. MaxOutput) /\ got \in Seq(1 .. MaxOutput)
  /\ clientClock \in 0 .. MaxMessages /\ kernelClock \in 0 .. MaxOutput
  /\ losses \in 0 .. MaxLosses

Increasing(s) == \A i, j \in 1 .. Len(s) : i < j => s[i] < s[j]

(* What the client writes reaches the gateway in its order and only once,  *)
(* whether it waited for a dial, was written at once, or followed a loss.  *)
WrittenInOrder == Increasing(written)

(* All that the gateway sends reaches the client that stays, in its order  *)
(* and only once, across losses: the rest is what is still to be read.     *)
OutputExact == ~disconnected => passed = got \o queue[fut]

(* The gateway never holds two websockets of one client, however losses,   *)
(* pauses and departures follow each other.                                *)
OneUpstream == \A m, n \in Attempts : link[m] \in Up /\ link[n] \in Up => m = n

(* The connection is given up only after RetryMax failed dials in a row,   *)
(* and no more than RetryMax + 1 fail in a row.                            *)
Failed(n) == n \in Attempts /\ future[n] = "error"
RetriesExact ==
  /\ reader = "ended" /\ ~disconnected
       => \A n \in fut - RetryMax + 1 .. fut : Failed(n)
  /\ \A m \in Attempts : \E n \in m .. m + RetryMax + 1 : ~Failed(n)

(* A client that stays is connected again, or its connection is given up.  *)
Established == ws # 0 /\ link[ws] = "open"
ConnectionSettles == ~Established ~> Established \/ reader = "ended"

(* What a client that stays has written is not kept waiting.               *)
MessagesSettle == waiting # << >> ~> waiting = << >> \/ disconnected

(* When the client has left nothing goes on reading or dialing.            *)
DisconnectEnds == disconnected ~> [](reader = "ended")

(* "Close connection", "Cancel pending connection": once the client has    *)
(* left and nothing is left to run, the gateway holds no websocket of it.  *)
NothingLeftOpen == disconnected /\ reader = "ended" => \A n \in Attempts : link[n] # "open"
=============================================================================
