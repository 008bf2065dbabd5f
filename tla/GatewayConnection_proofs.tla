----------------------- MODULE GatewayConnection_proofs -----------------------
(***************************************************************************)
(* GatewayConnection, for any number of dials, losses and messages: types, *)
(* one websocket to the gateway at a time, both directions in order, each  *)
(* message once, and the number of retries.                                *)
(*                                                                         *)
(* Links says that only the last dial can be up, and that it is down when  *)
(* the next one is due.  Line says that what was written, followed by what *)
(* waits, is in order.  Flow says that what the gateway sent is what the   *)
(* client got, followed by what is left to read.  Retries, near the end,   *)
(* says how many of the last dials failed.                                 *)
(***************************************************************************)
EXTENDS GatewayConnection, SequenceTheorems, TLAPS

USE BoundsAssumption

Links ==
  /\ \A n \in Attempts : n > fut => link[n] = "none"
  /\ \A n \in Attempts : n < fut => link[n] \notin Up
  /\ future[fut] = "error" => link[fut] = "down"
  /\ future[fut] = "cancelled" => disconnected
  /\ reader = "sleeping" => link[fut] = "down"
  /\ reader = "reading" => ws = fut

UpTo(s, k) == \A i \in 1 .. Len(s) : s[i] <= k

Line ==
  /\ Increasing(written \o waiting)
  /\ UpTo(written \o waiting, clientClock)
  /\ ws # 0 => waiting = << >>

Flow ==
  /\ \A n \in Attempts : link[n] \in {"none", "dialing"} => queue[n] = << >>
  /\ future[fut] = "error" => queue[fut] = << >>
  /\ reader = "sleeping" => queue[fut] = << >>
  /\ OutputExact

IInv == Links /\ Line /\ Flow

-----------------------------------------------------------------------------
(* What the operators on sequences return.                                 *)
LEMMA Appended ==
  ASSUME NEW N \in Nat, NEW s \in Seq(1 .. N), NEW x \in 1 .. N
  PROVE /\ Append(s, x) \in Seq(1 .. N)
        /\ Len(Append(s, x)) = Len(s) + 1
        /\ \A i \in 1 .. Len(s) : Append(s, x)[i] = s[i]
        /\ Append(s, x)[Len(s) + 1] = x
BY AppendProperties

LEMMA Joined ==
  ASSUME NEW N \in Nat, NEW s \in Seq(1 .. N), NEW t \in Seq(1 .. N)
  PROVE /\ s \o t \in Seq(1 .. N)
        /\ Len(s \o t) = Len(s) + Len(t)
        /\ \A i \in 1 .. Len(s) : (s \o t)[i] = s[i]
        /\ \A i \in 1 .. Len(t) : (s \o t)[Len(s) + i] = t[i]
BY ConcatProperties

LEMMA Empty == \A N \in Nat : << >> \in Seq(1 .. N)
BY EmptySeq

LEMMA JoinEmpty ==
  ASSUME NEW N \in Nat, NEW s \in Seq(1 .. N)
  PROVE s \o << >> = s
BY ConcatEmptySeq

LEMMA JoinAppend ==
  ASSUME NEW N \in Nat, NEW s \in Seq(1 .. N), NEW t \in Seq(1 .. N),
         NEW x \in 1 .. N
  PROVE s \o Append(t, x) = Append(s \o t, x)
<1>1. Append(t, x) = t \o <<x>> /\ Append(s \o t, x) = (s \o t) \o <<x>>
  BY Joined, AppendIsConcat
<1>2. <<x>> \in Seq(1 .. N)
  OBVIOUS
<1> QED BY <1>1, <1>2, ConcatAssociative

LEMMA MoveHead ==
  ASSUME NEW N \in Nat, NEW s \in Seq(1 .. N), NEW t \in Seq(1 .. N), t # << >>
  PROVE /\ Head(t) \in 1 .. N /\ Tail(t) \in Seq(1 .. N)
        /\ Append(s, Head(t)) \o Tail(t) = s \o t
BY HeadTailProperties, Appended, Joined

-----------------------------------------------------------------------------
(* Types.                                                                  *)
LEMMA FlagStep == disconnected \in BOOLEAN /\ [Next]_vars => disconnected' \in BOOLEAN
<1> SUFFICES ASSUME disconnected \in BOOLEAN, [Next]_vars
             PROVE  disconnected' \in BOOLEAN
  OBVIOUS
<1>1. disconnected' = disconnected \/ disconnected' = TRUE
  BY Zenon DEF Next, Gateway, Callbacks, Read, Client, Reconnect, Accept, Refuse,
     Lose, Connected, NotConnected, ReadOutput, ReadNone, Publish, MessageWaits,
     MessageIgnored, MessageWritten, Writes, Disconnect, vars
<1> QED BY <1>1, Zenon

LEMMA StopTypes ==
  ASSUME TypeOK, Stop
  PROVE  reader' \in {"sleeping", "ended"} /\ retry' \in 0 .. RetryMax
<1>1. CASE reader' = "sleeping" /\ retry' = retry + 1 /\ retry < RetryMax
  BY <1>1 DEF TypeOK
<1>2. CASE reader' = "ended" /\ retry' = retry
  BY <1>2 DEF TypeOK
<1>3. \/ reader' = "sleeping" /\ retry' = retry + 1 /\ retry < RetryMax
      \/ reader' = "ended" /\ retry' = retry
  BY Zenon DEF Stop
<1> QED BY <1>1, <1>2, <1>3

LEMMA TypeStep == TypeOK /\ Links /\ [Next]_vars => TypeOK'
<1> SUFFICES ASSUME TypeOK, Links, [Next]_vars PROVE TypeOK'
  OBVIOUS
<1>1. disconnected' \in BOOLEAN
  BY FlagStep DEF TypeOK
<1> USE <1>1 DEF TypeOK, textVars, outVars, dialVars, Attempts
<1>2. CASE Reconnect
  BY <1>2 DEF Reconnect, Dial
<1>3. ASSUME NEW n \in Attempts, Accept(n) PROVE TypeOK'
  BY <1>3 DEF Accept, Settled
<1>4. ASSUME NEW n \in Attempts, Refuse(n) PROVE TypeOK'
  BY <1>4 DEF Refuse, Settled
<1>5. ASSUME NEW n \in Attempts, Lose(n) PROVE TypeOK'
  BY <1>5 DEF Lose
<1>6. CASE Connected
  <2>1. written \o waiting \in Seq(1 .. MaxMessages)
    BY Joined
  <2>2. << >> \in Seq(1 .. MaxMessages)
    BY Empty
  <2>3. written' \in Seq(1 .. MaxMessages) /\ waiting' \in Seq(1 .. MaxMessages)
    BY <1>6, <2>1, <2>2 DEF Connected
  <2>4. ws' = fut /\ fut' = fut /\ called' = "yes" /\ retry' = 0 /\ reader' = "reading"
    BY <1>6 DEF Connected
  <2> QED BY <1>6, <2>3, <2>4 DEF Connected
<1>7. CASE NotConnected
  BY <1>7, StopTypes, Empty DEF NotConnected
<1>8. CASE ReadOutput
  <2>1. ws \in Attempts /\ queue[ws] \in Seq(1 .. MaxOutput) /\ queue[ws] # << >>
    BY <1>8 DEF ReadOutput, Links
  <2>2. /\ Head(queue[ws]) \in 1 .. MaxOutput
        /\ Tail(queue[ws]) \in Seq(1 .. MaxOutput)
    BY <2>1, MoveHead
  <2>3. got' \in Seq(1 .. MaxOutput) /\ reader' \in {"reading", "ended"}
    <3>1. \/ got' = Append(got, Head(queue[ws])) /\ reader' = reader
          \/ got' = got /\ reader' = "ended"
      BY <1>8, Zenon DEF ReadOutput
    <3>2. Append(got, Head(queue[ws])) \in Seq(1 .. MaxOutput)
      BY <2>2, Appended
    <3>3. reader = "reading"
      BY <1>8 DEF ReadOutput
    <3> QED BY <3>1, <3>2, <3>3
  <2> QED BY <1>8, <2>1, <2>2, <2>3 DEF ReadOutput
<1>9. CASE ReadNone
  BY <1>9, StopTypes DEF ReadNone
<1>10. CASE Publish
  <2>1. kernelClock' \in 1 .. MaxOutput
    BY <1>10 DEF Publish
  <2>2. \A n \in Attempts : Append(queue[n], kernelClock') \in Seq(1 .. MaxOutput)
    BY <2>1, Appended
  <2>3. queue' \in [Attempts -> Seq(1 .. MaxOutput)]
    BY <1>10, <2>2 DEF Publish
  <2>4. passed' \in Seq(1 .. MaxOutput)
    BY <1>10, <2>1, Appended DEF Publish
  <2>5. /\ fut' = fut /\ future' = future /\ called' = called /\ ws' = ws
        /\ link' = link /\ reader' = reader /\ retry' = retry /\ got' = got
        /\ waiting' = waiting /\ written' = written /\ clientClock' = clientClock
        /\ losses' = losses
    BY <1>10 DEF Publish
  <2>6. kernelClock' \in 0 .. MaxOutput
    BY <2>1
  <2> QED BY <2>3, <2>4, <2>5, <2>6
<1>11. CASE MessageWaits
  BY <1>11, Appended DEF MessageWaits, Writes, Coming
<1>12. CASE MessageIgnored
  BY <1>12 DEF MessageIgnored, Writes, Coming
<1>13. CASE MessageWritten
  <2>1. clientClock' = Coming /\ Coming \in 1 .. MaxMessages
    BY <1>13 DEF MessageWritten, Writes, Coming
  <2>2. Append(written, Coming) \in Seq(1 .. MaxMessages)
    BY <2>1, Appended
  <2>3. written' \in Seq(1 .. MaxMessages)
    BY <1>13, <2>2 DEF MessageWritten
  <2> QED BY <1>13, <2>1, <2>3 DEF MessageWritten, Writes
<1>14. CASE Disconnect
  BY <1>14 DEF Disconnect
<1>15. CASE UNCHANGED vars
  BY <1>15 DEF vars
<1> QED BY <1>2, <1>3, <1>4, <1>5, <1>6, <1>7, <1>8, <1>9, <1>10, <1>11, <1>12,
           <1>13, <1>14, <1>15 DEF Next, Gateway, Callbacks, Read, Client

-----------------------------------------------------------------------------
(* Only the last dial can be up, and it is down when the next one is due.  *)
LEMMA LinksStep == TypeOK /\ Links /\ [Next]_vars => Links'
<1> SUFFICES ASSUME TypeOK, Links, [Next]_vars PROVE Links'
  OBVIOUS
<1> USE DEF TypeOK, Links, Attempts, Up, dialVars
<1>1. CASE Reconnect
  BY <1>1 DEF Reconnect, Dial
<1>2. ASSUME NEW n \in Attempts, Accept(n) PROVE Links'
  BY <1>2 DEF Accept, Settled
<1>3. ASSUME NEW n \in Attempts, Refuse(n) PROVE Links'
  BY <1>3 DEF Refuse, Settled
<1>4. ASSUME NEW n \in Attempts, Lose(n) PROVE Links'
  BY <1>4 DEF Lose
<1>5. CASE Connected
  BY <1>5 DEF Connected
<1>6. CASE NotConnected
  BY <1>6 DEF NotConnected, Stop, Done
<1>7. CASE ReadOutput
  BY <1>7 DEF ReadOutput
<1>8. CASE ReadNone
  BY <1>8 DEF ReadNone, Stop
<1>9. CASE Publish
  BY <1>9 DEF Publish
<1>10. CASE MessageWaits \/ MessageIgnored \/ MessageWritten
  BY <1>10 DEF MessageWaits, MessageIgnored, MessageWritten, Writes
<1>11. CASE Disconnect
  BY <1>11 DEF Disconnect
<1>12. CASE UNCHANGED vars
  BY <1>12 DEF vars
<1> QED BY <1>1, <1>2, <1>3, <1>4, <1>5, <1>6, <1>7, <1>8, <1>9, <1>10, <1>11,
           <1>12 DEF Next, Gateway, Callbacks, Read, Client

LEMMA Start == Init => TypeOK /\ Links
<1> SUFFICES ASSUME Init PROVE TypeOK /\ Links
  OBVIOUS
<1>1. disconnected \in BOOLEAN
  BY Zenon DEF Init
<1>2. TypeOK
  BY <1>1, Empty DEF Init, TypeOK, Attempts
<1> QED BY <1>2 DEF Init, Links, Attempts, Up

LEMMA Linked == Spec => [](TypeOK /\ Links)
<1>1. TypeOK /\ Links /\ [Next]_vars => (TypeOK /\ Links)'
  BY TypeStep, LinksStep
<1> QED BY <1>1, Start, PTL DEF Spec

(* All variables of a gateway connection keep their types.                 *)
THEOREM Typing == Spec => []TypeOK
BY Linked, PTL

(* The gateway never holds two websockets of one client.                   *)
THEOREM SingleUpstream == Spec => []OneUpstream
<1>1. TypeOK /\ Links => OneUpstream
  <2> SUFFICES ASSUME TypeOK, Links, NEW m \in Attempts, NEW n \in Attempts,
                      link[m] \in Up, link[n] \in Up
               PROVE  m = n
    BY DEF OneUpstream
  <2>1. ASSUME NEW i \in Attempts, link[i] \in Up PROVE i = fut
    <3>1. ~(i < fut) /\ ~(i > fut)
      BY <2>1 DEF Links, Up
    <3> QED BY <3>1 DEF TypeOK, Attempts
  <2> QED BY <2>1
<1> QED BY <1>1, Linked, PTL

-----------------------------------------------------------------------------
(* Messages of the client: what was written, then what waits, is in order. *)
LEMMA Grows ==
  ASSUME NEW s \in Seq(1 .. MaxMessages), NEW k \in Nat, k + 1 \in 1 .. MaxMessages,
         Increasing(s), UpTo(s, k)
  PROVE  Increasing(Append(s, k + 1)) /\ UpTo(Append(s, k + 1), k + 1)
<1> DEFINE t == Append(s, k + 1)
<1>1. /\ Len(t) = Len(s) + 1 /\ t[Len(s) + 1] = k + 1
      /\ \A i \in 1 .. Len(s) : t[i] = s[i]
  BY Appended
<1>2. \A i \in 1 .. Len(s) : s[i] \in 1 .. MaxMessages /\ s[i] <= k
  BY ElementOfSeq DEF UpTo
<1>3. \A i \in 1 .. Len(t) : t[i] <= k + 1
  BY <1>1, <1>2
<1>4. ASSUME NEW i \in 1 .. Len(t), NEW j \in 1 .. Len(t), i < j PROVE t[i] < t[j]
  <2>1. CASE j = Len(s) + 1
    BY <1>1, <1>2, <1>4, <2>1
  <2>2. CASE j \in 1 .. Len(s)
    BY <1>1, <1>4, <2>2 DEF Increasing
  <2> QED BY <1>1, <2>1, <2>2
<1> QED BY <1>3, <1>4 DEF Increasing, UpTo

LEMMA Prefix ==
  ASSUME NEW s \in Seq(1 .. MaxMessages), NEW t \in Seq(1 .. MaxMessages), NEW k,
         Increasing(s \o t), UpTo(s \o t, k)
  PROVE  Increasing(s) /\ UpTo(s, k)
<1>1. /\ Len(s \o t) = Len(s) + Len(t)
      /\ \A i \in 1 .. Len(s) : (s \o t)[i] = s[i]
  BY Joined
<1>2. \A i \in 1 .. Len(s) : i \in 1 .. Len(s \o t)
  BY <1>1
<1>3. Increasing(s)
  <2> SUFFICES ASSUME NEW i \in 1 .. Len(s), NEW j \in 1 .. Len(s), i < j
               PROVE  s[i] < s[j]
    BY DEF Increasing
  <2>1. (s \o t)[i] < (s \o t)[j]
    BY <1>2 DEF Increasing
  <2> QED BY <1>1, <2>1
<1>4. UpTo(s, k)
  <2> SUFFICES ASSUME NEW i \in 1 .. Len(s) PROVE s[i] <= k
    BY DEF UpTo
  <2>1. (s \o t)[i] <= k
    BY <1>2 DEF UpTo
  <2> QED BY <1>1, <2>1
<1> QED BY <1>3, <1>4

LEMMA Unwritten ==
  ASSUME TypeOK, Line, written' = written, waiting' = waiting,
         clientClock' = clientClock, ws' = ws \/ ws' = 0
  PROVE  Line'
BY DEF Line, UpTo, Increasing, TypeOK

LEMMA Dropped ==
  ASSUME TypeOK, Line, written' = written, waiting' = << >>,
         clientClock' = clientClock
  PROVE  Line'
<1>1. written' \o waiting' = written
  BY JoinEmpty DEF TypeOK
<1>2. Increasing(written) /\ UpTo(written, clientClock)
  BY Prefix DEF Line, TypeOK
<1> QED BY <1>1, <1>2 DEF Line, Increasing, UpTo

LEMMA LineStep == TypeOK /\ Line /\ [Next]_vars => Line'
<1> SUFFICES ASSUME TypeOK, Line, [Next]_vars PROVE Line'
  OBVIOUS
<1>t. /\ written \in Seq(1 .. MaxMessages) /\ waiting \in Seq(1 .. MaxMessages)
      /\ clientClock \in Nat
  BY DEF TypeOK
<1>o. Increasing(written \o waiting) /\ UpTo(written \o waiting, clientClock)
  BY DEF Line
<1>1. CASE Reconnect
  BY <1>1, Unwritten DEF Reconnect, Dial, textVars
<1>2. ASSUME NEW n \in Attempts, Accept(n) \/ Refuse(n) \/ Lose(n) PROVE Line'
  BY <1>2, Unwritten DEF Accept, Refuse, Lose, textVars
<1>3. CASE Connected
  <2>1. CASE written' = written
    BY <1>3, <2>1, Dropped DEF Connected
  <2>2. CASE written' = written \o waiting
    <3>1. written' \o waiting' = written \o waiting
      BY <1>3, <1>t, <2>2, JoinEmpty, Joined DEF Connected
    <3> QED BY <1>3, <1>o, <3>1 DEF Line, Connected, Increasing, UpTo
  <2> QED BY <1>3, <2>1, <2>2 DEF Connected
<1>4. CASE NotConnected
  <2>1. written' = written /\ clientClock' = clientClock /\ ws' = ws
    BY <1>4 DEF NotConnected
  <2>2. waiting' = waiting \/ waiting' = << >>
    BY <1>4 DEF NotConnected
  <2> QED BY <2>1, <2>2, Unwritten, Dropped
<1>5. CASE Read \/ Publish \/ Disconnect
  BY <1>5, Unwritten DEF Read, ReadOutput, ReadNone, Publish, Disconnect, textVars
<1>6. CASE MessageWaits
  <2>1. /\ written' = written /\ waiting' = Append(waiting, clientClock + 1)
        /\ clientClock' = clientClock + 1 /\ clientClock + 1 \in 1 .. MaxMessages
        /\ ws' = 0
    BY <1>6, <1>t DEF MessageWaits, Writes, Coming
  <2>2. written' \o waiting' = Append(written \o waiting, clientClock + 1)
    BY <1>t, <2>1, JoinAppend
  <2>3. /\ Increasing(Append(written \o waiting, clientClock + 1))
        /\ UpTo(Append(written \o waiting, clientClock + 1), clientClock + 1)
    BY <1>t, <1>o, <2>1, Grows, Joined
  <2> QED BY <2>1, <2>2, <2>3 DEF Line, Increasing, UpTo
<1>7. CASE MessageIgnored
  <2>1. /\ written' = written /\ waiting' = waiting /\ ws' = ws
        /\ clientClock' = clientClock + 1
    BY <1>7 DEF MessageIgnored, Writes, Coming
  <2>2. \A i \in 1 .. Len(written \o waiting) :
          /\ (written \o waiting)[i] \in 1 .. MaxMessages
          /\ (written \o waiting)[i] <= clientClock
    BY <1>t, <1>o, Joined, ElementOfSeq DEF UpTo
  <2>3. UpTo(written \o waiting, clientClock + 1)
    BY <1>t, <2>2 DEF UpTo
  <2> QED BY <1>o, <2>1, <2>3 DEF Line, Increasing, UpTo
<1>8. CASE MessageWritten
  <2>1. /\ waiting = << >> /\ waiting' = << >> /\ ws' = ws
        /\ clientClock' = clientClock + 1 /\ clientClock + 1 \in 1 .. MaxMessages
    BY <1>8, <1>t DEF MessageWritten, Writes, Coming, Line
  <2>2. Increasing(written) /\ UpTo(written, clientClock)
    BY <1>t, <1>o, Prefix
  <2>3. /\ Increasing(Append(written, clientClock + 1))
        /\ UpTo(Append(written, clientClock + 1), clientClock + 1)
    BY <1>t, <2>1, <2>2, Grows
  <2>4. UpTo(written, clientClock + 1)
    <3>1. \A i \in 1 .. Len(written) : written[i] \in 1 .. MaxMessages /\ written[i] <= clientClock
      BY <1>t, <2>2, ElementOfSeq DEF UpTo
    <3> QED BY <1>t, <3>1 DEF UpTo
  <2>5. written' = written \/ written' = Append(written, clientClock + 1)
    BY <1>8 DEF MessageWritten, Coming
  <2>6. /\ written \o << >> = written
        /\ Append(written, clientClock + 1) \o << >> = Append(written, clientClock + 1)
    BY <1>t, <2>1, JoinEmpty, Appended
  <2>7. Increasing(written' \o waiting') /\ UpTo(written' \o waiting', clientClock')
    BY <2>1, <2>2, <2>3, <2>4, <2>5, <2>6
  <2> QED BY <2>1, <2>7 DEF Line, Increasing, UpTo
<1>9. CASE UNCHANGED vars
  BY <1>9, Unwritten DEF vars
<1> QED BY <1>1, <1>2, <1>3, <1>4, <1>5, <1>6, <1>7, <1>8, <1>9
        DEF Next, Gateway, Callbacks, Client

(* What the client writes reaches the gateway in its order and only once.  *)
THEOREM ClientOrder == Spec => []WrittenInOrder
<1>1. Init => Line
  <2> SUFFICES ASSUME Init PROVE Line
    OBVIOUS
  <2>1. written = << >> /\ waiting = << >> /\ written \o waiting = << >>
    BY Empty, JoinEmpty DEF Init
  <2> QED BY <2>1 DEF Line, Increasing, UpTo, Init
<1>2. TypeOK /\ Line => WrittenInOrder
  BY Prefix DEF Line, WrittenInOrder, TypeOK
<1> QED BY <1>1, <1>2, LineStep, Typing, PTL DEF Spec

-----------------------------------------------------------------------------
(* Output of the kernel: what was sent is what was got and what is unread. *)
LEMMA OutputKept ==
  ASSUME OutputExact, ~disconnected' => ~disconnected,
         passed' = passed, got' = got, queue'[fut'] = queue[fut]
  PROVE  OutputExact'
BY DEF OutputExact

LEMMA FlowStep == TypeOK /\ Links /\ Flow /\ [Next]_vars => Flow'
<1> SUFFICES ASSUME TypeOK, Links, Flow, [Next]_vars PROVE Flow'
  OBVIOUS
<1>t. /\ fut \in Attempts /\ queue \in [Attempts -> Seq(1 .. MaxOutput)]
      /\ passed \in Seq(1 .. MaxOutput) /\ got \in Seq(1 .. MaxOutput)
  BY DEF TypeOK
<1>1. CASE Reconnect
  <2>1. /\ fut' = fut + 1 /\ fut' \in Attempts /\ link[fut'] = "none"
        /\ queue' = queue /\ reader' = "idle" /\ future'[fut'] = "pending"
        /\ link' = [link EXCEPT ![fut'] = "dialing"]
    BY <1>1 DEF Reconnect, Dial, Links, outVars, TypeOK, Attempts
  <2>2. queue[fut] = << >> /\ queue[fut'] = << >>
    BY <1>1, <2>1 DEF Reconnect, Flow
  <2>3. OutputExact'
    BY <1>1, <2>1, <2>2, OutputKept DEF Flow, Reconnect, outVars
  <2>4. \A n \in Attempts : link'[n] \in {"none", "dialing"} => queue'[n] = << >>
    BY <2>1, <2>2 DEF Flow, TypeOK
  <2> QED BY <2>1, <2>3, <2>4 DEF Flow
<1>2. ASSUME NEW n \in Attempts, Accept(n) PROVE Flow'
  <2>1. OutputExact'
    BY <1>2, OutputKept DEF Flow, Accept, outVars
  <2> QED BY <1>2, <2>1 DEF Flow, Accept, Settled, outVars, TypeOK
<1>3. ASSUME NEW n \in Attempts, Refuse(n) PROVE Flow'
  <2>1. OutputExact'
    BY <1>3, OutputKept DEF Flow, Refuse, outVars
  <2> QED BY <1>3, <2>1 DEF Flow, Refuse, Settled, outVars, TypeOK
<1>4. ASSUME NEW n \in Attempts, Lose(n) PROVE Flow'
  <2>1. OutputExact'
    BY <1>4, OutputKept DEF Flow, Lose, outVars, dialVars
  <2> QED BY <1>4, <2>1 DEF Flow, Lose, dialVars, outVars, TypeOK
<1>5. CASE Connected
  <2>1. OutputExact'
    BY <1>5, OutputKept DEF Flow, Connected, outVars
  <2> QED BY <1>5, <2>1 DEF Flow, Connected, outVars
<1>6. CASE NotConnected
  <2>1. OutputExact'
    BY <1>6, OutputKept DEF Flow, NotConnected, outVars
  <2>2. reader' = "sleeping" => future[fut] = "error"
    BY <1>6 DEF NotConnected, Stop, Done, Links, TypeOK
  <2> QED BY <1>6, <2>1, <2>2 DEF Flow, NotConnected, outVars
<1>7. CASE ReadOutput
  <2>1. /\ ws = fut /\ fut' = fut /\ link' = link /\ future' = future
        /\ disconnected' = disconnected /\ passed' = passed
        /\ queue' = [queue EXCEPT ![fut] = Tail(queue[fut])]
        /\ queue[fut] # << >> /\ reader = "reading"
    BY <1>7 DEF ReadOutput, Links, dialVars
  <2>2. \/ got' = Append(got, Head(queue[fut])) /\ reader' = "reading"
        \/ disconnected /\ reader' = "ended"
    BY <1>7, <2>1, Zenon DEF ReadOutput
  <2>3. Append(got, Head(queue[fut])) \o Tail(queue[fut]) = got \o queue[fut]
    BY <1>t, <2>1, MoveHead
  <2>4. queue'[fut'] = Tail(queue[fut])
    BY <1>t, <2>1
  <2>5. OutputExact'
    <3>1. CASE disconnected
      BY <2>1, <3>1 DEF OutputExact
    <3>2. CASE got' = Append(got, Head(queue[fut])) /\ ~disconnected
      BY <2>1, <2>3, <2>4, <3>2 DEF OutputExact, Flow
    <3> QED BY <2>2, <3>1, <3>2
  <2>6. \A n \in Attempts : n # fut => queue'[n] = queue[n]
    BY <1>t, <2>1
  <2> QED BY <2>1, <2>2, <2>5, <2>6 DEF Flow
<1>8. CASE ReadNone
  <2>1. OutputExact'
    BY <1>8, OutputKept DEF Flow, ReadNone, outVars, dialVars
  <2>2. queue[fut] = << >>
    BY <1>8 DEF ReadNone, Links
  <2> QED BY <1>8, <2>1, <2>2 DEF Flow, ReadNone, outVars, dialVars
<1>9. CASE Publish
  <2>1. kernelClock' \in 1 .. MaxOutput
    BY <1>9 DEF Publish, TypeOK
  <2>2. \A n \in Attempts : queue'[n] = IF link[n] = "open"
                                          THEN Append(queue[n], kernelClock')
                                          ELSE queue[n]
    BY <1>9 DEF Publish
  <2>3. /\ fut' = fut /\ link' = link /\ future' = future /\ got' = got
        /\ reader' = reader /\ disconnected' = disconnected
    BY <1>9 DEF Publish, dialVars
  <2>4. (\E n \in Attempts : link[n] = "open") <=> link[fut] = "open"
    <3>1. ASSUME NEW n \in Attempts, link[n] = "open" PROVE n = fut
      <4>1. ~(n < fut) /\ ~(n > fut)
        BY <3>1 DEF Links, Up
      <4> QED BY <4>1 DEF TypeOK, Attempts
    <3> QED BY <1>t, <3>1
  <2>5. OutputExact'
    <3>1. CASE link[fut] = "open"
      <4>1. queue'[fut'] = Append(queue[fut], kernelClock')
        BY <1>t, <2>2, <2>3, <3>1
      <4>2. passed' = Append(passed, kernelClock')
        BY <1>9, <2>4, <3>1 DEF Publish
      <4>3. got \o Append(queue[fut], kernelClock') = Append(got \o queue[fut], kernelClock')
        BY <1>t, <2>1, JoinAppend
      <4> QED BY <2>3, <4>1, <4>2, <4>3 DEF OutputExact, Flow
    <3>2. CASE link[fut] # "open"
      <4>1. queue'[fut'] = queue[fut] /\ passed' = passed
        BY <1>9, <1>t, <2>2, <2>3, <2>4, <3>2 DEF Publish
      <4> QED BY <2>3, <4>1, OutputKept DEF Flow
    <3> QED BY <3>1, <3>2
  <2> QED BY <1>t, <2>2, <2>3, <2>5 DEF Flow, Links
<1>10. CASE MessageWaits \/ MessageIgnored \/ MessageWritten
  <2>1. OutputExact'
    BY <1>10, OutputKept
    DEF Flow, MessageWaits, MessageIgnored, MessageWritten, Writes, outVars, dialVars
  <2> QED BY <1>10, <2>1
          DEF Flow, MessageWaits, MessageIgnored, MessageWritten, Writes, outVars, dialVars
<1>11. CASE Disconnect
  <2>1. OutputExact'
    BY <1>11, Zenon DEF OutputExact, Disconnect
  <2>2. fut' = fut /\ queue' = queue /\ reader' = reader
    BY <1>11 DEF Disconnect, outVars
  <2>3. future'[fut] = "error" => future[fut] = "error"
    BY <1>11, <1>t DEF Disconnect, TypeOK
  <2>4. \A n \in Attempts : link'[n] \in {"none", "dialing"} => link[n] = link'[n]
    BY <1>11 DEF Disconnect, TypeOK
  <2> QED BY <2>1, <2>2, <2>3, <2>4 DEF Flow
<1>12. CASE UNCHANGED vars
  <2>1. OutputExact'
    BY <1>12, OutputKept DEF Flow, vars
  <2> QED BY <1>12, <2>1 DEF Flow, vars
<1> QED BY <1>1, <1>2, <1>3, <1>4, <1>5, <1>6, <1>7, <1>8, <1>9, <1>10, <1>11,
           <1>12 DEF Next, Gateway, Callbacks, Read, Client

(* All that the gateway sends reaches the client that stays, in its order, *)
(* only once.                                                              *)
THEOREM OutputOrder == Spec => []OutputExact
<1>1. Init => Flow
  <2> SUFFICES ASSUME Init PROVE Flow
    OBVIOUS
  <2>1. passed = << >> /\ got = << >> /\ queue[fut] = << >>
    BY DEF Init, Attempts
  <2>2. << >> \o << >> = << >>
    BY Empty, JoinEmpty
  <2> QED BY <2>1, <2>2 DEF Init, Flow, OutputExact, Attempts
<1>2. TypeOK /\ Links /\ Flow /\ [Next]_vars => Flow'
  BY FlowStep
<1>3. Flow => OutputExact
  BY DEF Flow
<1> QED BY <1>1, <1>2, <1>3, Linked, PTL DEF Spec
-----------------------------------------------------------------------------
(* Retries.  Tried is the last dial whose callbacks have run.  Since the   *)
(* last success at most retry dials failed, and all the dials after that   *)
(* success did: the retry that follows a loss has not failed yet.          *)
Tried == IF called = "yes" THEN fut ELSE fut - 1

Dials ==
  /\ \A n \in Attempts : /\ n > fut => future[n] = "none"
                         /\ future[n] = "pending" => n = fut /\ called = "no"
  /\ reader = "idle" <=> called = "no"
  /\ reader = "reading" => retry = 0 /\ future[fut] = "result"

Tries ==
  reader \in {"idle", "sleeping"} =>
    /\ \A n \in Tried - retry + 2 .. Tried : Failed(n)
    /\ \E n \in Tried - retry .. Tried : ~Failed(n)

Retries == Dials /\ Tries /\ RetriesExact

LEMMA NoneFails ==
  ASSUME TypeOK, Retries, UNCHANGED <<disconnected, fut, called, reader, retry>>,
         \A n \in Attempts : \/ future'[n] = future[n]
                             \/ n = fut /\ called = "no" /\ future[n] = "pending" /\ future'[n] \in {"result", "cancelled"}
  PROVE  Retries'
<1>1. \A n : Failed(n)' <=> Failed(n)
  BY DEF Failed
<1>2. Dials'
  BY DEF Retries, Dials, TypeOK
<1>3. Tries'
  BY <1>1 DEF Retries, Tries, Tried
<1>4. RetriesExact'
  BY <1>1 DEF Retries, RetriesExact
<1> QED BY <1>2, <1>3, <1>4 DEF Retries

(* The last dial fails.                                                    *)
LEMMA RefuseRetries ==
  ASSUME TypeOK, Retries, NEW n \in Attempts, Refuse(n)
  PROVE  Retries'
<1>0. /\ UNCHANGED <<disconnected, fut, called, reader, retry>>
      /\ future' = IF future[n] = "pending" THEN [future EXCEPT ![n] = "error"] ELSE future
  BY DEF Refuse, Settled
<1>1. CASE future[n] # "pending"
  BY <1>0, <1>1, NoneFails
<1>2. CASE future[n] = "pending"
  <2>1. n = fut /\ called = "no" /\ reader = "idle" /\ Tried = fut - 1 /\ fut \in Nat /\ retry \in 0 .. RetryMax
    BY <1>2 DEF Retries, Dials, Tried, TypeOK, Attempts
  <2>2. \A m \in Attempts : future'[m] = IF m = fut THEN "error" ELSE future[m]
    BY <1>0, <1>2, <2>1 DEF TypeOK
  <2>3. \A m : m # fut => (Failed(m)' <=> Failed(m))
    BY <2>2 DEF Failed
  <2>4. Dials'
    BY <1>0, <2>1, <2>2 DEF Retries, Dials
  <2>5. Tries'
    BY <1>0, <2>1, <2>3 DEF Retries, Tries, Tried
  <2>6. ASSUME NEW m \in Attempts PROVE \E i \in m .. m + RetryMax + 1 : ~Failed(i)'
    <3>0. m \in Nat
      BY DEF Attempts
    <3>1. CASE m + RetryMax + 1 # fut
      <4>1. PICK i \in m .. m + RetryMax + 1 : ~Failed(i)
        BY DEF Retries, RetriesExact
      <4>2. CASE i # fut
        BY <2>3, <4>1, <4>2
      <4>3. CASE i = fut
        <5>1. m + RetryMax + 1 > fut
          BY <2>1, <3>0, <3>1, <4>3
        <5>2. m + RetryMax + 1 \in Attempts => future[m + RetryMax + 1] = "none"
          BY <5>1 DEF Retries, Dials
        <5>3. ~Failed(m + RetryMax + 1)'
          BY <2>3, <3>1, <5>2 DEF Failed
        <5> QED BY <3>0, <5>3
      <4> QED BY <4>2, <4>3
    <3>2. CASE m + RetryMax + 1 = fut
      <4>1. PICK i \in Tried - retry .. Tried : ~Failed(i)
        BY <2>1 DEF Retries, Tries
      <4>2. i \in m .. m + RetryMax + 1 /\ i # fut
        BY <2>1, <3>0, <3>2, <4>1
      <4> QED BY <2>3, <4>1, <4>2
    <3> QED BY <3>1, <3>2
  <2>7. RetriesExact'
    BY <1>0, <2>1, <2>6 DEF RetriesExact
  <2> QED BY <2>4, <2>5, <2>7 DEF Retries
<1> QED BY <1>1, <1>2

(* A dial that failed, or a loss: another one, unless it was the last.     *)
LEMMA StopRetries ==
  ASSUME TypeOK, Retries, Stop, UNCHANGED <<disconnected, fut, future>>, called' = "yes",
         future[fut] # "pending",
         ~disconnected => \/ called = "no" /\ future[fut] = "error"
                          \/ reader = "reading" /\ called = "yes"
  PROVE  Retries'
<1>0. /\ \A n : Failed(n)' <=> Failed(n)
      /\ fut \in Attempts /\ fut \in Nat /\ retry \in 0 .. RetryMax /\ Tried' = fut
  BY DEF Failed, TypeOK, Attempts, Tried
<1>1. \/ ~disconnected /\ retry < RetryMax /\ reader' = "sleeping" /\ retry' = retry + 1
      \/ (disconnected \/ retry = RetryMax) /\ reader' = "ended" /\ retry' = retry
  BY <1>0, BoundsAssumption DEF Stop
<1>2. Dials'
  BY <1>1 DEF Retries, Dials
<1>3. ASSUME ~disconnected
      PROVE  /\ \A n \in fut - retry + 1 .. fut : Failed(n)
             /\ \E n \in fut - retry - 1 .. fut : ~Failed(n)
  <2>1. CASE called = "no" /\ future[fut] = "error"
    <3>1. reader = "idle" /\ Tried = fut - 1 /\ Failed(fut)
      BY <1>0, <2>1 DEF Retries, Dials, Tried, Failed
    <3> QED BY <1>0, <3>1 DEF Retries, Tries
  <2>2. CASE reader = "reading" /\ called = "yes"
    <3>1. retry = 0 /\ ~Failed(fut)
      BY <2>2 DEF Retries, Dials, Failed
    <3> QED BY <1>0, <3>1
  <2> QED BY <1>3, <2>1, <2>2
<1>4. Tries'
  BY <1>0, <1>1, <1>3 DEF Tries
<1>5. RetriesExact'
  BY <1>0, <1>1, <1>3 DEF Retries, RetriesExact
<1> QED BY <1>2, <1>4, <1>5 DEF Retries

LEMMA RetriesStep == TypeOK /\ Links /\ Retries /\ [Next]_vars => Retries'
<1> SUFFICES ASSUME TypeOK, Links, Retries, [Next]_vars PROVE Retries'
  OBVIOUS
<1> USE DEF dialVars, textVars, outVars
<1>0. fut \in Attempts /\ fut \in Nat /\ retry \in 0 .. RetryMax
  BY DEF TypeOK, Attempts
<1>1. CASE Reconnect
  <2>1. /\ reader = "sleeping" /\ called = "yes" /\ fut + 1 \in Attempts /\ fut' = fut + 1 /\ called' = "no"
        /\ reader' = "idle" /\ UNCHANGED <<disconnected, retry>> /\ Tried = fut /\ Tried' = fut
    BY <1>0, <1>1 DEF Reconnect, Dial, Retries, Dials, TypeOK, Tried
  <2>2. \A n \in Attempts : future'[n] = IF n = fut + 1 THEN "pending" ELSE future[n]
    BY <1>1 DEF Reconnect, Dial, TypeOK
  <2>3. future[fut + 1] = "none"
    BY <1>0, <2>1 DEF Retries, Dials
  <2>4. \A n : Failed(n)' <=> Failed(n)
    BY <2>2, <2>3 DEF Failed
  <2>5. Dials'
    BY <1>0, <2>1, <2>2 DEF Retries, Dials, Attempts
  <2>6. Tries'
    BY <2>1, <2>4 DEF Retries, Tries
  <2>7. RetriesExact'
    BY <2>1, <2>4 DEF Retries, RetriesExact
  <2> QED BY <2>5, <2>6, <2>7 DEF Retries
<1>2. ASSUME NEW n \in Attempts, Accept(n) PROVE Retries'
  BY <1>2, NoneFails DEF Accept, Settled, Retries, Dials, TypeOK
<1>3. ASSUME NEW n \in Attempts, Refuse(n) PROVE Retries'
  BY <1>3, RefuseRetries
<1>4. CASE Connected
  <2>1. /\ called = "no" /\ called' = "yes" /\ future[fut] = "result" /\ reader' = "reading" /\ retry' = 0
        /\ UNCHANGED <<disconnected, fut, future>>
    BY <1>4 DEF Connected, Done
  <2>2. \A n : Failed(n)' <=> Failed(n)
    BY <2>1 DEF Failed
  <2> QED BY <2>1, <2>2 DEF Retries, Dials, Tries, RetriesExact
<1>5. CASE NotConnected
  <2>1. /\ called = "no" /\ called' = "yes" /\ future[fut] \notin {"none", "pending"} /\ Stop
        /\ disconnected \/ future[fut] # "result"
    BY <1>5 DEF NotConnected, Done
  <2>2. UNCHANGED <<disconnected, fut, future>>
    BY <1>5 DEF NotConnected
  <2>3. ~disconnected => future[fut] = "error"
    BY <1>0, <2>1 DEF Links, TypeOK
  <2> QED BY <2>1, <2>2, <2>3, StopRetries
<1>6. CASE ReadNone
  <2>1. /\ reader = "reading" /\ called = "yes" /\ called' = "yes" /\ Stop /\ UNCHANGED <<disconnected, fut, future>>
        /\ future[fut] # "pending"
    BY <1>0, <1>6 DEF ReadNone, Retries, Dials, TypeOK
  <2> QED BY <2>1, StopRetries
<1>7. CASE ReadOutput
  <2>1. /\ UNCHANGED <<disconnected, fut, called, future, retry>> /\ reader = "reading"
        /\ reader' = reader \/ (reader' = "ended" /\ disconnected)
    BY <1>7 DEF ReadOutput
  <2>2. \A n : Failed(n)' <=> Failed(n)
    BY <2>1 DEF Failed
  <2> QED BY <2>1, <2>2 DEF Retries, Dials, Tries, RetriesExact
<1>8. CASE Disconnect
  <2>1. /\ disconnected' = TRUE /\ UNCHANGED <<fut, called, reader, retry>>
        /\ future' = IF ws = 0 /\ future[fut] = "pending" THEN [future EXCEPT ![fut] = "cancelled"] ELSE future
    BY <1>8 DEF Disconnect
  <2>2. \A n \in Attempts : future'[n] = future[n] \/ (n = fut /\ future[n] = "pending" /\ future'[n] = "cancelled")
    BY <1>0, <2>1 DEF TypeOK
  <2>3. \A n : Failed(n)' <=> Failed(n)
    BY <2>2 DEF Failed
  <2>4. Dials'
    BY <1>0, <2>1, <2>2 DEF Retries, Dials
  <2>5. Tries'
    BY <2>1, <2>3 DEF Retries, Tries, Tried
  <2>6. RetriesExact'
    BY <2>1, <2>3 DEF Retries, RetriesExact
  <2> QED BY <2>4, <2>5, <2>6 DEF Retries
<1>9. CASE (\E n \in Attempts : Lose(n)) \/ Publish \/ MessageWaits \/ MessageIgnored \/ MessageWritten \/ UNCHANGED vars
  BY <1>9, NoneFails DEF Lose, Publish, MessageWaits, MessageIgnored, MessageWritten, Writes, vars
<1> QED BY <1>1, <1>2, <1>3, <1>4, <1>5, <1>6, <1>7, <1>8, <1>9 DEF Next, Gateway, Callbacks, Read, Client

(* The connection of a client that stays is given up only after RetryMax   *)
(* failed dials in a row, and no more than RetryMax + 1 fail in a row.     *)
THEOREM RetriesCounted == Spec => []RetriesExact
<1>1. Init => Retries
  <2> SUFFICES ASSUME Init PROVE Retries
    OBVIOUS
  <2>1. /\ fut = 1 /\ called = "no" /\ reader = "idle" /\ retry = 0
        /\ \A n \in Attempts : future[n] = IF n = 1 THEN "pending" ELSE "none"
    BY DEF Init
  <2>2. \A n : ~Failed(n)
    BY <2>1 DEF Failed
  <2>3. Dials
    BY <2>1 DEF Dials, Attempts
  <2>4. Tries
    BY <2>1, <2>2 DEF Tries, Tried
  <2>5. RetriesExact
    BY <2>1, <2>2, BoundsAssumption DEF RetriesExact, Attempts
  <2> QED BY <2>3, <2>4, <2>5 DEF Retries
<1>2. TypeOK /\ Links /\ Retries /\ [Next]_vars => Retries'
  BY RetriesStep
<1>3. Retries => RetriesExact
  BY DEF Retries
<1> QED BY <1>1, <1>2, <1>3, Linked, PTL DEF Spec
=============================================================================
