------------------------------- MODULE RateLimit -------------------------------
(***************************************************************************)
(* The limit on iopub messages of one websocket: _limit_rate of            *)
(* services/kernels/connection/channels.py.                                *)
(*                                                                         *)
(* Messages that pass are queued with the time at which they leave the     *)
(* window; two counters follow the queue.  Over a limit, messages are      *)
(* dropped until the rate is below 80% of it.  A status of idle resets     *)
(* everything; other status, comm_open and execute_input messages pass     *)
(* without being counted, and change nothing here.                         *)
(*                                                                         *)
(* Times are kept relative to the clock: an entry has a time left, and the *)
(* clock counts it down.                                                   *)
(***************************************************************************)
EXTENDS Integers, Sequences, Functions

CONSTANTS
  Window,    \* rate_limit_window
  MsgLimit,  \* iopub_msg_rate_limit times the window; 0: no limit
  DataLimit, \* iopub_data_rate_limit times the window; 0: no limit
  Sizes      \* bytes of messages; other messages than stream output count 0

ASSUME WindowAssumption == Window \in Nat \ {0}
ASSUME LimitAssumption == MsgLimit \in Nat /\ DataLimit \in Nat
ASSUME SizesAssumption == Sizes \subseteq Nat /\ 0 \in Sizes

VARIABLES
  queue,        \* _iopub_window_byte_queue
  msgCount,     \* _iopub_window_msg_count
  byteCount,    \* _iopub_window_byte_count
  msgsExceeded, \* _iopub_msgs_exceeded
  dataExceeded, \* _iopub_data_exceeded
  recent        \* what was sent within the last Window since the last reset

flags == <<msgsExceeded, dataExceeded>>
vars == <<queue, msgCount, byteCount, msgsExceeded, dataExceeded, recent>>

-----------------------------------------------------------------------------
Entry(left, bytes) == [left |-> left, bytes |-> bytes]
Bytes(q) == SumFunction([i \in DOMAIN q |-> q[i].bytes])

(* The first k entries of q, and no more, have no time left.               *)
Expired(q, k) ==
  /\ \A i \in 1 .. k : q[i].left = 0
  /\ k < Len(q) => q[k + 1].left > 0

After(q, k) == SubSeq(q, k + 1, Len(q))

(* The flag of a limit, from the flag before it and the count now.         *)
(* Mutant: the flag goes up without a limit being passed for good.         *)
Flag_Sticks(flag, count, limit) == flag \/ (limit > 0 /\ count > limit)

(* Mutant: exactly the limit is too much, nothing above it is.             *)
Flag_AtLimit(flag, count, limit) ==
  IF limit > 0 /\ count = limit THEN TRUE
  ELSE flag /\ 10 * count >= 8 * limit

Flag(flag, count, limit) ==
  IF limit > 0 /\ count > limit THEN TRUE
  ELSE flag /\ 10 * count >= 8 * limit

(* A counted message of b bytes, when the first k entries have expired.    *)
(* Mutant: it is kept for too long.                                        *)
Pass_TooLong(b, k) ==
  /\ queue' = Append(After(queue, k), Entry(Window + 1, b))
  /\ msgCount' = msgCount - k + 1
  /\ byteCount' = byteCount - Bytes(SubSeq(queue, 1, k)) + b
  /\ recent' = Append(recent, Entry(Window, b))

(* Mutant: it is kept one moment too short.                                *)
Pass_TooShort(b, k) ==
  /\ queue' = Append(After(queue, k), Entry(Window - 1, b))
  /\ msgCount' = msgCount - k + 1
  /\ byteCount' = byteCount - Bytes(SubSeq(queue, 1, k)) + b
  /\ recent' = Append(recent, Entry(Window, b))

Pass(b, k) ==
  /\ queue' = Append(After(queue, k), Entry(Window, b))
  /\ msgCount' = msgCount - k + 1
  /\ byteCount' = byteCount - Bytes(SubSeq(queue, 1, k)) + b
  /\ recent' = Append(recent, Entry(Window, b))

(* Mutant: the counters keep what was not sent.                            *)
Drop_StillCounted(b, k) ==
  /\ queue' = After(queue, k)
  /\ msgCount' = msgCount - k + 1
  /\ byteCount' = byteCount - Bytes(SubSeq(queue, 1, k)) + b
  /\ UNCHANGED recent

(* "we didn't send it, remove the current message from the calculus"       *)
Drop(b, k) ==
  /\ queue' = After(queue, k)
  /\ msgCount' = msgCount - k
  /\ byteCount' = byteCount - Bytes(SubSeq(queue, 1, k))
  /\ UNCHANGED recent

Receive(b) ==
  \E k \in 0 .. Len(queue) :
    /\ Expired(queue, k)
    /\ msgsExceeded' = Flag(msgsExceeded, msgCount - k + 1, MsgLimit)
    /\ dataExceeded' =
         Flag(dataExceeded, byteCount - Bytes(SubSeq(queue, 1, k)) + b, DataLimit)
    /\ \/ ~msgsExceeded' /\ ~dataExceeded' /\ Pass(b, k)
       \/ (msgsExceeded' \/ dataExceeded') /\ Drop(b, k)

(* A status message with execution_state idle.                             *)
StatusIdle ==
  /\ queue' = << >> /\ recent' = << >>
  /\ msgCount' = 0 /\ byteCount' = 0
  /\ msgsExceeded' = FALSE /\ dataExceeded' = FALSE

-----------------------------------------------------------------------------
(* Time passes.                                                            *)
Aged(q) == [i \in 1 .. Len(q) |->
              Entry(IF q[i].left = 0 THEN 0 ELSE q[i].left - 1, q[i].bytes)]

Tick ==
  /\ queue' = Aged(queue)
  /\ \E k \in 0 .. Len(recent) :
       Expired(Aged(recent), k) /\ recent' = After(Aged(recent), k)
  /\ UNCHANGED <<msgCount, byteCount, flags>>

Init ==
  /\ queue = << >> /\ recent = << >>
  /\ msgCount = 0 /\ byteCount = 0
  /\ msgsExceeded = FALSE /\ dataExceeded = FALSE

Next == (\E b \in Sizes : Receive(b)) \/ StatusIdle \/ Tick

Spec == Init /\ [][Next]_vars

(* The clock goes on, and the kernel goes on sending small messages.       *)
Fairness == WF_vars(Tick) /\ WF_vars(Receive(0))
FairSpec == Spec /\ Fairness

-----------------------------------------------------------------------------
(* The types of the variables (of byteCount, CountsExact says more).       *)
EntryType == [left : 0 .. Window, bytes : Sizes]

TypeOK ==
  /\ queue \in Seq(EntryType) /\ recent \in Seq(EntryType)
  /\ msgCount \in Int
  /\ msgsExceeded \in BOOLEAN /\ dataExceeded \in BOOLEAN

(* The counters are those of the queue, however messages pass, expire, are *)
(* dropped and are reset.                                                  *)
MsgCountExact == msgCount = Len(queue)
CountsExact == MsgCountExact /\ byteCount = Bytes(queue)

(* "Maximum rate at which messages can be sent on iopub": between resets   *)
(* no window of time holds more messages than the limit.                   *)
MsgsWithinLimit == MsgLimit > 0 => Len(recent) <= MsgLimit

(* "Maximum rate at which stream output can be sent on iopub".             *)
DataWithinLimit == DataLimit > 0 => Bytes(recent) <= DataLimit

(* "The Jupyter server will temporarily stop sending output": if the       *)
(* kernel goes on sending small messages, output is resumed, with no idle  *)
(* status needed.                                                          *)
Silent == msgsExceeded \/ dataExceeded
OutputResumes == Silent ~> ~Silent
=============================================================================
