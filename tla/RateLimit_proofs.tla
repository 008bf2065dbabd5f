--------------------------- MODULE RateLimit_proofs ---------------------------
(***************************************************************************)
(* RateLimit, for any window, limits and sizes: the counters are those of  *)
(* the queue, and no window of time holds more messages, or bytes, than    *)
(* the limit.                                                              *)
(*                                                                         *)
(* The inductive invariant is Tracks and Weighs.  Tracks says that what    *)
(* was sent recently is the end of the queue, that the entries before it   *)
(* have expired, and that the queue is sorted, so that purging its head    *)
(* removes no recent entry; Weighs, that the bytes of the queue, of which  *)
(* those are a part, are counted and within the limit.                     *)
(*                                                                         *)
(* The last part, about KernelActivity, has WorkKnown: what the server     *)
(* knows, or is about to read, of a kernel that works for a client.        *)
(***************************************************************************)
EXTENDS RateLimit, SequenceTheorems, FiniteSetTheorems, WellFoundedInduction, TLAPS

USE WindowAssumption, LimitAssumption, SizesAssumption

(* Entries of the queue that are older than what was sent recently.        *)
Old == Len(queue) - Len(recent)

Suffix ==
  /\ Len(recent) <= Len(queue)
  /\ \A i \in 1 .. Len(recent) :
       recent[i].left > 0 /\ queue[Old + i] = recent[i]
  /\ \A i \in 1 .. Len(queue) : i <= Old => queue[i].left = 0

Sorted == \A i, j \in 1 .. Len(queue) : i < j => queue[i].left <= queue[j].left

Bounded == MsgLimit > 0 => Len(queue) <= MsgLimit

Tracks == MsgCountExact /\ Suffix /\ Sorted /\ Bounded

-----------------------------------------------------------------------------
(* What the operators on queues return.                                    *)
LEMMA AfterSeq ==
  ASSUME NEW q \in Seq(EntryType), NEW k \in 0 .. Len(q)
  PROVE /\ After(q, k) \in Seq(EntryType)
        /\ Len(After(q, k)) = Len(q) - k
        /\ \A i \in 1 .. Len(q) - k : After(q, k)[i] = q[k + i]
BY DEF After

LEMMA AgedSeq ==
  ASSUME NEW q \in Seq(EntryType)
  PROVE /\ Aged(q) \in Seq(EntryType)
        /\ Len(Aged(q)) = Len(q)
        /\ \A i \in 1 .. Len(q) :
             /\ Aged(q)[i].left = IF q[i].left = 0 THEN 0 ELSE q[i].left - 1
             /\ Aged(q)[i] = Entry(IF q[i].left = 0 THEN 0 ELSE q[i].left - 1, q[i].bytes)
<1>1. \A i \in 1 .. Len(q) : q[i] \in EntryType
  OBVIOUS
<1>2. \A i \in 1 .. Len(q) : Aged(q)[i] \in EntryType
  BY <1>1 DEF Aged, Entry, EntryType
<1>3. Len(q) \in Nat /\ DOMAIN Aged(q) = 1 .. Len(q)
  BY DEF Aged
<1>4. Aged(q) \in [1 .. Len(q) -> EntryType]
  BY <1>2, <1>3 DEF Aged
<1>5. Aged(q) \in Seq(EntryType) /\ Len(Aged(q)) = Len(q)
  BY <1>3, <1>4
<1>6. \A i \in 1 .. Len(q) :
        Aged(q)[i] = Entry(IF q[i].left = 0 THEN 0 ELSE q[i].left - 1, q[i].bytes)
  BY DEF Aged
<1>7. \A i \in 1 .. Len(q) :
        Aged(q)[i].left = IF q[i].left = 0 THEN 0 ELSE q[i].left - 1
  BY DEF Aged, Entry
<1> QED BY <1>5, <1>6, <1>7

LEMMA NoEntry == << >> \in Seq(EntryType) /\ Len(<< >>) = 0
BY EmptySeq

LEMMA NewEntry ==
  ASSUME NEW b \in Sizes
  PROVE Entry(Window, b) \in EntryType /\ Entry(Window, b).left = Window
BY DEF Entry, EntryType

-----------------------------------------------------------------------------
(* Types.                                                                  *)
LEMMA TypeStep == TypeOK /\ [Next]_vars => TypeOK'
<1> SUFFICES ASSUME TypeOK, [Next]_vars PROVE TypeOK'
  OBVIOUS
<1> USE DEF TypeOK
<1>1. ASSUME NEW b \in Sizes, Receive(b) PROVE TypeOK'
  <2>1. PICK k \in 0 .. Len(queue) :
          /\ msgsExceeded' = Flag(msgsExceeded, msgCount - k + 1, MsgLimit)
          /\ dataExceeded' =
               Flag(dataExceeded, byteCount - Bytes(SubSeq(queue, 1, k)) + b, DataLimit)
          /\ Pass(b, k) \/ Drop(b, k)
    BY <1>1 DEF Receive
  <2>2. msgsExceeded' \in BOOLEAN /\ dataExceeded' \in BOOLEAN
    BY <2>1 DEF Flag
  <2>3. CASE Pass(b, k)
    BY <2>2, <2>3, AfterSeq, NewEntry DEF Pass
  <2>4. CASE Drop(b, k)
    BY <2>2, <2>4, AfterSeq DEF Drop
  <2> QED BY <2>1, <2>3, <2>4
<1>2. CASE StatusIdle
  <2>1. queue' \in Seq(EntryType) /\ recent' \in Seq(EntryType) /\ msgCount' \in Int
    BY <1>2, NoEntry DEF StatusIdle
  <2>2. msgsExceeded' \in BOOLEAN /\ dataExceeded' \in BOOLEAN
    BY <1>2, Zenon DEF StatusIdle
  <2> QED BY <2>1, <2>2
<1>3. CASE Tick
  <2>1. PICK k \in 0 .. Len(recent) : recent' = After(Aged(recent), k)
    BY <1>3 DEF Tick
  <2>2. recent' \in Seq(EntryType)
    BY <2>1, AgedSeq, AfterSeq
  <2> QED BY <1>3, <2>2, AgedSeq DEF Tick, flags
<1>4. CASE UNCHANGED vars
  BY <1>4 DEF vars
<1> QED BY <1>1, <1>2, <1>3, <1>4 DEF Next

(* The queue holds entries, the flags are Booleans.                        *)
THEOREM Typing == Spec => []TypeOK
<1>1. Init => TypeOK
  <2> SUFFICES ASSUME Init PROVE TypeOK
    OBVIOUS
  <2>1. queue \in Seq(EntryType) /\ recent \in Seq(EntryType) /\ msgCount \in Int
    BY NoEntry DEF Init
  <2>2. msgsExceeded \in BOOLEAN /\ dataExceeded \in BOOLEAN
    BY Zenon DEF Init
  <2> QED BY <2>1, <2>2 DEF TypeOK
<1> QED BY <1>1, TypeStep, PTL DEF Spec

-----------------------------------------------------------------------------
(* The queue follows what was sent.                                        *)
LEMMA Lefts ==
  ASSUME NEW q \in Seq(EntryType), NEW i \in 1 .. Len(q)
  PROVE q[i].left \in 0 .. Window
<1>1. q[i] \in EntryType
  BY ElementOfSeq
<1> QED BY <1>1 DEF EntryType

(* Purging removes no recent entry.                                        *)
LEMMA PurgeOld ==
  ASSUME TypeOK, Suffix, NEW k \in 0 .. Len(queue), Expired(queue, k)
  PROVE k <= Len(queue) - Len(recent)
<1> SUFFICES ASSUME k > Len(queue) - Len(recent) PROVE FALSE
  BY DEF TypeOK
<1>1. /\ Len(queue) \in Nat /\ Len(recent) \in Nat /\ Len(recent) <= Len(queue)
      /\ k \in Nat /\ k <= Len(queue)
  BY DEF TypeOK, Suffix
<1>2. 1 \in 1 .. Len(recent) /\ Old + 1 \in 1 .. k
  BY <1>1 DEF Old
<1>3. recent[1].left > 0 /\ queue[Old + 1] = recent[1]
  BY <1>2 DEF Suffix
<1>4. queue[Old + 1].left = 0
  BY <1>2 DEF Expired
<1> QED BY <1>3, <1>4

LEMMA PassTracks ==
  ASSUME TypeOK, Tracks, NEW b \in Sizes, NEW k \in 0 .. Len(queue), Expired(queue, k),
         ~(MsgLimit > 0 /\ msgCount - k + 1 > MsgLimit), Pass(b, k)
  PROVE Tracks'
<1> DEFINE n == Len(queue)
           m == Len(recent)
<1>1. /\ n \in Nat /\ m \in Nat /\ m <= n
      /\ queue \in Seq(EntryType) /\ recent \in Seq(EntryType)
  BY DEF TypeOK, Tracks, Suffix
<1>2. k <= n - m
  BY PurgeOld DEF Tracks
<1>3. /\ Len(queue') = n - k + 1 /\ Len(recent') = m + 1
      /\ \A i \in 1 .. n - k : queue'[i] = queue[k + i]
      /\ queue'[n - k + 1].left = Window
      /\ \A i \in 1 .. m : recent'[i] = recent[i]
      /\ recent'[m + 1].left = Window /\ recent'[m + 1] = queue'[n - k + 1]
  <2> DEFINE e == Entry(Window, b)
             a == After(queue, k)
  <2>1. e \in EntryType /\ e.left = Window
    BY NewEntry
  <2>2. a \in Seq(EntryType) /\ Len(a) = n - k /\ \A i \in 1 .. n - k : a[i] = queue[k + i]
    BY <1>1, AfterSeq
  <2>3. queue' = Append(a, e) /\ recent' = Append(recent, e)
    BY DEF Pass
  <2> HIDE DEF e, a
  <2>4. /\ Len(queue') = n - k + 1 /\ queue'[n - k + 1] = e
        /\ \A i \in 1 .. n - k : queue'[i] = a[i]
    <3>1. /\ Len(Append(a, e)) = Len(a) + 1 /\ Append(a, e)[Len(a) + 1] = e
          /\ \A i \in 1 .. Len(a) : Append(a, e)[i] = a[i]
      BY <2>1, <2>2, AppendProperties
    <3> QED BY <2>2, <2>3, <3>1
  <2>5. /\ Len(recent') = m + 1 /\ recent'[m + 1] = e
        /\ \A i \in 1 .. m : recent'[i] = recent[i]
    BY <1>1, <2>1, <2>3, AppendProperties
  <2> QED BY <2>1, <2>2, <2>4, <2>5
<1>4. MsgCountExact' /\ Bounded'
  BY <1>1, <1>3 DEF Tracks, MsgCountExact, Bounded, Pass
<1>5. \A i \in 1 .. n : queue[i].left \in 0 .. Window
  BY <1>1, Lefts
<1>6. Sorted'
  <2> SUFFICES ASSUME NEW i \in 1 .. n - k + 1, NEW j \in 1 .. n - k + 1, i < j
               PROVE queue'[i].left <= queue'[j].left
    BY <1>3 DEF Sorted
  <2>0. i \in 1 .. n - k /\ k + i \in 1 .. n /\ queue'[i] = queue[k + i]
    BY <1>1, <1>3
  <2>1. CASE j = n - k + 1
    <3>1. queue[k + i].left \in 0 .. Window
      BY <1>5, <2>0
    <3> QED BY <1>3, <2>0, <2>1, <3>1
  <2>2. CASE j # n - k + 1
    <3>0. j \in 1 .. n - k /\ k + j \in 1 .. n /\ k + i < k + j
      BY <1>1, <2>2
    <3>1. j \in 1 .. n - k /\ k + j \in 1 .. n /\ k + i < k + j /\ queue'[j] = queue[k + j]
      BY <1>3, <3>0
    <3>2. queue[k + i].left <= queue[k + j].left
      BY <2>0, <3>1 DEF Tracks, Sorted
    <3> QED BY <2>0, <3>1, <3>2
  <2> QED BY <2>1, <2>2
<1>7. Suffix'
  <2>1. Len(recent') <= Len(queue')
    BY <1>1, <1>2, <1>3
  <2>2. Old' = n - k - m
    BY <1>1, <1>3 DEF Old
  <2>3. ASSUME NEW i \in 1 .. m + 1
        PROVE recent'[i].left > 0 /\ queue'[Old' + i] = recent'[i]
    <3>1. CASE i = m + 1
      BY <1>1, <1>3, <2>2, <3>1
    <3>2. CASE i # m + 1
      <4>1. i \in 1 .. m /\ n - k - m + i \in 1 .. n - k /\ k + (n - k - m + i) = n - m + i
        BY <1>1, <1>2, <3>2
      <4>2. queue'[n - k - m + i] = queue[n - m + i] /\ recent'[i] = recent[i]
        BY <1>3, <4>1
      <4>3. recent[i].left > 0 /\ queue[n - m + i] = recent[i]
        BY <4>1 DEF Tracks, Suffix, Old
      <4> QED BY <2>2, <4>2, <4>3
    <3> QED BY <3>1, <3>2
  <2>4. ASSUME NEW i \in 1 .. n - k + 1, i <= n - k - m PROVE queue'[i].left = 0
    <3>1. i \in 1 .. n - k /\ k + i \in 1 .. n /\ k + i <= n - m
      BY <1>1, <2>4
    <3>2. queue[k + i].left = 0
      BY <3>1 DEF Tracks, Suffix, Old
    <3> QED BY <1>3, <3>1, <3>2
  <2> QED BY <1>3, <2>1, <2>2, <2>3, <2>4 DEF Suffix
<1> QED BY <1>4, <1>6, <1>7 DEF Tracks

LEMMA DropTracks ==
  ASSUME TypeOK, Tracks, NEW b \in Sizes, NEW k \in 0 .. Len(queue), Expired(queue, k),
         Drop(b, k)
  PROVE Tracks'
<1> DEFINE n == Len(queue)
           m == Len(recent)
<1>1. /\ n \in Nat /\ m \in Nat /\ m <= n
      /\ queue \in Seq(EntryType) /\ recent \in Seq(EntryType)
  BY DEF TypeOK, Tracks, Suffix
<1>2. k <= n - m
  BY PurgeOld DEF Tracks
<1>3. /\ Len(queue') = n - k /\ recent' = recent
      /\ \A i \in 1 .. n - k : queue'[i] = queue[k + i]
  BY <1>1, AfterSeq DEF Drop
<1>4. MsgCountExact' /\ Bounded'
  BY <1>1, <1>3 DEF Tracks, MsgCountExact, Bounded, Drop
<1>5. Sorted'
  <2> SUFFICES ASSUME NEW i \in 1 .. n - k, NEW j \in 1 .. n - k, i < j
               PROVE queue'[i].left <= queue'[j].left
    BY <1>3 DEF Sorted
  <2>1. /\ k + i \in 1 .. n /\ k + j \in 1 .. n /\ k + i < k + j
        /\ queue'[i] = queue[k + i] /\ queue'[j] = queue[k + j]
    BY <1>1, <1>3
  <2>2. queue[k + i].left <= queue[k + j].left
    BY <2>1 DEF Tracks, Sorted
  <2> QED BY <2>1, <2>2
<1>6. Suffix'
  <2>1. Len(recent') <= Len(queue') /\ Old' = n - k - m
    BY <1>1, <1>2, <1>3 DEF Old
  <2>2. ASSUME NEW i \in 1 .. m
        PROVE recent[i].left > 0 /\ queue'[n - k - m + i] = recent[i]
    <3>1. n - k - m + i \in 1 .. n - k /\ k + (n - k - m + i) = n - m + i
      BY <1>1, <1>2
    <3>2. queue'[n - k - m + i] = queue[n - m + i]
      BY <1>3, <3>1
    <3> QED BY <3>2 DEF Tracks, Suffix, Old
  <2>3. ASSUME NEW i \in 1 .. n - k, i <= n - k - m PROVE queue'[i].left = 0
    <3>1. k + i \in 1 .. n /\ k + i <= n - m
      BY <1>1, <2>3
    <3>2. queue[k + i].left = 0
      BY <3>1 DEF Tracks, Suffix, Old
    <3> QED BY <1>3, <3>2
  <2> QED BY <1>3, <2>1, <2>2, <2>3 DEF Suffix
<1> QED BY <1>4, <1>5, <1>6 DEF Tracks

LEMMA TickTracks == TypeOK /\ Tracks /\ Tick => Tracks'
<1> SUFFICES ASSUME TypeOK, Tracks, Tick PROVE Tracks'
  OBVIOUS
<1> DEFINE n == Len(queue)
           m == Len(recent)
<1>1. /\ n \in Nat /\ m \in Nat /\ m <= n
      /\ queue \in Seq(EntryType) /\ recent \in Seq(EntryType)
  BY DEF TypeOK, Tracks, Suffix
<1>2. PICK k \in 0 .. m : Expired(Aged(recent), k) /\ recent' = After(Aged(recent), k)
  BY DEF Tick
<1>3. /\ Len(queue') = n
      /\ \A i \in 1 .. n :
           /\ queue'[i].left = IF queue[i].left = 0 THEN 0 ELSE queue[i].left - 1
           /\ queue'[i] = Entry(IF queue[i].left = 0 THEN 0 ELSE queue[i].left - 1, queue[i].bytes)
  BY <1>1, AgedSeq DEF Tick
<1>4. /\ Len(Aged(recent)) = m /\ Aged(recent) \in Seq(EntryType)
      /\ \A i \in 1 .. m : Aged(recent)[i] = queue'[n - m + i]
  <2>1. /\ Len(Aged(recent)) = m /\ Aged(recent) \in Seq(EntryType)
        /\ \A i \in 1 .. m : Aged(recent)[i] =
             Entry(IF recent[i].left = 0 THEN 0 ELSE recent[i].left - 1, recent[i].bytes)
    BY <1>1, AgedSeq
  <2>2. ASSUME NEW i \in 1 .. m PROVE Aged(recent)[i] = queue'[n - m + i]
    <3>1. n - m + i \in 1 .. n
      BY <1>1
    <3>2. queue[n - m + i] = recent[i]
      BY DEF Tracks, Suffix, Old
    <3> QED BY <1>3, <2>1, <3>1, <3>2
  <2> QED BY <2>1, <2>2
<1>5. /\ Len(recent') = m - k
      /\ \A i \in 1 .. m - k : recent'[i] = queue'[n - m + k + i]
  <2>1. /\ Len(recent') = m - k
        /\ \A i \in 1 .. m - k : recent'[i] = Aged(recent)[k + i]
    <3>1. Len(Aged(recent)) = m /\ Aged(recent) \in Seq(EntryType)
      BY <1>4
    <3> QED BY <1>2, <3>1, AfterSeq
  <2>2. ASSUME NEW i \in 1 .. m - k
        PROVE recent'[i] = queue'[n - m + k + i]
    <3>1. k + i \in 1 .. m /\ n - m + (k + i) = n - m + k + i
      BY <1>1
    <3>2. Aged(recent)[k + i] = queue'[n - m + (k + i)]
      BY <1>4, <3>1
    <3> QED BY <2>1, <3>1, <3>2
  <2> QED BY <2>1, <2>2
<1>6. MsgCountExact' /\ Bounded'
  BY <1>3 DEF Tick, Tracks, MsgCountExact, Bounded
<1>7. \A i \in 1 .. n : queue[i].left \in 0 .. Window
  BY <1>1, Lefts
<1>8. Sorted'
  BY <1>1, <1>3, <1>7 DEF Tracks, Sorted
<1>9. Suffix'
  <2>1. Len(recent') <= Len(queue') /\ Old' = n - m + k
    <3>1. Len(queue') = n /\ Len(recent') = m - k
      BY <1>3, <1>5
    <3> QED BY <1>1, <3>1 DEF Old
  <2>2. ASSUME NEW i \in 1 .. m - k PROVE recent'[i].left > 0
    <3>1. Aged(recent)[k + 1].left > 0
      <4>1. Len(Aged(recent)) = m
        BY <1>4
      <4> QED BY <1>1, <1>2, <4>1 DEF Expired
    <3>2. queue'[n - m + k + 1].left > 0
      <4>1. k + 1 \in 1 .. m /\ n - m + (k + 1) = n - m + k + 1
        BY <1>1
      <4>2. Aged(recent)[k + 1] = queue'[n - m + (k + 1)]
        BY <1>4, <4>1
      <4> QED BY <3>1, <4>1, <4>2
    <3>3. queue'[n - m + k + 1].left <= queue'[n - m + k + i].left
      <4>1. CASE i = 1
        BY <1>1, <1>3, <1>7, <4>1
      <4>2. CASE i # 1
        BY <1>1, <1>3, <1>8, <4>2 DEF Sorted
      <4> QED BY <4>1, <4>2
    <3>4. n - m + k + i \in 1 .. n /\ n - m + k + 1 \in 1 .. n
      BY <1>1
    <3>5. queue'[n - m + k + i].left \in Int /\ queue'[n - m + k + 1].left \in Int
      <4>1. ASSUME NEW x \in 1 .. n PROVE queue'[x].left \in Int
        <5>1. queue[x].left \in Int
          BY <1>7
        <5> QED BY <1>3, <5>1
      <4> QED BY <3>4, <4>1
    <3>6. recent'[i] = queue'[n - m + k + i]
      BY <1>5
    <3> QED BY <3>2, <3>3, <3>5, <3>6
  <2>3. ASSUME NEW i \in 1 .. n, i <= n - m + k PROVE queue'[i].left = 0
    <3>1. CASE i <= n - m
      BY <1>3, <3>1 DEF Tracks, Suffix, Old
    <3>2. CASE i > n - m
      <4>1. i - (n - m) \in 1 .. k /\ i - (n - m) \in 1 .. m
        BY <1>1, <2>3, <3>2
      <4>2. Aged(recent)[i - (n - m)].left = 0
        BY <1>2, <4>1 DEF Expired
      <4>3. Aged(recent)[i - (n - m)] = queue'[n - m + (i - (n - m))]
        BY <1>4, <4>1
      <4>4. n - m + (i - (n - m)) = i
        BY <1>1
      <4> QED BY <4>2, <4>3, <4>4
    <3> QED BY <1>1, <3>1, <3>2
  <2> QED BY <1>3, <1>5, <2>1, <2>2, <2>3 DEF Suffix
<1> QED BY <1>6, <1>8, <1>9 DEF Tracks

LEMMA TracksStep == TypeOK /\ Tracks /\ [Next]_vars => Tracks'
<1> SUFFICES ASSUME TypeOK, Tracks, [Next]_vars PROVE Tracks'
  OBVIOUS
<1>1. ASSUME NEW b \in Sizes, Receive(b) PROVE Tracks'
  <2>1. PICK k \in 0 .. Len(queue) :
          /\ Expired(queue, k)
          /\ msgsExceeded' = Flag(msgsExceeded, msgCount - k + 1, MsgLimit)
          /\ \/ ~msgsExceeded' /\ Pass(b, k)
             \/ Drop(b, k)
    BY <1>1 DEF Receive
  <2>2. CASE ~msgsExceeded' /\ Pass(b, k)
    <3>1. ~(MsgLimit > 0 /\ msgCount - k + 1 > MsgLimit)
      BY <2>1, <2>2 DEF Flag
    <3> QED BY <2>1, <2>2, <3>1, PassTracks
  <2>3. CASE Drop(b, k)
    BY <2>1, <2>3, DropTracks
  <2> QED BY <2>1, <2>2, <2>3
<1>2. CASE StatusIdle
  BY <1>2 DEF StatusIdle, Tracks, MsgCountExact, Suffix, Sorted, Bounded, Old
<1>3. CASE Tick
  BY <1>3, TickTracks
<1>4. CASE UNCHANGED vars
  BY <1>4 DEF vars, Tracks, MsgCountExact, Suffix, Sorted, Bounded, Old
<1> QED BY <1>1, <1>2, <1>3, <1>4 DEF Next

LEMMA Tracking == Spec => []Tracks
<1>1. Init => Tracks
  BY DEF Init, Tracks, MsgCountExact, Suffix, Sorted, Bounded, Old
<1> QED BY <1>1, TracksStep, Typing, PTL DEF Spec

(* No window of time holds more messages than the limit.                   *)
THEOREM RateBounded == Spec => []MsgsWithinLimit
<1>1. TypeOK /\ Tracks => MsgsWithinLimit
  BY DEF TypeOK, Tracks, Suffix, Bounded, MsgsWithinLimit
<1> QED BY <1>1, Typing, Tracking, PTL

-----------------------------------------------------------------------------
(* How SumFunction of the community modules adds up the values of f on S:  *)
(* g holds the sums on all subsets.                                        *)
Pick(s) == CHOOSE x \in s : TRUE
Adds(f, g, S) == g = [s \in SUBSET S |-> IF s = {} THEN 0 ELSE f[Pick(s)] + g[s \ {Pick(s)}]]
Total(f, S) == SumFunctionOnSet(f, S)

LEMMA TotalMeans ==
  ASSUME NEW f, NEW S
  PROVE  Total(f, S) = (CHOOSE g : Adds(f, g, S))[S]
BY DEF Total, SumFunctionOnSet, FoldFunctionOnSet, MapThenFoldSet, Adds, Pick

LEMMA Picked == \A s : s # {} => Pick(s) \in s
BY DEF Pick

(* What fails for some subset of a finite set fails for a smallest one.    *)
LEMMA SmallestSet ==
  ASSUME NEW S, IsFiniteSet(S), NEW T \in SUBSET (SUBSET S), T # {}
  PROVE  \E s \in T : \A t \in SUBSET s : t # s => t \notin T
<1>1. T \subseteq FiniteSubsetsOf(S)
  BY FS_Subset DEF FiniteSubsetsOf
<1>2. PICK s \in T : \A t \in T : <<t, s>> \notin StrictSubsetOrdering(S)
  BY <1>1, WFMin, FS_StrictSubsetOrderingWellFounded
<1>3. ASSUME NEW t \in SUBSET s, t # s, t \in T PROVE FALSE
  <2>1. t \in SUBSET S /\ s \in SUBSET S /\ t \subseteq s
    BY <1>3
  <2>2. <<t, s>> \in StrictSubsetOrdering(S)
    BY <1>3, <2>1 DEF StrictSubsetOrdering
  <2> QED BY <1>2, <1>3, <2>2
<1> QED BY <1>2, <1>3

LEMMA FirstOne ==
  ASSUME NEW m \in Nat, NEW B \in SUBSET (0 .. m), B # {}
  PROVE  \E j \in B : j - 1 \notin B
<1> DEFINE T == {0 .. j : j \in B}
<1>1. IsFiniteSet(0 .. m)
  BY FS_Interval
<1>2. T \in SUBSET (SUBSET (0 .. m)) /\ T # {}
  <2>1. \A j \in B : j \in 0 .. m /\ 0 .. j \in SUBSET (0 .. m)
    OBVIOUS
  <2>2. PICK j \in B : TRUE
    OBVIOUS
  <2>3. 0 .. j \in T
    OBVIOUS
  <2> QED BY <2>1, <2>3
<1>3. PICK s \in T : \A t \in SUBSET s : t # s => t \notin T
  <2> HIDE DEF T
  <2> QED BY <1>1, <1>2, SmallestSet
<1>4. PICK j \in B : s = 0 .. j
  BY <1>3
<1>5. ASSUME j - 1 \in B PROVE FALSE
  <2>1. 0 .. (j - 1) \in T
    BY <1>5
  <2>2. 0 .. (j - 1) \in SUBSET s /\ 0 .. (j - 1) # s
    BY <1>4
  <2> HIDE DEF T
  <2> QED BY <1>3, <2>1, <2>2
<1> QED BY <1>5

Follows(f, g, S) ==
  /\ g[{}] = 0
  /\ \A s \in SUBSET S : s # {} => Pick(s) \in s /\ g[s] = f[Pick(s)] + g[s \ {Pick(s)}]

LEMMA AddsMeans ==
  ASSUME NEW f, NEW g, NEW S, Adds(f, g, S)
  PROVE  Follows(f, g, S)
<1>1. \A s \in SUBSET S : g[s] = IF s = {} THEN 0 ELSE f[Pick(s)] + g[s \ {Pick(s)}]
  BY Zenon DEF Adds
<1> QED BY <1>1, Picked DEF Follows

(* The sums are those of the values alone, however the set goes on.        *)
LEMMA AddsAgree ==
  ASSUME NEW f1, NEW f2, NEW g1, NEW g2, NEW S1, NEW S2, Adds(f1, g1, S1), Adds(f2, g2, S2),
         NEW S, IsFiniteSet(S), S \subseteq S1, S \subseteq S2, \A x \in S : f1[x] = f2[x]
  PROVE  \A s \in SUBSET S : g1[s] = g2[s]
<1> DEFINE Bad == {s \in SUBSET S : g1[s] # g2[s]}
<1> SUFFICES ASSUME Bad # {} PROVE FALSE
  OBVIOUS
<1>0. Bad \in SUBSET (SUBSET S)
  OBVIOUS
<1>1. PICK s \in Bad : \A t \in SUBSET s : t # s => t \notin Bad
  <2> HIDE DEF Bad
  <2> QED BY <1>0, SmallestSet
<1>2. s # {}
  <2>1. Follows(f1, g1, S1) /\ Follows(f2, g2, S2)
    BY AddsMeans
  <2> QED BY <1>1, <2>1 DEF Follows
<1>3. Pick(s) \in s /\ f1[Pick(s)] = f2[Pick(s)]
  BY <1>1, <1>2, Picked
<1>4. g1[s \ {Pick(s)}] = g2[s \ {Pick(s)}]
  <2>1. s \ {Pick(s)} \in SUBSET s /\ s \ {Pick(s)} # s /\ s \ {Pick(s)} \in SUBSET S
    BY <1>1, <1>3
  <2> QED BY <1>1, <2>1
<1>5. s \in SUBSET S1 /\ s \in SUBSET S2
  BY <1>1
<1>6. g1[s] = f1[Pick(s)] + g1[s \ {Pick(s)}]
  <2>1. Follows(f1, g1, S1)
    BY AddsMeans
  <2> QED BY <1>2, <1>5, <2>1 DEF Follows
<1>7. g2[s] = f2[Pick(s)] + g2[s \ {Pick(s)}]
  <2>1. Follows(f2, g2, S2)
    BY AddsMeans
  <2> QED BY <1>2, <1>5, <2>1 DEF Follows
<1> QED BY <1>1, <1>3, <1>4, <1>6, <1>7

(* There are such sums: those of the subsets, and that of the whole.       *)
LEMMA AddsExist ==
  ASSUME NEW f, NEW S, IsFiniteSet(S)
  PROVE  \E g : Adds(f, g, S)
<1> DEFINE Bad == {s \in SUBSET S : ~\E g : Adds(f, g, s)}
<1> SUFFICES ASSUME Bad # {} PROVE FALSE
  OBVIOUS
<1>0. Bad \in SUBSET (SUBSET S)
  OBVIOUS
<1>1. PICK s \in Bad : \A t \in SUBSET s : t # s => t \notin Bad
  <2> HIDE DEF Bad
  <2> QED BY <1>0, SmallestSet
<1>2. \A t \in SUBSET s : t # s => \E g : Adds(f, g, t)
  BY <1>1
<1> DEFINE Of(t) == CHOOSE g : Adds(f, g, t)
           h == [t \in SUBSET s |-> IF t = {} THEN 0
                                    ELSE f[Pick(t)] + Of(t \ {Pick(t)})[t \ {Pick(t)}]]
<1>3. \A t \in SUBSET s : t # s => Adds(f, Of(t), t)
  BY <1>2
<1>4. \A t \in SUBSET s : t # s => IsFiniteSet(t)
  BY <1>1, FS_Subset
<1>5. \A t \in SUBSET s : t # {} => Pick(t) \in t /\ t \ {Pick(t)} \in SUBSET s /\ t \ {Pick(t)} # s
  BY Picked
<1> HIDE DEF Of
<1>6. ASSUME NEW t \in SUBSET s, t # s PROVE Of(t)[t] = h[t]
  <2>1. CASE t = {}
    <3>1. Follows(f, Of(t), t)
      BY <1>3, <1>6, AddsMeans
    <3> QED BY <2>1, <3>1 DEF Follows
  <2>2. CASE t # {}
    <3> DEFINE u == t \ {Pick(t)}
    <3>1. u \in SUBSET s /\ u # s /\ u \in SUBSET t /\ u \subseteq u
      BY <1>5, <2>2
    <3>2. Of(t)[t] = f[Pick(t)] + Of(t)[u]
      <4>1. Follows(f, Of(t), t)
        BY <1>3, <1>6, AddsMeans
      <4> QED BY <2>2, <4>1 DEF Follows
    <3>3. Adds(f, Of(t), t) /\ Adds(f, Of(u), u) /\ IsFiniteSet(u)
      BY <1>3, <1>4, <1>6, <3>1
    <3>4. Of(t)[u] = Of(u)[u]
      <4> HIDE DEF u
      <4> QED BY <3>1, <3>3, AddsAgree
    <3> QED BY <2>2, <3>2, <3>4
  <2> QED BY <2>1, <2>2
<1>7. Adds(f, h, s)
  <2> DEFINE e(t) == IF t = {} THEN 0 ELSE f[Pick(t)] + h[t \ {Pick(t)}]
  <2>1. ASSUME NEW t \in SUBSET s PROVE h[t] = e(t)
    <3>1. t # {} => Of(t \ {Pick(t)})[t \ {Pick(t)}] = h[t \ {Pick(t)}]
      <4> HIDE DEF h
      <4> QED BY <1>5, <1>6
    <3>2. h[t] = IF t = {} THEN 0 ELSE f[Pick(t)] + Of(t \ {Pick(t)})[t \ {Pick(t)}]
      OBVIOUS
    <3> HIDE DEF h
    <3> QED BY <3>1, <3>2
  <2>2. h = [t \in SUBSET s |-> h[t]]
    OBVIOUS
  <2> HIDE DEF h
  <2>3. h = [t \in SUBSET s |-> e(t)]
    <3> HIDE DEF e
    <3> QED BY <2>1, <2>2
  <2> QED BY <2>3 DEF Adds
<1> HIDE DEF h
<1> QED BY <1>1, <1>7

(* What a sum is, and that it takes one value away from another.           *)
LEMMA TotalEmpty ==
  ASSUME NEW f
  PROVE  Total(f, {}) = 0
<1>1. Adds(f, CHOOSE g : Adds(f, g, {}), {})
  BY AddsExist, FS_EmptySet
<1>2. Follows(f, CHOOSE g : Adds(f, g, {}), {})
  BY <1>1, AddsMeans
<1> QED BY <1>2, TotalMeans DEF Follows

LEMMA TotalSame ==
  ASSUME NEW f, NEW g, NEW S, IsFiniteSet(S), \A x \in S : f[x] = g[x]
  PROVE  Total(f, S) = Total(g, S)
<1> DEFINE F == CHOOSE h : Adds(f, h, S)
           G == CHOOSE h : Adds(g, h, S)
<1>1. Adds(f, F, S) /\ Adds(g, G, S)
  BY AddsExist
<1>2. Total(f, S) = F[S] /\ Total(g, S) = G[S]
  BY TotalMeans
<1> HIDE DEF F, G
<1>3. F[S] = G[S]
  BY <1>1, AddsAgree
<1> QED BY <1>2, <1>3

LEMMA TotalOne ==
  ASSUME NEW f, NEW S, IsFiniteSet(S), \A x \in S : f[x] \in Nat
  PROVE  /\ Total(f, S) \in Nat
         /\ \A x \in S : Total(f, S) = f[x] + Total(f, S \ {x})
<1>1. PICK g : Adds(f, g, S)
  BY AddsExist
<1>2. Follows(f, g, S)
  BY <1>1, AddsMeans
<1>3. \A T \in SUBSET S : Total(f, T) = g[T]
  <2> TAKE T \in SUBSET S
  <2> DEFINE h == CHOOSE e : Adds(f, e, T)
  <2>1. IsFiniteSet(T) /\ Adds(f, h, T) /\ Total(f, T) = h[T]
    BY AddsExist, FS_Subset, TotalMeans
  <2> HIDE DEF h
  <2>2. h[T] = g[T]
    BY <1>1, <2>1, AddsAgree
  <2> QED BY <2>1, <2>2
<1> DEFINE Good(s) == g[s] \in Nat /\ \A x \in s : g[s] = f[x] + g[s \ {x}]
           Bad == {s \in SUBSET S : ~Good(s)}
<1>4. Bad = {}
  <2> SUFFICES ASSUME Bad # {} PROVE FALSE
    OBVIOUS
  <2>1. PICK s \in Bad : \A t \in SUBSET s : t # s => t \notin Bad
    <3> HIDE DEF Bad
    <3>1. Bad \in SUBSET (SUBSET S)
      BY DEF Bad
    <3> QED BY <3>1, SmallestSet
  <2>2. s \in SUBSET S /\ ~Good(s) /\ \A t \in SUBSET s : t # s => Good(t)
    BY <2>1
  <2>3. s # {}
    <3>1. g[{}] = 0
      BY <1>2 DEF Follows
    <3>2. Good({})
      BY <3>1
    <3> QED BY <2>2, <3>2
  <2> DEFINE y == Pick(s)
  <2>4. y \in s /\ y \in S /\ g[s] = f[y] + g[s \ {y}]
    <3> HIDE DEF Good, Bad
    <3> QED BY <1>2, <2>2, <2>3 DEF Follows
  <2> HIDE DEF y
  <2>5. Good(s \ {y}) /\ f[y] \in Nat
    <3>1. s \ {y} \in SUBSET s /\ s \ {y} # s
      BY <2>4
    <3> HIDE DEF Good
    <3> QED BY <2>2, <2>4, <3>1
  <2>6. g[s] \in Nat
    BY <2>4, <2>5
  <2>7. ASSUME NEW x \in s, x # y PROVE g[s] = f[x] + g[s \ {x}]
    <3>1. Good(s \ {x})
      <4>1. s \ {x} \in SUBSET s /\ s \ {x} # s
        OBVIOUS
      <4> HIDE DEF Good
      <4> QED BY <2>2, <4>1
    <3>2. g[s \ {x}] = f[y] + g[(s \ {x}) \ {y}]
      BY <2>4, <2>7, <3>1
    <3>3. g[s \ {y}] = f[x] + g[(s \ {y}) \ {x}]
      BY <2>5, <2>7
    <3>4. (s \ {x}) \ {y} = (s \ {y}) \ {x}
      OBVIOUS
    <3>5. g[(s \ {y}) \ {x}] \in Nat
      <4>1. (s \ {y}) \ {x} \in SUBSET s /\ (s \ {y}) \ {x} # s
        BY <2>4
      <4>2. Good((s \ {y}) \ {x})
        <5> HIDE DEF Good
        <5> QED BY <2>2, <4>1
      <4> QED BY <4>2
    <3>6. f[x] \in Nat /\ f[y] \in Nat
      BY <2>2, <2>4
    <3> QED BY <2>4, <3>2, <3>3, <3>4, <3>5, <3>6
  <2>8. Good(s)
    BY <2>4, <2>6, <2>7
  <2> QED BY <2>2, <2>8
<1>5. Good(S)
  BY <1>4
<1> QED BY <1>3, <1>5

(* Adding up all values up to n, and up to k + j in two parts.             *)
LEMMA TotalNext ==
  ASSUME NEW n \in Nat, NEW f, \A i \in 1 .. n + 1 : f[i] \in Nat
  PROVE  /\ Total(f, 1 .. n) \in Nat /\ Total(f, 1 .. n + 1) \in Nat
         /\ Total(f, 1 .. n + 1) = Total(f, 1 .. n) + f[n + 1]
<1>1. IsFiniteSet(1 .. n) /\ IsFiniteSet(1 .. n + 1)
  BY FS_Interval
<1>2. n + 1 \in 1 .. n + 1 /\ (1 .. n + 1) \ {n + 1} = 1 .. n /\ \A i \in 1 .. n : i \in 1 .. n + 1
  OBVIOUS
<1>3. Total(f, 1 .. n) \in Nat /\ Total(f, 1 .. n + 1) \in Nat
  BY <1>1, <1>2, TotalOne
<1>4. Total(f, 1 .. n + 1) = f[n + 1] + Total(f, (1 .. n + 1) \ {n + 1})
  BY <1>1, <1>2, TotalOne
<1>5. f[n + 1] \in Nat
  BY <1>2
<1>6. Total(f, (1 .. n + 1) \ {n + 1}) = Total(f, 1 .. n)
  BY <1>2
<1> QED BY <1>3, <1>4, <1>5, <1>6

LEMMA TotalParts ==
  ASSUME NEW k \in Nat, NEW m \in Nat, NEW f, NEW g, \A i \in 1 .. k + m : f[i] \in Nat,
         \A i \in 1 .. m : g[i] = f[k + i]
  PROVE  Total(f, 1 .. k + m) = Total(f, 1 .. k) + Total(g, 1 .. m)
<1> DEFINE Good(j) == Total(f, 1 .. k + j) = Total(f, 1 .. k) + Total(g, 1 .. j)
           Bad == {j \in 0 .. m : ~Good(j)}
<1>0. Total(f, 1 .. k) \in Nat
  <2>1. IsFiniteSet(1 .. k) /\ \A i \in 1 .. k : i \in 1 .. k + m
    BY FS_Interval
  <2> QED BY <2>1, TotalOne
<1>1. Good(0)
  <2>1. Total(g, 1 .. 0) = 0
    <3>1. 1 .. 0 = {}
      OBVIOUS
    <3> QED BY <3>1, TotalEmpty
  <2>2. 1 .. 0 = {} /\ k + 0 = k
    OBVIOUS
  <2> QED BY <1>0, <2>1, <2>2
<1>2. ASSUME NEW j \in 0 .. m - 1, Good(j) PROVE Good(j + 1)
  <2>1. /\ k + j \in Nat /\ k + (j + 1) = k + j + 1 /\ j \in Nat
        /\ \A i \in 1 .. k + j + 1 : i \in 1 .. k + m
        /\ \A i \in 1 .. j + 1 : i \in 1 .. m /\ k + i \in 1 .. k + m
    OBVIOUS
  <2>2. Total(f, 1 .. k + j + 1) = Total(f, 1 .. k + j) + f[k + j + 1]
    BY <2>1, TotalNext
  <2>3. Total(g, 1 .. j + 1) = Total(g, 1 .. j) + g[j + 1] /\ Total(g, 1 .. j) \in Nat
    <3>1. \A i \in 1 .. j + 1 : g[i] \in Nat
      BY <2>1
    <3> QED BY <2>1, <3>1, TotalNext
  <2>4. g[j + 1] = f[k + j + 1] /\ f[k + j + 1] \in Nat
    <3>1. j + 1 \in 1 .. m /\ k + (j + 1) = k + j + 1 /\ k + j + 1 \in 1 .. k + m
      BY <2>1
    <3> QED BY <3>1
  <2> QED BY <1>0, <1>2, <2>1, <2>2, <2>3, <2>4
<1> HIDE DEF Good
<1>3. Bad = {}
  <2> SUFFICES ASSUME Bad # {} PROVE FALSE
    OBVIOUS
  <2>1. Bad \in SUBSET (0 .. m)
    OBVIOUS
  <2>2. PICK j \in Bad : j - 1 \notin Bad
    <3> HIDE DEF Bad
    <3> QED BY <2>1, FirstOne
  <2>3. j \in 0 .. m /\ ~Good(j) /\ j # 0
    BY <1>1, <2>2
  <2>4. j - 1 \in 0 .. m - 1 /\ j - 1 \in 0 .. m /\ j - 1 + 1 = j
    BY <2>3
  <2>5. Good(j - 1)
    BY <2>2, <2>4
  <2>6. Good(j - 1 + 1)
    BY <1>2, <2>4, <2>5
  <2> QED BY <2>3, <2>4, <2>6
<1> QED BY <1>3 DEF Good


-----------------------------------------------------------------------------
(* The bytes of a queue.                                                   *)
LEMMA BytesAre ==
  ASSUME NEW q \in Seq(EntryType), NEW f, \A i \in 1 .. Len(q) : f[i] = q[i].bytes
  PROVE  /\ Bytes(q) = Total(f, 1 .. Len(q)) /\ Bytes(q) \in Nat
         /\ \A i \in 1 .. Len(q) : f[i] \in Nat
<1> DEFINE F == [i \in DOMAIN q |-> q[i].bytes]
<1>1. DOMAIN F = 1 .. Len(q) /\ \A i \in 1 .. Len(q) : F[i] = q[i].bytes
  OBVIOUS
<1>2. Bytes(q) = Total(F, 1 .. Len(q))
  <2>1. Bytes(q) = SumFunctionOnSet(F, DOMAIN F)
    BY Zenon DEF Bytes, SumFunction
  <2> QED BY <1>1, <2>1 DEF Total
<1> HIDE DEF F
<1>3. IsFiniteSet(1 .. Len(q))
  BY FS_Interval
<1>4. \A i \in 1 .. Len(q) : F[i] = f[i] /\ f[i] \in Nat
  <2> TAKE i \in 1 .. Len(q)
  <2>1. q[i] \in EntryType
    BY ElementOfSeq
  <2> QED BY <1>1, <2>1 DEF EntryType
<1>5. Total(F, 1 .. Len(q)) = Total(f, 1 .. Len(q))
  BY <1>3, <1>4, TotalSame
<1>6. Total(f, 1 .. Len(q)) \in Nat
  BY <1>3, <1>4, TotalOne
<1> QED BY <1>2, <1>4, <1>5, <1>6

LEMMA BytesAppended ==
  ASSUME NEW q \in Seq(EntryType), NEW e \in EntryType
  PROVE  Bytes(Append(q, e)) = Bytes(q) + e.bytes
<1> DEFINE r == Append(q, e)
           n == Len(q)
           f == [i \in 1 .. n + 1 |-> r[i].bytes]
<1>1. /\ r \in Seq(EntryType) /\ Len(r) = n + 1 /\ n \in Nat /\ r[n + 1] = e
      /\ \A i \in 1 .. n : r[i] = q[i]
  BY AppendProperties
<1> HIDE DEF r
<1>2. /\ \A i \in 1 .. Len(r) : f[i] = r[i].bytes
      /\ \A i \in 1 .. n : f[i] = q[i].bytes
      /\ f[n + 1] = e.bytes
  BY <1>1
<1> HIDE DEF f
<1>3. /\ Bytes(r) = Total(f, 1 .. n + 1) /\ \A i \in 1 .. n + 1 : f[i] \in Nat
  <2>1. /\ Bytes(r) = Total(f, 1 .. Len(r)) /\ \A i \in 1 .. Len(r) : f[i] \in Nat
    BY <1>1, <1>2, BytesAre
  <2> QED BY <1>1, <2>1
<1>4. Bytes(q) = Total(f, 1 .. n)
  BY <1>2, BytesAre
<1>5. Total(f, 1 .. n + 1) = Total(f, 1 .. n) + f[n + 1]
  BY <1>1, <1>3, TotalNext
<1> QED BY <1>2, <1>3, <1>4, <1>5 DEF r

LEMMA BytesPurged ==
  ASSUME NEW q \in Seq(EntryType), NEW k \in 0 .. Len(q)
  PROVE  /\ Bytes(q) \in Nat /\ Bytes(SubSeq(q, 1, k)) \in Nat /\ Bytes(After(q, k)) \in Nat
         /\ Bytes(q) = Bytes(SubSeq(q, 1, k)) + Bytes(After(q, k))
<1> DEFINE p == SubSeq(q, 1, k)
           r == After(q, k)
           n == Len(q)
           f == [i \in 1 .. n |-> q[i].bytes]
           g == [i \in 1 .. n - k |-> r[i].bytes]
<1>1. /\ n \in Nat /\ k \in Nat /\ n - k \in Nat /\ k + (n - k) = n
      /\ \A i \in 1 .. k : i \in 1 .. n
      /\ \A i \in 1 .. n - k : k + i \in 1 .. n
  OBVIOUS
<1>2. p \in Seq(EntryType) /\ Len(p) = k /\ \A i \in 1 .. k : p[i] = q[i]
  OBVIOUS
<1>3. r \in Seq(EntryType) /\ Len(r) = n - k /\ \A i \in 1 .. n - k : r[i] = q[k + i]
  BY AfterSeq
<1> HIDE DEF p, r
<1>4. /\ \A i \in 1 .. n : f[i] = q[i].bytes
      /\ \A i \in 1 .. Len(p) : f[i] = p[i].bytes
      /\ \A i \in 1 .. Len(r) : g[i] = r[i].bytes
      /\ \A i \in 1 .. n - k : g[i] = f[k + i]
  BY <1>1, <1>2, <1>3
<1> HIDE DEF f, g
<1>5. Bytes(q) = Total(f, 1 .. n) /\ Bytes(q) \in Nat /\ \A i \in 1 .. n : f[i] \in Nat
  BY <1>4, BytesAre
<1>6. Bytes(p) = Total(f, 1 .. Len(p)) /\ Bytes(p) \in Nat
  BY <1>2, <1>4, BytesAre
<1>7. Bytes(r) = Total(g, 1 .. Len(r)) /\ Bytes(r) \in Nat
  BY <1>3, <1>4, BytesAre
<1>8. Total(f, 1 .. k + (n - k)) = Total(f, 1 .. k) + Total(g, 1 .. n - k)
  <2>1. \A i \in 1 .. k + (n - k) : f[i] \in Nat
    BY <1>1, <1>5
  <2> QED BY <1>1, <1>4, <2>1, TotalParts
<1> QED BY <1>1, <1>2, <1>3, <1>5, <1>6, <1>7, <1>8 DEF p, r

LEMMA BytesSame ==
  ASSUME NEW q \in Seq(EntryType), NEW r \in Seq(EntryType), Len(r) = Len(q),
         \A i \in 1 .. Len(q) : r[i].bytes = q[i].bytes
  PROVE  Bytes(r) = Bytes(q)
<1> DEFINE f == [i \in 1 .. Len(q) |-> q[i].bytes]
<1>1. /\ \A i \in 1 .. Len(q) : f[i] = q[i].bytes
      /\ \A i \in 1 .. Len(r) : f[i] = r[i].bytes
  OBVIOUS
<1> HIDE DEF f
<1>2. Bytes(q) = Total(f, 1 .. Len(q)) /\ Bytes(r) = Total(f, 1 .. Len(r))
  BY <1>1, BytesAre
<1> QED BY <1>2

LEMMA BytesOfNothing == Bytes(<< >>) = 0
<1> DEFINE f == [i \in 1 .. 0 |-> 0]
<1>1. \A i \in 1 .. Len(<< >>) : f[i] = << >>[i].bytes
  BY NoEntry
<1> HIDE DEF f
<1>2. Bytes(<< >>) = Total(f, 1 .. Len(<< >>))
  BY <1>1, NoEntry, BytesAre
<1>3. 1 .. Len(<< >>) = {}
  BY NoEntry
<1> QED BY <1>2, <1>3, TotalEmpty

-----------------------------------------------------------------------------
(* The byte counter is that of the queue, which is what keeps the bytes    *)
(* below the limit.                                                        *)
Weighs ==
  /\ byteCount = Bytes(queue)
  /\ DataLimit > 0 => Bytes(queue) <= DataLimit

LEMMA ReceiveWeighs ==
  ASSUME TypeOK, Weighs, NEW b \in Sizes, Receive(b)
  PROVE  Weighs'
<1>1. PICK k \in 0 .. Len(queue) :
        /\ dataExceeded' = Flag(dataExceeded, byteCount - Bytes(SubSeq(queue, 1, k)) + b, DataLimit)
        /\ \/ ~dataExceeded' /\ Pass(b, k)
           \/ Drop(b, k)
  BY DEF Receive
<1>2. queue \in Seq(EntryType)
  BY DEF TypeOK
<1>3. /\ Bytes(queue) \in Nat /\ Bytes(SubSeq(queue, 1, k)) \in Nat /\ Bytes(After(queue, k)) \in Nat
      /\ Bytes(queue) = Bytes(SubSeq(queue, 1, k)) + Bytes(After(queue, k))
  BY <1>2, BytesPurged
<1>4. CASE ~dataExceeded' /\ Pass(b, k)
  <2> DEFINE e == Entry(Window, b)
  <2>1. e \in EntryType /\ e.bytes = b /\ b \in Nat
    BY NewEntry DEF Entry
  <2>2. queue' = Append(After(queue, k), e) /\ byteCount' = byteCount - Bytes(SubSeq(queue, 1, k)) + b
    BY <1>4 DEF Pass
  <2> HIDE DEF e
  <2>3. After(queue, k) \in Seq(EntryType)
    BY <1>2, AfterSeq
  <2>4. Bytes(queue') = Bytes(After(queue, k)) + b
    BY <2>1, <2>2, <2>3, BytesAppended
  <2>5. byteCount - Bytes(SubSeq(queue, 1, k)) + b = Bytes(queue')
    BY <1>3, <2>1, <2>4 DEF Weighs
  <2>6. ~(DataLimit > 0 /\ byteCount - Bytes(SubSeq(queue, 1, k)) + b > DataLimit)
    BY <1>1, <1>4 DEF Flag
  <2>7. DataLimit > 0 => Bytes(queue') <= DataLimit
    BY <1>3, <2>1, <2>4, <2>5, <2>6
  <2> QED BY <2>2, <2>5, <2>7 DEF Weighs
<1>5. CASE Drop(b, k)
  <2>1. queue' = After(queue, k) /\ byteCount' = byteCount - Bytes(SubSeq(queue, 1, k))
    BY <1>5 DEF Drop
  <2> QED BY <1>3, <2>1 DEF Weighs
<1> QED BY <1>1, <1>4, <1>5

LEMMA Weighing == Spec => []Weighs
<1>1. Init => Weighs
  BY BytesOfNothing DEF Init, Weighs
<1>2. TypeOK /\ Weighs /\ [Next]_vars => Weighs'
  <2> SUFFICES ASSUME TypeOK, Weighs, [Next]_vars PROVE Weighs'
    OBVIOUS
  <2>1. CASE StatusIdle
    BY <2>1, BytesOfNothing DEF StatusIdle, Weighs
  <2>2. CASE Tick
    <3>1. queue' = Aged(queue) /\ byteCount' = byteCount /\ queue \in Seq(EntryType)
      BY <2>2 DEF Tick, TypeOK
    <3>2. Aged(queue) \in Seq(EntryType) /\ Len(Aged(queue)) = Len(queue)
      BY <3>1, AgedSeq
    <3>3. \A i \in 1 .. Len(queue) : Aged(queue)[i].bytes = queue[i].bytes
      BY <3>1 DEF Aged, Entry
    <3>4. Bytes(Aged(queue)) = Bytes(queue)
      BY <3>1, <3>2, <3>3, BytesSame
    <3> QED BY <3>1, <3>4 DEF Weighs
  <2>3. CASE UNCHANGED vars
    BY <2>3 DEF vars, Weighs, Bytes
  <2> QED BY <2>1, <2>2, <2>3, ReceiveWeighs DEF Next
<1> QED BY <1>1, <1>2, Typing, PTL DEF Spec

(* Both counters are those of the queue, for any window, limits and sizes. *)
THEOREM Counting == Spec => []CountsExact
<1>1. Tracks /\ Weighs => CountsExact
  BY DEF Tracks, Weighs, CountsExact
<1> QED BY <1>1, Tracking, Weighing, PTL

(* No window of time holds more bytes than the limit: what was sent within *)
(* it is the end of the queue.                                             *)
THEOREM DataBounded == Spec => []DataWithinLimit
<1>1. TypeOK /\ Tracks /\ Weighs => DataWithinLimit
  <2> SUFFICES ASSUME TypeOK, Tracks, Weighs, DataLimit > 0
               PROVE  Bytes(recent) <= DataLimit
    BY DEF DataWithinLimit
  <2> DEFINE k == Len(queue) - Len(recent)
  <2>1. /\ queue \in Seq(EntryType) /\ recent \in Seq(EntryType) /\ k \in 0 .. Len(queue)
        /\ Len(queue) - k = Len(recent) /\ k = Old
    BY DEF TypeOK, Tracks, Suffix, Old
  <2> HIDE DEF k
  <2>2. /\ After(queue, k) \in Seq(EntryType) /\ Len(After(queue, k)) = Len(recent)
        /\ \A i \in 1 .. Len(recent) : After(queue, k)[i] = queue[k + i]
    BY <2>1, AfterSeq
  <2>3. \A i \in 1 .. Len(recent) : queue[k + i] = recent[i]
    BY <2>1 DEF Tracks, Suffix
  <2>4. \A i \in 1 .. Len(recent) : After(queue, k)[i].bytes = recent[i].bytes
    BY <2>2, <2>3
  <2>5. Bytes(After(queue, k)) = Bytes(recent)
    BY <2>1, <2>2, <2>4, BytesSame
  <2>6. /\ Bytes(queue) \in Nat /\ Bytes(SubSeq(queue, 1, k)) \in Nat /\ Bytes(After(queue, k)) \in Nat
        /\ Bytes(queue) = Bytes(SubSeq(queue, 1, k)) + Bytes(After(queue, k))
    BY <2>1, BytesPurged
  <2>7. Bytes(queue) <= DataLimit
    BY DEF Weighs
  <2> QED BY <2>5, <2>6, <2>7
<1> QED BY <1>1, Typing, Tracking, Weighing, PTL

-----------------------------------------------------------------------------
(***************************************************************************)
(* The other reader of a kernel's iopub messages is the one that records   *)
(* its activity.  KernelActivity, for any timeout and bounds: the culler   *)
(* spares a kernel that works for a client.                                *)
(***************************************************************************)
CONSTANTS Timeout, MaxRequests, MaxControl, MaxRestarts, MaxClients
VARIABLES managed, process, doing, told, cut, ports, captured, stream, onPorts, wire,
          state, age, restart, conns, used
Activity == INSTANCE KernelActivity

MessageType == [parent : Activity!Tracked \cup Activity!Untracked \cup {Activity!None},
                status : {Activity!None, "starting", "busy", "idle"}]

(* A message that does not take back what a busy one has said.             *)
Calm(m) == m.parent \in Activity!Untracked \/ m.status \in {Activity!None, "busy"}

(* The server knows that the kernel is busy, or a message says so that it  *)
(* has still to read, and nothing behind that says otherwise.              *)
Known ==
  \/ state = "busy" /\ \A i \in DOMAIN wire : Calm(wire[i])
  \/ \E b \in DOMAIN wire :
       /\ wire[b].parent \notin Activity!Untracked /\ wire[b].status = "busy"
       /\ \A i \in DOMAIN wire : i > b => Calm(wire[i])

(* Only a kernel that is managed and has a process works.                  *)
WorkKnown ==
  /\ wire \in Seq(MessageType)
  /\ doing \in Activity!Tracked \cup Activity!Untracked \cup {Activity!None}
  /\ managed # "yes" \/ process # "up" => doing = Activity!None
  /\ doing \in Activity!Tracked /\ told => Known

(* What is published goes to the end of the wire.                          *)
LEMMA Published ==
  ASSUME WorkKnown, NEW more \in Seq(MessageType), wire' = wire \/ wire' = wire \o more,
         \A i \in DOMAIN more : Calm(more[i]), UNCHANGED state, Known
  PROVE  Known'
<1>1. CASE wire' = wire
  BY <1>1 DEF Known
<1>2. CASE wire' = wire \o more
  <2>1. /\ DOMAIN wire = 1 .. Len(wire) /\ DOMAIN wire' = 1 .. Len(wire) + Len(more)
        /\ \A i \in DOMAIN wire' : wire'[i] = IF i <= Len(wire) THEN wire[i] ELSE more[i - Len(wire)]
        /\ \A i \in DOMAIN wire' : i > Len(wire) => i - Len(wire) \in DOMAIN more
    BY <1>2 DEF WorkKnown
  <2>2. \A i \in DOMAIN wire' : i > Len(wire) => Calm(wire'[i])
    BY <2>1
  <2> QED BY <2>1, <2>2 DEF Known
<1> QED BY <1>1, <1>2

(* Nothing is known of a kernel that does nothing for a client.            *)
LEMMA Rests ==
  ASSUME wire' \in Seq(MessageType), doing' = Activity!None
  PROVE  WorkKnown'
BY DEF WorkKnown, Activity!Tracked, Activity!None

(* What changes neither the work nor what is known of it.                  *)
LEMMA WorksOn ==
  ASSUME WorkKnown, UNCHANGED <<doing, told, wire, state>>,
         doing # Activity!None => managed' = "yes" /\ process' = "up"
  PROVE  WorkKnown'
BY DEF WorkKnown, Known

LEMMA Begins ==
  ASSUME WorkKnown, NEW kind \in Activity!Tracked \cup {"kernel_info_request"}, Activity!BeginRequest(kind)
  PROVE  WorkKnown'
<1> DEFINE m == Activity!Msg(kind, "busy")
<1>1. /\ managed' = "yes" /\ process' = "up" /\ doing' = kind /\ UNCHANGED state
      /\ told' = Activity!Hears /\ Activity!Publish(<<m>>)
  BY DEF Activity!BeginRequest, Activity!seen
<1>2. m \in MessageType /\ m.parent = kind /\ m.status = "busy"
  BY DEF MessageType, Activity!Msg, Activity!Tracked, Activity!Untracked
<1> HIDE DEF m
<1>3. wire' \in Seq(MessageType)
  BY <1>1, <1>2 DEF WorkKnown, Activity!Publish
<1>4. kind \in Activity!Tracked /\ Activity!Hears => Known'
  <2> SUFFICES ASSUME kind \in Activity!Tracked, Activity!Hears PROVE Known'
    OBVIOUS
  <2>1. Len(wire) \in Nat /\ Len(wire') = Len(wire) + 1 /\ wire'[Len(wire) + 1] = m /\ DOMAIN wire' = 1 .. Len(wire) + 1
    BY <1>1, <1>2 DEF WorkKnown, Activity!Publish
  <2>2. kind \notin Activity!Untracked
    BY DEF Activity!Tracked, Activity!Untracked
  <2>3. Len(wire) + 1 \in DOMAIN wire' /\ \A i \in DOMAIN wire' : ~(i > Len(wire) + 1)
    BY <2>1
  <2> QED BY <1>2, <2>1, <2>2, <2>3 DEF Known
<1>5. kind \in Activity!Tracked \cup Activity!Untracked
  BY DEF Activity!Untracked
<1> QED BY <1>1, <1>3, <1>4, <1>5 DEF WorkKnown

(* A message is read: the one that says busy, or one that is calm, or one  *)
(* before that.                                                            *)
LEMMA Reads ==
  ASSUME WorkKnown, Activity!record_activity
  PROVE  WorkKnown'
<1> DEFINE m == Head(wire)
<1>1. /\ wire # <<>> /\ wire' = Tail(wire) /\ UNCHANGED <<managed, process, doing, told>>
      /\ state' = CASE m.status # Activity!None /\ Activity!track_message_type(m.parent) -> m.status
                     [] m.status \in {"busy", "idle"} /\ ~Activity!track_message_type(m.parent)
                          /\ state = "starting" -> "idle"
                     [] OTHER -> state
  BY DEF Activity!record_activity, Activity!work
<1>2. /\ wire' \in Seq(MessageType) /\ Len(wire) \in Nat \ {0} /\ DOMAIN wire = 1 .. Len(wire)
      /\ DOMAIN wire' = 1 .. Len(wire) - 1 /\ m = wire[1]
      /\ \A i \in DOMAIN wire' : i + 1 \in DOMAIN wire /\ wire'[i] = wire[i + 1]
  BY <1>1 DEF WorkKnown
<1> HIDE DEF m
<1>3. Known => Known'
  <2>1. CASE state = "busy" /\ \A i \in DOMAIN wire : Calm(wire[i])
    <3>1. Calm(m)
      BY <1>2, <2>1
    <3>2. state' = "busy"
      BY <1>1, <2>1, <3>1 DEF Calm, Activity!track_message_type
    <3> QED BY <1>2, <2>1, <3>2 DEF Known
  <2>2. ASSUME NEW b \in DOMAIN wire, wire[b].parent \notin Activity!Untracked, wire[b].status = "busy",
               \A i \in DOMAIN wire : i > b => Calm(wire[i])
        PROVE  Known'
    <3>1. CASE b = 1
      <4>1. state' = "busy"
        BY <1>1, <1>2, <2>2, <3>1 DEF Activity!track_message_type, Activity!None
      <4>2. \A i \in DOMAIN wire' : Calm(wire'[i])
        BY <1>2, <2>2, <3>1
      <4> QED BY <4>1, <4>2 DEF Known
    <3>2. CASE b # 1
      <4>1. b - 1 \in DOMAIN wire' /\ wire'[b - 1] = wire[b]
        BY <1>2, <3>2
      <4>2. \A i \in DOMAIN wire' : i > b - 1 => Calm(wire'[i])
        BY <1>2, <2>2
      <4> QED BY <2>2, <4>1, <4>2 DEF Known
    <3> QED BY <3>1, <3>2
  <2> QED BY <2>1, <2>2 DEF Known
<1> QED BY <1>1, <1>2, <1>3 DEF WorkKnown

LEMMA Says ==
  ASSUME WorkKnown, NEW more \in Seq(MessageType), \A i \in DOMAIN more : Calm(more[i]),
         Activity!Publish(more), UNCHANGED <<managed, process, doing, told, state>>
  PROVE  WorkKnown'
<1>1. wire' = wire \/ wire' = wire \o more
  BY DEF Activity!Publish
<1>2. wire' \in Seq(MessageType)
  <2>1. wire \in Seq(MessageType) /\ wire \o more \in Seq(MessageType)
    BY DEF WorkKnown
  <2> QED BY <1>1, <2>1
<1>3. Known => Known'
  BY <1>1, Published
<1> QED BY <1>2, <1>3 DEF WorkKnown

LEMMA MessagesTyped ==
  /\ \A p \in Activity!Tracked \cup Activity!Untracked \cup {Activity!None} :
       \A s \in {Activity!None, "starting", "busy", "idle"} :
         /\ Activity!Msg(p, s) \in MessageType
         /\ Activity!Msg(p, s).parent = p /\ Activity!Msg(p, s).status = s
BY DEF MessageType, Activity!Msg

LEMMA WorkStep ==
  ASSUME WorkKnown, Activity!Next
  PROVE  WorkKnown'
<1> USE DEF Activity!work, Activity!watch, Activity!seen
<1>0. wire \in Seq(MessageType) /\ <<>> \in Seq(MessageType) /\ (managed # "yes" \/ process # "up" => doing = Activity!None)
  BY DEF WorkKnown
<1>1. CASE Activity!StartKernel
  <2>1. wire' = <<>> /\ doing' = doing /\ managed # "yes"
    BY <1>1 DEF Activity!StartKernel, Activity!start_watching_activity
  <2> QED BY <1>0, <2>1, Rests
<1>2. CASE Activity!Joined
  BY <1>0, <1>2, WorksOn DEF Activity!Joined
<1>3. ASSUME NEW kind \in Activity!Tracked \cup {"kernel_info_request"}, Activity!BeginRequest(kind)
      PROVE  WorkKnown'
  BY <1>3, Begins
<1>4. CASE Activity!Output
  <2> DEFINE more == <<Activity!Msg(doing, Activity!None)>>
  <2>1. more \in Seq(MessageType) /\ Calm(more[1]) /\ DOMAIN more = 1 .. 1
    BY MessagesTyped DEF WorkKnown, Calm
  <2>2. Activity!Publish(more) /\ UNCHANGED <<managed, process, doing, told, state>>
    BY <1>4 DEF Activity!Output
  <2> HIDE DEF more
  <2> QED BY <2>1, <2>2, Says
<1>5. CASE Activity!EndRequest
  <2>1. Activity!Msg(doing, "idle") \in MessageType
    BY MessagesTyped DEF WorkKnown
  <2>2. wire' \in Seq(MessageType) /\ doing' = Activity!None
    BY <1>0, <1>5, <2>1 DEF Activity!EndRequest, Activity!Publish
  <2> QED BY <2>2, Rests
<1>6. CASE Activity!ControlRequest
  <2> DEFINE more == <<Activity!Msg("debug_request", "busy"), Activity!Msg("debug_request", "idle")>>
  <2>1. more \in Seq(MessageType) /\ Calm(more[1]) /\ Calm(more[2]) /\ DOMAIN more = 1 .. 2
    BY MessagesTyped DEF Calm, Activity!Untracked
  <2>2. Activity!Publish(more) /\ UNCHANGED <<managed, process, doing, told, state>>
    BY <1>6 DEF Activity!ControlRequest
  <2> HIDE DEF more
  <2>3. \A i \in DOMAIN more : i = 1 \/ i = 2
    BY <2>1
  <2> QED BY <2>1, <2>2, <2>3, Says
<1>7. CASE Activity!record_activity
  BY <1>7, Reads
<1>8. ASSUME NEW newports \in BOOLEAN, NEW heard \in BOOLEAN, Activity!AutoRestart(newports, heard)
      PROVE  WorkKnown'
  <2>1. doing' = Activity!None
    BY <1>8 DEF Activity!AutoRestart, Activity!Replaced
  <2>2. Activity!Msg(Activity!None, "starting") \in MessageType
    BY MessagesTyped
  <2>3. wire' \in Seq(MessageType)
    BY <1>0, <1>8, <2>2 DEF Activity!AutoRestart
  <2> QED BY <2>1, <2>3, Rests
<1>9. CASE Activity!RestartKernel
  BY <1>0, <1>9, Rests DEF Activity!RestartKernel, Activity!Replaced
<1>10. ASSUME NEW heard \in BOOLEAN, Activity!Restarted(heard)
       PROVE  WorkKnown'
  <2>1. doing' = Activity!None
    BY <1>0, <1>10 DEF Activity!Restarted
  <2>2. <<Activity!Msg(Activity!None, "starting"), Activity!Msg("kernel_info_request", "busy"),
          Activity!Msg("kernel_info_request", "idle")>> \in Seq(MessageType)
    BY MessagesTyped DEF Activity!Untracked
  <2> DEFINE more == <<Activity!Msg(Activity!None, "starting"), Activity!Msg("kernel_info_request", "busy"),
                       Activity!Msg("kernel_info_request", "idle")>>
  <2>3. wire' = <<>> \/ wire' = wire \/ wire' = wire \o more
    BY <1>10 DEF Activity!Restarted, Activity!start_watching_activity
  <2>4. wire \o more \in Seq(MessageType)
    BY <1>0, <2>2
  <2>5. wire' \in Seq(MessageType)
    BY <1>0, <2>3, <2>4
  <2> QED BY <2>1, <2>5, Rests
<1>11. CASE Activity!RestartFails
  BY <1>0, <1>11, WorksOn DEF Activity!RestartFails
<1>12. CASE Activity!RestartSettles
  BY <1>0, <1>12, WorksOn DEF Activity!RestartSettles
<1>13. CASE Activity!KernelDied
  BY <1>0, <1>13, Rests DEF Activity!KernelDied
<1>14. CASE Activity!Connect \/ Activity!Disconnect
  BY <1>0, <1>14, WorksOn DEF Activity!Connect, Activity!Disconnect
<1>15. CASE Activity!NeverReady
  BY <1>0, <1>15, Rests DEF Activity!NeverReady
<1>16. CASE Activity!cull_kernel_if_idle \/ Activity!ShutdownKernel
  BY <1>0, <1>16, Rests DEF Activity!cull_kernel_if_idle, Activity!ShutdownKernel, Activity!Removed,
     Activity!stop_watching_activity
<1>17. CASE Activity!Tick
  BY <1>0, <1>17, WorksOn DEF Activity!Tick
<1> QED BY <1>1, <1>2, <1>3, <1>4, <1>5, <1>6, <1>7, <1>8, <1>9, <1>10, <1>11, <1>12, <1>13, <1>14,
           <1>15, <1>16, <1>17 DEF Activity!Next

(* A kernel whose work the server was told of is known to be busy, or a    *)
(* message that says so is on its way and nothing behind it takes it back: *)
(* restarts, deaths and requests on other channels change nothing of that. *)
THEOREM WorkIsKnown == Activity!Spec => []WorkKnown
<1>1. Activity!Init => WorkKnown
  BY DEF Activity!Init, WorkKnown, Activity!Tracked, Activity!None
<1>2. WorkKnown /\ [Activity!Next]_Activity!vars => WorkKnown'
  <2>1. ASSUME WorkKnown, UNCHANGED Activity!vars PROVE WorkKnown'
    BY <2>1 DEF WorkKnown, Known, Activity!vars, Activity!work, Activity!watch, Activity!seen
  <2> QED BY <2>1, WorkStep
<1> QED BY <1>1, <1>2, PTL DEF Activity!Spec

(* The culler spares a kernel that works for a client, if its stream was   *)
(* connected when the work began: the message that says so is at least     *)
(* still on its way (record_activity, cull_kernel_if_idle).                *)
THEOREM WorkingIsSpared == Activity!Spec => Activity!SparesWorking
<1> DEFINE Told == doing \in Activity!Tracked /\ told
           Busy == \E i \in DOMAIN wire : wire[i].status = "busy"
<1>1. ASSUME WorkKnown, Activity!Next, managed' = "culled", Told PROVE Busy
  <2>1. managed = "yes" /\ Known
    BY <1>1 DEF WorkKnown, Activity!Tracked, Activity!None
  <2>2. Activity!cull_kernel_if_idle
    BY <1>1, <2>1 DEF Activity!Next, Activity!StartKernel, Activity!Joined, Activity!BeginRequest, Activity!Output,
       Activity!EndRequest, Activity!ControlRequest, Activity!record_activity, Activity!AutoRestart,
       Activity!RestartKernel, Activity!Restarted, Activity!RestartFails, Activity!RestartSettles,
       Activity!KernelDied, Activity!Connect, Activity!Disconnect, Activity!NeverReady, Activity!ShutdownKernel,
       Activity!Removed, Activity!Tick
  <2>3. state # "busy"
    BY <2>2 DEF Activity!cull_kernel_if_idle, Activity!is_idle
  <2> QED BY <2>1, <2>3 DEF Known
<1>2. ASSUME WorkKnown, UNCHANGED Activity!vars, managed' = "culled", Told PROVE Busy
  BY <1>2 DEF WorkKnown, Activity!vars, Activity!Tracked, Activity!None
<1>3. WorkKnown /\ [Activity!Next]_Activity!vars =>
        [managed' = "culled" /\ doing \in Activity!Tracked /\ told =>
           \E i \in DOMAIN wire : wire[i].status = "busy"]_Activity!vars
  BY <1>1, <1>2
<1>4. Activity!Spec => [][Activity!Next]_Activity!vars
  BY DEF Activity!Spec
<1> QED BY <1>3, <1>4, WorkIsKnown, PTL DEF Activity!SparesWorking

=============================================================================
