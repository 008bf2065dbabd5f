------------------------ MODULE GatewayKernels_proofs ------------------------
(***************************************************************************)
(* The kernel map of a gateway server, for any number of kernels,          *)
(* operations, retries, lost answers and gaps in lists.                    *)
(***************************************************************************)
EXTENDS GatewayKernels, FiniteSetTheorems, TLAPS

Ops == {"none", "start", "adopt", "list", "cull", "shutdown", "restart", "interrupt", "alive", "stop"}
TaskType ==
  [op : Ops, k : Kernels \cup {NoKernel}, at : Places, method : Methods,
   about : Kernels \cup {NoKernel}, tries : Nat, code : Codes, reply : SUBSET Kernels,
   todo : SUBSET Kernels, found : SUBSET Kernels, since : SUBSET Kernels]

(* What the proof needs of the types.                                      *)
MapTypes ==
  /\ remote \subseteq born /\ born \subseteq Kernels /\ map \subseteq born /\ model \subseteq born
  /\ task \in [Tasks -> TaskType]

(* A kernel that the server knew is managed, or there is a reason for that *)
(* it is not.                                                              *)
Lost(k) == k \notin remote \/ k \in misled
Accounted(k) == k \in map \/ k \in doubted \/ Lost(k)
MapSound == (\A k \in model : Accounted(k)) /\ (\A k \in map \ model : Lost(k))

(* A request about one kernel is out; it was answered that the kernel is   *)
(* not there, or is not any more.                                          *)
Asked(t) == task[t].at \in {"wire", "served"}
Pending(t) == Asked(t) /\ task[t].method \notin {"LIST", "POST"}
ToldGone(t) ==
  /\ task[t].at = "served" /\ task[t].method \notin {"LIST", "POST"}
  /\ task[t].code = 404 \/ (task[t].code = 200 /\ task[t].method = "DELETE")

(* What is asked is about a kernel that has been there and was known, and  *)
(* what the gateway has said of it is still so.                            *)
RequestSound(t) ==
  /\ Pending(t) => task[t].about \in born
  /\ Pending(t) /\ task[t].op # "adopt" => Accounted(task[t].about)
  /\ ToldGone(t) => Lost(task[t].about)
  /\ task[t].op \in {"adopt", "shutdown"} => Pending(t) /\ task[t].about = task[t].k
  /\ task[t].todo \subseteq born

(* A start is sent once: it is out and nothing was started, or it was      *)
(* answered.                                                               *)
StartSound(t) ==
  task[t].op = "start" =>
    /\ Asked(t) /\ task[t].method = "POST"
    /\ task[t].at = "wire" => task[t].found = {}
    /\ task[t].found = {} \/ \E k \in Kernels : task[t].found = {k}
    /\ task[t].reply \subseteq born

(* Of what a client's list has to tell, all is found, or still looked for, *)
(* or doubted.                                                             *)
Listing(t) == Asked(t) /\ task[t].method = "LIST"
ListSound(t) ==
  task[t].op = "list" =>
    /\ task[t].since \subseteq remote
    /\ task[t].at = "checking" \/ (Asked(t) /\ task[t].method \in {"LIST", "GET"})
    /\ Listing(t) => \A k \in task[t].since : Accounted(k)
    /\ Pending(t) => task[t].since \subseteq
         task[t].found \cup task[t].todo \cup doubted \cup misled \cup {task[t].about}
    /\ task[t].at = "checking" => task[t].since \subseteq
         task[t].found \cup task[t].todo \cup doubted \cup misled

TaskSound(t) == RequestSound(t) /\ StartSound(t) /\ ListSound(t)

AnswerSound ==
  /\ answer.op = "shutdown" /\ answer.code = 200 => answer.k \in born /\ Lost(answer.k)
  /\ answer.op = "list" /\ answer.code = 200 =>
       answer.since \subseteq answer.found \cup doubted \cup misled

IInv == MapTypes /\ MapSound /\ AnswerSound /\ \A t \in Tasks : TaskSound(t)

USE BoundsAssumption

-----------------------------------------------------------------------------
(* What no step takes back: a kernel that is gone does not come back, and  *)
(* one that leaves the map leaves it for a reason.                         *)
Advances ==
  /\ born \subseteq born' /\ doubted \subseteq doubted' /\ misled \subseteq misled'
  /\ remote' \cap born \subseteq remote
  /\ \A k \in map \ map' : Lost(k)' \/ k \in doubted'

LEMMA StaysAccounted ==
  ASSUME Advances, NEW k \in born
  PROVE  (Lost(k) => Lost(k)') /\ (Accounted(k) => Accounted(k)')
BY DEF Advances, Lost, Accounted

(* An operation that does not move, while no kernel goes away.             *)
LEMMA OthersSound ==
  ASSUME IInv, Advances, remote \subseteq remote', NEW t \in Tasks, task'[t] = task[t]
  PROVE  TaskSound(t)'
<1> USE DEF IInv, TaskSound, Asked, Pending, ToldGone, Listing
<1>1. RequestSound(t)'
  <2>1. Pending(t) => task[t].about \in born
    BY DEF RequestSound
  <2>2. Pending(t) /\ task[t].op # "adopt" => Accounted(task[t].about)'
    BY <2>1, StaysAccounted DEF RequestSound, Accounted, Lost, Advances
  <2>3. ToldGone(t) => Lost(task[t].about)'
    BY <2>1, StaysAccounted DEF RequestSound, Lost, Advances
  <2> QED BY <2>1, <2>2, <2>3 DEF RequestSound, Advances, Accounted, Lost
<1>2. StartSound(t)'
  BY DEF StartSound, Advances
<1>3. ListSound(t)'
  <2>1. task[t].op = "list" => task[t].since \subseteq born
    BY DEF ListSound, MapTypes
  <2>2. task[t].op = "list" /\ Listing(t) => \A k \in task[t].since : Accounted(k)'
    BY <2>1, StaysAccounted DEF ListSound, Accounted, Lost, Advances
  <2> QED BY <2>1, <2>2 DEF ListSound, Advances, Accounted, Lost
<1> QED BY <1>1, <1>2, <1>3

(* The last answer, when there is no other.                                *)
LEMMA AnswerStays ==
  ASSUME IInv, Advances, UNCHANGED answer
  PROVE  AnswerSound'
BY StaysAccounted DEF IInv, AnswerSound, Advances, Lost

LEMMA Collect ==
  ASSUME IInv, Advances, remote \subseteq remote', NEW t \in Tasks,
         \A s \in Tasks \ {t} : task'[s] = task[s],
         MapTypes', MapSound', TaskSound(t)', AnswerSound'
  PROVE  IInv'
<1>1. \A s \in Tasks : TaskSound(s)'
  BY OthersSound
<1> QED BY <1>1 DEF IInv

-----------------------------------------------------------------------------
(* How an operation moves: what it becomes, and that the others stay.      *)
Keep(t) == \A s \in Tasks \ {t} : task'[s] = task[s]

LEMMA Typed ==
  ASSUME IInv, NEW t \in Tasks
  PROVE  /\ task[t] \in TaskType
         /\ task[t].k \in Kernels \cup {NoKernel} /\ task[t].about \in Kernels \cup {NoKernel}
         /\ task[t].reply \in SUBSET Kernels /\ task[t].todo \in SUBSET Kernels
         /\ task[t].found \in SUBSET Kernels /\ task[t].since \in SUBSET Kernels
<1>1. task[t] \in TaskType
  BY DEF IInv, MapTypes
<1> QED BY <1>1 DEF TaskType

LEMMA Moves ==
  ASSUME IInv, NEW t \in Tasks, NEW q \in TaskType, task' = [task EXCEPT ![t] = q]
  PROVE  task' \in [Tasks -> TaskType] /\ task'[t] = q /\ Keep(t)
BY DEF IInv, MapTypes, Keep

LEMMA TaskTyped ==
  ASSUME NEW op \in Ops, NEW k \in Kernels \cup {NoKernel}
  PROVE  /\ [Task(op, k) EXCEPT !.at = "idle"] \in TaskType
         /\ [Task(op, k) EXCEPT !.at = "wire"] \in TaskType
BY DEF Task, TaskType, Places, Methods, Codes

LEMMA Collected ==
  ASSUME IInv, Advances, remote \subseteq remote', NEW t \in Tasks, Keep(t),
         MapTypes', MapSound', TaskSound(t)', AnswerSound'
  PROVE  IInv'
BY Collect DEF Keep

-----------------------------------------------------------------------------
(* A record keeps its type when fields of it are given values of theirs.   *)
LEMMA SetAnswer ==
  ASSUME NEW q \in TaskType,
         NEW at \in Places, NEW code \in Codes, NEW reply \in SUBSET Kernels
  PROVE  [q EXCEPT !.at = at, !.code = code, !.reply = reply] \in TaskType
BY DEF TaskType

LEMMA SetFound ==
  ASSUME NEW q \in TaskType, NEW found \in SUBSET Kernels
  PROVE  LET p == [q EXCEPT !.found = found]
         IN /\ p \in TaskType /\ p.found = found
            /\ p.op = q.op /\ p.at = q.at /\ p.method = q.method /\ p.about = q.about
            /\ p.code = q.code /\ p.reply = q.reply /\ p.todo = q.todo
            /\ p.k = q.k /\ p.since = q.since
BY DEF TaskType

LEMMA ServedTyped ==
  ASSUME NEW q \in TaskType, NEW code \in Codes, NEW reply \in SUBSET Kernels
  PROVE  LET p == Served(q, code, reply)
         IN /\ p \in TaskType /\ p.at = "served" /\ p.code = code /\ p.reply = reply
            /\ p.op = q.op /\ p.method = q.method /\ p.about = q.about /\ p.todo = q.todo
            /\ p.found = q.found /\ p.k = q.k /\ p.since = q.since
<1>1. "served" \in Places
  BY DEF Places
<1> QED BY <1>1, SetAnswer DEF TaskType, Served

LEMMA SetTries ==
  ASSUME NEW q \in TaskType,
         NEW at \in Places, NEW tries \in Nat
  PROVE  [q EXCEPT !.at = at, !.tries = tries] \in TaskType
BY DEF TaskType

LEMMA SetListed ==
  ASSUME NEW q \in TaskType,
         NEW at \in Places, NEW found \in SUBSET Kernels, NEW todo \in SUBSET Kernels, NEW code \in Codes, NEW reply \in SUBSET Kernels
  PROVE  [q EXCEPT !.at = at, !.found = found, !.todo = todo, !.code = code, !.reply = reply] \in TaskType
BY DEF TaskType

LEMMA SetTodo ==
  ASSUME NEW q \in TaskType,
         NEW todo \in SUBSET Kernels
  PROVE  [q EXCEPT !.todo = todo] \in TaskType
BY DEF TaskType

LEMMA SetChecked ==
  ASSUME NEW q \in TaskType,
         NEW at \in Places, NEW found \in SUBSET Kernels, NEW about \in Kernels \cup {NoKernel}, NEW code \in Codes
  PROVE  [q EXCEPT !.at = at, !.found = found, !.about = about, !.code = code] \in TaskType
BY DEF TaskType

LEMMA SetCulling ==
  ASSUME NEW q \in TaskType,
         NEW at \in Places, NEW todo \in SUBSET Kernels, NEW found \in SUBSET Kernels, NEW since \in SUBSET Kernels
  PROVE  [q EXCEPT !.at = at, !.todo = todo, !.found = found, !.since = since] \in TaskType
BY DEF TaskType

LEMMA SetPlace ==
  ASSUME NEW q \in TaskType,
         NEW at \in Places, NEW about \in Kernels \cup {NoKernel}, NEW code \in Codes, NEW reply \in SUBSET Kernels
  PROVE  [q EXCEPT !.at = at, !.about = about, !.code = code, !.reply = reply] \in TaskType
BY DEF TaskType

-----------------------------------------------------------------------------
(* An operation that asks nothing, and one that asks about a kernel.       *)
LEMMA Quiet ==
  ASSUME NEW t \in Tasks, task'[t].at \notin {"wire", "served"},
         task'[t].op \notin {"adopt", "shutdown", "start", "list"}, task'[t].todo \subseteq born'
  PROVE  TaskSound(t)'
BY DEF TaskSound, RequestSound, StartSound, ListSound, Asked, Pending, ToldGone, Listing

LEMMA Wired ==
  ASSUME NEW t \in Tasks, task'[t].at = "wire", task'[t].method \notin {"LIST", "POST"},
         task'[t].about \in born', task'[t].op # "adopt" => Accounted(task[t].about)',
         task'[t].op \in {"adopt", "shutdown"} => task'[t].about = task'[t].k,
         task'[t].op \notin {"start", "list"}, task'[t].todo \subseteq born'
  PROVE  TaskSound(t)'
BY DEF TaskSound, RequestSound, StartSound, ListSound, Asked, Pending, ToldGone, Listing

LEMMA Ended ==
  ASSUME IInv, NEW t \in Tasks, NEW code, Ends(t, code)
  PROVE  task' \in [Tasks -> TaskType] /\ Keep(t) /\ TaskSound(t)'
<1>1. Idle \in TaskType /\ Idle.at = "idle" /\ Idle.op = "none" /\ Idle.todo = {}
  BY TaskTyped DEF Idle, Task, Ops
<1>2. task' \in [Tasks -> TaskType] /\ task'[t] = Idle /\ Keep(t)
  BY <1>1, Moves DEF Ends
<1>3. TaskSound(t)'
  BY <1>1, <1>2, Quiet
<1> QED BY <1>2, <1>3

LEMMA Sending ==
  ASSUME IInv, NEW t \in Tasks, NEW q \in TaskType, NEW method \in Methods, NEW k \in Kernels \cup {NoKernel},
         Sent(t, q, method, k)
  PROVE  /\ task' \in [Tasks -> TaskType] /\ Keep(t) /\ UNCHANGED answer
         /\ task'[t].at = "wire" /\ task'[t].method = method /\ task'[t].about = k
         /\ task'[t].reply = {} /\ task'[t].op = q.op /\ task'[t].k = q.k
         /\ task'[t].todo = q.todo /\ task'[t].found = q.found /\ task'[t].since = q.since
<1> DEFINE r == [q EXCEPT !.at = "wire", !.method = method, !.about = k, !.tries = 0, !.code = 0, !.reply = {}]
<1>1. r \in TaskType
  <2>1. "wire" \in Places /\ 0 \in Codes
    BY DEF Places, Codes
  <2> QED BY <2>1 DEF TaskType
<1>2. task' = [task EXCEPT ![t] = r] /\ UNCHANGED answer
  BY DEF Sent
<1>3. /\ r.at = "wire" /\ r.method = method /\ r.about = k
      /\ r.reply = {} /\ r.op = q.op /\ r.k = q.k
      /\ r.todo = q.todo /\ r.found = q.found /\ r.since = q.since
  BY DEF TaskType
<1>4. task' \in [Tasks -> TaskType] /\ task'[t] = r /\ Keep(t)
  BY <1>1, <1>2, Moves
<1> HIDE DEF r
<1> QED BY <1>2, <1>3, <1>4

LEMMA Going ==
  ASSUME NEW k \in Kernels, MapTypes, NEW t \in Tasks, TaskSound(t),
         task[t] \in TaskType, remote' = remote \ {k}, UNCHANGED <<born, map, model, doubted, misled>>,
         task'[t] = [task[t] EXCEPT !.since = @ \ {k}]
  PROVE  TaskSound(t)'
<1>1. /\ task'[t].op = task[t].op /\ task'[t].at = task[t].at /\ task'[t].method = task[t].method
      /\ task'[t].about = task[t].about /\ task'[t].code = task[t].code /\ task'[t].reply = task[t].reply
      /\ task'[t].todo = task[t].todo /\ task'[t].found = task[t].found /\ task'[t].k = task[t].k
      /\ task'[t].since = task[t].since \ {k}
  BY DEF TaskType
<1> USE DEF TaskSound, Asked, Pending, ToldGone, Listing
<1>2. RequestSound(t)'
  BY <1>1 DEF RequestSound, Accounted, Lost
<1>3. StartSound(t)'
  BY <1>1 DEF StartSound
<1>4. ListSound(t)'
  BY <1>1 DEF ListSound, Accounted, Lost
<1> QED BY <1>2, <1>3, <1>4

-----------------------------------------------------------------------------
(* The gateway.                                                            *)
LEMMA CullKeeps ==
  ASSUME IInv, NEW k \in Kernels, Cull(k)
  PROVE  IInv'
<1>1. task' = Gone(k) /\ remote' = remote \ {k} /\ UNCHANGED <<born, map, model, doubted, misled, answer>>
  BY DEF Cull, gateway, server, faults
<1>2. \A t \in Tasks : [task[t] EXCEPT !.since = @ \ {k}] \in TaskType
  BY Typed DEF TaskType
<1>3. task' \in [Tasks -> TaskType] /\ \A t \in Tasks : task'[t] = [task[t] EXCEPT !.since = @ \ {k}]
  BY <1>1, <1>2 DEF Gone
<1>4. Advances
  BY <1>1 DEF Advances
<1>5. \A t \in Tasks : TaskSound(t)'
  BY <1>1, <1>3, Typed, Going DEF IInv
<1>6. MapTypes'
  BY <1>1, <1>3 DEF IInv, MapTypes
<1>7. MapSound'
  BY <1>1 DEF IInv, MapSound, Accounted, Lost
<1> QED BY <1>1, <1>4, <1>5, <1>6, <1>7, AnswerStays DEF IInv

LEMMA ServeStartKeeps ==
  ASSUME IInv, NEW t \in Tasks, ServeStart(t)
  PROVE  IInv'
<1>1. task[t].at = "wire" /\ task[t].method = "POST"
  BY DEF ServeStart
<1> DEFINE p(k) == Served(task[t], 200, {k})
           r(k) == [p(k) EXCEPT !.found = @ \cup {k}]
<1>2. PICK k \in Kernels \ born :
        /\ born' = born \cup {k} /\ remote' = remote \cup {k}
        /\ task' = [task EXCEPT ![t] = r(k)]
  BY DEF ServeStart
<1> DEFINE q == r(k)
<1>3. UNCHANGED <<map, model, doubted, misled, answer>>
  BY DEF ServeStart, server, faults
<1>4. /\ q \in TaskType /\ q.op = task[t].op /\ q.at = "served" /\ q.method = task[t].method
      /\ q.about = task[t].about /\ q.code = 200 /\ q.reply = {k}
      /\ q.todo = task[t].todo /\ q.found = task[t].found \cup {k} /\ q.k = task[t].k
      /\ q.since = task[t].since
  <2>1. 200 \in Codes /\ {k} \in SUBSET Kernels
    BY DEF Codes
  <2>2. /\ p(k) \in TaskType /\ p(k).at = "served" /\ p(k).code = 200 /\ p(k).reply = {k}
        /\ p(k).op = task[t].op /\ p(k).method = task[t].method /\ p(k).about = task[t].about
        /\ p(k).todo = task[t].todo /\ p(k).found = task[t].found /\ p(k).k = task[t].k
        /\ p(k).since = task[t].since
    BY <2>1, Typed, ServedTyped
  <2> HIDE DEF p
  <2>3. p(k).found \cup {k} \in SUBSET Kernels
    BY <2>1, <2>2, Typed
  <2> QED BY <2>2, <2>3, SetFound
<1>6. task' = [task EXCEPT ![t] = q]
  BY <1>2
<1> HIDE DEF q
<1>7. task' \in [Tasks -> TaskType] /\ task'[t] = q /\ Keep(t)
  BY <1>4, <1>6, Moves
<1>8. Advances /\ remote \subseteq remote'
  BY <1>2, <1>3 DEF Advances, IInv, MapTypes
<1>9. MapTypes'
  BY <1>2, <1>3, <1>7 DEF IInv, MapTypes
<1>10. MapSound'
  BY <1>2, <1>3 DEF IInv, MapTypes, MapSound, Accounted, Lost
<1>11. TaskSound(t)'
  <2>1. TaskSound(t) /\ UNCHANGED <<map, doubted, misled>> /\ k \in born' /\ born \subseteq born' /\ remote \subseteq remote'
    BY <1>2, <1>3 DEF IInv
  <2>2. RequestSound(t)'
    BY <1>1, <1>4, <1>7, <2>1 DEF TaskSound, RequestSound, Asked, Pending, ToldGone
  <2>3. StartSound(t)'
    <3>1. q.op = "start" => q.found = {k}
      BY <1>1, <1>4, <2>1 DEF TaskSound, StartSound
    <3>2. k \in Kernels
      BY <1>2
    <3> QED BY <1>1, <1>4, <1>7, <2>1, <3>1, <3>2 DEF StartSound, Asked
  <2>4. ListSound(t)'
    BY <1>1, <1>4, <1>7, <2>1 DEF TaskSound, ListSound, Listing
  <2> QED BY <2>2, <2>3, <2>4 DEF TaskSound
<1> QED BY <1>3, <1>7, <1>8, <1>9, <1>10, <1>11, AnswerStays, Collected

-----------------------------------------------------------------------------
(* Steps that leave the map alone, and steps that change it for a reason.  *)
LEMMA SameMap ==
  ASSUME IInv, UNCHANGED <<remote, born, map, model, doubted, misled>>, task' \in [Tasks -> TaskType]
  PROVE  Advances /\ remote \subseteq remote' /\ MapTypes' /\ MapSound'
BY DEF Advances, IInv, MapTypes, MapSound, Accounted, Lost

LEMMA NewMap ==
  ASSUME IInv, UNCHANGED <<remote, born, misled>>, doubted \subseteq doubted',
         task' \in [Tasks -> TaskType], map' \subseteq born, model' \subseteq born,
         \A k \in map \ map' : Lost(k) \/ k \in doubted',
         \A k \in model' : k \in map' \/ k \in doubted' \/ Lost(k),
         \A k \in map' \ model' : Lost(k)
  PROVE  Advances /\ remote \subseteq remote' /\ MapTypes' /\ MapSound'
BY DEF Advances, IInv, MapTypes, MapSound, Accounted, Lost

LEMMA Answers ==
  ASSUME NEW q, NEW code, Answer(q, code),
         q.op = "shutdown" /\ code = 200 => q.k \in born' /\ (q.k \notin remote' \/ q.k \in misled'),
         q.op = "list" /\ code = 200 => q.since \subseteq q.found \cup doubted' \cup misled'
  PROVE  AnswerSound'
BY DEF Answer, AnswerSound, Lost

(* The gateway refuses to start a kernel, or leaves some out of a list.    *)
LEMMA RefuseStartKeeps ==
  ASSUME IInv, NEW t \in Tasks, RefuseStart(t)
  PROVE  IInv'
<1> DEFINE q == Served(task[t], 500, {})
<1>1. /\ task[t].at = "wire" /\ task[t].method = "POST"
      /\ UNCHANGED <<remote, born, map, model, doubted, misled, answer>>
  BY DEF RefuseStart, gateway, server, faults
<1>2. /\ q \in TaskType /\ q.op = task[t].op /\ q.at = "served" /\ q.method = task[t].method
      /\ q.about = task[t].about /\ q.code = 500 /\ q.reply = {} /\ q.todo = task[t].todo
      /\ q.found = task[t].found /\ q.k = task[t].k /\ q.since = task[t].since
  <2>1. 500 \in Codes /\ {} \in SUBSET Kernels
    BY DEF Codes
  <2> QED BY <2>1, Typed, ServedTyped
<1>4. task' = [task EXCEPT ![t] = q]
  BY DEF RefuseStart
<1> HIDE DEF q
<1>5. task' \in [Tasks -> TaskType] /\ task'[t] = q /\ Keep(t)
  BY <1>2, <1>4, Moves
<1>6. TaskSound(t)'
  BY <1>1, <1>2, <1>5 DEF IInv, TaskSound, RequestSound, StartSound, ListSound,
     Asked, Pending, ToldGone, Listing, Accounted, Lost
<1> QED BY <1>1, <1>5, <1>6, SameMap, AnswerStays, Collected

LEMMA ServeListKeeps ==
  ASSUME IInv, NEW t \in Tasks, ServeList(t)
  PROVE  IInv'
<1>1. /\ task[t].at = "wire" /\ task[t].method = "LIST"
      /\ UNCHANGED <<remote, born, map, model, doubted, misled, answer>>
  BY DEF ServeList, server, faults
<1>2. PICK missing \in SUBSET remote :
        task' = [task EXCEPT ![t] = Served(task[t], 200, remote \ missing)]
  BY DEF ServeList
<1> DEFINE q == Served(task[t], 200, remote \ missing)
<1>3. /\ q \in TaskType /\ q.op = task[t].op /\ q.at = "served" /\ q.method = task[t].method
      /\ q.about = task[t].about /\ q.code = 200 /\ q.reply = remote \ missing
      /\ q.todo = task[t].todo /\ q.found = task[t].found /\ q.k = task[t].k /\ q.since = task[t].since
  <2>1. 200 \in Codes /\ remote \ missing \in SUBSET Kernels
    BY DEF Codes, IInv, MapTypes
  <2> QED BY <2>1, Typed, ServedTyped
<1>5. task' = [task EXCEPT ![t] = q]
  BY <1>2
<1> HIDE DEF q
<1>6. task' \in [Tasks -> TaskType] /\ task'[t] = q /\ Keep(t)
  BY <1>3, <1>5, Moves
<1>7. TaskSound(t)'
  BY <1>1, <1>3, <1>6 DEF IInv, TaskSound, RequestSound, StartSound, ListSound,
     Asked, Pending, ToldGone, Listing, Accounted, Lost
<1> QED BY <1>1, <1>6, <1>7, SameMap, AnswerStays, Collected

(* The gateway does what is asked about a kernel, or has none of that name. *)
LEMMA ServeKeeps ==
  ASSUME IInv, NEW t \in Tasks, Serve(t)
  PROVE  IInv'
<1> DEFINE k == task[t].about
           c == IF k \in remote THEN 200 ELSE 404
           q == Served(task[t], c, {})
           now == [task EXCEPT ![t] = q]
<1>1. /\ task[t].at = "wire" /\ task[t].method \in {"GET", "DELETE", "restart", "interrupt"}
      /\ UNCHANGED <<born, map, model, doubted, misled, answer>>
  BY DEF Serve, server, faults
<1>2. k \in born /\ k \in Kernels
  BY <1>1 DEF IInv, MapTypes, TaskSound, RequestSound, Pending, Asked
<1>3. /\ q \in TaskType /\ q.op = task[t].op /\ q.at = "served" /\ q.method = task[t].method
      /\ q.about = task[t].about /\ q.code = c /\ q.reply = {} /\ q.todo = task[t].todo
      /\ q.found = task[t].found /\ q.k = task[t].k /\ q.since = task[t].since
  <2>1. c \in Codes /\ {} \in SUBSET Kernels
    BY DEF Codes
  <2> HIDE DEF c
  <2> QED BY <2>1, Typed, ServedTyped
<1>6. now \in [Tasks -> TaskType] /\ now[t] = q /\ \A s \in Tasks \ {t} : now[s] = task[s]
  BY <1>3 DEF IInv, MapTypes
<1>7. CASE task[t].method # "DELETE"
  <2>1. UNCHANGED remote /\ task' = now
    BY <1>1, <1>7 DEF Serve
  <2>2. task' \in [Tasks -> TaskType] /\ task'[t] = q /\ Keep(t)
    BY <1>6, <2>1 DEF Keep
  <2> HIDE DEF q
  <2>3. TaskSound(t)'
    BY <1>1, <1>2, <1>3, <1>7, <2>1, <2>2 DEF IInv, TaskSound, RequestSound, StartSound, ListSound,
       Asked, Pending, ToldGone, Listing, Accounted, Lost
  <2> QED BY <1>1, <2>1, <2>2, <2>3, SameMap, AnswerStays, Collected
<1>8. CASE task[t].method = "DELETE"
  <2>1. remote' = remote \ {k} /\ task' = [s \in Tasks |-> [now[s] EXCEPT !.since = @ \ {k}]]
    BY <1>1, <1>8 DEF Serve
  <2> HIDE DEF now
  <2>2. \A s \in Tasks : [now[s] EXCEPT !.since = @ \ {k}] \in TaskType
    BY <1>6 DEF TaskType
  <2>3. task' \in [Tasks -> TaskType] /\ \A s \in Tasks : task'[s] = [now[s] EXCEPT !.since = @ \ {k}]
    BY <2>1, <2>2
  <2>4. \A s \in Tasks \ {t} : TaskSound(s)'
    <3> HIDE DEF k
    <3>1. SUFFICES ASSUME NEW s \in Tasks \ {t} PROVE TaskSound(s)'
      OBVIOUS
    <3>2. task'[s] = [task[s] EXCEPT !.since = @ \ {k}]
      BY <1>6, <2>3
    <3> QED BY <1>1, <1>2, <2>1, <3>2, Typed, Going DEF IInv
  <2>5. /\ task'[t].op = task[t].op /\ task'[t].at = "served" /\ task'[t].method = task[t].method
        /\ task'[t].about = k /\ task'[t].todo = task[t].todo /\ task'[t].found = task[t].found
        /\ task'[t].k = task[t].k /\ task'[t].since = task[t].since \ {k}
        /\ task'[t].reply = {}
    <3> HIDE DEF q
    <3>1. task'[t] = [q EXCEPT !.since = @ \ {k}]
      BY <1>6, <2>3
    <3> QED BY <1>3, <3>1 DEF TaskType
  <2> HIDE DEF q, c
  <2>6. TaskSound(t)'
    <3> USE DEF IInv, TaskSound, Asked, Pending, ToldGone, Listing
    <3>1. RequestSound(t)'
      <4>1. task[t].op \in {"adopt", "shutdown"} => task[t].about = task[t].k
        BY DEF RequestSound
      <4>2. task[t].todo \subseteq born
        BY DEF RequestSound
      <4>3. task'[t].about \notin remote'
        BY <2>1, <2>5
      <4> QED BY <1>1, <1>2, <2>5, <4>1, <4>2, <4>3 DEF RequestSound, Accounted, Lost
    <3>2. StartSound(t)'
      BY <1>1, <1>8, <2>5 DEF StartSound
    <3>3. ListSound(t)'
      BY <1>1, <1>8, <2>5 DEF ListSound
    <3> QED BY <3>1, <3>2, <3>3
  <2>7. MapTypes' /\ MapSound' /\ Advances
    <3>1. MapTypes'
      BY <1>1, <2>1, <2>3 DEF IInv, MapTypes
    <3> QED BY <1>1, <2>1, <3>1 DEF IInv, MapSound, Accounted, Lost, Advances
  <2> QED BY <1>1, <2>4, <2>6, <2>7, AnswerStays DEF IInv
<1> QED BY <1>7, <1>8

(* An answer is lost, or the name of the gateway is not found.             *)
LEMMA Loses ==
  ASSUME IInv, NEW t \in Tasks, NEW q, task' \in [Tasks -> TaskType], task'[t] = q, Keep(t),
         task[t].at \in {"wire", "served"}, UNCHANGED <<remote, born, map, model, doubted, misled, answer>>,
         q.op = task[t].op, q.at = "served", q.method = task[t].method, q.about = task[t].about,
         q.code \notin {200, 404}, q.reply = {}, q.k = task[t].k, q.todo = task[t].todo,
         q.found = task[t].found, q.since = task[t].since
  PROVE  IInv'
<1>1. TaskSound(t)'
  BY DEF IInv, TaskSound, RequestSound, StartSound, ListSound,
     Asked, Pending, ToldGone, Listing, Accounted, Lost
<1>2. Advances /\ remote \subseteq remote' /\ MapTypes' /\ MapSound'
  BY SameMap
<1> QED BY <1>1, <1>2, AnswerStays, Collected

LEMMA LoseKeeps ==
  ASSUME IInv, NEW t \in Tasks, Lose(t)
  PROVE  IInv'
<1>1. /\ task[t].at \in {"wire", "served"}
      /\ UNCHANGED <<remote, born, map, model, doubted, misled, answer>>
  BY DEF Lose, gateway, server
<1>2. PICK code \in {500, 503} : task' = [task EXCEPT ![t] = Served(task[t], code, {})]
  BY DEF Lose
<1> DEFINE q == Served(task[t], code, {})
<1>3. code \in Codes /\ code \notin {200, 404} /\ {} \in SUBSET Kernels
  BY DEF Codes
<1>4. /\ q \in TaskType /\ q.op = task[t].op /\ q.at = "served" /\ q.method = task[t].method
      /\ q.about = task[t].about /\ q.code = code /\ q.reply = {} /\ q.todo = task[t].todo
      /\ q.found = task[t].found /\ q.k = task[t].k /\ q.since = task[t].since
  BY <1>3, Typed, ServedTyped
<1>5. task' = [task EXCEPT ![t] = q]
  BY <1>2
<1> HIDE DEF q
<1>6. task' \in [Tasks -> TaskType] /\ task'[t] = q /\ Keep(t)
  BY <1>4, <1>5, Moves
<1> QED BY <1>1, <1>3, <1>4, <1>6, Loses

LEMMA UnresolvedKeeps ==
  ASSUME IInv, NEW t \in Tasks, Unresolved(t)
  PROVE  IInv'
<1>1. /\ task[t].at = "wire" /\ misled' = misled \cup ({task[t].about} \ {NoKernel})
      /\ UNCHANGED <<remote, born, map, model, doubted, answer>>
  BY DEF Unresolved, gateway, server
<1> DEFINE q == Served(task[t], 404, {})
<1>3. /\ q \in TaskType /\ q.op = task[t].op /\ q.at = "served" /\ q.method = task[t].method
      /\ q.about = task[t].about /\ q.code = 404 /\ q.reply = {} /\ q.todo = task[t].todo
      /\ q.found = task[t].found /\ q.k = task[t].k /\ q.since = task[t].since
  <2>1. 404 \in Codes /\ {} \in SUBSET Kernels
    BY DEF Codes
  <2> QED BY <2>1, Typed, ServedTyped
<1>4. task' = [task EXCEPT ![t] = q]
  BY DEF Unresolved
<1> HIDE DEF q
<1>5. task' \in [Tasks -> TaskType] /\ task'[t] = q /\ Keep(t)
  BY <1>3, <1>4, Moves
<1>6. Pending(t) => task[t].about \in misled'
  BY <1>1 DEF IInv, MapTypes, TaskSound, RequestSound
<1>7. TaskSound(t)'
  <2> USE DEF IInv, TaskSound, Asked, Pending, ToldGone, Listing
  <2>1. RequestSound(t)'
    BY <1>1, <1>3, <1>5, <1>6 DEF RequestSound, Lost, Accounted
  <2>2. StartSound(t)'
    BY <1>1, <1>3, <1>5, TaskSound(t) DEF StartSound
  <2>3. ListSound(t)'
    <3>1. \A k : Accounted(k) => Accounted(k)'
      BY <1>1 DEF Lost, Accounted
    <3>2. /\ misled \subseteq misled' /\ UNCHANGED <<remote, doubted>>
          /\ task'[t].op = task[t].op /\ task'[t].at = "served" /\ task[t].at = "wire"
          /\ task'[t].method = task[t].method /\ task'[t].about = task[t].about
          /\ task'[t].todo = task[t].todo /\ task'[t].found = task[t].found
          /\ task'[t].since = task[t].since
      BY <1>1, <1>3, <1>5
    <3>3. ListSound(t)
      OBVIOUS
    <3> QED BY <3>1, <3>2, <3>3 DEF ListSound
  <2> QED BY <2>1, <2>2, <2>3
<1>8. Advances /\ MapTypes' /\ MapSound'
  BY <1>1, <1>5 DEF Advances, IInv, MapTypes, MapSound, Accounted, Lost
<1> QED BY <1>1, <1>5, <1>7, <1>8, AnswerStays, Collected

-----------------------------------------------------------------------------
(* The requests of clients: an operation that is only drafted is sent, or   *)
(* is refused at once.                                                     *)
Drafts ==
  [op : Ops, k : Kernels \cup {NoKernel}, at : Places \cup {"new"}, method : Methods,
   about : Kernels \cup {NoKernel}, tries : Nat, code : Codes, reply : SUBSET Kernels,
   todo : SUBSET Kernels, found : SUBSET Kernels, since : SUBSET Kernels]

LEMMA Drafted ==
  ASSUME NEW op \in Ops, NEW k \in Kernels \cup {NoKernel}
  PROVE  /\ Task(op, k) \in Drafts /\ Task(op, k).op = op /\ Task(op, k).k = k
         /\ Task(op, k).todo = {} /\ Task(op, k).found = {} /\ Task(op, k).since = {}
BY DEF Task, Drafts, Methods, Codes

LEMMA Opening ==
  ASSUME IInv, NEW t \in Tasks, NEW q \in Drafts, NEW method \in Methods, NEW k \in Kernels \cup {NoKernel},
         Sent(t, q, method, k)
  PROVE  /\ task' \in [Tasks -> TaskType] /\ Keep(t) /\ UNCHANGED answer
         /\ task'[t].at = "wire" /\ task'[t].method = method /\ task'[t].about = k
         /\ task'[t].reply = {} /\ task'[t].op = q.op /\ task'[t].k = q.k
         /\ task'[t].todo = q.todo /\ task'[t].found = q.found /\ task'[t].since = q.since
<1> DEFINE r == [q EXCEPT !.at = "wire", !.method = method, !.about = k, !.tries = 0, !.code = 0, !.reply = {}]
<1>1. r \in TaskType
  <2>1. "wire" \in Places /\ 0 \in Codes
    BY DEF Places, Codes
  <2> QED BY <2>1 DEF TaskType, Drafts
<1>2. task' = [task EXCEPT ![t] = r] /\ UNCHANGED answer
  BY DEF Sent
<1>3. /\ r.at = "wire" /\ r.method = method /\ r.about = k
      /\ r.reply = {} /\ r.op = q.op /\ r.k = q.k
      /\ r.todo = q.todo /\ r.found = q.found /\ r.since = q.since
  BY DEF Drafts
<1>4. task' \in [Tasks -> TaskType] /\ task'[t] = r /\ Keep(t)
  BY <1>1, <1>2, Moves
<1> HIDE DEF r
<1> QED BY <1>2, <1>3, <1>4

LEMMA Refused ==
  ASSUME IInv, Advances, remote \subseteq remote', UNCHANGED task, MapTypes', MapSound', AnswerSound'
  PROVE  IInv'
<1>1. \A s \in Tasks : TaskSound(s)'
  BY OthersSound
<1> QED BY <1>1 DEF IInv

LEMMA start_kernelKeeps ==
  ASSUME IInv, NEW t \in Tasks, start_kernel(t)
  PROVE  IInv'
<1>1. /\ Sent(t, Task("start", NoKernel), "POST", NoKernel)
      /\ UNCHANGED <<remote, born, map, model, doubted, misled>>
  BY DEF start_kernel, gateway, server, faults
<1>2. "start" \in Ops /\ "POST" \in Methods
  BY DEF Ops, Methods
<1>3. /\ task' \in [Tasks -> TaskType] /\ Keep(t) /\ UNCHANGED answer
      /\ task'[t].at = "wire" /\ task'[t].method = "POST" /\ task'[t].reply = {} /\ task'[t].op = "start"
      /\ task'[t].todo = {} /\ task'[t].found = {}
  BY <1>1, <1>2, Drafted, Opening
<1>4. TaskSound(t)'
  BY <1>3 DEF TaskSound, RequestSound, StartSound, ListSound, Asked, Pending, ToldGone, Listing
<1> QED BY <1>1, <1>3, <1>4, SameMap, AnswerStays, Collected

LEMMA shutdown_allKeeps ==
  ASSUME IInv, NEW t \in Tasks, shutdown_all(t)
  PROVE  IInv'
<1> DEFINE q == [Task("stop", NoKernel) EXCEPT !.at = "stopping", !.todo = map]
<1>1. task' = [task EXCEPT ![t] = q] /\ UNCHANGED <<remote, born, map, model, doubted, misled, answer>>
  BY DEF shutdown_all, gateway, server, faults
<1>2. map \in SUBSET Kernels /\ map \subseteq born
  BY DEF IInv, MapTypes
<1>3. q \in TaskType /\ q.at = "stopping" /\ q.op = "stop" /\ q.todo = map
  BY <1>2 DEF Task, TaskType, Ops, Places, Methods, Codes
<1> HIDE DEF q
<1>4. task' \in [Tasks -> TaskType] /\ task'[t] = q /\ Keep(t)
  BY <1>1, <1>3, Moves
<1>5. TaskSound(t)'
  BY <1>1, <1>2, <1>3, <1>4, Quiet
<1> QED BY <1>1, <1>4, <1>5, SameMap, AnswerStays, Collected

LEMMA list_kernelsKeeps ==
  ASSUME IInv, NEW t \in Tasks, NEW op \in {"list", "cull"}, list_kernels(t, op)
  PROVE  IInv'
<1> DEFINE s == IF op = "list" THEN remote \cap map ELSE {}
           q == [Task(op, NoKernel) EXCEPT !.since = s]
<1>1. Sent(t, q, "LIST", NoKernel) /\ UNCHANGED <<remote, born, map, model, doubted, misled>>
  BY DEF list_kernels, gateway, server, faults
<1>2. s \subseteq remote \cap map /\ s \in SUBSET Kernels
  BY DEF IInv, MapTypes
<1> HIDE DEF s
<1>3. q \in Drafts /\ q.op = op /\ q.todo = {} /\ q.found = {} /\ q.since = s
  BY <1>2 DEF Task, Drafts, Ops, Methods, Codes
<1> HIDE DEF q
<1>4. "LIST" \in Methods
  BY DEF Methods
<1>5. /\ task' \in [Tasks -> TaskType] /\ Keep(t) /\ UNCHANGED answer
      /\ task'[t].at = "wire" /\ task'[t].method = "LIST" /\ task'[t].op = op
      /\ task'[t].todo = {} /\ task'[t].since = s
  BY <1>1, <1>3, <1>4, Opening
<1>6. TaskSound(t)'
  BY <1>1, <1>2, <1>5
     DEF TaskSound, RequestSound, StartSound, ListSound, Asked, Pending, ToldGone, Listing, Accounted
<1> QED BY <1>1, <1>5, <1>6, SameMap, AnswerStays, Collected

(* What the server asks about a kernel it manages.                         *)
LEMMA Opened ==
  ASSUME IInv, NEW t \in Tasks, NEW op \in Ops \ {"start", "list"}, NEW k \in born,
         NEW method \in Methods \ {"LIST", "POST"}, op # "adopt" => Accounted(k),
         Sent(t, Task(op, k), method, k), UNCHANGED <<remote, born, map, model, doubted, misled>>
  PROVE  IInv'
<1>1. k \in Kernels
  BY DEF IInv, MapTypes
<1>2. /\ task' \in [Tasks -> TaskType] /\ Keep(t) /\ UNCHANGED answer
      /\ task'[t].at = "wire" /\ task'[t].method = method /\ task'[t].about = k
      /\ task'[t].op = op /\ task'[t].k = k /\ task'[t].todo = {}
  BY <1>1, Drafted, Opening
<1>3. TaskSound(t)'
  BY <1>2 DEF TaskSound, RequestSound, StartSound, ListSound, Asked, Pending, ToldGone, Listing, Accounted, Lost
<1> QED BY <1>2, <1>3, SameMap, AnswerStays, Collected

(* A request that is refused for what the server knows already.            *)
LEMMA Declined ==
  ASSUME IInv, NEW op \in Ops \ {"shutdown", "list"}, NEW k \in Kernels, NEW code, Refuses(Task(op, k), code),
         UNCHANGED <<remote, born, map, model, doubted, misled>>
  PROVE  IInv'
<1>1. Task(op, k).op = op
  BY Drafted
<1>2. Answer(Task(op, k), code) /\ UNCHANGED task
  BY DEF Refuses
<1>3. AnswerSound'
  BY <1>1, <1>2, Answers
<1>4. task' \in [Tasks -> TaskType]
  BY <1>2 DEF IInv, MapTypes
<1> QED BY <1>2, <1>3, <1>4, SameMap, Refused

LEMMA adopt_kernelKeeps ==
  ASSUME IInv, NEW t \in Tasks, NEW k \in Kernels, adopt_kernel(t, k)
  PROVE  IInv'
<1>1. "adopt" \in Ops /\ "GET" \in Methods
  BY DEF Ops, Methods
<1> QED BY <1>1, Opened DEF adopt_kernel, gateway, server, faults

LEMMA is_aliveKeeps ==
  ASSUME IInv, NEW t \in Tasks, NEW k \in Kernels, is_alive(t, k)
  PROVE  IInv'
<1>1. "alive" \in Ops /\ "GET" \in Methods
  BY DEF Ops, Methods
<1>2. k \in map /\ k \in born /\ Accounted(k) /\ UNCHANGED <<remote, born, map, model, doubted, misled>>
  BY DEF is_alive, gateway, server, faults, Accounted, IInv, MapTypes
<1> QED BY <1>1, <1>2, Opened, Declined DEF is_alive

LEMMA act_on_kernelKeeps ==
  ASSUME IInv, NEW t \in Tasks, NEW k \in Kernels, NEW action \in {"restart", "interrupt"},
         act_on_kernel(t, k, action)
  PROVE  IInv'
<1>1. action \in Ops /\ action \in Methods
  BY DEF Ops, Methods
<1>2. k \in born /\ UNCHANGED <<remote, born, map, model, doubted, misled>>
  BY DEF act_on_kernel, gateway, server, faults
<1>3. k \in map => Accounted(k)
  BY DEF Accounted
<1> QED BY <1>1, <1>2, <1>3, Opened, Declined DEF act_on_kernel

(* Without a model a kernel is known to be gone.                           *)
LEMMA shutdown_kernelKeeps ==
  ASSUME IInv, NEW t \in Tasks, NEW k \in Kernels, shutdown_kernel(t, k)
  PROVE  IInv'
<1>1. "shutdown" \in Ops /\ "DELETE" \in Methods
  BY DEF Ops, Methods
<1>2. k \in born /\ UNCHANGED <<remote, born, model, doubted, misled>>
  BY DEF shutdown_kernel, gateway, faults
<1>3. Task("shutdown", k).op = "shutdown" /\ Task("shutdown", k).k = k
  BY <1>1, Drafted
<1>4. task \in [Tasks -> TaskType]
  BY DEF IInv, MapTypes
<1>5. CASE k \notin map
  <2>1. Refuses(Task("shutdown", k), 404) /\ UNCHANGED map
    BY <1>5 DEF shutdown_kernel
  <2>2. Answer(Task("shutdown", k), 404) /\ UNCHANGED task
    BY <2>1 DEF Refuses
  <2>3. AnswerSound'
    BY <1>3, <2>2, Answers
  <2> QED BY <1>2, <1>4, <2>1, <2>2, <2>3, SameMap, Refused
<1>6. CASE k \in map /\ k \in model
  <2>1. Sent(t, Task("shutdown", k), "DELETE", k) /\ UNCHANGED map
    BY <1>6 DEF shutdown_kernel
  <2>2. Accounted(k)
    BY <1>6 DEF Accounted
  <2> QED BY <1>1, <1>2, <2>1, <2>2, Opened
<1>7. CASE k \in map /\ k \notin model
  <2>1. Refuses(Task("shutdown", k), 200) /\ map' = map \ {k}
    BY <1>7 DEF shutdown_kernel
  <2>2. Answer(Task("shutdown", k), 200) /\ UNCHANGED task
    BY <2>1 DEF Refuses
  <2>3. Lost(k)
    BY <1>7 DEF IInv, MapSound
  <2>4. AnswerSound'
    BY <1>2, <1>3, <2>2, <2>3, Answers DEF Lost
  <2>5. Advances /\ remote \subseteq remote' /\ MapTypes' /\ MapSound'
    BY <1>2, <1>4, <2>1, <2>2, <2>3 DEF Advances, IInv, MapTypes, MapSound, Accounted, Lost
  <2> QED BY <2>2, <2>4, <2>5, Refused
<1> QED BY <1>5, <1>6, <1>7

-----------------------------------------------------------------------------
(* The operations when an answer has come.                                 *)
LEMMA EndsSame ==
  ASSUME IInv, NEW t \in Tasks, NEW code, Ends(t, code), UNCHANGED <<remote, born, map, model, doubted, misled>>,
         code = 200 => task[t].op \notin {"shutdown", "list"}
  PROVE  IInv'
<1>1. task' \in [Tasks -> TaskType] /\ Keep(t) /\ TaskSound(t)'
  BY Ended
<1>2. Answer(task[t], code)
  BY DEF Ends
<1>3. AnswerSound'
  BY <1>2, Answers
<1> QED BY <1>1, <1>3, SameMap, Collected

LEMMA EndsOther ==
  ASSUME IInv, NEW t \in Tasks, NEW code, Ends(t, code), task[t].op \notin {"shutdown", "list"}
  PROVE  task' \in [Tasks -> TaskType] /\ Keep(t) /\ TaskSound(t)' /\ AnswerSound'
<1>1. task' \in [Tasks -> TaskType] /\ Keep(t) /\ TaskSound(t)'
  BY Ended
<1>2. Answer(task[t], code)
  BY DEF Ends
<1>3. AnswerSound'
  BY <1>2, Answers
<1> QED BY <1>1, <1>3

(* An operation between two requests is one of those that make several.    *)
LEMMA Between ==
  ASSUME IInv, NEW t \in Tasks, task[t].at \in {"checking", "culling", "stopping"}
  PROVE  /\ task[t].op \notin {"adopt", "shutdown", "start"}
         /\ task[t].at # "checking" => task[t].op # "list"
         /\ task[t].todo \subseteq born
BY DEF IInv, TaskSound, RequestSound, StartSound, ListSound, Pending, Asked

LEMMA RetryKeeps ==
  ASSUME IInv, NEW t \in Tasks, Retry(t)
  PROVE  IInv'
<1> DEFINE q == [task[t] EXCEPT !.at = "wire", !.tries = @ + 1]
<1>1. /\ task[t].at = "served" /\ task[t].method # "POST"
      /\ UNCHANGED <<remote, born, map, model, doubted, misled, answer>>
  BY DEF Retry, is_retryable, gateway, server, faults
<1>2. q \in TaskType
  <2>1. "wire" \in Places
    BY DEF Places
  <2>2. task[t] \in TaskType
    BY Typed
  <2>3. task[t].tries + 1 \in Nat
    BY <2>2 DEF TaskType
  <2> QED BY <2>1, <2>2, <2>3, SetTries
<1>3. /\ q.op = task[t].op /\ q.at = "wire" /\ q.method = task[t].method /\ q.about = task[t].about
      /\ q.code = task[t].code /\ q.reply = task[t].reply /\ q.todo = task[t].todo
      /\ q.found = task[t].found /\ q.k = task[t].k /\ q.since = task[t].since
  BY Typed DEF TaskType
<1>4. task' = [task EXCEPT ![t] = q]
  BY DEF Retry, IInv, MapTypes
<1> HIDE DEF q
<1>5. task' \in [Tasks -> TaskType] /\ task'[t] = q /\ Keep(t)
  BY <1>2, <1>4, Moves
<1>6. TaskSound(t)'
  BY <1>1, <1>3, <1>5 DEF IInv, TaskSound, RequestSound, StartSound, ListSound,
     Asked, Pending, ToldGone, Listing, Accounted, Lost
<1> QED BY <1>1, <1>5, <1>6, SameMap, AnswerStays, Collected

(* start_kernel: of a kernel of the gateway's own, or of one that is named. *)
LEMMA StartedKeeps ==
  ASSUME IInv, NEW t \in Tasks, NEW k \in Kernels, Started(t, k)
  PROVE  IInv'
<1>1. /\ task[t].op = "start" /\ task[t].reply = {k} /\ Ends(t, 200)
      /\ map' = map \cup {k} /\ model' = model \cup {k}
      /\ UNCHANGED <<remote, born, doubted, misled>>
  BY DEF Started, Answered, gateway, faults
<1>2. k \in born
  BY <1>1 DEF IInv, TaskSound, StartSound
<1>3. task' \in [Tasks -> TaskType] /\ Keep(t) /\ TaskSound(t)' /\ AnswerSound'
  BY <1>1, EndsOther
<1>4. Advances /\ remote \subseteq remote' /\ MapTypes' /\ MapSound'
  BY <1>1, <1>2, <1>3 DEF Advances, IInv, MapTypes, MapSound, Accounted, Lost
<1> QED BY <1>3, <1>4, Collected

LEMMA StartFailsKeeps ==
  ASSUME IInv, NEW t \in Tasks, StartFails(t)
  PROVE  IInv'
<1>1. task[t].op = "start" /\ Ends(t, task[t].code) /\ UNCHANGED <<remote, born, map, model, doubted, misled>>
  BY DEF StartFails, Answered, gateway, server, faults
<1> QED BY <1>1, EndsSame

LEMMA AdoptedKeeps ==
  ASSUME IInv, NEW t \in Tasks, Adopted(t)
  PROVE  IInv'
<1>1. /\ task[t].op = "adopt" /\ task[t].at = "served" /\ task[t].method = "GET"
      /\ Ends(t, task[t].code) /\ Refreshed(t) /\ UNCHANGED <<remote, born, doubted, misled>>
      /\ map' = IF task[t].code \in {200, 404} THEN map \cup {task[t].k} ELSE map
  BY DEF Adopted, Answered, gateway, faults
<1>2. task[t].about = task[t].k /\ task[t].k \in born /\ (task[t].code = 404 => Lost(task[t].k))
  BY <1>1 DEF IInv, TaskSound, RequestSound, Pending, Asked, ToldGone
<1>3. task' \in [Tasks -> TaskType] /\ Keep(t) /\ TaskSound(t)' /\ AnswerSound'
  BY <1>1, EndsOther
<1>4. map \subseteq born /\ model \subseteq born /\ MapSound
  BY DEF IInv, MapTypes
<1>5. /\ map' \subseteq born /\ model' \subseteq born /\ map \subseteq map'
      /\ \A k \in model' : k \in map' \/ k \in doubted' \/ Lost(k)
      /\ \A k \in map' \ model' : Lost(k)
  <2>1. CASE task[t].code = 200
    BY <1>1, <1>2, <1>4, <2>1 DEF Refreshed, MapSound, Accounted
  <2>2. CASE task[t].code = 404
    BY <1>1, <1>2, <1>4, <2>2 DEF Refreshed, MapSound, Accounted
  <2>3. CASE task[t].code \notin {200, 404}
    BY <1>1, <1>2, <1>4, <2>3 DEF Refreshed, MapSound, Accounted
  <2> QED BY <2>1, <2>2, <2>3
<1>6. Advances /\ remote \subseteq remote' /\ MapTypes' /\ MapSound'
  BY <1>1, <1>3, <1>5, NewMap
<1> QED BY <1>3, <1>6, Collected

-----------------------------------------------------------------------------
(* list_kernels.                                                           *)
LEMMA ListedKeeps ==
  ASSUME IInv, NEW t \in Tasks, Listed(t)
  PROVE  IInv'
<1> DEFINE ours == task[t].reply \cap map
           q == [task[t] EXCEPT !.at = "checking", !.found = ours, !.todo = map \ ours, !.code = 0, !.reply = {}]
<1>1. /\ task[t].at = "served" /\ task[t].op \in {"list", "cull"} /\ task[t].method = "LIST"
      /\ model' = model \cup ours /\ UNCHANGED <<remote, born, map, doubted, misled, answer>>
  BY DEF Listed, Answered, gateway, faults
<1>2. ours \in SUBSET Kernels /\ map \ ours \in SUBSET Kernels /\ map \subseteq born
  BY DEF IInv, MapTypes
<1>3. q \in TaskType
  <2>1. "checking" \in Places /\ 0 \in Codes /\ {} \in SUBSET Kernels
    BY DEF Places, Codes
  <2>2. task[t] \in TaskType
    BY Typed
  <2> HIDE DEF ours
  <2> QED BY <1>2, <2>1, <2>2, SetListed
<1>4. /\ q.at = "checking" /\ q.op = task[t].op /\ q.todo = map \ ours /\ q.found = ours
      /\ q.since = task[t].since
  BY Typed DEF TaskType
<1>5. task' = [task EXCEPT ![t] = q]
  <2>1. task' = [task EXCEPT ![t].at = "checking", ![t].found = ours, ![t].todo = map \ ours,
                            ![t].code = 0, ![t].reply = {}]
    BY DEF Listed
  <2>2. task \in [Tasks -> TaskType]
    BY DEF IInv, MapTypes
  <2> HIDE DEF ours
  <2> QED BY <2>1, <2>2
<1> HIDE DEF q
<1>6. task' \in [Tasks -> TaskType] /\ task'[t] = q /\ Keep(t)
  BY <1>3, <1>5, Moves
<1>7. TaskSound(t)'
  <2> USE DEF Asked, Pending, ToldGone, Listing
  <2>1. RequestSound(t)' /\ StartSound(t)'
    BY <1>1, <1>2, <1>4, <1>6 DEF RequestSound, StartSound
  <2>2. ListSound(t)'
    BY <1>1, <1>4, <1>6 DEF IInv, TaskSound, ListSound, Accounted, Lost
  <2> QED BY <2>1, <2>2 DEF TaskSound
<1>8. Advances /\ remote \subseteq remote' /\ MapTypes' /\ MapSound'
  BY <1>1, <1>2, <1>6 DEF Advances, IInv, MapTypes, MapSound, Accounted, Lost
<1> QED BY <1>1, <1>6, <1>7, <1>8, AnswerStays, Collected

LEMMA ListFailsKeeps ==
  ASSUME IInv, NEW t \in Tasks, ListFails(t)
  PROVE  IInv'
<1>1. /\ task[t].code # 200 /\ Ends(t, task[t].code)
      /\ UNCHANGED <<remote, born, map, model, doubted, misled>>
  BY DEF ListFails, Answered, gateway, server, faults
<1> QED BY <1>1, EndsSame

LEMMA CheckNextKeeps ==
  ASSUME IInv, NEW t \in Tasks, NEW k \in Kernels, CheckNext(t, k)
  PROVE  IInv'
<1>1. /\ task[t].at = "checking" /\ k \in task[t].todo
      /\ UNCHANGED <<remote, born, map, model, doubted, misled>>
  BY DEF CheckNext, gateway, server, faults
<1>2. CASE k \in map
  <2> DEFINE q == [task[t] EXCEPT !.todo = @ \ {k}]
  <2>1. Sent(t, q, "GET", k)
    BY <1>2 DEF CheckNext
  <2>2. /\ q \in TaskType /\ q.op = task[t].op /\ q.todo = task[t].todo \ {k} /\ q.found = task[t].found
        /\ q.since = task[t].since
    BY Typed DEF TaskType
  <2> HIDE DEF q
  <2>3. "GET" \in Methods
    BY DEF Methods
  <2>4. /\ task' \in [Tasks -> TaskType] /\ Keep(t) /\ UNCHANGED answer
        /\ task'[t].at = "wire" /\ task'[t].method = "GET" /\ task'[t].about = k
        /\ task'[t].op = task[t].op /\ task'[t].todo = task[t].todo \ {k}
        /\ task'[t].found = task[t].found /\ task'[t].since = task[t].since
    BY <2>1, <2>2, <2>3, Sending
  <2>5. TaskSound(t)'
    <3> USE DEF Asked, Pending, ToldGone, Listing
    <3>1. RequestSound(t)' /\ StartSound(t)'
      BY <1>1, <1>2, <2>4, Between DEF RequestSound, StartSound, Accounted
    <3>2. ListSound(t)'
      BY <1>1, <2>4 DEF IInv, TaskSound, ListSound
    <3> QED BY <3>1, <3>2 DEF TaskSound
  <2> QED BY <1>1, <2>4, <2>5, SameMap, AnswerStays, Collected
<1>3. CASE k \notin map
  <2>1. Ends(t, 500)
    BY <1>3 DEF CheckNext
  <2> QED BY <1>1, <2>1, EndsSame
<1> QED BY <1>2, <1>3

(* What the gateway says of a kernel that was known, or does not say.      *)
LEMMA CheckedKeeps ==
  ASSUME IInv, NEW t \in Tasks, Checked(t)
  PROVE  IInv'
<1> DEFINE k == task[t].about
           ok == task[t].code = 200
           f == IF ok THEN task[t].found \cup {k} ELSE task[t].found
           q == [task[t] EXCEPT !.at = "checking", !.found = f, !.about = NoKernel, !.code = 0]
<1>1. /\ task[t].at = "served" /\ task[t].op \in {"list", "cull"} /\ task[t].method = "GET"
      /\ UNCHANGED <<remote, born, misled, answer>>
  BY DEF Checked, Answered, gateway, faults
<1>2. /\ Refreshed(t) /\ map' = IF ok THEN map ELSE map \ {k}
      /\ doubted' = IF task[t].code \in {200, 404} THEN doubted ELSE doubted \cup {k}
  BY DEF Checked
<1>3. k \in born /\ Accounted(k) /\ (task[t].code = 404 => Lost(k)) /\ task[t].todo \subseteq born
  BY <1>1 DEF IInv, TaskSound, RequestSound, Pending, Asked, ToldGone
<1>4. q \in TaskType
  <2>1. "checking" \in Places /\ 0 \in Codes /\ NoKernel \in Kernels \cup {NoKernel}
    BY DEF Places, Codes
  <2>2. task[t] \in TaskType /\ f \in SUBSET Kernels
    BY <1>3, Typed DEF IInv, MapTypes
  <2> HIDE DEF f
  <2> QED BY <2>1, <2>2, SetChecked
<1>5. /\ q.at = "checking" /\ q.op = task[t].op /\ q.todo = task[t].todo /\ q.found = f
      /\ q.since = task[t].since
  BY Typed DEF TaskType
<1>6. task' = [task EXCEPT ![t] = q]
  BY DEF Checked, IInv, MapTypes
<1> HIDE DEF q
<1>7. task' \in [Tasks -> TaskType] /\ task'[t] = q /\ Keep(t)
  BY <1>4, <1>6, Moves
<1>8. map \subseteq born /\ model \subseteq born /\ MapSound
  BY DEF IInv, MapTypes
<1>9. /\ map' \subseteq born /\ model' \subseteq born /\ doubted \subseteq doubted'
      /\ \A j \in map \ map' : Lost(j) \/ j \in doubted'
      /\ \A j \in model' : j \in map' \/ j \in doubted' \/ Lost(j)
      /\ \A j \in map' \ model' : Lost(j)
  <2> HIDE DEF k
  <2>1. CASE task[t].code = 200
    BY <1>2, <1>3, <1>8, <2>1 DEF Refreshed, MapSound, Accounted, k
  <2>2. CASE task[t].code = 404
    BY <1>2, <1>3, <1>8, <2>2 DEF Refreshed, MapSound, Accounted, k
  <2>3. CASE task[t].code \notin {200, 404}
    BY <1>2, <1>3, <1>8, <2>3 DEF Refreshed, MapSound, Accounted, k
  <2> QED BY <2>1, <2>2, <2>3
<1>10. Advances /\ remote \subseteq remote' /\ MapTypes' /\ MapSound'
  BY <1>1, <1>7, <1>9, NewMap
<1>11. TaskSound(t)'
  <2> USE DEF Asked, Pending, ToldGone, Listing
  <2>1. RequestSound(t)' /\ StartSound(t)'
    BY <1>1, <1>3, <1>5, <1>7 DEF RequestSound, StartSound
  <2>2. task[t].op = "list" =>
          /\ task[t].since \subseteq remote
          /\ task[t].since \subseteq task[t].found \cup task[t].todo \cup doubted \cup misled \cup {k}
    BY <1>1 DEF IInv, TaskSound, ListSound
  <2>3. k \in f \/ k \in doubted' \/ Lost(k)
    BY <1>2, <1>3
  <2>4. task[t].found \subseteq f /\ doubted \subseteq doubted'
    BY <1>9
  <2> HIDE DEF k, f
  <2>5. ListSound(t)'
    BY <1>1, <1>5, <1>7, <2>2, <2>3, <2>4 DEF ListSound, Lost
  <2> QED BY <2>1, <2>5 DEF TaskSound
<1> QED BY <1>1, <1>7, <1>10, <1>11, AnswerStays, Collected

LEMMA AllCheckedKeeps ==
  ASSUME IInv, NEW t \in Tasks, AllChecked(t)
  PROVE  IInv'
<1>1. /\ task[t].at = "checking" /\ task[t].todo = {}
      /\ UNCHANGED <<remote, born, map, model, doubted, misled>>
  BY DEF AllChecked, gateway, server, faults
<1>2. CASE task[t].op = "list"
  <2>1. Ends(t, 200) /\ Answer(task[t], 200)
    BY <1>2 DEF AllChecked, Ends
  <2>2. task[t].since \subseteq task[t].found \cup doubted \cup misled
    BY <1>1, <1>2 DEF IInv, TaskSound, ListSound
  <2>3. AnswerSound'
    BY <1>1, <1>2, <2>1, <2>2, Answers
  <2>4. task' \in [Tasks -> TaskType] /\ Keep(t) /\ TaskSound(t)'
    BY <2>1, Ended
  <2> QED BY <1>1, <2>3, <2>4, SameMap, Collected
<1>3. CASE task[t].op # "list"
  <2> DEFINE q == [task[t] EXCEPT !.at = "culling", !.todo = map, !.found = {}, !.since = {}]
  <2>1. UNCHANGED answer
    BY <1>3 DEF AllChecked
  <2>2. q \in TaskType
    <3>1. "culling" \in Places /\ map \in SUBSET Kernels /\ {} \in SUBSET Kernels
      BY DEF Places, IInv, MapTypes
    <3>2. task[t] \in TaskType
      BY Typed
    <3> QED BY <3>1, <3>2, SetCulling
  <2>3. q.at = "culling" /\ q.op = task[t].op /\ q.todo = map
    BY Typed DEF TaskType
  <2>4. task' = [task EXCEPT ![t] = q]
    BY <1>3 DEF AllChecked, IInv, MapTypes
  <2> HIDE DEF q
  <2>5. task' \in [Tasks -> TaskType] /\ task'[t] = q /\ Keep(t)
    BY <2>2, <2>4, Moves
  <2>6. map \subseteq born'
    BY <1>1 DEF IInv, MapTypes
  <2>7. TaskSound(t)'
    BY <1>1, <1>3, <2>3, <2>5, <2>6, Between, Quiet
  <2> QED BY <1>1, <2>1, <2>5, <2>7, SameMap, AnswerStays, Collected
<1> QED BY <1>2, <1>3

-----------------------------------------------------------------------------
(* cull_kernels and shutdown_all: the kernels one after the other.         *)
LEMMA Asking ==
  ASSUME IInv, NEW t \in Tasks, NEW k \in map, task[t].at \in {"culling", "stopping"},
         Sent(t, [task[t] EXCEPT !.todo = @ \ {k}], "DELETE", k),
         UNCHANGED <<remote, born, map, model, doubted, misled>>
  PROVE  IInv'
<1> DEFINE q == [task[t] EXCEPT !.todo = @ \ {k}]
<1>1. q \in TaskType /\ q.op = task[t].op /\ q.todo = task[t].todo \ {k}
  BY Typed DEF TaskType
<1>2. Sent(t, q, "DELETE", k)
  OBVIOUS
<1> HIDE DEF q
<1>3. "DELETE" \in Methods /\ k \in Kernels /\ k \in born
  BY DEF Methods, IInv, MapTypes
<1>4. /\ task' \in [Tasks -> TaskType] /\ Keep(t) /\ UNCHANGED answer
      /\ task'[t].at = "wire" /\ task'[t].method = "DELETE" /\ task'[t].about = k
      /\ task'[t].op = task[t].op /\ task'[t].todo = task[t].todo \ {k}
  BY <1>1, <1>2, <1>3, Sending
<1>5. TaskSound(t)'
  BY <1>3, <1>4, Between DEF TaskSound, RequestSound, StartSound, ListSound, Asked, Pending, ToldGone, Listing, Accounted
<1> QED BY <1>4, <1>5, SameMap, AnswerStays, Collected

Passes(t, k) == task' = [task EXCEPT ![t].todo = @ \ {k}]

LEMMA Passing ==
  ASSUME IInv, NEW t \in Tasks, NEW k, task[t].at \in {"culling", "stopping"}, Passes(t, k), UNCHANGED born
  PROVE  task' \in [Tasks -> TaskType] /\ Keep(t) /\ TaskSound(t)'
<1> DEFINE q == [task[t] EXCEPT !.todo = @ \ {k}]
<1>1. q \in TaskType /\ q.op = task[t].op /\ q.todo = task[t].todo \ {k} /\ q.at = task[t].at
  BY Typed DEF TaskType
<1>2. task' = [task EXCEPT ![t] = q]
  BY DEF Passes, IInv, MapTypes
<1> HIDE DEF q
<1>3. task' \in [Tasks -> TaskType] /\ task'[t] = q /\ Keep(t)
  BY <1>1, <1>2, Moves
<1>4. TaskSound(t)'
  BY <1>1, <1>3, Between, Quiet
<1> QED BY <1>3, <1>4

(* A kernel leaves the map because it is gone.                             *)
LEMMA Dropped ==
  ASSUME IInv, NEW t \in Tasks, NEW k \in born, Lost(k), map' = map \ {k},
         UNCHANGED <<remote, born, model, doubted, misled>>,
         task' \in [Tasks -> TaskType], Keep(t), TaskSound(t)', AnswerSound'
  PROVE  IInv'
<1>1. Advances /\ remote \subseteq remote' /\ MapTypes' /\ MapSound'
  BY DEF Advances, IInv, MapTypes, MapSound, Accounted, Lost
<1> QED BY <1>1, Collected

LEMMA CullNextKeeps ==
  ASSUME IInv, NEW t \in Tasks, NEW k \in Kernels, NEW idle \in BOOLEAN, CullNext(t, k, idle)
  PROVE  IInv'
<1>1. /\ task[t].at = "culling" /\ k \in task[t].todo
      /\ UNCHANGED <<remote, born, model, doubted, misled>>
  BY DEF CullNext, gateway, faults
<1>2. CASE k \notin map \/ ~idle
  <2>1. Passes(t, k) /\ UNCHANGED <<map, answer>>
    BY <1>2 DEF CullNext, Passes
  <2>2. task' \in [Tasks -> TaskType] /\ Keep(t) /\ TaskSound(t)'
    BY <1>1, <2>1, Passing
  <2> QED BY <1>1, <2>1, <2>2, SameMap, AnswerStays, Collected
<1>3. CASE k \in map /\ idle /\ k \in model
  BY <1>1, <1>3, Asking DEF CullNext
<1>4. CASE k \in map /\ idle /\ k \notin model
  <2>1. Passes(t, k) /\ map' = map \ {k} /\ UNCHANGED answer
    BY <1>4 DEF CullNext, Passes
  <2>2. task' \in [Tasks -> TaskType] /\ Keep(t) /\ TaskSound(t)'
    BY <1>1, <2>1, Passing
  <2>3. Lost(k) /\ k \in born
    BY <1>4 DEF IInv, MapTypes, MapSound
  <2>4. AnswerSound'
    BY <1>1, <2>1 DEF IInv, AnswerSound, Lost
  <2> QED BY <1>1, <2>1, <2>2, <2>3, <2>4, Dropped
<1> QED BY <1>2, <1>3, <1>4

LEMMA StopNextKeeps ==
  ASSUME IInv, NEW t \in Tasks, NEW k \in Kernels, StopNext(t, k)
  PROVE  IInv'
<1>1. /\ task[t].at = "stopping" /\ k \in task[t].todo
      /\ UNCHANGED <<remote, born, model, doubted, misled>>
  BY DEF StopNext, gateway, faults
<1>2. CASE k \notin map
  <2>1. Ends(t, 404) /\ UNCHANGED map
    BY <1>2 DEF StopNext
  <2> QED BY <1>1, <2>1, EndsSame
<1>3. CASE k \in map /\ k \in model
  BY <1>1, <1>3, Asking DEF StopNext
<1>4. CASE k \in map /\ k \notin model
  <2>1. Passes(t, k) /\ map' = map \ {k} /\ UNCHANGED answer
    BY <1>4 DEF StopNext, Passes
  <2>2. task' \in [Tasks -> TaskType] /\ Keep(t) /\ TaskSound(t)'
    BY <1>1, <2>1, Passing
  <2>3. Lost(k) /\ k \in born
    BY <1>4 DEF IInv, MapTypes, MapSound
  <2>4. AnswerSound'
    BY <1>1, <2>1 DEF IInv, AnswerSound, Lost
  <2> QED BY <1>1, <2>1, <2>2, <2>3, <2>4, Dropped
<1> QED BY <1>2, <1>3, <1>4

(* Back to the kernels that are left.                                      *)
LEMMA Went ==
  ASSUME IInv, NEW t \in Tasks, NEW place \in {"culling", "stopping"}, Goes(t, place),
         task[t].op \in {"cull", "stop"}, UNCHANGED born
  PROVE  task' \in [Tasks -> TaskType] /\ Keep(t) /\ TaskSound(t)' /\ UNCHANGED answer
<1> DEFINE q == [task[t] EXCEPT !.at = place, !.about = NoKernel, !.code = 0, !.reply = {}]
<1>1. q \in TaskType
  <2>1. place \in Places /\ 0 \in Codes /\ {} \in SUBSET Kernels /\ NoKernel \in Kernels \cup {NoKernel}
    BY DEF Places, Codes
  <2>2. task[t] \in TaskType
    BY Typed
  <2> QED BY <2>1, <2>2, SetPlace
<1>2. q.op = task[t].op /\ q.todo = task[t].todo /\ q.at = place
  BY Typed DEF TaskType
<1>3. task' = [task EXCEPT ![t] = q] /\ UNCHANGED answer
  BY DEF Goes, IInv, MapTypes
<1> HIDE DEF q
<1>4. task' \in [Tasks -> TaskType] /\ task'[t] = q /\ Keep(t)
  BY <1>1, <1>3, Moves
<1>5. task[t].todo \subseteq born
  BY DEF IInv, TaskSound, RequestSound
<1>6. TaskSound(t)'
  BY <1>2, <1>4, <1>5, Quiet
<1> QED BY <1>3, <1>4, <1>6

(* What a DELETE was answered: with these codes the kernel is gone.        *)
LEMMA Deleted ==
  ASSUME IInv, NEW t \in Tasks, task[t].at = "served", task[t].method = "DELETE"
  PROVE  task[t].about \in born /\ (task[t].code \in {200, 404} => Lost(task[t].about))
BY DEF IInv, TaskSound, RequestSound, Pending, Asked, ToldGone

LEMMA AnswerDropped ==
  ASSUME IInv, UNCHANGED <<remote, born, doubted, misled, answer>>
  PROVE  AnswerSound'
BY DEF IInv, AnswerSound, Lost

LEMMA CulledKeeps ==
  ASSUME IInv, NEW t \in Tasks, Culled(t)
  PROVE  IInv'
<1>1. /\ task[t].at = "served" /\ task[t].op = "cull" /\ task[t].method = "DELETE" /\ Goes(t, "culling")
      /\ map' = IF task[t].code \in {200, 404} THEN map \ {task[t].about} ELSE map
      /\ UNCHANGED <<remote, born, model, doubted, misled>>
  BY DEF Culled, Answered, gateway, faults
<1>2. task' \in [Tasks -> TaskType] /\ Keep(t) /\ TaskSound(t)' /\ UNCHANGED answer
  BY <1>1, Went
<1>3. AnswerSound'
  BY <1>1, <1>2, AnswerDropped
<1>4. CASE task[t].code \in {200, 404}
  BY <1>1, <1>2, <1>3, <1>4, Deleted, Dropped
<1>5. CASE task[t].code \notin {200, 404}
  BY <1>1, <1>2, <1>3, <1>5, SameMap, Collected
<1> QED BY <1>4, <1>5

LEMMA StoppedKeeps ==
  ASSUME IInv, NEW t \in Tasks, Stopped(t)
  PROVE  IInv'
<1>1. /\ task[t].at = "served" /\ task[t].op = "stop" /\ task[t].method = "DELETE"
      /\ UNCHANGED <<remote, born, model, doubted, misled>>
  BY DEF Stopped, Answered, gateway, faults
<1>2. CASE task[t].code \in {200, 404}
  <2>1. map' = map \ {task[t].about} /\ Goes(t, "stopping")
    BY <1>2 DEF Stopped
  <2>2. task' \in [Tasks -> TaskType] /\ Keep(t) /\ TaskSound(t)' /\ UNCHANGED answer
    BY <1>1, <2>1, Went
  <2>3. AnswerSound'
    BY <1>1, <2>2, AnswerDropped
  <2> QED BY <1>1, <1>2, <2>1, <2>2, <2>3, Deleted, Dropped
<1>3. CASE task[t].code \notin {200, 404}
  BY <1>1, <1>3, EndsSame DEF Stopped
<1> QED BY <1>2, <1>3

LEMMA AllDoneKeeps ==
  ASSUME IInv, NEW t \in Tasks, AllCulled(t) \/ AllStopped(t)
  PROVE  IInv'
<1>1. /\ task[t].at \in {"culling", "stopping"} /\ Ends(t, 200)
      /\ UNCHANGED <<remote, born, map, model, doubted, misled>>
  BY DEF AllCulled, AllStopped, gateway, server, faults
<1>2. task[t].op \notin {"shutdown", "list"}
  BY <1>1, Between
<1> QED BY <1>1, <1>2, EndsSame

-----------------------------------------------------------------------------
(* shutdown_kernel, is_alive, restart_kernel and interrupt_kernel.         *)
LEMMA ShutdownKeeps ==
  ASSUME IInv, NEW t \in Tasks, Shutdown(t)
  PROVE  IInv'
<1>1. /\ task[t].at = "served" /\ task[t].op = "shutdown" /\ task[t].method = "DELETE"
      /\ UNCHANGED <<remote, born, model, doubted, misled>>
  BY DEF Shutdown, Answered, gateway, faults
<1>2. task[t].about = task[t].k
  BY <1>1 DEF IInv, TaskSound, RequestSound
<1>3. CASE task[t].code \in {200, 404}
  <2>1. map' = map \ {task[t].k} /\ Ends(t, 200)
    BY <1>3 DEF Shutdown
  <2>2. task' \in [Tasks -> TaskType] /\ Keep(t) /\ TaskSound(t)'
    BY <2>1, Ended
  <2>3. task[t].k \in born /\ Lost(task[t].k)
    BY <1>1, <1>2, <1>3, Deleted
  <2>4. AnswerSound'
    BY <1>1, <2>1, <2>3, Answers DEF Ends, Lost
  <2> QED BY <1>1, <2>1, <2>2, <2>3, <2>4, Dropped
<1>4. CASE task[t].code \notin {200, 404}
  <2>1. UNCHANGED map /\ Ends(t, task[t].code)
    BY <1>4 DEF Shutdown
  <2> QED BY <1>1, <1>4, <2>1, EndsSame
<1> QED BY <1>3, <1>4

LEMMA AliveKeeps ==
  ASSUME IInv, NEW t \in Tasks, Alive(t)
  PROVE  IInv'
<1>1. /\ task[t].op = "alive" /\ task[t].at = "served" /\ task[t].method = "GET"
      /\ Ends(t, IF task[t].code \in {200, 404} THEN 200 ELSE task[t].code)
      /\ Refreshed(t) /\ UNCHANGED <<remote, born, map, doubted, misled>>
  BY DEF Alive, Answered, gateway, faults
<1>2. task[t].about \in born /\ Accounted(task[t].about) /\ (task[t].code = 404 => Lost(task[t].about))
  BY <1>1 DEF IInv, TaskSound, RequestSound, Pending, Asked, ToldGone
<1>3. task' \in [Tasks -> TaskType] /\ Keep(t) /\ TaskSound(t)' /\ AnswerSound'
  BY <1>1, EndsOther
<1>4. map \subseteq born /\ model \subseteq born /\ MapSound
  BY DEF IInv, MapTypes
<1>5. /\ model' \subseteq born
      /\ \A k \in model' : k \in map' \/ k \in doubted' \/ Lost(k)
      /\ \A k \in map' \ model' : Lost(k)
  <2>1. CASE task[t].code = 200
    BY <1>1, <1>2, <1>4, <2>1 DEF Refreshed, MapSound, Accounted
  <2>2. CASE task[t].code = 404
    BY <1>1, <1>2, <1>4, <2>2 DEF Refreshed, MapSound, Accounted
  <2>3. CASE task[t].code \notin {200, 404}
    BY <1>1, <1>2, <1>4, <2>3 DEF Refreshed, MapSound, Accounted
  <2> QED BY <2>1, <2>2, <2>3
<1>6. Advances /\ remote \subseteq remote' /\ MapTypes' /\ MapSound'
  BY <1>1, <1>3, <1>4, <1>5, NewMap
<1> QED BY <1>3, <1>6, Collected

LEMMA ActedKeeps ==
  ASSUME IInv, NEW t \in Tasks, NEW action \in {"restart", "interrupt"}, Acted(t, action)
  PROVE  IInv'
<1>1. /\ task[t].op = action /\ UNCHANGED <<remote, born, map, model, doubted, misled>>
      /\ \E code : Ends(t, code)
  BY DEF Acted, Answered, gateway, server, faults
<1> QED BY <1>1, EndsSame

-----------------------------------------------------------------------------
LEMMA StutterKeeps ==
  ASSUME IInv, UNCHANGED vars
  PROVE  IInv'
<1>1. Advances /\ remote \subseteq remote' /\ UNCHANGED <<task, answer>> /\ task' \in [Tasks -> TaskType]
      /\ UNCHANGED <<remote, born, map, model, doubted, misled>>
  BY DEF vars, Advances, IInv, MapTypes
<1> QED BY <1>1, SameMap, AnswerStays, Refused

LEMMA StepKeeps ==
  ASSUME IInv, [Next]_vars
  PROVE  IInv'
<1>1. CASE \E k \in Kernels : Cull(k)
  BY <1>1, CullKeeps
<1>2. ASSUME NEW t \in Tasks, Gateway(t) PROVE IInv'
  BY <1>2, ServeStartKeeps, RefuseStartKeeps, ServeListKeeps, ServeKeeps, LoseKeeps, UnresolvedKeeps
     DEF Gateway
<1>3. ASSUME NEW t \in Tasks, Request(t) PROVE IInv'
  BY <1>3, start_kernelKeeps, shutdown_allKeeps, list_kernelsKeeps, adopt_kernelKeeps, shutdown_kernelKeeps,
     is_aliveKeeps, act_on_kernelKeeps DEF Request
<1>4. ASSUME NEW t \in Tasks, Proceed(t) PROVE IInv'
  BY <1>4, RetryKeeps, StartedKeeps, StartFailsKeeps, AdoptedKeeps, ListedKeeps, ListFailsKeeps, CheckedKeeps,
     AllCheckedKeeps, CheckNextKeeps, StopNextKeeps, CullNextKeeps, CulledKeeps, AllDoneKeeps, ShutdownKeeps,
     AliveKeeps, StoppedKeeps, ActedKeeps DEF Proceed
<1>5. CASE UNCHANGED vars
  BY <1>5, StutterKeeps
<1> QED BY <1>1, <1>2, <1>3, <1>4, <1>5 DEF Next

(* What the tables, the tasks and the answers say of the gateway's kernels *)
(* holds initially, and every step keeps it (gateway/managers.py).         *)
THEOREM Inductive == Spec => []IInv
<1>1. Init => IInv
  <2> SUFFICES ASSUME Init PROVE IInv
    OBVIOUS
  <2>1. Idle \in TaskType /\ Idle.at = "idle" /\ Idle.op = "none" /\ Idle.todo = {}
    BY TaskTyped DEF Idle, Task, Ops
  <2>2. MapTypes /\ MapSound
    BY <2>1 DEF Init, MapTypes, MapSound
  <2>3. AnswerSound
    BY DEF Init, AnswerSound
  <2>4. \A t \in Tasks : TaskSound(t)
    BY <2>1 DEF Init, TaskSound, RequestSound, StartSound, ListSound, Asked, Pending, ToldGone, Listing
  <2> QED BY <2>2, <2>3, <2>4 DEF IInv
<1>2. IInv /\ [Next]_vars => IInv'
  BY StepKeeps
<1> QED BY <1>1, <1>2, PTL DEF Spec

(* A kernel of the gateway that was known to the server is managed, unless *)
(* a question about it was never answered or its name did not resolve, for *)
(* any kernels, clients and tasks (GatewayMappingKernelManager).           *)
THEOREM KernelsAreManaged == Spec => []LiveKernelsManaged
<1>1. IInv => LiveKernelsManaged
  BY DEF IInv, MapSound, Accounted, Lost, LiveKernelsManaged, kernel_culled
<1> QED BY <1>1, Inductive, PTL

(* One start of a kernel has the gateway start one at most, however often  *)
(* the request fails and is repeated (gateway_request, start_kernel).      *)
THEOREM StartsAreSingle == Spec => []StartsOnce
<1>1. IInv => StartsOnce
  <2> SUFFICES ASSUME IInv, NEW t \in Tasks, task[t].op = "start" PROVE Cardinality(task[t].found) <= 1
    BY DEF StartsOnce
  <2>1. CASE task[t].found = {}
    BY <2>1, FS_EmptySet
  <2>2. CASE \E k \in Kernels : task[t].found = {k}
    <3>1. PICK k \in Kernels : task[t].found = {k}
      BY <2>2
    <3>2. Cardinality({k}) = 1
      BY FS_Singleton
    <3> QED BY <3>1, <3>2
  <2> QED BY <2>1, <2>2 DEF IInv, TaskSound, StartSound
<1> QED BY <1>1, Inductive, PTL

(* A list that a client is given lacks no kernel that was managed and      *)
(* running from the question to the answer (list_kernels).                 *)
THEOREM ListsAreComplete == Spec => ListComplete
<1>1. IInv' => (answer'.op = "list" /\ answer'.code = 200 =>
                  answer'.since \subseteq answer'.found \cup doubted' \cup misled')
  BY DEF IInv, AnswerSound
<1> QED BY <1>1, Inductive, PTL DEF ListComplete

(* A kernel whose shutdown was answered with success does not run          *)
(* (shutdown_kernel).                                                      *)
THEOREM ShutdownsStopKernels == Spec => ShutdownEffective
<1>1. IInv' => (answer'.op = "shutdown" /\ answer'.code = 200 => answer'.k \notin remote' \ misled')
  BY DEF IInv, AnswerSound, Lost
<1> QED BY <1>1, Inductive, PTL DEF ShutdownEffective
=============================================================================
