---------------------------- MODULE GatewayKernels ----------------------------
(***************************************************************************)
(* The kernels of a gateway as this server mirrors them: gateway/managers.py *)
(* (GatewayMappingKernelManager, GatewayKernelManager, GatewaySessionManager) *)
(* over gateway/gateway_client.py (RetryableHTTPClient, gateway_request).  *)
(*                                                                         *)
(* The gateway has the kernels, culls them when it likes and may list them *)
(* incompletely.  The server keeps a map of those it knows.  Every         *)
(* operation sends HTTP requests and is suspended at each; the others run  *)
(* meanwhile.  An answer can be lost after the gateway did what was asked. *)
(***************************************************************************)
EXTENDS Naturals, FiniteSets

CONSTANTS
  Kernels,    \* kernel ids the gateway can give
  Tasks,      \* slots for operations being served
  MaxRetries, \* RetryableHTTPClient.max_retries
  MaxLosses,  \* bound: answers lost, or requests that reach no gateway
  MaxGaps,    \* bound: kernels left out of a list by mistake
  NoKernel

ASSUME BoundsAssumption ==
  /\ MaxRetries \in Nat /\ MaxLosses \in Nat /\ MaxGaps \in Nat
  /\ NoKernel \notin Kernels

VARIABLES
  remote,   \* kernels that run on the gateway
  born,     \* kernels it has ever started
  map,      \* _kernels: the ids this server manages
  model,    \* the managed kernels whose last known model is not None
  task,     \* the operations
  answer,   \* the last answer to a client
  doubted,  \* kernels a question about which was never answered
  misled,   \* kernels told to be gone because the gateway's name did not resolve
  losses,   \* answers lost so far
  gaps      \* kernels left out so far

gateway == <<remote, born, gaps>>
server == <<map, model, doubted>>
faults == <<losses, misled>>
vars == <<remote, born, map, model, task, answer, doubted, misled, losses, gaps>>

(* All but the last answer, which no step looks at.                        *)
AllButAnswer == <<remote, born, map, model, task, doubted, misled, losses, gaps>>

(* An operation: the kernel it is about, the request it has sent and for   *)
(* which kernel, how often that was sent again, the status and the kernels *)
(* of the reply, the kernels still to look at and those found.             *)
Task(op, k) ==
  [op |-> op, k |-> k, at |-> "new", method |-> "GET", about |-> k, tries |-> 0, code |-> 0,
   reply |-> {}, todo |-> {}, found |-> {}, since |-> {}]

Methods == {"LIST", "GET", "POST", "DELETE", "restart", "interrupt"}
Places == {"idle", "wire", "served", "checking", "culling", "stopping"}
Codes == {0, 200, 404, 500, 503}
Idle == [Task("none", NoKernel) EXCEPT !.at = "idle"]

Sent(t, q, method, k) ==
  /\ task' = [task EXCEPT ![t] =
       [q EXCEPT !.at = "wire", !.method = method, !.about = k, !.tries = 0, !.code = 0, !.reply = {}]]
  /\ UNCHANGED answer
Sends(t, method, k) == Sent(t, task[t], method, k)
Goes(t, place) ==
  /\ task' = [task EXCEPT ![t].at = place, ![t].about = NoKernel, ![t].code = 0, ![t].reply = {}]
  /\ UNCHANGED answer

Free(t) == task[t].at = "idle"
Answer(q, code) ==
  answer' = [op |-> q.op, k |-> q.k, code |-> code, found |-> q.found, since |-> q.since]
Refuses(q, code) == Answer(q, code) /\ UNCHANGED task
Ends(t, code) == Answer(task[t], code) /\ task' = [task EXCEPT ![t] = Idle]

-----------------------------------------------------------------------------
(* The gateway.                                                            *)

(* A request has its answer, or the error that stands for one.             *)
Served(q, code, reply) == [q EXCEPT !.at = "served", !.code = code, !.reply = reply]

(* The kernels an operation has to tell of: those there since it began.    *)
Gone(k) == [t \in Tasks |-> [task[t] EXCEPT !.since = @ \ {k}]]

Cull(k) ==
  /\ remote' = remote \ {k} /\ k \in remote
  /\ task' = Gone(k)
  /\ UNCHANGED <<answer, born, gaps, server, faults>>

ServeStart(t) ==
  /\ task[t].at = "wire" /\ task[t].method = "POST"
  /\ \E k \in Kernels \ born :
       /\ born' = born \cup {k}
       /\ remote' = remote \cup {k}
       /\ task' = [task EXCEPT ![t] = [Served(task[t], 200, {k}) EXCEPT !.found = @ \cup {k}]]
  /\ UNCHANGED <<answer, gaps, server, faults>>

RefuseStart(t) ==
  /\ task[t].at = "wire" /\ task[t].method = "POST" /\ born = Kernels
  /\ task' = [task EXCEPT ![t] = Served(task[t], 500, {})]
  /\ UNCHANGED <<answer, gateway, server, faults>>

(* A list may lack a kernel: a proxy whose backend does not answer.        *)
ServeList(t) ==
  /\ task[t].at = "wire" /\ task[t].method = "LIST"
  /\ \E missing \in SUBSET remote :
       /\ gaps' = gaps + Cardinality(missing) /\ gaps' <= MaxGaps
       /\ task' = [task EXCEPT ![t] = Served(task[t], 200, remote \ missing)]
  /\ UNCHANGED <<answer, remote, born, server, faults>>

Serve(t) ==
  /\ task[t].at = "wire" /\ task[t].method \in {"GET", "DELETE", "restart", "interrupt"}
  /\ LET k == task[t].about
         now == [task EXCEPT ![t] = Served(task[t], IF k \in remote THEN 200 ELSE 404, {})]
     IN IF task[t].method = "DELETE"
        THEN /\ remote' = remote \ {k}
             /\ task' = [s \in Tasks |-> [now[s] EXCEPT !.since = @ \ {k}]]
        ELSE UNCHANGED remote /\ task' = now
  /\ UNCHANGED <<answer, born, gaps, server, faults>>

(* A request or its answer is lost, or the gateway fails: 502, 503, 504,   *)
(* 599 and ConnectionError are tried again, any other status is not.       *)
Lose(t) ==
  /\ task[t].at = "wire" \/ (task[t].at = "served" /\ task[t].code \in {200, 404})
  /\ losses < MaxLosses /\ losses' = losses + 1
  /\ \E code \in {500, 503} : task' = [task EXCEPT ![t] = Served(task[t], code, {})]
  /\ UNCHANGED <<answer, gateway, server, misled>>

(* The name of the gateway does not resolve: gateway_request turns the     *)
(* gaierror into the 404 that also means that there is no such kernel.     *)
Unresolved(t) ==
  /\ task[t].at = "wire" /\ losses < MaxLosses /\ losses' = losses + 1
  /\ misled' = misled \cup ({task[t].about} \ {NoKernel})
  /\ task' = [task EXCEPT ![t] = Served(task[t], 404, {})]
  /\ UNCHANGED <<answer, gateway, server>>

-----------------------------------------------------------------------------
(* Mutant: a request of any method is sent again.                          *)
is_retryable_Always(t) == task[t].code = 503 /\ task[t].tries < MaxRetries

(* RetryableHTTPClient: only GET and DELETE are sent again.                *)
is_retryable(t) ==
  /\ task[t].code = 503
  /\ task[t].method \in {"LIST", "GET", "DELETE"}
  /\ task[t].tries < MaxRetries

Retry(t) ==
  /\ task[t].at = "served" /\ is_retryable(t)
  /\ task' = [task EXCEPT ![t].at = "wire", ![t].tries = @ + 1]
  /\ UNCHANGED <<answer, gateway, server, faults>>

(* The last answer to a request of an operation.                           *)
Answered(t, ops, method) ==
  /\ task[t].at = "served" /\ ~is_retryable(t)
  /\ task[t].op \in ops /\ task[t].method = method

-----------------------------------------------------------------------------
(* start_kernel: the kernel is in the map once the gateway has answered.   *)
start_kernel(t) ==
  /\ Free(t) /\ Sent(t, Task("start", NoKernel), "POST", NoKernel)
  /\ UNCHANGED <<gateway, server, faults>>

Started(t, k) ==
  /\ Answered(t, {"start"}, "POST") /\ task[t].reply = {k}
  /\ map' = map \cup {k}
  /\ model' = model \cup {k}
  /\ Ends(t, 200)
  /\ UNCHANGED <<gateway, doubted, faults>>

StartFails(t) ==
  /\ Answered(t, {"start"}, "POST") /\ task[t].code # 200
  /\ Ends(t, task[t].code)
  /\ UNCHANGED <<gateway, server, faults>>

(* start_kernel with a kernel_id: a kernel the gateway already has, or had. *)
adopt_kernel(t, k) ==
  /\ Free(t) /\ k \in born
  /\ Sent(t, Task("adopt", k), "GET", k)
  /\ UNCHANGED <<gateway, server, faults>>

(* refresh_model: what the gateway answers, None for 404.                  *)
Refreshed(t) ==
  model' = IF task[t].code = 200 THEN model \cup {task[t].about}
           ELSE IF task[t].code = 404 THEN model \ {task[t].about}
           ELSE model

Adopted(t) ==
  /\ Answered(t, {"adopt"}, "GET")
  /\ Refreshed(t)
  /\ map' = IF task[t].code \in {200, 404} THEN map \cup {task[t].k} ELSE map
  /\ Ends(t, task[t].code)
  /\ UNCHANGED <<gateway, doubted, faults>>

-----------------------------------------------------------------------------
(* list_kernels, for a client or before culling.                           *)
list_kernels(t, op) ==
  /\ Free(t)
  /\ op = "cull" => \A s \in Tasks : Free(s) \/ task[s].op # "cull"
  /\ Sent(t, [Task(op, NoKernel) EXCEPT !.since = IF op = "list" THEN remote \cap map ELSE {}], "LIST", NoKernel)
  /\ UNCHANGED <<gateway, server, faults>>

(* Mutant: what the list lacks is culled.                                  *)
Listed_Trusted(t) ==
  /\ Answered(t, {"list", "cull"}, "LIST") /\ task[t].code = 200
  /\ map' = map \cap task[t].reply
  /\ model' = model \cup (task[t].reply \cap map)
  /\ task' = [task EXCEPT ![t].at = "checking", ![t].found = @ \cup (task[t].reply \cap map)]
  /\ UNCHANGED <<gateway, answer, doubted, faults>>

(* Models of the list are refreshed without another request; the kernels   *)
(* it lacks are asked for one by one, from a copy of the map.              *)
Listed(t) ==
  /\ Answered(t, {"list", "cull"}, "LIST") /\ task[t].code = 200
  /\ LET ours == task[t].reply \cap map
     IN /\ model' = model \cup ours
        /\ task' = [task EXCEPT ![t].at = "checking", ![t].found = ours, ![t].todo = map \ ours,
                              ![t].code = 0, ![t].reply = {}]
  /\ UNCHANGED <<gateway, answer, map, doubted, faults>>

ListFails(t) ==
  /\ Answered(t, {"list", "cull"}, "LIST") /\ task[t].code # 200
  /\ Ends(t, task[t].code)
  /\ UNCHANGED <<gateway, server, faults>>

(* A kernel that has left the map since the copy is a KeyError.            *)
CheckNext(t, k) ==
  /\ task[t].at = "checking" /\ k \in task[t].todo
  /\ IF k \in map
     THEN Sent(t, [task[t] EXCEPT !.todo = @ \ {k}], "GET", k)
     ELSE Ends(t, 500)
  /\ UNCHANGED <<gateway, server, faults>>

(* Mutant: a kernel that was found after all is not listed.                *)
Checked_Unlisted(t) ==
  /\ Answered(t, {"list", "cull"}, "GET")
  /\ Refreshed(t)
  /\ map' = IF task[t].code = 200 THEN map ELSE map \ {task[t].about}
  /\ doubted' = IF task[t].code \in {200, 404} THEN doubted ELSE doubted \cup {task[t].about}
  /\ task' = [task EXCEPT ![t].at = "checking", ![t].about = NoKernel, ![t].code = 0]
  /\ UNCHANGED <<gateway, answer, faults>>

(* The gateway's 404 and any other error drop the kernel alike.            *)
Checked(t) ==
  LET k == task[t].about
      ok == task[t].code = 200
  IN /\ Answered(t, {"list", "cull"}, "GET")
     /\ Refreshed(t)
     /\ map' = IF ok THEN map ELSE map \ {k}
     /\ doubted' = IF task[t].code \in {200, 404} THEN doubted ELSE doubted \cup {k}
     /\ task' = [task EXCEPT ![t].at = "checking", ![t].found = IF ok THEN @ \cup {k} ELSE @,
                              ![t].about = NoKernel, ![t].code = 0]
     /\ UNCHANGED <<gateway, answer, faults>>

AllChecked(t) ==
  /\ task[t].at = "checking" /\ task[t].todo = {}
  /\ IF task[t].op = "list" THEN Ends(t, 200)
     ELSE /\ task' = [task EXCEPT ![t].at = "culling", ![t].todo = map, ![t].found = {}, ![t].since = {}]
          /\ UNCHANGED answer
  /\ UNCHANGED <<gateway, server, faults>>

(* cull_kernels: the idle ones are shut down; one that is gone, or a       *)
(* shutdown that fails, is logged and passed over.                         *)
CullNext(t, k, idle) ==
  /\ task[t].at = "culling" /\ k \in task[t].todo
  /\ IF k \notin map \/ ~idle
     THEN task' = [task EXCEPT ![t].todo = @ \ {k}] /\ UNCHANGED <<map, answer>>
     ELSE IF k \in model
     THEN Sent(t, [task[t] EXCEPT !.todo = @ \ {k}], "DELETE", k) /\ UNCHANGED map
     ELSE task' = [task EXCEPT ![t].todo = @ \ {k}] /\ map' = map \ {k} /\ UNCHANGED answer
  /\ UNCHANGED <<gateway, model, doubted, faults>>

Culled(t) ==
  /\ Answered(t, {"cull"}, "DELETE")
  /\ map' = IF task[t].code \in {200, 404} THEN map \ {task[t].about} ELSE map
  /\ Goes(t, "culling")
  /\ UNCHANGED <<gateway, model, doubted, faults>>

AllCulled(t) ==
  /\ task[t].at = "culling" /\ task[t].todo = {}
  /\ Ends(t, 200)
  /\ UNCHANGED <<gateway, server, faults>>

-----------------------------------------------------------------------------
(* shutdown_kernel: nothing is asked of the gateway without a model.       *)
shutdown_kernel(t, k) ==
  /\ Free(t) /\ k \in born
  /\ IF k \notin map THEN Refuses(Task("shutdown", k), 404) /\ UNCHANGED map
     ELSE IF k \in model THEN Sent(t, Task("shutdown", k), "DELETE", k) /\ UNCHANGED map
     ELSE Refuses(Task("shutdown", k), 200) /\ map' = map \ {k}
  /\ UNCHANGED <<gateway, model, doubted, faults>>

(* Mutant: an error of the gateway is passed over.                         *)
Shutdown_Swallowed(t) ==
  /\ Answered(t, {"shutdown"}, "DELETE")
  /\ map' = map \ {task[t].k}
  /\ Ends(t, 200)
  /\ UNCHANGED <<gateway, model, doubted, faults>>

(* A kernel that the gateway does not find any more is as good as stopped. *)
Shutdown(t) ==
  /\ Answered(t, {"shutdown"}, "DELETE")
  /\ IF task[t].code \in {200, 404}
     THEN map' = map \ {task[t].k} /\ Ends(t, 200)
     ELSE UNCHANGED map /\ Ends(t, task[t].code)
  /\ UNCHANGED <<gateway, model, doubted, faults>>

(* restart_kernel and interrupt_kernel.  Whatever a restart raises, its    *)
(* handler answers 500.                                                    *)
act_on_kernel(t, k, action) ==
  /\ Free(t) /\ k \in born
  /\ IF k \notin map THEN Refuses(Task(action, k), IF action = "restart" THEN 500 ELSE 404)
     ELSE IF k \in model THEN Sent(t, Task(action, k), action, k)
     ELSE Refuses(Task(action, k), 200)
  /\ UNCHANGED <<gateway, server, faults>>

(* A restart is answered with the model, if the kernel is still known.     *)
Acted(t, action) ==
  /\ Answered(t, {action}, action)
  /\ Ends(t, IF task[t].code # 200 THEN (IF action = "restart" THEN 500 ELSE task[t].code)
             ELSE IF action = "restart" /\ task[t].k \notin map THEN 404 ELSE 200)
  /\ UNCHANGED <<gateway, server, faults>>

(* is_alive asks the gateway, and says yes whatever the gateway answers.   *)
is_alive(t, k) ==
  /\ Free(t) /\ k \in map
  /\ IF k \in model THEN Sent(t, Task("alive", k), "GET", k) ELSE Refuses(Task("alive", k), 404)
  /\ UNCHANGED <<gateway, server, faults>>

Alive(t) ==
  /\ Answered(t, {"alive"}, "GET")
  /\ Refreshed(t)
  /\ Ends(t, IF task[t].code \in {200, 404} THEN 200 ELSE task[t].code)
  /\ UNCHANGED <<gateway, map, doubted, faults>>

-----------------------------------------------------------------------------
(* shutdown_all: one kernel after the other, from a list made at the start. *)
shutdown_all(t) ==
  /\ Free(t)
  /\ task' = [task EXCEPT ![t] = [Task("stop", NoKernel) EXCEPT !.at = "stopping", !.todo = map]]
  /\ UNCHANGED <<gateway, answer, server, faults>>

StopNext(t, k) ==
  /\ task[t].at = "stopping" /\ k \in task[t].todo
  /\ IF k \notin map THEN Ends(t, 404) /\ UNCHANGED map
     ELSE IF k \in model
     THEN Sent(t, [task[t] EXCEPT !.todo = @ \ {k}], "DELETE", k) /\ UNCHANGED map
     ELSE task' = [task EXCEPT ![t].todo = @ \ {k}] /\ map' = map \ {k} /\ UNCHANGED answer
  /\ UNCHANGED <<gateway, model, doubted, faults>>

Stopped(t) ==
  /\ Answered(t, {"stop"}, "DELETE")
  /\ IF task[t].code \in {200, 404}
     THEN map' = map \ {task[t].about} /\ Goes(t, "stopping")
     ELSE UNCHANGED map /\ Ends(t, task[t].code)
  /\ UNCHANGED <<gateway, model, doubted, faults>>

AllStopped(t) ==
  /\ task[t].at = "stopping" /\ task[t].todo = {}
  /\ Ends(t, 200)
  /\ UNCHANGED <<gateway, server, faults>>

(* A session whose kernel is not in the map is deleted when it is looked   *)
(* at, without asking the gateway.                                         *)
kernel_culled(k) == k \notin map

-----------------------------------------------------------------------------
Init ==
  /\ remote = {} /\ born = {} /\ map = {} /\ model = {} /\ doubted = {} /\ misled = {}
  /\ task = [t \in Tasks |-> Idle]
  /\ answer = [op |-> "none", k |-> NoKernel, code |-> 0, found |-> {}, since |-> {}]
  /\ losses = 0 /\ gaps = 0

Gateway(t) == ServeStart(t) \/ RefuseStart(t) \/ ServeList(t) \/ Serve(t) \/ Lose(t) \/ Unresolved(t)

Request(t) ==
  \/ start_kernel(t) \/ shutdown_all(t)
  \/ \E op \in {"list", "cull"} : list_kernels(t, op)
  \/ \E k \in Kernels :
       \/ adopt_kernel(t, k) \/ shutdown_kernel(t, k) \/ is_alive(t, k)
       \/ \E action \in {"restart", "interrupt"} : act_on_kernel(t, k, action)

Proceed(t) ==
  \/ Retry(t)
  \/ \E k \in Kernels : Started(t, k)
  \/ StartFails(t) \/ Adopted(t)
  \/ Listed(t) \/ ListFails(t) \/ Checked(t) \/ AllChecked(t)
  \/ \E k \in Kernels : CheckNext(t, k) \/ StopNext(t, k)
  \/ \E k \in Kernels, idle \in BOOLEAN : CullNext(t, k, idle)
  \/ Culled(t) \/ AllCulled(t)
  \/ Shutdown(t) \/ Alive(t) \/ Stopped(t) \/ AllStopped(t)
  \/ \E action \in {"restart", "interrupt"} : Acted(t, action)

Next ==
  \/ \E k \in Kernels : Cull(k)
  \/ \E t \in Tasks : Gateway(t) \/ Request(t) \/ Proceed(t)

Spec == Init /\ [][Next]_vars

-----------------------------------------------------------------------------
(* The variables and the operations are what their definitions say.        *)
TypeOK ==
  /\ remote \subseteq born /\ born \subseteq Kernels
  /\ map \subseteq born /\ model \subseteq born /\ doubted \subseteq born /\ misled \subseteq born
  /\ losses \in 0 .. MaxLosses /\ gaps \in 0 .. MaxGaps
  /\ \A t \in Tasks :
       /\ task[t].at \in Places /\ task[t].method \in Methods /\ task[t].code \in Codes
       /\ task[t].tries \in 0 .. MaxRetries
       /\ task[t].k \in born \cup {NoKernel} /\ task[t].about \in born \cup {NoKernel}
       /\ task[t].reply \cup task[t].todo \cup task[t].found \cup task[t].since \subseteq born

(* A kernel that runs and was known to is still managed, and its sessions  *)
(* with it: a list that lacks it, a kernel started while a list was on its *)
(* way, a shutdown that failed and a culling that came late have not       *)
(* dropped it, unless the gateway never answered when asked for it, or its *)
(* name did not resolve (gateway/managers.py list_kernels).                *)
LiveKernelsManaged == \A k \in ((remote \cap model) \ doubted) \ misled : ~kernel_culled(k)

(* A client's list of kernels has every kernel that was managed when it    *)
(* was asked for and has been running ever since, whatever the gateway's   *)
(* own list left out and whatever other operations did meanwhile.          *)
ListComplete ==
  [][answer'.op = "list" /\ answer'.code = 200 =>
       answer'.since \subseteq answer'.found \cup doubted' \cup misled']_vars

(* A shutdown that is answered with success has stopped the kernel, though *)
(* its DELETE may have been lost, or done and sent again, and though the   *)
(* kernel may have been taken for gone; but for a name that did not        *)
(* resolve.                                                                *)
ShutdownEffective ==
  [][answer'.op = "shutdown" /\ answer'.code = 200 => answer'.k \notin remote' \ misled']_vars

(* A kernel is dropped only when it has been culled: the comment of         *)
(* list_kernels says that asking for it directly is there for a gateway    *)
(* with "transient connectivity issues".                                   *)
OnlyCulledDropped == \A k \in remote \cap model : ~kernel_culled(k)

(* One start of a kernel starts one at most: the gateway may have done it  *)
(* although no answer came, so it is not asked again (_is_retryable).      *)
StartsOnce ==
  \A t \in Tasks : task[t].op = "start" => Cardinality(task[t].found) <= 1
=============================================================================
