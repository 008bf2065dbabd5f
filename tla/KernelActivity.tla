----------------------------- MODULE KernelActivity -----------------------------
(***************************************************************************)
(* What the server knows of the work of a kernel: the execution state and  *)
(* the time of the last activity that MappingKernelManager takes from the  *)
(* kernel's iopub messages, restarts, and the culling that rests on them   *)
(* (services/kernels/kernelmanager.py).                                    *)
(*                                                                         *)
(* The stream that watches a kernel is connected to the ports the kernel   *)
(* had then, and misses what is published before its subscription has      *)
(* taken effect.  The restarter may start a kernel on other ports without  *)
(* telling anyone.                                                         *)
(***************************************************************************)
EXTENDS Naturals, Sequences

CONSTANTS
  Timeout,      \* cull_idle_timeout
  MaxRequests,  \* bound: requests that clients send to the kernel
  MaxControl,   \* bound: requests on its control channel
  MaxRestarts,  \* bound: restarts, of a client or of the restarter
  MaxClients    \* bound: websockets opened

ASSUME ActivityAssumption ==
  /\ Timeout \in Nat /\ MaxRequests \in Nat /\ MaxControl \in Nat
  /\ MaxRestarts \in Nat /\ MaxClients \in Nat

VARIABLES
  managed,  \* "no", "yes", "culled", "removed"
  process,  \* none, up, replaced (by a restart under way), failed (to restart)
  doing,    \* the request it works on
  told,     \* whether the watching stream was there for the start of that
  cut,      \* history: work was cut short, or what was said of it dropped
  ports,    \* the ports it listens on
  captured, \* _kernel_ports
  stream,   \* _activity_stream: none, joining, live
  onPorts,  \* the ports it is connected to
  wire,     \* messages it holds
  state,    \* execution_state
  age,      \* time since last_activity
  restart,  \* the future of a restart: none, waiting, done, lost
  conns,    \* _kernel_connections
  used      \* how much of the bounds is used

work == <<doing, told, cut>>
watch == <<stream, onPorts, wire>>
seen == <<state, age>>
vars == <<managed, process, work, ports, captured, watch, seen, restart, conns, used>>

Untracked == {"kernel_info_request", "debug_request"}
Tracked == {"execute_request"}
None == "none"

(* track_message_type: a message without a parent counts.                  *)
track_message_type(type) == type \notin Untracked

Msg(parent, status) == [parent |-> parent, status |-> status]
Hears == stream = "live" /\ onPorts = ports
Publish(msgs) == wire' = IF Hears THEN wire \o msgs ELSE wire
Uses(what, max) == used[what] < max /\ used' = [used EXCEPT ![what] = @ + 1]

-----------------------------------------------------------------------------
start_watching_activity ==
  /\ stream' = "joining" /\ onPorts' = ports /\ wire' = <<>>
  /\ age' = 0
stop_watching_activity == stream' = None /\ wire' = <<>> /\ UNCHANGED onPorts

(* _async_start_kernel and _finish_kernel_start                            *)
StartKernel ==
  /\ managed = "no"
  /\ managed' = "yes" /\ process' = "up"
  /\ state' = "starting" /\ start_watching_activity
  /\ captured' = ports
  /\ UNCHANGED <<work, ports, restart, conns, used>>

Joined ==
  /\ stream = "joining"
  /\ stream' = "live"
  /\ UNCHANGED <<managed, process, work, ports, captured, onPorts, wire, seen, restart, conns, used>>

-----------------------------------------------------------------------------
(* The kernel answers requests of its shell channel one by one, with a     *)
(* status before and after each and output in between; those of its        *)
(* control channel at any time.                                            *)
BeginRequest(kind) ==
  /\ managed = "yes" /\ process = "up" /\ doing = None /\ Uses("requests", MaxRequests)
  /\ doing' = kind /\ told' = Hears
  /\ Publish(<<Msg(kind, "busy")>>)
  /\ UNCHANGED <<managed, process, cut, ports, captured, stream, onPorts, seen, restart, conns>>

Output ==
  /\ managed = "yes" /\ doing = "execute_request" /\ Len(wire) < 2
  /\ Publish(<<Msg(doing, None)>>)
  /\ UNCHANGED <<managed, process, work, ports, captured, stream, onPorts, seen, restart, conns, used>>

EndRequest ==
  /\ managed = "yes" /\ doing # None
  /\ doing' = None /\ UNCHANGED <<told, cut>>
  /\ Publish(<<Msg(doing, "idle")>>)
  /\ UNCHANGED <<managed, process, ports, captured, stream, onPorts, seen, restart, conns, used>>

ControlRequest ==
  /\ managed = "yes" /\ process = "up" /\ Uses("control", MaxControl)
  /\ Publish(<<Msg("debug_request", "busy"), Msg("debug_request", "idle")>>)
  /\ UNCHANGED <<managed, process, work, ports, captured, stream, onPorts, seen, restart, conns>>

(* Mutant: the status that answers any request is taken over.              *)
record_activity_Untracked ==
  /\ wire # <<>>
  /\ LET m == Head(wire)
         active == track_message_type(m.parent) \/ state = "busy"
     IN /\ age' = IF active THEN 0 ELSE age
        /\ state' = IF m.status = None THEN state ELSE m.status
  /\ wire' = Tail(wire)
  /\ UNCHANGED <<managed, process, work, ports, captured, stream, onPorts, restart, conns, used>>

record_activity ==
  /\ wire # <<>>
  /\ LET m == Head(wire)
         active == track_message_type(m.parent) \/ state = "busy"
     IN /\ age' = IF active THEN 0 ELSE age
        /\ state' = CASE m.status # None /\ track_message_type(m.parent) -> m.status
                      [] m.status \in {"busy", "idle"} /\ ~track_message_type(m.parent)
                           /\ state = "starting" -> "idle"
                      [] OTHER -> state
  /\ wire' = Tail(wire)
  /\ UNCHANGED <<managed, process, work, ports, captured, stream, onPorts, restart, conns, used>>

-----------------------------------------------------------------------------
(* The old process is gone with its work, and the new one says that it is  *)
(* starting: on the same ports, where the stream may not have connected    *)
(* again in time, or on others.                                            *)
Replaced(newports, heard) ==
  /\ ports' = IF newports THEN 1 - ports ELSE ports
  /\ doing' = None /\ told' = FALSE /\ cut' = (cut \/ doing # None)

(* The restarter, which asks for other ports while the kernel has not yet  *)
(* lived long enough.                                                      *)
AutoRestart(newports, heard) ==
  /\ managed = "yes" /\ process = "up" /\ Uses("restarts", MaxRestarts)
  /\ Replaced(newports, heard)
  /\ wire' = IF heard /\ Hears /\ ~newports THEN Append(wire, Msg(None, "starting")) ELSE wire
  /\ UNCHANGED <<managed, process, captured, stream, onPorts, seen, restart, conns>>

(* _async_restart_kernel: until the new process is there, and then what    *)
(* follows.  The future waits for an answer to a kernel_info_request.      *)
RestartKernel ==
  /\ managed = "yes" /\ process \in {"up", "failed"} /\ Uses("restarts", MaxRestarts)
  /\ process' = "replaced"
  /\ Replaced(FALSE, FALSE)
  /\ UNCHANGED <<managed, captured, watch, seen, restart, conns>>

_get_changed_ports == ports # captured

Restarted(heard) ==
  /\ managed = "yes" /\ process = "replaced"
  /\ process' = "up"
  /\ IF _get_changed_ports
     THEN /\ restart' = "lost" /\ start_watching_activity
          /\ cut' = (cut \/ wire # <<>>)
     ELSE /\ restart' = "waiting"
          /\ wire' = IF heard /\ Hears
                     THEN wire \o <<Msg(None, "starting"), Msg("kernel_info_request", "busy"), Msg("kernel_info_request", "idle")>>
                     ELSE wire
          /\ UNCHANGED <<stream, onPorts, age, cut>>
  /\ UNCHANGED <<managed, doing, told, ports, captured, state, conns, used>>

(* The new process does not start: the request fails, and the kernel stays.*)
RestartFails ==
  /\ managed = "yes" /\ process = "replaced"
  /\ process' = "failed"
  /\ UNCHANGED <<managed, work, ports, captured, watch, seen, restart, conns, used>>

(* on_reply, on_timeout, on_restart_failed                                 *)
RestartSettles ==
  /\ restart = "waiting"
  /\ restart' = "done"
  /\ UNCHANGED <<managed, process, work, ports, captured, watch, seen, conns, used>>

(* _handle_kernel_died: the restarter has given up.                        *)
KernelDied ==
  /\ managed = "yes" /\ process = "up"
  /\ managed' = "removed" /\ process' = None /\ doing' = None
  /\ restart' = IF restart = "waiting" THEN "done" ELSE restart
  /\ UNCHANGED <<told, cut, ports, captured, watch, seen, conns, used>>

-----------------------------------------------------------------------------
(* A websocket is counted; when it looks for its buffered messages,        *)
(* ports_changed captures the ports.                                       *)
ports_changed == captured' = ports

Connect ==
  /\ managed = "yes" /\ Uses("clients", MaxClients)
  /\ conns' = conns + 1
  /\ ports_changed \/ UNCHANGED captured
  /\ UNCHANGED <<managed, process, work, ports, watch, seen, restart>>

Disconnect ==
  /\ conns > 0
  /\ conns' = conns - 1
  /\ UNCHANGED <<managed, process, work, ports, captured, watch, seen, restart, used>>

(* prepare: the websocket finds a process that has not become ready.       *)
NeverReady ==
  /\ managed = "yes" /\ process = "failed" /\ state # "dead"
  /\ state' = "dead"
  /\ UNCHANGED <<managed, process, work, ports, captured, watch, age, restart, conns, used>>

(* shutdown_kernel                                                         *)
Removed(how) ==
  /\ managed' = how /\ process' = None /\ doing' = None
  /\ stop_watching_activity
  /\ restart' = IF restart = "waiting" THEN "lost" ELSE restart
  /\ UNCHANGED <<told, cut, ports, captured, seen, conns, used>>

is_idle == age > Timeout /\ state # "busy" /\ conns = 0

(* Mutant: a kernel that still starts is never culled.                     *)
cull_kernel_if_idle_Started ==
  /\ managed = "yes"
  /\ state = "dead" \/ (is_idle /\ state # "starting")
  /\ Removed("culled")

cull_kernel_if_idle ==
  /\ managed = "yes"
  /\ state = "dead" \/ is_idle
  /\ Removed("culled")

(* A request of a client or the end of the server                          *)
ShutdownKernel == managed = "yes" /\ Removed("removed")

(* Messages take less than a unit of time.                                 *)
Tick ==
  /\ managed = "yes" /\ wire = <<>> /\ stream # "joining" /\ age <= Timeout
  /\ age' = age + 1
  /\ UNCHANGED <<managed, process, work, ports, captured, watch, state, restart, conns, used>>

-----------------------------------------------------------------------------
Init ==
  /\ managed = "no" /\ process = None
  /\ doing = None /\ told = FALSE /\ cut = FALSE
  /\ ports = 0 /\ captured = 0
  /\ stream = None /\ onPorts = 0 /\ wire = <<>>
  /\ state = None /\ age = 0
  /\ restart = None /\ conns = 0
  /\ used = [what \in {"requests", "control", "restarts", "clients"} |-> 0]

Next ==
  \/ StartKernel \/ Joined
  \/ \E kind \in Tracked \cup {"kernel_info_request"} : BeginRequest(kind)
  \/ Output \/ EndRequest \/ ControlRequest \/ record_activity
  \/ \E newports, heard \in BOOLEAN : AutoRestart(newports, heard)
  \/ RestartKernel \/ RestartFails \/ RestartSettles \/ KernelDied
  \/ \E heard \in BOOLEAN : Restarted(heard)
  \/ Connect \/ Disconnect \/ NeverReady
  \/ cull_kernel_if_idle \/ ShutdownKernel \/ Tick

(* The loop handles the messages it receives, subscriptions take effect,   *)
(* time passes and the culler runs.                                        *)
Fairness ==
  /\ WF_vars(record_activity) /\ WF_vars(Joined) /\ WF_vars(Tick)
  /\ WF_vars(cull_kernel_if_idle)
Spec == Init /\ [][Next]_vars /\ Fairness

-----------------------------------------------------------------------------
TypeOK ==
  /\ managed \in {"no", "yes", "culled", "removed"}
  /\ process \in {None, "up", "replaced", "failed"}
  /\ doing \in Tracked \cup Untracked \cup {None}
  /\ ports \in 0 .. 1 /\ captured \in 0 .. 1 /\ onPorts \in 0 .. 1
  /\ stream \in {None, "joining", "live"}
  /\ state \in {None, "starting", "busy", "idle", "dead"}
  /\ age \in 0 .. Timeout + 1 /\ conns \in 0 .. MaxClients

(* The culler spares a kernel that works for a client, if its stream was   *)
(* connected when the work began and has told so: neither requests on      *)
(* other channels nor a restart before it make the kernel look idle        *)
(* (record_activity, cull_kernel_if_idle).                                 *)
SparesWorking ==
  [][managed' = "culled" /\ doing \in Tracked /\ told => \E i \in DOMAIN wire : wire[i].status = "busy"]_vars

(* A kernel that nobody uses is culled in the end, unless a restart cut    *)
(* its work short or dropped what it had said of it (cull_idle_timeout).   *)
IdleCulled ==
  <>[](managed = "yes" /\ doing = None /\ conns = 0) => <>cut

(* A kernel that nobody uses is culled in the end (the help of             *)
(* cull_idle_timeout: "Timeout (in seconds) after which a kernel is        *)
(* considered idle and ready to be culled").                               *)
IdleAlwaysCulled ==
  ~<>[](managed = "yes" /\ doing = None /\ conns = 0)
=============================================================================
