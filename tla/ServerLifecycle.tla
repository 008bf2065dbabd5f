---------------------------- MODULE ServerLifecycle ----------------------------
(***************************************************************************)
(* The life of server processes: serverapp.py from initialize to the end   *)
(* of the loop, with their extensions.                                     *)
(*                                                                         *)
(* A server looks for a free port, announces itself in a file named after  *)
(* its process, and then runs its loop, whose first callback binds the     *)
(* port.  A signal, an answer on the terminal, a request or a long time    *)
(* without activity stops it: the callback _stop cleans up, waiting for    *)
(* extensions and kernels, and then stops the loop.  Nothing keeps two     *)
(* cleanups from running at the same time.                                 *)
(***************************************************************************)
EXTENDS ServerExtensions, Sequences

CONSTANTS
  Servers,      \* server processes
  Interactive,  \* those with a terminal
  Enabled,      \* the packages that the configuration of a server enables
  Starter,      \* the app whose command started a server, or Nobody
  Alone,        \* the servers whose starter loads no other extension
  Ports,
  Nobody,       \* the owner of a port that is free; no port
  Faulty,       \* hooks that may be broken
  Used,         \* bound: servers on which clients start kernels
  MaxBroken,    \* bound: how many are
  MaxEvents     \* bound: signals, requests, crashes, stops for inactivity

ASSUME ServersAssumption ==
  /\ Enabled \in [Servers -> SUBSET Packages]
  /\ Starter \in [Servers -> Apps \cup {Nobody}] /\ Nobody \notin Apps
  /\ \A s \in Alone : s \in Servers /\ Starter[s] # Nobody
  /\ Interactive \subseteq Servers /\ Used \subseteq Servers /\ Nobody \notin Servers \cup Ports
  /\ Faulty \subseteq Hooks \X Points
  /\ MaxBroken \in Nat /\ MaxEvents \in Nat

VARIABLES
  broken,    \* the hooks that raise
  phase,     \* how far a process has got
  calls,     \* callbacks of its loop that wait to run
  ext,       \* packages known; points linked, loaded, started, stopped; packages being started
  port,      \* port found, whether it was ever bound
  owner,     \* who listens on a port
  info,      \* jpserver-<pid>.json
  page,      \* whether the file that opens the browser is there
  sigint,    \* what a SIGINT does; whether a thread waits for an answer
  stopping,  \* _stopping
  cleanup,   \* the calls of _cleanup
  aborted,   \* one of them has raised
  kernel,    \* the kernel of a server
  events

files == <<info, page>>
startup == <<broken, ext, port, files>>
signals == <<sigint, stopping>>
vars == <<broken, phase, calls, ext, port, owner, info, page, sigint, stopping, cleanup, aborted,
          kernel, events>>

Phases == {"off", "linked", "loaded", "writing", "announced", "running", "stopped", "exited"}
Slots == 1 .. MaxEvents
NoCleanup == [at |-> "none", todo |-> {}, failed |-> FALSE, doomed |-> FALSE]

Event == events < MaxEvents /\ events' = events + 1
Schedule(s, call) == calls' = [calls EXCEPT ![s] = Append(@, call)]
Alive(s) == phase[s] \notin {"off", "exited"}
Closed(s) == [p \in Ports |-> IF owner[p] = s THEN Nobody ELSE owner[p]]

-----------------------------------------------------------------------------
Died(s) ==
  /\ phase' = [phase EXCEPT ![s] = "exited"]
  /\ owner' = Closed(s)
  /\ calls' = [calls EXCEPT ![s] = <<>>]
  /\ cleanup' = [cleanup EXCEPT ![s] = [c \in Slots |-> NoCleanup]]
  /\ kernel' = [kernel EXCEPT ![s] = "none"]
  /\ sigint' = [sigint EXCEPT ![s].asking = FALSE]

(* initialize_server and find_server_extensions: the command of an app     *)
(* enables its own package, whatever the configuration says, and may leave *)
(* all others out.                                                         *)
jpserver_extensions(s) ==
  (IF s \in Alone THEN {} ELSE Enabled[s])
    \cup (IF Starter[s] = Nobody THEN {} ELSE {Starter[s][1]})

(* initialize: up to init_signal the process dies of a signal; from there  *)
(* on it is handled, and _stop waits for the loop.  Without the starter's  *)
(* point there is no server.                                               *)
Initialize(s) ==
  /\ phase[s] = "off"
  /\ LET known == add_extension(jpserver_extensions(s), broken)
     IN IF Starter[s] = Nobody \/ Starter[s][1] \in known
        THEN /\ phase' = [phase EXCEPT ![s] = "linked"]
             /\ ext' = [ext EXCEPT ![s].known = known, ![s].linked = link_all_extensions(known, broken)]
             /\ UNCHANGED <<calls, owner, sigint, cleanup, kernel>>
        ELSE Died(s) /\ UNCHANGED ext
  /\ UNCHANGED <<broken, port, files, stopping, aborted, events>>

(* init_webapp exits when the options for a socket contradict each other,  *)
(* start_app when it may not run as root, and the writing of the file for  *)
(* the browser when the file to open is not under the root directory.      *)
init_webapp(s) == phase[s] = "off" /\ Died(s)
start_app(s) == phase[s] = "loaded" /\ Died(s)
write_browser_open_files(s) == phase[s] = "announced" /\ Died(s)
Refused(s) ==
  /\ init_webapp(s) \/ start_app(s) \/ write_browser_open_files(s)
  /\ UNCHANGED <<startup, stopping, aborted, events>>

(* _find_http_port binds a port and closes it again.                       *)
find_http_port == {p \in Ports : owner[p] = Nobody}

(* load_server_extensions and init_httpserver; when no port is free the    *)
(* process exits.                                                          *)
Load(s) ==
  /\ phase[s] = "linked"
  /\ ext' = [ext EXCEPT ![s].loaded = load_all_extensions(ext[s].known, broken)]
  /\ \/ \E p \in find_http_port :
          /\ port' = [port EXCEPT ![s].number = p]
          /\ phase' = [phase EXCEPT ![s] = "loaded"]
          /\ Schedule(s, "bind")
          /\ UNCHANGED <<owner, cleanup, kernel, sigint>>
     \/ find_http_port = {} /\ Died(s) /\ UNCHANGED port
  /\ UNCHANGED <<broken, files, stopping, aborted, events>>

(* start_app: the file is opened, and then written.                        *)
WriteInfo(s) ==
  /\ phase[s] = "loaded"
  /\ phase' = [phase EXCEPT ![s] = "writing"]
  /\ info' = [info EXCEPT ![s] = "torn"]
  /\ UNCHANGED <<broken, calls, ext, port, owner, page, signals, cleanup, aborted, kernel, events>>

InfoWritten(s) ==
  /\ phase[s] = "writing"
  /\ phase' = [phase EXCEPT ![s] = "announced"]
  /\ info' = IF info[s] = "torn" THEN [info EXCEPT ![s] = "full"] ELSE info
  /\ UNCHANGED <<broken, calls, ext, port, owner, page, signals, cleanup, aborted, kernel, events>>

OpenPage(s) == page' = [page EXCEPT ![s] = TRUE]

(* Mutant: a stop that was asked for before the loop started is forgotten. *)
StartLoop_Another(s) ==
  /\ phase[s] = "announced"
  /\ phase' = [phase EXCEPT ![s] = "running"]
  /\ OpenPage(s)
  /\ calls' = [calls EXCEPT ![s] = <<"bind", "post_start">>]
  /\ UNCHANGED <<broken, ext, port, info, owner, signals, cleanup, aborted, kernel, events>>

(* The file for the browser is written, and then start_ioloop.             *)
StartLoop(s) ==
  /\ phase[s] = "announced"
  /\ OpenPage(s)
  /\ phase' = [phase EXCEPT ![s] = "running"]
  /\ Schedule(s, "post_start")
  /\ UNCHANGED <<broken, ext, port, info, owner, signals, cleanup, aborted, kernel, events>>

-----------------------------------------------------------------------------
(* The callbacks of the loop, in the order they were added.                *)
Runs(s, call) ==
  /\ phase[s] = "running" /\ calls[s] # <<>> /\ Head(calls[s]) = call
Next_(s) == calls' = [calls EXCEPT ![s] = Tail(@)]

(* _bind_http_server: another process may have taken the port since it was *)
(* found, and then this one exits as it is, with the file left behind.     *)
Bind(s) ==
  /\ Runs(s, "bind")
  /\ IF owner[port[s].number] = Nobody
     THEN /\ owner' = [owner EXCEPT ![port[s].number] = s]
          /\ port' = [port EXCEPT ![s].bound = TRUE]
          /\ Next_(s)
          /\ UNCHANGED <<phase, cleanup, kernel, sigint>>
     ELSE Died(s) /\ UNCHANGED port
  /\ UNCHANGED <<broken, ext, files, stopping, aborted, events>>

(* _post_start: the packages are started side by side.                     *)
PostStart(s) ==
  /\ Runs(s, "post_start") /\ Next_(s)
  /\ ext' = [ext EXCEPT ![s].starting = start_all_extensions(ext[s].known)]
  /\ UNCHANGED <<broken, phase, port, owner, files, signals, cleanup, aborted, kernel, events>>

(* Mutant: the exception of one package ends the starting of all.          *)
StartPoint_EndsAll(s, p) ==
  /\ phase[s] = "running" /\ p \in ext[s].starting
  /\ LET x == start_point(p, ext[s].started)
     IN ext' = IF <<"start", x>> \in broken THEN [ext EXCEPT ![s].starting = {}]
               ELSE [ext EXCEPT ![s].started = @ \cup {x},
                                ![s].starting = IF x[2] = Size[p] THEN @ \ {p} ELSE @]
  /\ UNCHANGED <<broken, phase, calls, port, owner, files, signals, cleanup, aborted, kernel, events>>

StartPoint(s, p) ==
  /\ phase[s] = "running" /\ p \in ext[s].starting
  /\ LET x == start_point(p, ext[s].started)
     IN ext' = IF <<"start", x>> \in broken THEN [ext EXCEPT ![s].starting = @ \ {p}]
               ELSE [ext EXCEPT ![s].started = @ \cup {x},
                                ![s].starting = IF x[2] = Size[p] THEN @ \ {p} ELSE @]
  /\ UNCHANGED <<broken, phase, calls, port, owner, files, signals, cleanup, aborted, kernel, events>>

(* _restore_sigint_handler                                                 *)
RestoreHandler(s) ==
  /\ Runs(s, "restore") /\ Next_(s)
  /\ sigint' = [sigint EXCEPT ![s].on = "confirm"]
  /\ UNCHANGED <<startup, phase, owner, stopping, cleanup, aborted, kernel, events>>

-----------------------------------------------------------------------------
(* _cleanup: the files first, then the extensions.  It is to shut down the *)
(* kernel that runs.                                                       *)
Cleans(s) ==
  LET c == CHOOSE c \in Slots : cleanup[s][c].at = "none" /\ \A d \in Slots : d < c => cleanup[s][d].at # "none"
  IN /\ info' = [info EXCEPT ![s] = "none"] /\ page' = [page EXCEPT ![s] = FALSE]
     /\ cleanup' = [cleanup EXCEPT ![s][c] =
          [at |-> "extensions", todo |-> extension_apps(ext[s].known), failed |-> FALSE,
           doomed |-> kernel[s] = "running"]]

StopCall(s) ==
  /\ Runs(s, "stop") /\ Next_(s)
  /\ Cleans(s)
  /\ UNCHANGED <<broken, phase, ext, port, owner, signals, aborted, kernel, events>>

(* The apps of a package are stopped one after the other, in any order, up *)
(* to one that raises.                                                     *)
StopApp(s, c, x) ==
  /\ phase[s] = "running" /\ cleanup[s][c].at = "extensions" /\ x \in cleanup[s][c].todo
  /\ IF <<"stop", x>> \in broken
     THEN /\ cleanup' = [cleanup EXCEPT ![s][c].todo = @ \ PointsOf(x[1]), ![s][c].failed = TRUE]
          /\ UNCHANGED ext
     ELSE /\ cleanup' = [cleanup EXCEPT ![s][c].todo = @ \ {x}]
          /\ ext' = [ext EXCEPT ![s].stopped = @ \cup {x}]
  /\ UNCHANGED <<broken, phase, calls, port, owner, files, signals, aborted, kernel, events>>

Aborts(s, c) ==
  /\ cleanup' = [cleanup EXCEPT ![s][c] = NoCleanup]
  /\ aborted' = [aborted EXCEPT ![s] = TRUE]
  /\ UNCHANGED kernel

Ready(s, c) == phase[s] = "running" /\ cleanup[s][c].at = "extensions" /\ cleanup[s][c].todo = {}
Unmanaged(s) == kernel[s] \in {"starting", "failed"}

(* Mutant: the cleanup does not wait for the kernels.                      *)
CleanupKernels_NoWait(s, c) ==
  /\ Ready(s, c)
  /\ \/ (cleanup[s][c].failed \/ Unmanaged(s)) /\ Aborts(s, c)
     \/ /\ ~cleanup[s][c].failed /\ ~Unmanaged(s)
        /\ cleanup' = [cleanup EXCEPT ![s][c].at = "closing"]
        /\ kernel' = [kernel EXCEPT ![s] = IF @ = "running" THEN "stopping" ELSE @]
        /\ UNCHANGED aborted
  /\ UNCHANGED <<startup, phase, calls, owner, signals, events>>

(* cleanup_kernels: shutdown_all also asks for the kernels that are being  *)
(* started, or failed to, which are not in the map: _check_kernel_id       *)
(* raises a 404 for them.                                                  *)
CleanupKernels(s, c) ==
  /\ Ready(s, c)
  /\ \/ (cleanup[s][c].failed \/ Unmanaged(s)) /\ Aborts(s, c)
     \/ /\ ~cleanup[s][c].failed /\ kernel[s] \in {"none", "gone"}
        /\ cleanup' = [cleanup EXCEPT ![s][c].at = "closing"]
        /\ UNCHANGED <<kernel, aborted>>
     \/ /\ ~cleanup[s][c].failed /\ kernel[s] \in {"running", "stopping"}
        /\ cleanup' = [cleanup EXCEPT ![s][c].at = "kernels"]
        /\ kernel' = [kernel EXCEPT ![s] = "stopping"]
        /\ UNCHANGED aborted
  /\ UNCHANGED <<startup, phase, calls, owner, signals, events>>

KernelStopped(s) ==
  /\ phase[s] = "running" /\ kernel[s] = "stopping"
  /\ kernel' = [kernel EXCEPT ![s] = "gone"]
  /\ cleanup' = [cleanup EXCEPT ![s] = [c \in Slots |->
       [cleanup[s][c] EXCEPT !.doomed = FALSE, !.at = IF @ = "kernels" THEN "closing" ELSE @]]]
  /\ UNCHANGED <<startup, phase, calls, owner, signals, aborted, events>>

(* The sockets, the session manager and the HTTP server are closed, and    *)
(* then the loop is stopped, whoever asked for the cleanup.                *)
CloseAll(s, c) ==
  /\ phase[s] = "running" /\ cleanup[s][c].at = "closing"
  /\ owner' = Closed(s)
  /\ phase' = [phase EXCEPT ![s] = "stopped"]
  /\ cleanup' = [cleanup EXCEPT ![s][c].at = "done"]
  /\ UNCHANGED <<startup, calls, signals, aborted, kernel, events>>

Exit(s) ==
  /\ phase[s] = "stopped"
  /\ Died(s)
  /\ UNCHANGED <<startup, stopping, aborted, events>>

-----------------------------------------------------------------------------
(* stop: the HTTP server stops listening if there is one.  A thread and a  *)
(* signal handler add _stop as the loop does.                              *)
Stop(s) ==
  /\ stopping' = [stopping EXCEPT ![s] = TRUE]
  /\ owner' = Closed(s)
  /\ Schedule(s, "stop")

Handles(s) == phase[s] \in {"linked", "loaded", "writing", "announced", "running"}

(* SIGTERM                                                                 *)
Terminate(s) ==
  /\ Event /\ Handles(s) /\ Stop(s)
  /\ UNCHANGED <<startup, phase, sigint, cleanup, aborted, kernel>>

(* SIGINT: _handle_sigint asks in a thread, and until that is answered the *)
(* next one stops.                                                         *)
Interrupt(s) ==
  /\ Event /\ s \in Interactive /\ Handles(s)
  /\ IF sigint[s].on = "confirm"
     THEN sigint' = [sigint EXCEPT ![s] = [on |-> "stop", asking |-> TRUE]] /\ UNCHANGED <<stopping, owner, calls>>
     ELSE Stop(s) /\ UNCHANGED sigint
  /\ UNCHANGED <<startup, phase, cleanup, aborted, kernel>>

(* Without a terminal a SIGINT is a KeyboardInterrupt, which ends the loop *)
(* without a cleanup.                                                      *)
KeyboardInterrupt(s) ==
  /\ Event /\ s \notin Interactive /\ phase[s] = "running"
  /\ phase' = [phase EXCEPT ![s] = "stopped"]
  /\ aborted' = [aborted EXCEPT ![s] = TRUE]
  /\ UNCHANGED <<startup, calls, owner, signals, cleanup, kernel>>

(* Mutant: no answer does not bring the handler back.                      *)
Answer_NotRestored(s, reply) ==
  /\ sigint[s].asking
  /\ sigint' = [sigint EXCEPT ![s].asking = FALSE]
  /\ IF reply = "yes" THEN Stop(s)
     ELSE /\ calls' = IF reply = "no" THEN [calls EXCEPT ![s] = Append(@, "restore")] ELSE calls
          /\ UNCHANGED <<stopping, owner>>
  /\ UNCHANGED <<startup, phase, cleanup, aborted, kernel, events>>

(* _confirm_exit: yes within five seconds, no, or nothing.                 *)
Answer(s, reply) ==
  /\ sigint[s].asking
  /\ sigint' = [sigint EXCEPT ![s].asking = FALSE]
  /\ IF reply = "yes" THEN Stop(s)
     ELSE /\ calls' = IF reply = "nothing" /\ stopping[s] THEN calls
                      ELSE [calls EXCEPT ![s] = Append(@, "restore")]
          /\ UNCHANGED <<stopping, owner>>
  /\ UNCHANGED <<startup, phase, cleanup, aborted, kernel, events>>

(* shutdown_no_activity: a kernel that is being started is not in the map. *)
Inactive(s) ==
  /\ Event /\ phase[s] = "running" /\ kernel[s] \notin {"running", "stopping"}
  /\ Stop(s)
  /\ UNCHANGED <<startup, phase, sigint, cleanup, aborted, kernel>>

(* A kernel is started for a client, which may keep its connection when    *)
(* the server stops listening.  Bound: one kernel for each server in Used. *)
RequestKernel(s) ==
  /\ s \in Used /\ phase[s] = "running" /\ port[s].bound /\ kernel[s] = "none"
  /\ kernel' = [kernel EXCEPT ![s] = "starting"]
  /\ UNCHANGED <<startup, phase, calls, owner, signals, cleanup, aborted, events>>

KernelStarts(s, ok) ==
  /\ phase[s] = "running" /\ kernel[s] = "starting"
  /\ kernel' = [kernel EXCEPT ![s] = IF ok THEN "running" ELSE "failed"]
  /\ UNCHANGED <<startup, phase, calls, owner, signals, cleanup, aborted, events>>

Crash(s) ==
  /\ Event /\ Alive(s) /\ Died(s)
  /\ UNCHANGED <<startup, stopping, aborted>>

-----------------------------------------------------------------------------
Init ==
  /\ \E b \in SUBSET Faulty : Cardinality(b) <= MaxBroken /\ broken = b
  /\ phase = [s \in Servers |-> "off"]
  /\ calls = [s \in Servers |-> <<>>]
  /\ ext = [s \in Servers |-> [known |-> {}, linked |-> {}, loaded |-> {}, starting |-> {}, started |-> {}, stopped |-> {}]]
  /\ port = [s \in Servers |-> [number |-> Nobody, bound |-> FALSE]]
  /\ owner = [p \in Ports |-> Nobody]
  /\ info = [s \in Servers |-> "none"]
  /\ page = [s \in Servers |-> FALSE]
  /\ sigint = [s \in Servers |-> [on |-> "confirm", asking |-> FALSE]]
  /\ stopping = [s \in Servers |-> FALSE]
  /\ cleanup = [s \in Servers |-> [c \in Slots |-> NoCleanup]]
  /\ aborted = [s \in Servers |-> FALSE]
  /\ kernel = [s \in Servers |-> "none"]
  /\ events = 0

(* What a server does by itself once it has been started.                  *)
Proceeds(s) ==
  \/ Load(s) \/ WriteInfo(s) \/ InfoWritten(s) \/ StartLoop(s)
  \/ Bind(s) \/ PostStart(s) \/ RestoreHandler(s) \/ StopCall(s)
  \/ \E p \in Packages : StartPoint(s, p)
  \/ \E c \in Slots : CleanupKernels(s, c) \/ CloseAll(s, c) \/ \E x \in Apps : StopApp(s, c, x)
  \/ KernelStopped(s) \/ Exit(s)
  \/ \E ok \in BOOLEAN : KernelStarts(s, ok)

Stimulus(s) ==
  \/ Initialize(s) \/ Refused(s) \/ Terminate(s) \/ Interrupt(s) \/ KeyboardInterrupt(s) \/ Inactive(s)
  \/ \E reply \in {"yes", "no", "nothing"} : Answer(s, reply)
  \/ RequestKernel(s) \/ Crash(s)

-----------------------------------------------------------------------------
Sound(p) == \A x \in PointsOf(p) : \A hook \in Hooks \ {"stop"} : <<hook, x>> \notin broken

(* Once a server has started its extensions, every point of an enabled     *)
(* package without a faulty hook has been linked, loaded and started,      *)
(* whatever the hooks of the other packages raised and whatever stopped    *)
(* the server meanwhile (extension/manager.py).                            *)
SoundPackagesRun ==
  \A s \in Servers : phase[s] = "running" /\ ext[s].starting = {} /\ ~(\E i \in DOMAIN calls[s] : calls[s][i] = "post_start") =>
    \A p \in jpserver_extensions(s) : Sound(p) => PointsOf(p) \subseteq ext[s].linked \cap ext[s].loaded \cap ext[s].started

(* The cleanup that stops the loop has left no file and no open port, has  *)
(* called the stop hook of every app, and has waited for the kernel that   *)
(* ran when it began, however many cleanups ran side by side (_cleanup).   *)
StopIsClean ==
  \A s \in Servers : \A c \in Slots : cleanup[s][c].at = "done" =>
    /\ info[s] = "none" /\ ~page[s] /\ \A p \in Ports : owner[p] # s
    /\ extension_apps(ext[s].known) \subseteq ext[s].stopped
    /\ ~cleanup[s][c].doomed

(* A SIGINT always leads somewhere: if the next one would stop the server  *)
(* at once, then it is stopping already, or the first has not been         *)
(* answered, or the handler is about to be restored (the docstring of      *)
(* _confirm_exit).                                                         *)
InterruptAsksAgain ==
  \A s \in Servers : Alive(s) /\ sigint[s].on = "stop" =>
    stopping[s] \/ sigint[s].asking \/ \E i \in DOMAIN calls[s] : calls[s][i] = "restore"

(* A server that has been told to stop ends, unless the hook of an         *)
(* extension or a kernel that is not in the map breaks its cleanup.        *)
StopEnds ==
  \A s \in Servers : stopping[s] ~> (phase[s] \in {"stopped", "exited"} \/ aborted[s])

(* A server that has been told to stop ends (the docstring of _stop:       *)
(* "Cleanup resources and stop the IO Loop").                              *)
StopAlwaysEnds ==
  \A s \in Servers : stopping[s] ~> phase[s] \in {"stopped", "exited"}
=============================================================================
