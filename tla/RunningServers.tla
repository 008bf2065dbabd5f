---------------------------- MODULE RunningServers ----------------------------
(***************************************************************************)
(* Servers and the commands that act on them from another process:         *)
(* "jupyter server list" and "jupyter server stop" (serverapp.py:          *)
(* list_running_servers, shutdown_server, JupyterServerStopApp,            *)
(* JupyterServerListApp).                                                  *)
(*                                                                         *)
(* A command lists the directory of the info files, reads them one by one, *)
(* and removes a file whose process is gone.  To stop a server it asks it  *)
(* to, waits for its process to end, and sends it signals if it does not.  *)
(***************************************************************************)
EXTENDS ServerLifecycle

VARIABLES
  cli  \* the command: where it is, files to read, servers found, the one it acts on
allvars == <<vars, cli>>

Idle == [at |-> "idle", todo |-> {}, seen |-> {}, on |-> Nobody]
CliStates == {"idle", "listing", "unlinking", "waiting", "polling", "killing"}

(* list_running_servers                                                    *)
ListFiles ==
  /\ Event /\ cli.at = "idle"
  /\ cli' = [Idle EXCEPT !.at = "listing", !.todo = {s \in Servers : info[s] # "none"}]
  /\ UNCHANGED <<startup, phase, calls, owner, signals, cleanup, aborted, kernel>>

(* Mutant: a file that cannot be parsed is taken for a leftover.           *)
ReadFile_TornIsDead(s) ==
  /\ cli.at = "listing" /\ s \in cli.todo
  /\ cli' = IF info[s] = "none" THEN Idle
            ELSE IF info[s] = "full" /\ Alive(s)
                 THEN [cli EXCEPT !.todo = @ \ {s}, !.seen = @ \cup {s}]
                 ELSE [cli EXCEPT !.todo = @ \ {s}, !.at = "unlinking", !.on = s]
  /\ UNCHANGED vars

(* A file that has gone since the directory was read ends the command; one *)
(* that is being written is passed over.                                   *)
ReadFile(s) ==
  /\ cli.at = "listing" /\ s \in cli.todo
  /\ cli' = CASE info[s] = "none" -> Idle
              [] info[s] = "torn" -> [cli EXCEPT !.todo = @ \ {s}]
              [] info[s] = "full" /\ Alive(s) -> [cli EXCEPT !.todo = @ \ {s}, !.seen = @ \cup {s}]
              [] info[s] = "full" /\ ~Alive(s) -> [cli EXCEPT !.todo = @ \ {s}, !.at = "unlinking", !.on = s]
  /\ UNCHANGED vars

UnlinkFile(s) ==
  /\ cli.at = "unlinking" /\ cli.on = s
  /\ info' = [info EXCEPT ![s] = "none"]
  /\ cli' = [cli EXCEPT !.at = "listing", !.on = Nobody]
  /\ UNCHANGED <<broken, phase, calls, ext, port, owner, page, signals, cleanup, aborted, kernel, events>>

Listed == cli.at = "listing" /\ cli.todo = {}

(* The list, or a stop that finds no server on its port.                   *)
EndCommand ==
  /\ Listed
  /\ cli' = Idle
  /\ UNCHANGED vars

(* JupyterServerStopApp.start and shutdown_server: the first server on the *)
(* port is sent a request at the address its file gives, with its token.   *)
(* Nobody or another server may listen there: the command ends.            *)
RequestShutdown(s) ==
  /\ Listed /\ s \in cli.seen
  /\ IF phase[s] = "running" /\ owner[port[s].number] = s
     THEN /\ Event /\ Cleans(s)
          /\ cli' = [cli EXCEPT !.at = "waiting", !.on = s]
     ELSE cli' = Idle /\ UNCHANGED <<files, cleanup, events>>
  /\ UNCHANGED <<broken, phase, calls, ext, port, owner, signals, aborted, kernel>>

(* The answer of ShutdownHandler comes when the loop has been stopped.  An *)
(* error, a connection that is closed or the time limit ends the command.  *)
Answered(s, ok) ==
  /\ cli.at = "waiting" /\ cli.on = s
  /\ ok => phase[s] \in {"stopped", "exited"}
  /\ cli' = IF ok THEN [cli EXCEPT !.at = "polling"] ELSE Idle
  /\ UNCHANGED vars

(* The process is looked for until it is gone, or for five seconds.        *)
ProcessGone(s) ==
  /\ cli.at \in {"polling", "killing"} /\ cli.on = s /\ ~Alive(s)
  /\ cli' = Idle
  /\ UNCHANGED vars

SendTerm(s) ==
  /\ cli.at = "polling" /\ cli.on = s /\ Alive(s)
  /\ Stop(s)
  /\ cli' = [cli EXCEPT !.at = "killing"]
  /\ UNCHANGED <<startup, phase, sigint, cleanup, aborted, kernel, events>>

SendKill(s) ==
  /\ cli.at = "killing" /\ cli.on = s /\ Alive(s)
  /\ Died(s)
  /\ cli' = Idle
  /\ UNCHANGED <<startup, stopping, aborted, events>>

-----------------------------------------------------------------------------
CliStep ==
  \/ EndCommand
  \/ \E s \in Servers :
       \/ ReadFile(s) \/ UnlinkFile(s) \/ RequestShutdown(s)
       \/ \E ok \in BOOLEAN : Answered(s, ok)
       \/ ProcessGone(s) \/ SendTerm(s) \/ SendKill(s)

Server(s) == (Proceeds(s) \/ Stimulus(s)) /\ UNCHANGED cli
AllInit == Init /\ cli = Idle
Next == ListFiles \/ CliStep \/ \E s \in Servers : Server(s)

(* A loop runs the callbacks it holds, hooks return or raise, and kernels  *)
(* start, fail or end.  Nothing is assumed of signals or of the command.   *)
Fairness == \A s \in Servers : WF_allvars(Proceeds(s) /\ UNCHANGED cli)
Spec == AllInit /\ [][Next]_allvars /\ Fairness

-----------------------------------------------------------------------------
TypeOK ==
  /\ broken \subseteq Hooks \X Points
  /\ phase \in [Servers -> Phases]
  /\ \A s \in Servers : \A i \in DOMAIN calls[s] : calls[s][i] \in {"bind", "post_start", "restore", "stop"}
  /\ \A s \in Servers : ext[s].known \cup ext[s].starting \subseteq Packages
  /\ \A s \in Servers : UNION {ext[s].linked, ext[s].loaded, ext[s].started, ext[s].stopped} \subseteq Points
  /\ port \in [Servers -> [number : Ports \cup {Nobody}, bound : BOOLEAN]]
  /\ owner \in [Ports -> Servers \cup {Nobody}]
  /\ info \in [Servers -> {"none", "torn", "full"}] /\ page \in [Servers -> BOOLEAN]
  /\ sigint \in [Servers -> [on : {"confirm", "stop"}, asking : BOOLEAN]]
  /\ stopping \in [Servers -> BOOLEAN] /\ aborted \in [Servers -> BOOLEAN]
  /\ kernel \in [Servers -> {"none", "starting", "running", "failed", "stopping", "gone"}]
  /\ cli \in [at : CliStates, todo : SUBSET Servers, seen : SUBSET Servers, on : Servers \cup {Nobody}]

(* A server that runs and that nothing has told to stop can be found: its  *)
(* info file is there and complete, whatever commands looked at it while   *)
(* it was written and whatever other servers did (list_running_servers).   *)
ListedWhileServing ==
  \A s \in Servers :
    phase[s] = "running" /\ ~stopping[s] /\ ~aborted[s] /\ (\A c \in Slots : cleanup[s][c].at = "none")
      => info[s] = "full"
=============================================================================
