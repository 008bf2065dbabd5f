---------------------------- MODULE SessionKernels ----------------------------
(***************************************************************************)
(* The REST session and kernel handlers over the session table and the     *)
(* kernel map: services/sessions/handlers.py, sessionmanager.py and the    *)
(* start and shutdown paths of services/kernels/kernelmanager.py.          *)
(*                                                                         *)
(* The server is one asyncio loop.  A handler runs without interruption    *)
(* until it awaits a kernel that is starting or shutting down, so each     *)
(* action is one such uninterrupted stretch of one handler.  Awaits that   *)
(* never suspend (the session table is an in-process sqlite cursor) are    *)
(* inside an action.  use_pending_kernels is at its default, False.        *)
(***************************************************************************)
EXTENDS Integers, FiniteSets

CONSTANTS
  Requests, \* slots for HTTP requests that are being served at the same time
  Sessions, \* session ids uuid4 can hand out
  Kernels,  \* kernel ids uuid4 can hand out
  Paths,    \* session paths clients ask for
  None      \* no id, no path

ASSUME NoneAssumption == None \notin Sessions \cup Kernels \cup Paths

VARIABLES
  row,     \* the sqlite table "session"
  pending, \* _pending_sessions: every record in it has a session id, no kernel id
  kernel,  \* the manager's _kernels with the stage of each kernel
  metric,  \* KERNEL_CURRENTLY_RUNNING_TOTAL, all kernel types together
  job      \* what each request is suspended in, or how it was answered

vars == <<row, pending, kernel, metric, job>>

-----------------------------------------------------------------------------
(* Table rows.  "unborn" is an id no INSERT has used; "removed" one whose  *)
(* row a DELETE took: the table shows neither.                             *)
Unborn  == [st |-> "unborn",  path |-> None, kernel |-> None]
Removed == [st |-> "removed", path |-> None, kernel |-> None]
Row(p, k) == [st |-> "row", path |-> p, kernel |-> k]

InTable(s) == row[s].st = "row"

(* A kernel is "new", "launching" (awaited by start_kernel, not in the     *)
(* map), "live", "stopping" (in the map, awaited by shutdown_kernel) or    *)
(* "gone".  "in self.kernel_manager" is membership in _kernels.            *)
Stages == {"new", "launching", "live", "stopping", "gone"}
InMap(k) == k \in Kernels /\ kernel[k] \in {"live", "stopping"}

(* row_to_model finds the kernel of the row.                               *)
IsLive(s) == InTable(s) /\ InMap(row[s].kernel)

(* The table after row_to_model has read the rows of S: the rows whose     *)
(* kernel is no longer in the map are deleted.                             *)
Healed(S) == [s \in Sessions |->
                IF s \in S /\ InTable(s) /\ ~InMap(row[s].kernel)
                  THEN Removed ELSE row[s]]

-----------------------------------------------------------------------------
(* Requests.                                                               *)
Job(at, s, p, old, new, turn) ==
  [at |-> at, sid |-> s, path |-> p, old |-> old, new |-> new,
   turn |-> turn, code |-> 0]

Idle == Job("idle", None, None, None, None, "none")

StartStages == {"create", "patch", "start"}       \* await start_kernel
StopStages  == {"delete", "swapping", "stop"}     \* await shutdown_kernel
Waits       == StartStages \cup StopStages \cup {"swap"}

Suspend(r, what) == job' = [job EXCEPT ![r] = what]

(* The response of r: its status, the session and the kernel it names.     *)
Answer(r, code, s, k) ==
  Suspend(r, [at |-> "done", sid |-> s, path |-> None, old |-> None, new |-> k,
              turn |-> "none", code |-> code])

(* The client has the response and the slot serves another request.        *)
Reuse(r) == /\ job[r].at = "done"
            /\ Suspend(r, Idle)
            /\ UNCHANGED <<row, pending, kernel, metric>>

(* KernelSessionRecordList.update and remove.  Every record in the list is *)
(* one of a session without a kernel, so records are equal when their      *)
(* session ids are, and the list is a set of ids.                          *)
PendingWith(s)    == pending \cup {s}
PendingWithout(s) == pending \ {s}

(* An id a client may name: one the server has issued.                     *)
Issued(s) == row[s].st # "unborn"

(* MappingKernelManager.shutdown_kernel up to its await: the gauge goes    *)
(* down at every call, the kernel is asked to stop at the first one.  A    *)
(* later call awaits the first (multikernelmanager's _pending_kernels).    *)
BeginShutdown(k) ==
  /\ kernel' = [kernel EXCEPT ![k] = "stopping"]
  /\ metric' = metric - 1

(* Mutant: every caller takes itself for the first.                        *)
Turn_AlwaysFirst(k) == "first"

Turn(k) == IF kernel[k] = "live" THEN "first" ELSE "later"

(* Mutant: the id of a kernel that is launching is handed out again.       *)
BeginStart_ReusedId(k) ==
  /\ kernel[k] \in {"new", "launching"}
  /\ kernel' = [kernel EXCEPT ![k] = "launching"]
  /\ UNCHANGED metric

(* start_kernel from its call to its await, for a new id k.                *)
BeginStart(k) ==
  /\ kernel[k] = "new"
  /\ kernel' = [kernel EXCEPT ![k] = "launching"]
  /\ UNCHANGED metric

(* r awaited start_kernel and the launch has ended; the kernel is in the   *)
(* map when _async_start_kernel resumes, or it is not and the start raises *)
(* (launch failed, or somebody shut the kernel down in between).           *)
StartEnded(r, stage) == /\ job[r].at = stage
                        /\ kernel[job[r].new] # "launching"
Started(r, stage)    == StartEnded(r, stage) /\ InMap(job[r].new)
StartFailed(r, stage) == StartEnded(r, stage) /\ ~InMap(job[r].new)

(* Mutants: the handler does not wait for the removal; a later caller is   *)
(* never woken.                                                            *)
ShutdownEnded_NoWait(r, stage, turn) == job[r].at = stage /\ job[r].turn = turn
ShutdownEnded_NoWake(r, stage, turn) ==
  /\ job[r].at = stage /\ job[r].turn = turn /\ turn = "first"
  /\ kernel[job[r].old] # "stopping"

(* r awaited shutdown_kernel and the kernel has been removed.  The call    *)
(* that came first returns; a later one finds no kernel left to remove and *)
(* raises KeyError.                                                        *)
ShutdownEnded(r, stage, turn) == /\ job[r].at = stage /\ job[r].turn = turn
                                 /\ kernel[job[r].old] # "stopping"

-----------------------------------------------------------------------------
(* POST /api/sessions.  session_exists reads the first row for the path    *)
(* (SQL leaves open which one that is) and heals it.                       *)
RowsAt(p) == {s \in Sessions : InTable(s) /\ row[s].path = p}

(* The tables session_exists may leave behind when it returns False.       *)
TablesWithout(p) ==
  IF RowsAt(p) = {} THEN {row}
  ELSE {Healed({s}) : s \in {t \in RowsAt(p) : ~IsLive(t)}}

(* Mutant: session_exists trusts the row without looking at its kernel.    *)
PostExisting_Unhealed(r, p) ==
  /\ job[r] = Idle
  /\ \E s \in RowsAt(p) : Answer(r, 201, s, row[s].kernel)
  /\ UNCHANGED <<row, pending, kernel, metric>>

PostExisting(r, p) ==
  /\ job[r] = Idle
  /\ \E s \in RowsAt(p) : IsLive(s) /\ Answer(r, 201, s, row[s].kernel)
  /\ UNCHANGED <<row, pending, kernel, metric>>

(* create_session on a kernel of the map: no await, so the pending record  *)
(* comes and goes within the step.                                         *)
PostShared(r, p, s, k) ==
  /\ job[r] = Idle
  /\ ~Issued(s) /\ s \notin pending
  /\ InMap(k)
  /\ \E table \in TablesWithout(p) : row' = [table EXCEPT ![s] = Row(p, k)]
  /\ Answer(r, 201, s, k)
  /\ UNCHANGED <<pending, kernel, metric>>

(* create_session that starts a kernel (none was named, or the one named   *)
(* is not in the map).                                                     *)
PostStart(r, p, s, k) ==
  /\ job[r] = Idle
  /\ ~Issued(s) /\ s \notin pending
  /\ row' \in TablesWithout(p)
  /\ pending' = PendingWith(s)
  /\ BeginStart(k)
  /\ Suspend(r, Job("create", s, p, None, k, "none"))

PostFinish(r) ==
  /\ Started(r, "create")
  /\ row' = [row EXCEPT ![job[r].sid] = Row(job[r].path, job[r].new)]
  /\ pending' = PendingWithout(job[r].sid)
  /\ metric' = metric + 1
  /\ Answer(r, 201, job[r].sid, job[r].new)
  /\ UNCHANGED kernel

(* The exception leaves the pending record behind.                         *)
PostFails(r) ==
  /\ StartFailed(r, "create")
  /\ \E code \in {500, 501} : Answer(r, code, None, None)
  /\ UNCHANGED <<row, pending, kernel, metric>>

-----------------------------------------------------------------------------
(* GET /api/sessions/<s> and GET /api/sessions.                            *)
GetSession(r, s) ==
  /\ job[r] = Idle
  /\ IsLive(s)
  /\ Answer(r, 200, s, row[s].kernel)
  /\ UNCHANGED <<row, pending, kernel, metric>>

(* get_session fails: of GET, or of the first line of PATCH.               *)
SessionMissing(r, s) ==
  /\ job[r] = Idle
  /\ Issued(s) /\ ~IsLive(s)
  /\ row' = Healed({s})
  /\ Answer(r, 404, None, None)
  /\ UNCHANGED <<pending, kernel, metric>>

ListSessions(r) ==
  /\ job[r] = Idle
  /\ row' = Healed(Sessions)
  /\ Answer(r, 200, None, None)
  /\ UNCHANGED <<pending, kernel, metric>>

-----------------------------------------------------------------------------
(* PATCH /api/sessions/<s>.  The path p is None when the body has none.    *)
Patched(s, p, k) ==
  [row EXCEPT ![s] = Row(IF p = None THEN row[s].path ELSE p, k)]

(* No change of kernel, or the id of the kernel the session already has.   *)
PatchPath(r, s, p) ==
  /\ job[r] = Idle
  /\ IsLive(s)
  /\ row' = Patched(s, p, row[s].kernel)
  /\ Answer(r, 200, s, row[s].kernel)
  /\ UNCHANGED <<pending, kernel, metric>>

PatchUnknownKernel(r, s, k) ==
  /\ job[r] = Idle
  /\ IsLive(s)
  /\ kernel[k] = "gone"
  /\ Answer(r, 400, None, None)
  /\ UNCHANGED <<row, pending, kernel, metric>>

(* kernel.id: bind to a running kernel, then schedule the shutdown of the  *)
(* one the session had (asyncio.ensure_future runs it at a later turn).    *)
PatchKernelId(r, s, p, k) ==
  /\ job[r] = Idle
  /\ IsLive(s)
  /\ InMap(k) /\ k # row[s].kernel
  /\ row' = Patched(s, p, k)
  /\ Suspend(r, Job("swap", s, None, row[s].kernel, k, "none"))
  /\ UNCHANGED <<pending, kernel, metric>>

(* kernel.name: start a kernel; "old" is the kernel the session had when   *)
(* the handler read it, before the await.                                  *)
PatchKernelName(r, s, p, k) ==
  /\ job[r] = Idle
  /\ IsLive(s)
  /\ BeginStart(k)
  /\ Suspend(r, Job("patch", s, p, row[s].kernel, k, "none"))
  /\ UNCHANGED <<row, pending>>

(* Mutants: update_session does not read the session again; the old kernel *)
(* is forgotten across the await.                                          *)
PatchFinish_NoRecheck(r) ==
  /\ Started(r, "patch")
  /\ InTable(job[r].sid)
  /\ row' = Patched(job[r].sid, job[r].path, job[r].new)
  /\ metric' = metric + 1
  /\ Suspend(r, Job("swap", job[r].sid, None, job[r].old, job[r].new, "none"))
  /\ UNCHANGED <<pending, kernel>>

PatchFinish_OldForgotten(r) ==
  /\ Started(r, "patch")
  /\ IsLive(job[r].sid)
  /\ row' = Patched(job[r].sid, job[r].path, job[r].new)
  /\ metric' = metric + 1
  /\ Suspend(r, Job("swap", job[r].sid, None, None, job[r].new, "none"))
  /\ UNCHANGED <<pending, kernel>>

(* update_session reads the session again: its kernel may have gone while  *)
(* the new one was starting, which leaves the new one to nobody.           *)
PatchFinish(r) ==
  /\ Started(r, "patch")
  /\ IsLive(job[r].sid)
  /\ row' = Patched(job[r].sid, job[r].path, job[r].new)
  /\ metric' = metric + 1
  /\ Suspend(r, Job("swap", job[r].sid, None, job[r].old, job[r].new, "none"))
  /\ UNCHANGED <<pending, kernel>>

PatchLost(r) ==
  /\ Started(r, "patch")
  /\ ~IsLive(job[r].sid)
  /\ row' = Healed({job[r].sid})
  /\ metric' = metric + 1
  /\ Answer(r, 404, None, None)
  /\ UNCHANGED <<pending, kernel>>

PatchFails(r) ==
  /\ StartFailed(r, "patch")
  /\ Answer(r, 501, None, None)
  /\ UNCHANGED <<row, pending, kernel, metric>>

(* The scheduled km.shutdown_kernel(before["kernel"]["id"]); the kernel    *)
(* may be gone already, which is the answer although the table has changed.*)
SwapShutdown(r) ==
  /\ job[r].at = "swap"
  /\ InMap(job[r].old)
  /\ BeginShutdown(job[r].old)
  /\ Suspend(r, Job("swapping", job[r].sid, None, job[r].old, job[r].new,
                    Turn(job[r].old)))
  /\ UNCHANGED <<row, pending>>

SwapGone(r) ==
  /\ job[r].at = "swap"
  /\ ~InMap(job[r].old)
  /\ Answer(r, 404, None, None)
  /\ UNCHANGED <<row, pending, kernel, metric>>

SwapFinish(r) ==
  /\ ShutdownEnded(r, "swapping", "first")
  /\ Answer(r, 200, job[r].sid, job[r].new)
  /\ UNCHANGED <<row, pending, kernel, metric>>

SwapLost(r) ==
  /\ ShutdownEnded(r, "swapping", "later")
  /\ Answer(r, 500, None, None)
  /\ UNCHANGED <<row, pending, kernel, metric>>

-----------------------------------------------------------------------------
(* DELETE /api/sessions/<s>.                                               *)
(* Mutant: the pending record is made without its session id.              *)
DeleteMissing_NoId(r, s) ==
  /\ job[r] = Idle
  /\ Issued(s) /\ ~IsLive(s)
  /\ row' = Healed({s})
  /\ pending' = pending \cup {None}
  /\ Answer(r, 404, None, None)
  /\ UNCHANGED <<kernel, metric>>

DeleteMissing(r, s) ==
  /\ job[r] = Idle
  /\ Issued(s) /\ ~IsLive(s)
  /\ row' = Healed({s})
  /\ pending' = PendingWith(s)
  /\ Answer(r, 404, None, None)
  /\ UNCHANGED <<kernel, metric>>

DeleteShutdown(r, s) ==
  /\ job[r] = Idle
  /\ IsLive(s)
  /\ pending' = PendingWith(s)
  /\ BeginShutdown(row[s].kernel)
  /\ Suspend(r, Job("delete", s, None, row[s].kernel, None, Turn(row[s].kernel)))
  /\ UNCHANGED row

(* Mutant: DELETE FROM session WHERE path=?                                *)
DeleteFinish_ByPath(r) ==
  /\ ShutdownEnded(r, "delete", "first")
  /\ row' = [s \in Sessions |->
               IF s = job[r].sid \/ (InTable(s) /\ row[s].path = row[job[r].sid].path)
                 THEN Removed ELSE row[s]]
  /\ pending' = PendingWithout(job[r].sid)
  /\ Answer(r, 204, job[r].sid, job[r].old)
  /\ UNCHANGED <<kernel, metric>>

(* DELETE FROM session takes whatever row the id has by now.               *)
DeleteFinish(r) ==
  /\ ShutdownEnded(r, "delete", "first")
  /\ row' = [row EXCEPT ![job[r].sid] = Removed]
  /\ pending' = PendingWithout(job[r].sid)
  /\ Answer(r, 204, job[r].sid, job[r].old)
  /\ UNCHANGED <<kernel, metric>>

(* KeyError: "the kernel was deleted but the session wasn't!"              *)
DeleteLost(r) ==
  /\ ShutdownEnded(r, "delete", "later")
  /\ Answer(r, 410, job[r].sid, job[r].old)
  /\ UNCHANGED <<row, pending, kernel, metric>>

-----------------------------------------------------------------------------
(* POST and DELETE /api/kernels.  The culler calls shutdown_kernel the way *)
(* the DELETE handler does, and takes a request slot here while it does.   *)
KernelStart(r, k) ==
  /\ job[r] = Idle
  /\ BeginStart(k)
  /\ Suspend(r, Job("start", None, None, None, k, "none"))
  /\ UNCHANGED <<row, pending>>

KernelStartFinish(r) ==
  /\ Started(r, "start")
  /\ metric' = metric + 1
  /\ Answer(r, 201, None, job[r].new)
  /\ UNCHANGED <<row, pending, kernel>>

KernelStartFails(r) ==
  /\ StartFailed(r, "start")
  /\ Answer(r, 500, None, None)
  /\ UNCHANGED <<row, pending, kernel, metric>>

KernelDelete(r, k) ==
  /\ job[r] = Idle
  /\ InMap(k)
  /\ BeginShutdown(k)
  /\ Suspend(r, Job("stop", None, None, k, None, Turn(k)))
  /\ UNCHANGED <<row, pending>>

KernelDeleteMissing(r, k) ==
  /\ job[r] = Idle
  /\ kernel[k] = "gone"
  /\ Answer(r, 404, None, None)
  /\ UNCHANGED <<row, pending, kernel, metric>>

KernelDeleteFinish(r) ==
  /\ ShutdownEnded(r, "stop", "first")
  /\ Answer(r, 204, None, job[r].old)
  /\ UNCHANGED <<row, pending, kernel, metric>>

KernelDeleteLost(r) ==
  /\ ShutdownEnded(r, "stop", "later")
  /\ Answer(r, 500, None, None)
  /\ UNCHANGED <<row, pending, kernel, metric>>

-----------------------------------------------------------------------------
(* The kernel processes, as jupyter_client reports them.                   *)
SetStage(k, from, to) ==
  /\ kernel[k] = from
  /\ kernel' = [kernel EXCEPT ![k] = to]
  /\ UNCHANGED <<row, pending, metric, job>>

KernelReady(k)   == SetStage(k, "launching", "live")
LaunchFailed(k)  == SetStage(k, "launching", "gone")
(* _remove_kernel_when_ready.                                              *)
KernelRemoved(k) == SetStage(k, "stopping", "gone")

(* _handle_kernel_died, the "dead" restart callback that                   *)
(* _finish_kernel_start registers: not before the start has finished.      *)
KernelDied(k) ==
  /\ \A r \in Requests : job[r].at \in StartStages => job[r].new # k
  /\ SetStage(k, "live", "gone")

(* The server stops or crashes and starts again on the same database file  *)
(* (autocommit: the table is as the last statement left it).               *)
ServerRestart ==
  /\ kernel' = [k \in Kernels |-> IF kernel[k] = "new" THEN "new" ELSE "gone"]
  /\ job' = [r \in Requests |-> Idle]
  /\ pending' = {}
  /\ metric' = 0
  /\ UNCHANGED row

-----------------------------------------------------------------------------
Init ==
  /\ row = [s \in Sessions |-> Unborn]
  /\ pending = {}
  /\ kernel = [k \in Kernels |-> "new"]
  /\ metric = 0
  /\ job = [r \in Requests |-> Idle]

(* What the client of slot r may ask for.                                  *)
Call(r) ==
  \/ ListSessions(r)
  \/ \E p \in Paths : PostExisting(r, p)
  \/ \E p \in Paths, s \in Sessions, k \in Kernels :
        PostShared(r, p, s, k) \/ PostStart(r, p, s, k)
  \/ \E s \in Sessions :
        \/ GetSession(r, s) \/ SessionMissing(r, s)
        \/ DeleteMissing(r, s) \/ DeleteShutdown(r, s)
  \/ \E s \in Sessions, p \in Paths \cup {None} : PatchPath(r, s, p)
  \/ \E s \in Sessions, k \in Kernels : PatchUnknownKernel(r, s, k)
  \/ \E s \in Sessions, p \in Paths \cup {None}, k \in Kernels :
        PatchKernelId(r, s, p, k) \/ PatchKernelName(r, s, p, k)
  \/ \E k \in Kernels :
        KernelStart(r, k) \/ KernelDelete(r, k) \/ KernelDeleteMissing(r, k)

(* A suspended handler of slot r goes on.                                  *)
Resume(r) ==
  \/ PostFinish(r) \/ PostFails(r)
  \/ PatchFinish(r) \/ PatchLost(r) \/ PatchFails(r)
  \/ SwapShutdown(r) \/ SwapGone(r) \/ SwapFinish(r) \/ SwapLost(r)
  \/ DeleteFinish(r) \/ DeleteLost(r)
  \/ KernelStartFinish(r) \/ KernelStartFails(r)
  \/ KernelDeleteFinish(r) \/ KernelDeleteLost(r)

Process(k) == KernelReady(k) \/ LaunchFailed(k) \/ KernelRemoved(k) \/ KernelDied(k)

Next ==
  \/ \E r \in Requests : Call(r) \/ Resume(r) \/ Reuse(r)
  \/ \E k \in Kernels : Process(k)
  \/ ServerRestart

Spec == Init /\ [][Next]_vars

(* The loop runs every ready handler, a launch succeeds or fails, and a    *)
(* kernel asked to stop is killed when it does not (jupyter_client bounds  *)
(* both).  Nothing makes a client send a request.                          *)
Fairness ==
  /\ \A r \in Requests : WF_vars(Resume(r))
  /\ \A k \in Kernels : /\ WF_vars(KernelReady(k) \/ LaunchFailed(k))
                        /\ WF_vars(KernelRemoved(k))

FairSpec == Spec /\ Fairness

-----------------------------------------------------------------------------
RowType == [st: {"unborn", "row", "removed"},
            path: Paths \cup {None}, kernel: Kernels \cup {None}]

JobType == [at: {"idle", "done"} \cup Waits, sid: Sessions \cup {None},
            path: Paths \cup {None}, old: Kernels \cup {None},
            new: Kernels \cup {None}, turn: {"none", "first", "later"}, code: Nat]

TypeOK ==
  /\ row \in [Sessions -> RowType]
  /\ pending \subseteq Sessions
  /\ kernel \in [Kernels -> Stages]
  /\ metric \in Int
  /\ job \in [Requests -> JobType]

(* Requests that own the launch of k, and requests that will report the    *)
(* removal of k as their own doing.                                        *)
Launchers(k) == {r \in Requests : job[r].at \in StartStages /\ job[r].new = k}
Reapers(k) == {r \in Requests : /\ job[r].at \in StopStages
                                /\ job[r].turn = "first" /\ job[r].old = k}

(* Two shutdowns of one kernel (DELETE session, PATCH, DELETE kernel, the  *)
(* culler) overlap freely, yet exactly one of them is the one that removes *)
(* it: a kernel that is stopping has one reaper, none has two, and a       *)
(* reaper's kernel has not come back.                                      *)
OneReaper ==
  \A k \in Kernels :
     /\ kernel[k] = "stopping" => Reapers(k) # {}
     /\ \A r \in Reapers(k) : kernel[k] \in {"stopping", "gone"}
     /\ \A r1, r2 \in Reapers(k) : r1 = r2

(* A kernel id and a session id belong to one start at a time: while a     *)
(* launch is awaited exactly one handler awaits it, and the session id it  *)
(* reserved is in nobody's hands and not in the table.                     *)
OneLauncher ==
  /\ \A k \in Kernels :
        /\ kernel[k] = "launching" => Launchers(k) # {}
        /\ \A r1, r2 \in Launchers(k) : r1 = r2
  /\ \A r \in Requests : job[r].at = "create" =>
        /\ job[r].sid \in pending /\ row[job[r].sid] = Unborn
        /\ \A r2 \in Requests : job[r2].at = "create" /\ job[r2].sid = job[r].sid => r2 = r

(* The table never shows a session on a kernel that has not been started,  *)
(* and what a suspended handler remembers across its await stays usable:   *)
(* the session it will update or delete has been inserted, the kernels it  *)
(* will shut down or bind have been started.                               *)
HandlersConsistent ==
  /\ \A s \in Sessions :
        \/ row[s] \in {Unborn, Removed}
        \/ /\ row[s].st = "row" /\ row[s].path \in Paths /\ row[s].kernel \in Kernels
           /\ kernel[row[s].kernel] \notin {"new", "launching"}
  /\ \A r \in Requests :
        /\ job[r].at \in {"create", "patch", "swap", "swapping", "delete"} =>
              job[r].sid \in Sessions
        /\ job[r].at \in {"patch", "swap", "swapping", "delete"} => Issued(job[r].sid)
        /\ job[r].at = "create" => job[r].path \in Paths
        /\ job[r].at \in StartStages => job[r].new \in Kernels /\ kernel[job[r].new] # "new"
        /\ job[r].at \in StopStages \cup {"patch", "swap"} =>
              job[r].old \in Kernels /\ kernel[job[r].old] \notin {"new", "launching"}

(* A 201 for a session names one that is in the table at that moment, on   *)
(* that kernel, with the kernel in the map: neither session_exists nor     *)
(* create_session answers from a row whose kernel has gone.                *)
PostAnswers ==
  \A r \in Requests :
     job[r].at \in {"idle", "create"} /\ job'[r].at = "done" /\ job'[r].code = 201 =>
        LET s == job'[r].sid IN /\ row'[s].st = "row"
                                /\ row'[s].kernel = job'[r].new
                                /\ kernel'[job'[r].new] \in {"live", "stopping"}

PostAnswersOpenSession == [][PostAnswers]_vars

(* While its kernel is in the map a session leaves the table only by a     *)
(* DELETE of that session that succeeds, whoever else reads, renames or    *)
(* shuts down around it.                                                   *)
RemovedByDelete ==
  \A s \in Sessions :
     IsLive(s) /\ row'[s].st # "row" =>
        \E r \in Requests : /\ job[r].at = "delete" /\ job[r].sid = s
                            /\ job'[r].code = 204

SessionSurvives == [][RemovedByDelete]_vars

(* Success of a request that awaited a shutdown (204 of both DELETEs, 200  *)
(* of a PATCH that exchanged the kernel) means that the kernel it shut     *)
(* down has left the map, and for DELETE session that the row is gone.     *)
GoneOnSuccess ==
  \A r \in Requests :
     job[r].at \in StopStages /\ job'[r].at = "done" /\ job'[r].code \in {200, 204} =>
        /\ kernel'[job[r].old] = "gone"
        /\ job[r].at = "delete" => row'[job[r].sid].st # "row"

SuccessMeansGone == [][GoneOnSuccess]_vars

(* What a client can tell from the table and the map: the session of a row *)
(* is open while its kernel is in the map.                                 *)
SessionView ==
  [s \in Sessions |->
     IF row[s].st = "unborn" THEN [st |-> "fresh"]
     ELSE IF IsLive(s)
       THEN [st |-> "open", path |-> row[s].path, kernel |-> row[s].kernel]
     ELSE [st |-> "closed"]]

KernelView ==
  [k \in Kernels |->
     IF InMap(k) THEN "running"
     ELSE IF kernel[k] \in {"new", "launching"} THEN "unused" ELSE "dead"]

Lifecycle == INSTANCE SessionLifecycle WITH session <- SessionView, kernel <- KernelView

(* Every step of every handler is one step of the atomic service or none:  *)
(* a session opens once, sits on a running kernel while it is open, and    *)
(* never comes back after it closed, not even by a PATCH that was starting *)
(* a kernel for it when the old one died.                                  *)
ImplementsLifecycle == Lifecycle!Spec

(* A request that waits for a kernel is answered.                          *)
EveryRequestAnswered ==
  \A r \in Requests : job[r].at \in Waits ~> job[r].at \notin Waits

-----------------------------------------------------------------------------
(* Statements of the repository that the code does not keep.               *)

(* handlers.py:49 and api.yaml:426: POST creates a session unless one      *)
(* exists for the path.                                                    *)
PostReusesSession ==
  [][\A r \in Requests : job[r].at = "create" /\ job'[r].code = 201 =>
        \A s \in RowsAt(job[r].path) : ~IsLive(s)]_vars

(* api.yaml:410: 204 says that the session and its kernel were deleted.    *)
DeleteTakesTheKernel ==
  [][\A r \in Requests :
        job[r].at = "delete" /\ job'[r].code = 204 /\ InTable(job[r].sid)
        => kernel'[row[job[r].sid].kernel] \notin {"live", "stopping"}]_vars

(* metrics.py:50: the gauge counts the kernels that are running; looked at *)
(* when no request is under way.                                           *)
GaugeCountsKernels ==
  (\A r \in Requests : job[r].at \in {"idle", "done"}) =>
     metric = Cardinality({k \in Kernels : InMap(k)})
=============================================================================
