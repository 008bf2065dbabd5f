------------------------ MODULE SessionKernels_proofs ------------------------
(***************************************************************************)
(* SessionKernels, for any number of requests, sessions, kernels and       *)
(* paths: its invariants, its action properties and the theorem that it    *)
(* implements SessionLifecycle.                                            *)
(*                                                                         *)
(* TypeOK is inductive.  HandlersConsistent is inductive given TypeOK.     *)
(* OneReaper and OneLauncher each need both of them.  The four together    *)
(* are the inductive invariant; the action properties and the refinement   *)
(* follow from it for each step.                                           *)
(***************************************************************************)
EXTENDS SessionKernels, TLAPS

USE NoneAssumption DEF Stages, StartStages, StopStages, Waits, JobType, RowType,
                         PendingWith, PendingWithout

-----------------------------------------------------------------------------
(* Types.                                                                  *)
LEMMA TypeStep == TypeOK /\ [Next]_vars => TypeOK'
<1> SUFFICES ASSUME TypeOK, [Next]_vars PROVE TypeOK'
  OBVIOUS
<1> USE DEF TypeOK, Suspend, Answer, Job, Idle, Unborn, Removed, Row, Healed
<1>1. ASSUME NEW r \in Requests, Call(r) PROVE TypeOK'
  <2>1. CASE ListSessions(r)
    BY <2>1 DEF ListSessions
  <2>2. ASSUME NEW p \in Paths, PostExisting(r, p)
       PROVE TypeOK'
    BY <2>2 DEF PostExisting, RowsAt
  <2>3. ASSUME NEW p \in Paths, NEW s \in Sessions, NEW k \in Kernels, PostShared(r, p, s, k)
       PROVE TypeOK'
    BY <2>3 DEF PostShared, TablesWithout, RowsAt
  <2>4. ASSUME NEW p \in Paths, NEW s \in Sessions, NEW k \in Kernels, PostStart(r, p, s, k)
       PROVE TypeOK'
    BY <2>4 DEF PostStart, TablesWithout, RowsAt, BeginStart
  <2>5. ASSUME NEW s \in Sessions, GetSession(r, s)
       PROVE TypeOK'
    BY <2>5 DEF GetSession
  <2>6. ASSUME NEW s \in Sessions, SessionMissing(r, s)
       PROVE TypeOK'
    BY <2>6 DEF SessionMissing
  <2>7. ASSUME NEW s \in Sessions, DeleteMissing(r, s)
       PROVE TypeOK'
    BY <2>7 DEF DeleteMissing
  <2>8. ASSUME NEW s \in Sessions, DeleteShutdown(r, s)
       PROVE TypeOK'
    BY <2>8 DEF DeleteShutdown, BeginShutdown, Turn, IsLive, InMap
  <2>9. ASSUME NEW s \in Sessions, NEW p \in Paths \cup {None}, PatchPath(r, s, p)
       PROVE TypeOK'
    BY <2>9 DEF PatchPath, Patched
  <2>10. ASSUME NEW s \in Sessions, NEW k \in Kernels, PatchUnknownKernel(r, s, k)
       PROVE TypeOK'
    BY <2>10 DEF PatchUnknownKernel
  <2>11. ASSUME NEW s \in Sessions, NEW p \in Paths \cup {None}, NEW k \in Kernels, PatchKernelId(r, s, p, k)
       PROVE TypeOK'
    BY <2>11 DEF PatchKernelId, Patched
  <2>12. ASSUME NEW s \in Sessions, NEW p \in Paths \cup {None}, NEW k \in Kernels, PatchKernelName(r, s, p, k)
       PROVE TypeOK'
    BY <2>12 DEF PatchKernelName, BeginStart
  <2>13. ASSUME NEW k \in Kernels, KernelStart(r, k)
       PROVE TypeOK'
    BY <2>13 DEF KernelStart, BeginStart
  <2>14. ASSUME NEW k \in Kernels, KernelDelete(r, k)
       PROVE TypeOK'
    BY <2>14 DEF KernelDelete, BeginShutdown, Turn
  <2>15. ASSUME NEW k \in Kernels, KernelDeleteMissing(r, k)
       PROVE TypeOK'
    BY <2>15 DEF KernelDeleteMissing
  <2> QED BY <1>1, <2>1, <2>2, <2>3, <2>4, <2>5, <2>6, <2>7, <2>8, <2>9, <2>10, <2>11, <2>12, <2>13, <2>14, <2>15 DEF Call
<1>2. ASSUME NEW r \in Requests, Resume(r) PROVE TypeOK'
  <2>1. CASE PostFinish(r)
    <3>1. job[r] \in JobType OBVIOUS
    <3>2. row' \in [Sessions -> RowType] BY <2>1, <3>1 DEF PostFinish, Started, StartEnded
    <3>3. job' \in [Requests -> JobType] BY <2>1, <3>1 DEF PostFinish, Started, StartEnded
    <3>4. kernel' \in [Kernels -> Stages] /\ pending' \subseteq Sessions /\ metric' \in Int
       BY <2>1, <3>1 DEF PostFinish, Started, StartEnded
    <3> QED BY <3>2, <3>3, <3>4
  <2>2. CASE PostFails(r)
    BY <2>2 DEF PostFails, StartFailed, StartEnded
  <2>3. CASE PatchFinish(r)
    <3>1. job[r] \in JobType OBVIOUS
    <3>2. row' \in [Sessions -> RowType] BY <2>3, <3>1 DEF PatchFinish, Started, StartEnded, Patched
    <3>3. job' \in [Requests -> JobType] BY <2>3, <3>1 DEF PatchFinish, Started, StartEnded, Patched
    <3>4. kernel' \in [Kernels -> Stages] /\ pending' \subseteq Sessions /\ metric' \in Int
       BY <2>3, <3>1 DEF PatchFinish, Started, StartEnded, Patched
    <3> QED BY <3>2, <3>3, <3>4
  <2>4. CASE PatchLost(r)
    BY <2>4 DEF PatchLost, Started, StartEnded
  <2>5. CASE PatchFails(r)
    BY <2>5 DEF PatchFails, StartFailed, StartEnded
  <2>6. CASE SwapShutdown(r)
    <3>1. job[r] \in JobType OBVIOUS
    <3>2. row' \in [Sessions -> RowType] BY <2>6, <3>1 DEF SwapShutdown, BeginShutdown, Turn, InMap
    <3>3. job' \in [Requests -> JobType] BY <2>6, <3>1 DEF SwapShutdown, BeginShutdown, Turn, InMap
    <3>4. kernel' \in [Kernels -> Stages] /\ pending' \subseteq Sessions /\ metric' \in Int
       BY <2>6, <3>1 DEF SwapShutdown, BeginShutdown, Turn, InMap
    <3> QED BY <3>2, <3>3, <3>4
  <2>7. CASE SwapGone(r)
    BY <2>7 DEF SwapGone
  <2>8. CASE SwapFinish(r)
    BY <2>8 DEF SwapFinish, ShutdownEnded
  <2>9. CASE SwapLost(r)
    BY <2>9 DEF SwapLost, ShutdownEnded
  <2>10. CASE DeleteFinish(r)
    BY <2>10, ZenonT(60) DEF DeleteFinish, ShutdownEnded
  <2>11. CASE DeleteLost(r)
    BY <2>11 DEF DeleteLost, ShutdownEnded
  <2>12. CASE KernelStartFinish(r)
    BY <2>12 DEF KernelStartFinish, Started, StartEnded
  <2>13. CASE KernelStartFails(r)
    BY <2>13 DEF KernelStartFails, StartFailed, StartEnded
  <2>14. CASE KernelDeleteFinish(r)
    BY <2>14 DEF KernelDeleteFinish, ShutdownEnded
  <2>15. CASE KernelDeleteLost(r)
    BY <2>15 DEF KernelDeleteLost, ShutdownEnded
  <2> QED BY <1>2, <2>1, <2>2, <2>3, <2>4, <2>5, <2>6, <2>7, <2>8, <2>9, <2>10, <2>11, <2>12, <2>13, <2>14, <2>15 DEF Resume
<1>3. ASSUME NEW r \in Requests, Reuse(r) PROVE TypeOK'
  BY <1>3 DEF Reuse
<1>4. ASSUME NEW k \in Kernels, Process(k) PROVE TypeOK'
  BY <1>4 DEF Process, KernelReady, LaunchFailed, KernelRemoved, KernelDied, SetStage
<1>5. CASE ServerRestart
  BY <1>5 DEF ServerRestart
<1>6. CASE UNCHANGED vars
  BY <1>6 DEF vars
<1> QED BY <1>1, <1>2, <1>3, <1>4, <1>5, <1>6 DEF Next

(* Every variable keeps its type.                                          *)
THEOREM Typing == Spec => []TypeOK
<1>1. Init => TypeOK
  BY DEF Init, TypeOK, Idle, Job, Unborn
<1> QED BY <1>1, TypeStep, PTL DEF Spec

-----------------------------------------------------------------------------
(* The table and what suspended handlers remember.                         *)
LEMMA ConsistentStep == TypeOK /\ HandlersConsistent /\ [Next]_vars => HandlersConsistent'
<1> SUFFICES ASSUME TypeOK, HandlersConsistent, [Next]_vars PROVE HandlersConsistent'
  OBVIOUS
<1> USE DEF TypeOK, HandlersConsistent, Suspend, Answer, Job, Idle, Unborn, Removed,
            Row, Healed, InTable, InMap, IsLive, Issued
<1>1. ASSUME NEW r \in Requests, Call(r) PROVE HandlersConsistent'
  <2>1. CASE ListSessions(r)
    BY <2>1 DEF ListSessions
  <2>2. ASSUME NEW p \in Paths, PostExisting(r, p)
       PROVE HandlersConsistent'
    BY <2>2 DEF PostExisting, RowsAt
  <2>3. ASSUME NEW p \in Paths, NEW s \in Sessions, NEW k \in Kernels, PostShared(r, p, s, k)
       PROVE HandlersConsistent'
    BY <2>3 DEF PostShared, TablesWithout, RowsAt
  <2>4. ASSUME NEW p \in Paths, NEW s \in Sessions, NEW k \in Kernels, PostStart(r, p, s, k)
       PROVE HandlersConsistent'
    BY <2>4 DEF PostStart, TablesWithout, RowsAt, BeginStart
  <2>5. ASSUME NEW s \in Sessions, GetSession(r, s)
       PROVE HandlersConsistent'
    BY <2>5 DEF GetSession
  <2>6. ASSUME NEW s \in Sessions, SessionMissing(r, s)
       PROVE HandlersConsistent'
    BY <2>6 DEF SessionMissing
  <2>7. ASSUME NEW s \in Sessions, DeleteMissing(r, s)
       PROVE HandlersConsistent'
    BY <2>7 DEF DeleteMissing
  <2>8. ASSUME NEW s \in Sessions, DeleteShutdown(r, s)
       PROVE HandlersConsistent'
    BY <2>8 DEF DeleteShutdown, BeginShutdown, Turn
  <2>9. ASSUME NEW s \in Sessions, NEW p \in Paths \cup {None}, PatchPath(r, s, p)
       PROVE HandlersConsistent'
    BY <2>9 DEF PatchPath, Patched
  <2>10. ASSUME NEW s \in Sessions, NEW k \in Kernels, PatchUnknownKernel(r, s, k)
       PROVE HandlersConsistent'
    BY <2>10 DEF PatchUnknownKernel
  <2>11. ASSUME NEW s \in Sessions, NEW p \in Paths \cup {None}, NEW k \in Kernels, PatchKernelId(r, s, p, k)
       PROVE HandlersConsistent'
    BY <2>11 DEF PatchKernelId, Patched
  <2>12. ASSUME NEW s \in Sessions, NEW p \in Paths \cup {None}, NEW k \in Kernels, PatchKernelName(r, s, p, k)
       PROVE HandlersConsistent'
    BY <2>12 DEF PatchKernelName, BeginStart
  <2>13. ASSUME NEW k \in Kernels, KernelStart(r, k)
       PROVE HandlersConsistent'
    BY <2>13 DEF KernelStart, BeginStart
  <2>14. ASSUME NEW k \in Kernels, KernelDelete(r, k)
       PROVE HandlersConsistent'
    BY <2>14 DEF KernelDelete, BeginShutdown, Turn
  <2>15. ASSUME NEW k \in Kernels, KernelDeleteMissing(r, k)
       PROVE HandlersConsistent'
    BY <2>15 DEF KernelDeleteMissing
  <2> QED BY <1>1, <2>1, <2>2, <2>3, <2>4, <2>5, <2>6, <2>7, <2>8, <2>9, <2>10, <2>11, <2>12, <2>13, <2>14, <2>15 DEF Call
<1>2. ASSUME NEW r \in Requests, Resume(r) PROVE HandlersConsistent'
  <2>1. CASE PostFinish(r)
    BY <2>1 DEF PostFinish, Started, StartEnded
  <2>2. CASE PostFails(r)
    BY <2>2 DEF PostFails, StartFailed, StartEnded
  <2>3. CASE PatchFinish(r)
    BY <2>3 DEF PatchFinish, Started, StartEnded, Patched
  <2>4. CASE PatchLost(r)
    BY <2>4, SMTT(30) DEF PatchLost, Started, StartEnded
  <2>5. CASE PatchFails(r)
    BY <2>5 DEF PatchFails, StartFailed, StartEnded
  <2>6. CASE SwapShutdown(r)
    BY <2>6 DEF SwapShutdown, BeginShutdown, Turn
  <2>7. CASE SwapGone(r)
    BY <2>7 DEF SwapGone
  <2>8. CASE SwapFinish(r)
    BY <2>8 DEF SwapFinish, ShutdownEnded
  <2>9. CASE SwapLost(r)
    BY <2>9 DEF SwapLost, ShutdownEnded
  <2>10. CASE DeleteFinish(r)
    BY <2>10 DEF DeleteFinish, ShutdownEnded
  <2>11. CASE DeleteLost(r)
    BY <2>11 DEF DeleteLost, ShutdownEnded
  <2>12. CASE KernelStartFinish(r)
    BY <2>12 DEF KernelStartFinish, Started, StartEnded
  <2>13. CASE KernelStartFails(r)
    BY <2>13 DEF KernelStartFails, StartFailed, StartEnded
  <2>14. CASE KernelDeleteFinish(r)
    BY <2>14 DEF KernelDeleteFinish, ShutdownEnded
  <2>15. CASE KernelDeleteLost(r)
    BY <2>15 DEF KernelDeleteLost, ShutdownEnded
  <2> QED BY <1>2, <2>1, <2>2, <2>3, <2>4, <2>5, <2>6, <2>7, <2>8, <2>9, <2>10, <2>11, <2>12, <2>13, <2>14, <2>15 DEF Resume
<1>3. ASSUME NEW r \in Requests, Reuse(r) PROVE HandlersConsistent'
  BY <1>3 DEF Reuse
<1>4. ASSUME NEW k \in Kernels, Process(k) PROVE HandlersConsistent'
  BY <1>4 DEF Process, KernelReady, LaunchFailed, KernelRemoved, KernelDied, SetStage
<1>5. CASE ServerRestart
  BY <1>5 DEF ServerRestart
<1>6. CASE UNCHANGED vars
  BY <1>6 DEF vars
<1> QED BY <1>1, <1>2, <1>3, <1>4, <1>5, <1>6 DEF Next

(* What a handler remembers across an await can still be acted on.         *)
THEOREM Consistency == Spec => []HandlersConsistent
<1>1. Init => HandlersConsistent
  BY DEF Init, HandlersConsistent, Idle, Job, Unborn
<1> QED BY <1>1, ConsistentStep, Typing, PTL DEF Spec

-----------------------------------------------------------------------------
(* Shutdowns.                                                              *)
LEMMA ReaperStep == TypeOK /\ HandlersConsistent /\ OneReaper /\ [Next]_vars => OneReaper'
<1> SUFFICES ASSUME TypeOK, HandlersConsistent, OneReaper, [Next]_vars PROVE OneReaper'
  OBVIOUS
<1> USE DEF TypeOK, HandlersConsistent, OneReaper, Reapers, Suspend, Answer, Job, Idle,
            InTable, InMap, IsLive
<1>1. ASSUME NEW r \in Requests, Call(r) PROVE OneReaper'
  <2>1. CASE ListSessions(r)
    BY <2>1 DEF ListSessions
  <2>2. ASSUME NEW p \in Paths, PostExisting(r, p)
       PROVE OneReaper'
    BY <2>2 DEF PostExisting, RowsAt
  <2>3. ASSUME NEW p \in Paths, NEW s \in Sessions, NEW k \in Kernels, PostShared(r, p, s, k)
       PROVE OneReaper'
    BY <2>3 DEF PostShared, TablesWithout, RowsAt
  <2>4. ASSUME NEW p \in Paths, NEW s \in Sessions, NEW k \in Kernels, PostStart(r, p, s, k)
       PROVE OneReaper'
    BY <2>4 DEF PostStart, TablesWithout, RowsAt, BeginStart
  <2>5. ASSUME NEW s \in Sessions, GetSession(r, s)
       PROVE OneReaper'
    BY <2>5 DEF GetSession
  <2>6. ASSUME NEW s \in Sessions, SessionMissing(r, s)
       PROVE OneReaper'
    BY <2>6 DEF SessionMissing
  <2>7. ASSUME NEW s \in Sessions, DeleteMissing(r, s)
       PROVE OneReaper'
    BY <2>7 DEF DeleteMissing
  <2>8. ASSUME NEW s \in Sessions, DeleteShutdown(r, s)
       PROVE OneReaper'
    BY <2>8 DEF DeleteShutdown, BeginShutdown, Turn
  <2>9. ASSUME NEW s \in Sessions, NEW p \in Paths \cup {None}, PatchPath(r, s, p)
       PROVE OneReaper'
    BY <2>9 DEF PatchPath, Patched
  <2>10. ASSUME NEW s \in Sessions, NEW k \in Kernels, PatchUnknownKernel(r, s, k)
       PROVE OneReaper'
    BY <2>10 DEF PatchUnknownKernel
  <2>11. ASSUME NEW s \in Sessions, NEW p \in Paths \cup {None}, NEW k \in Kernels, PatchKernelId(r, s, p, k)
       PROVE OneReaper'
    BY <2>11 DEF PatchKernelId, Patched
  <2>12. ASSUME NEW s \in Sessions, NEW p \in Paths \cup {None}, NEW k \in Kernels, PatchKernelName(r, s, p, k)
       PROVE OneReaper'
    BY <2>12 DEF PatchKernelName, BeginStart
  <2>13. ASSUME NEW k \in Kernels, KernelStart(r, k)
       PROVE OneReaper'
    BY <2>13 DEF KernelStart, BeginStart
  <2>14. ASSUME NEW k \in Kernels, KernelDelete(r, k)
       PROVE OneReaper'
    BY <2>14 DEF KernelDelete, BeginShutdown, Turn
  <2>15. ASSUME NEW k \in Kernels, KernelDeleteMissing(r, k)
       PROVE OneReaper'
    BY <2>15 DEF KernelDeleteMissing
  <2> QED BY <1>1, <2>1, <2>2, <2>3, <2>4, <2>5, <2>6, <2>7, <2>8, <2>9, <2>10, <2>11, <2>12, <2>13, <2>14, <2>15 DEF Call
<1>2. ASSUME NEW r \in Requests, Resume(r) PROVE OneReaper'
  <2>1. CASE PostFinish(r)
    BY <2>1 DEF PostFinish, Started, StartEnded
  <2>2. CASE PostFails(r)
    BY <2>2 DEF PostFails, StartFailed, StartEnded
  <2>3. CASE PatchFinish(r)
    BY <2>3 DEF PatchFinish, Started, StartEnded, Patched
  <2>4. CASE PatchLost(r)
    BY <2>4 DEF PatchLost, Started, StartEnded
  <2>5. CASE PatchFails(r)
    BY <2>5 DEF PatchFails, StartFailed, StartEnded
  <2>6. CASE SwapShutdown(r)
    BY <2>6 DEF SwapShutdown, BeginShutdown, Turn
  <2>7. CASE SwapGone(r)
    BY <2>7 DEF SwapGone
  <2>8. CASE SwapFinish(r)
    BY <2>8 DEF SwapFinish, ShutdownEnded
  <2>9. CASE SwapLost(r)
    BY <2>9 DEF SwapLost, ShutdownEnded
  <2>10. CASE DeleteFinish(r)
    BY <2>10 DEF DeleteFinish, ShutdownEnded
  <2>11. CASE DeleteLost(r)
    BY <2>11 DEF DeleteLost, ShutdownEnded
  <2>12. CASE KernelStartFinish(r)
    BY <2>12 DEF KernelStartFinish, Started, StartEnded
  <2>13. CASE KernelStartFails(r)
    BY <2>13 DEF KernelStartFails, StartFailed, StartEnded
  <2>14. CASE KernelDeleteFinish(r)
    BY <2>14 DEF KernelDeleteFinish, ShutdownEnded
  <2>15. CASE KernelDeleteLost(r)
    BY <2>15 DEF KernelDeleteLost, ShutdownEnded
  <2> QED BY <1>2, <2>1, <2>2, <2>3, <2>4, <2>5, <2>6, <2>7, <2>8, <2>9, <2>10, <2>11, <2>12, <2>13, <2>14, <2>15 DEF Resume
<1>3. ASSUME NEW r \in Requests, Reuse(r) PROVE OneReaper'
  BY <1>3 DEF Reuse
<1>4. ASSUME NEW k \in Kernels, Process(k) PROVE OneReaper'
  BY <1>4 DEF Process, KernelReady, LaunchFailed, KernelRemoved, KernelDied, SetStage
<1>5. CASE ServerRestart
  BY <1>5 DEF ServerRestart
<1>6. CASE UNCHANGED vars
  BY <1>6 DEF vars
<1> QED BY <1>1, <1>2, <1>3, <1>4, <1>5, <1>6 DEF Next

(* However many shutdowns of a kernel overlap, one of them removes it.     *)
THEOREM ReaperUnique == Spec => []OneReaper
<1>1. Init => OneReaper
  BY DEF Init, OneReaper, Reapers, Idle, Job
<1> QED BY <1>1, ReaperStep, Typing, Consistency, PTL DEF Spec

-----------------------------------------------------------------------------
(* Starts.                                                                 *)
LEMMA LauncherStep == TypeOK /\ HandlersConsistent /\ OneLauncher /\ [Next]_vars => OneLauncher'
<1> SUFFICES ASSUME TypeOK, HandlersConsistent, OneLauncher, [Next]_vars PROVE OneLauncher'
  OBVIOUS
<1> USE DEF TypeOK, HandlersConsistent, OneLauncher, Launchers, Suspend, Answer, Job, Idle,
            Unborn, Removed, Row, Healed, InTable, InMap, IsLive, Issued
<1>1. ASSUME NEW r \in Requests, Call(r) PROVE OneLauncher'
  <2>1. CASE ListSessions(r)
    BY <2>1 DEF ListSessions
  <2>2. ASSUME NEW p \in Paths, PostExisting(r, p)
       PROVE OneLauncher'
    BY <2>2 DEF PostExisting, RowsAt
  <2>3. ASSUME NEW p \in Paths, NEW s \in Sessions, NEW k \in Kernels, PostShared(r, p, s, k)
       PROVE OneLauncher'
    BY <2>3 DEF PostShared, TablesWithout, RowsAt
  <2>4. ASSUME NEW p \in Paths, NEW s \in Sessions, NEW k \in Kernels, PostStart(r, p, s, k)
       PROVE OneLauncher'
    BY <2>4 DEF PostStart, TablesWithout, RowsAt, BeginStart
  <2>5. ASSUME NEW s \in Sessions, GetSession(r, s)
       PROVE OneLauncher'
    BY <2>5 DEF GetSession
  <2>6. ASSUME NEW s \in Sessions, SessionMissing(r, s)
       PROVE OneLauncher'
    BY <2>6 DEF SessionMissing
  <2>7. ASSUME NEW s \in Sessions, DeleteMissing(r, s)
       PROVE OneLauncher'
    BY <2>7 DEF DeleteMissing
  <2>8. ASSUME NEW s \in Sessions, DeleteShutdown(r, s)
       PROVE OneLauncher'
    BY <2>8 DEF DeleteShutdown, BeginShutdown, Turn
  <2>9. ASSUME NEW s \in Sessions, NEW p \in Paths \cup {None}, PatchPath(r, s, p)
       PROVE OneLauncher'
    BY <2>9 DEF PatchPath, Patched
  <2>10. ASSUME NEW s \in Sessions, NEW k \in Kernels, PatchUnknownKernel(r, s, k)
       PROVE OneLauncher'
    BY <2>10 DEF PatchUnknownKernel
  <2>11. ASSUME NEW s \in Sessions, NEW p \in Paths \cup {None}, NEW k \in Kernels, PatchKernelId(r, s, p, k)
       PROVE OneLauncher'
    BY <2>11 DEF PatchKernelId, Patched
  <2>12. ASSUME NEW s \in Sessions, NEW p \in Paths \cup {None}, NEW k \in Kernels, PatchKernelName(r, s, p, k)
       PROVE OneLauncher'
    BY <2>12 DEF PatchKernelName, BeginStart
  <2>13. ASSUME NEW k \in Kernels, KernelStart(r, k)
       PROVE OneLauncher'
    BY <2>13 DEF KernelStart, BeginStart
  <2>14. ASSUME NEW k \in Kernels, KernelDelete(r, k)
       PROVE OneLauncher'
    BY <2>14 DEF KernelDelete, BeginShutdown, Turn
  <2>15. ASSUME NEW k \in Kernels, KernelDeleteMissing(r, k)
       PROVE OneLauncher'
    BY <2>15 DEF KernelDeleteMissing
  <2> QED BY <1>1, <2>1, <2>2, <2>3, <2>4, <2>5, <2>6, <2>7, <2>8, <2>9, <2>10, <2>11, <2>12, <2>13, <2>14, <2>15 DEF Call
<1>2. ASSUME NEW r \in Requests, Resume(r) PROVE OneLauncher'
  <2>1. CASE PostFinish(r)
    BY <2>1 DEF PostFinish, Started, StartEnded
  <2>2. CASE PostFails(r)
    BY <2>2 DEF PostFails, StartFailed, StartEnded
  <2>3. CASE PatchFinish(r)
    BY <2>3 DEF PatchFinish, Started, StartEnded, Patched
  <2>4. CASE PatchLost(r)
    BY <2>4 DEF PatchLost, Started, StartEnded
  <2>5. CASE PatchFails(r)
    BY <2>5 DEF PatchFails, StartFailed, StartEnded
  <2>6. CASE SwapShutdown(r)
    BY <2>6 DEF SwapShutdown, BeginShutdown, Turn
  <2>7. CASE SwapGone(r)
    BY <2>7 DEF SwapGone
  <2>8. CASE SwapFinish(r)
    BY <2>8 DEF SwapFinish, ShutdownEnded
  <2>9. CASE SwapLost(r)
    BY <2>9 DEF SwapLost, ShutdownEnded
  <2>10. CASE DeleteFinish(r)
    BY <2>10 DEF DeleteFinish, ShutdownEnded
  <2>11. CASE DeleteLost(r)
    BY <2>11 DEF DeleteLost, ShutdownEnded
  <2>12. CASE KernelStartFinish(r)
    BY <2>12 DEF KernelStartFinish, Started, StartEnded
  <2>13. CASE KernelStartFails(r)
    BY <2>13 DEF KernelStartFails, StartFailed, StartEnded
  <2>14. CASE KernelDeleteFinish(r)
    BY <2>14 DEF KernelDeleteFinish, ShutdownEnded
  <2>15. CASE KernelDeleteLost(r)
    BY <2>15 DEF KernelDeleteLost, ShutdownEnded
  <2> QED BY <1>2, <2>1, <2>2, <2>3, <2>4, <2>5, <2>6, <2>7, <2>8, <2>9, <2>10, <2>11, <2>12, <2>13, <2>14, <2>15 DEF Resume
<1>3. ASSUME NEW r \in Requests, Reuse(r) PROVE OneLauncher'
  BY <1>3 DEF Reuse
<1>4. ASSUME NEW k \in Kernels, Process(k) PROVE OneLauncher'
  BY <1>4 DEF Process, KernelReady, LaunchFailed, KernelRemoved, KernelDied, SetStage
<1>5. CASE ServerRestart
  BY <1>5 DEF ServerRestart
<1>6. CASE UNCHANGED vars
  BY <1>6 DEF vars
<1> QED BY <1>1, <1>2, <1>3, <1>4, <1>5, <1>6 DEF Next

(* A launch, and the session id reserved for it, belong to one handler.    *)
THEOREM LauncherUnique == Spec => []OneLauncher
<1>1. Init => OneLauncher
  BY DEF Init, OneLauncher, Launchers, Idle, Job
<1> QED BY <1>1, LauncherStep, Typing, Consistency, PTL DEF Spec

-----------------------------------------------------------------------------
(* What answers mean.                                                      *)
LEMMA PostStep ==
  TypeOK /\ HandlersConsistent /\ [Next]_vars => PostAnswers
<1> SUFFICES ASSUME TypeOK, HandlersConsistent, [Next]_vars
             PROVE  PostAnswers
  OBVIOUS
<1> USE DEF TypeOK, HandlersConsistent, PostAnswers, Suspend, Answer, Job, Idle, Row,
            IsLive, InTable, InMap, Unborn, Healed
<1>1. ASSUME NEW r \in Requests, Call(r) PROVE PostAnswers
  <2>1. CASE ListSessions(r)
    BY <2>1 DEF ListSessions
  <2>2. ASSUME NEW p \in Paths, PostExisting(r, p)
       PROVE PostAnswers
    BY <2>2 DEF PostExisting, RowsAt
  <2>3. ASSUME NEW p \in Paths, NEW s \in Sessions, NEW k \in Kernels, PostShared(r, p, s, k)
       PROVE PostAnswers
    BY <2>3 DEF PostShared, TablesWithout, RowsAt
  <2>4. ASSUME NEW p \in Paths, NEW s \in Sessions, NEW k \in Kernels, PostStart(r, p, s, k)
       PROVE PostAnswers
    BY <2>4 DEF PostStart, TablesWithout, RowsAt, BeginStart
  <2>5. ASSUME NEW s \in Sessions, GetSession(r, s)
       PROVE PostAnswers
    BY <2>5 DEF GetSession
  <2>6. ASSUME NEW s \in Sessions, SessionMissing(r, s)
       PROVE PostAnswers
    BY <2>6 DEF SessionMissing
  <2>7. ASSUME NEW s \in Sessions, DeleteMissing(r, s)
       PROVE PostAnswers
    BY <2>7 DEF DeleteMissing
  <2>8. ASSUME NEW s \in Sessions, DeleteShutdown(r, s)
       PROVE PostAnswers
    BY <2>8 DEF DeleteShutdown, BeginShutdown, Turn
  <2>9. ASSUME NEW s \in Sessions, NEW p \in Paths \cup {None}, PatchPath(r, s, p)
       PROVE PostAnswers
    BY <2>9 DEF PatchPath, Patched
  <2>10. ASSUME NEW s \in Sessions, NEW k \in Kernels, PatchUnknownKernel(r, s, k)
       PROVE PostAnswers
    BY <2>10 DEF PatchUnknownKernel
  <2>11. ASSUME NEW s \in Sessions, NEW p \in Paths \cup {None}, NEW k \in Kernels, PatchKernelId(r, s, p, k)
       PROVE PostAnswers
    BY <2>11 DEF PatchKernelId, Patched
  <2>12. ASSUME NEW s \in Sessions, NEW p \in Paths \cup {None}, NEW k \in Kernels, PatchKernelName(r, s, p, k)
       PROVE PostAnswers
    BY <2>12 DEF PatchKernelName, BeginStart
  <2>13. ASSUME NEW k \in Kernels, KernelStart(r, k)
       PROVE PostAnswers
    BY <2>13 DEF KernelStart, BeginStart
  <2>14. ASSUME NEW k \in Kernels, KernelDelete(r, k)
       PROVE PostAnswers
    BY <2>14 DEF KernelDelete, BeginShutdown, Turn
  <2>15. ASSUME NEW k \in Kernels, KernelDeleteMissing(r, k)
       PROVE PostAnswers
    BY <2>15 DEF KernelDeleteMissing
  <2> QED BY <1>1, <2>1, <2>2, <2>3, <2>4, <2>5, <2>6, <2>7, <2>8, <2>9, <2>10, <2>11, <2>12, <2>13, <2>14, <2>15 DEF Call
<1>2. ASSUME NEW r \in Requests, Resume(r) PROVE PostAnswers
  <2>1. CASE PostFinish(r)
    BY <2>1 DEF PostFinish, Started, StartEnded
  <2>2. CASE PostFails(r)
    BY <2>2 DEF PostFails, StartFailed, StartEnded
  <2>3. CASE PatchFinish(r)
    BY <2>3 DEF PatchFinish, Started, StartEnded, Patched
  <2>4. CASE PatchLost(r)
    BY <2>4 DEF PatchLost, Started, StartEnded
  <2>5. CASE PatchFails(r)
    BY <2>5 DEF PatchFails, StartFailed, StartEnded
  <2>6. CASE SwapShutdown(r)
    BY <2>6 DEF SwapShutdown, BeginShutdown, Turn
  <2>7. CASE SwapGone(r)
    BY <2>7 DEF SwapGone
  <2>8. CASE SwapFinish(r)
    BY <2>8 DEF SwapFinish, ShutdownEnded
  <2>9. CASE SwapLost(r)
    BY <2>9 DEF SwapLost, ShutdownEnded
  <2>10. CASE DeleteFinish(r)
    BY <2>10 DEF DeleteFinish, ShutdownEnded
  <2>11. CASE DeleteLost(r)
    BY <2>11 DEF DeleteLost, ShutdownEnded
  <2>12. CASE KernelStartFinish(r)
    BY <2>12 DEF KernelStartFinish, Started, StartEnded
  <2>13. CASE KernelStartFails(r)
    BY <2>13 DEF KernelStartFails, StartFailed, StartEnded
  <2>14. CASE KernelDeleteFinish(r)
    BY <2>14 DEF KernelDeleteFinish, ShutdownEnded
  <2>15. CASE KernelDeleteLost(r)
    BY <2>15 DEF KernelDeleteLost, ShutdownEnded
  <2> QED BY <1>2, <2>1, <2>2, <2>3, <2>4, <2>5, <2>6, <2>7, <2>8, <2>9, <2>10, <2>11, <2>12, <2>13, <2>14, <2>15 DEF Resume
<1>3. ASSUME NEW r \in Requests, Reuse(r) PROVE PostAnswers
  BY <1>3 DEF Reuse
<1>4. ASSUME NEW k \in Kernels, Process(k) PROVE PostAnswers
  BY <1>4 DEF Process, KernelReady, LaunchFailed, KernelRemoved, KernelDied, SetStage
<1>5. CASE ServerRestart
  BY <1>5 DEF ServerRestart
<1>6. CASE UNCHANGED vars
  BY <1>6 DEF vars
<1> QED BY <1>1, <1>2, <1>3, <1>4, <1>5, <1>6 DEF Next

(* A 201 of POST names a session open on a kernel of the map.              *)
THEOREM PostSound == Spec => PostAnswersOpenSession
BY PostStep, Typing, Consistency, PTL DEF Spec, PostAnswersOpenSession

LEMMA SurvivalStep ==
  TypeOK /\ HandlersConsistent /\ [Next]_vars => RemovedByDelete
<1> SUFFICES ASSUME TypeOK, HandlersConsistent, [Next]_vars
             PROVE  RemovedByDelete
  OBVIOUS
<1> USE DEF TypeOK, HandlersConsistent, RemovedByDelete, Suspend, Answer, Job, Idle, Row, IsLive,
            InTable, InMap, Unborn, Issued, Healed
<1>1. ASSUME NEW r \in Requests, Call(r) PROVE RemovedByDelete
  <2>1. CASE ListSessions(r)
    BY <2>1 DEF ListSessions
  <2>2. ASSUME NEW p \in Paths, PostExisting(r, p)
       PROVE RemovedByDelete
    BY <2>2 DEF PostExisting, RowsAt
  <2>3. ASSUME NEW p \in Paths, NEW s \in Sessions, NEW k \in Kernels, PostShared(r, p, s, k)
       PROVE RemovedByDelete
    BY <2>3 DEF PostShared, TablesWithout, RowsAt
  <2>4. ASSUME NEW p \in Paths, NEW s \in Sessions, NEW k \in Kernels, PostStart(r, p, s, k)
       PROVE RemovedByDelete
    BY <2>4 DEF PostStart, TablesWithout, RowsAt, BeginStart
  <2>5. ASSUME NEW s \in Sessions, GetSession(r, s)
       PROVE RemovedByDelete
    BY <2>5 DEF GetSession
  <2>6. ASSUME NEW s \in Sessions, SessionMissing(r, s)
       PROVE RemovedByDelete
    BY <2>6 DEF SessionMissing
  <2>7. ASSUME NEW s \in Sessions, DeleteMissing(r, s)
       PROVE RemovedByDelete
    BY <2>7 DEF DeleteMissing
  <2>8. ASSUME NEW s \in Sessions, DeleteShutdown(r, s)
       PROVE RemovedByDelete
    BY <2>8 DEF DeleteShutdown, BeginShutdown, Turn
  <2>9. ASSUME NEW s \in Sessions, NEW p \in Paths \cup {None}, PatchPath(r, s, p)
       PROVE RemovedByDelete
    BY <2>9 DEF PatchPath, Patched
  <2>10. ASSUME NEW s \in Sessions, NEW k \in Kernels, PatchUnknownKernel(r, s, k)
       PROVE RemovedByDelete
    BY <2>10 DEF PatchUnknownKernel
  <2>11. ASSUME NEW s \in Sessions, NEW p \in Paths \cup {None}, NEW k \in Kernels, PatchKernelId(r, s, p, k)
       PROVE RemovedByDelete
    BY <2>11 DEF PatchKernelId, Patched
  <2>12. ASSUME NEW s \in Sessions, NEW p \in Paths \cup {None}, NEW k \in Kernels, PatchKernelName(r, s, p, k)
       PROVE RemovedByDelete
    BY <2>12 DEF PatchKernelName, BeginStart
  <2>13. ASSUME NEW k \in Kernels, KernelStart(r, k)
       PROVE RemovedByDelete
    BY <2>13 DEF KernelStart, BeginStart
  <2>14. ASSUME NEW k \in Kernels, KernelDelete(r, k)
       PROVE RemovedByDelete
    BY <2>14 DEF KernelDelete, BeginShutdown, Turn
  <2>15. ASSUME NEW k \in Kernels, KernelDeleteMissing(r, k)
       PROVE RemovedByDelete
    BY <2>15 DEF KernelDeleteMissing
  <2> QED BY <1>1, <2>1, <2>2, <2>3, <2>4, <2>5, <2>6, <2>7, <2>8, <2>9, <2>10, <2>11, <2>12, <2>13, <2>14, <2>15 DEF Call
<1>2. ASSUME NEW r \in Requests, Resume(r) PROVE RemovedByDelete
  <2>1. CASE PostFinish(r)
    BY <2>1 DEF PostFinish, Started, StartEnded
  <2>2. CASE PostFails(r)
    BY <2>2 DEF PostFails, StartFailed, StartEnded
  <2>3. CASE PatchFinish(r)
    BY <2>3 DEF PatchFinish, Started, StartEnded, Patched
  <2>4. CASE PatchLost(r)
    BY <2>4 DEF PatchLost, Started, StartEnded
  <2>5. CASE PatchFails(r)
    BY <2>5 DEF PatchFails, StartFailed, StartEnded
  <2>6. CASE SwapShutdown(r)
    BY <2>6 DEF SwapShutdown, BeginShutdown, Turn
  <2>7. CASE SwapGone(r)
    BY <2>7 DEF SwapGone
  <2>8. CASE SwapFinish(r)
    BY <2>8 DEF SwapFinish, ShutdownEnded
  <2>9. CASE SwapLost(r)
    BY <2>9 DEF SwapLost, ShutdownEnded
  <2>10. CASE DeleteFinish(r)
    BY <2>10 DEF DeleteFinish, ShutdownEnded
  <2>11. CASE DeleteLost(r)
    BY <2>11 DEF DeleteLost, ShutdownEnded
  <2>12. CASE KernelStartFinish(r)
    BY <2>12 DEF KernelStartFinish, Started, StartEnded
  <2>13. CASE KernelStartFails(r)
    BY <2>13 DEF KernelStartFails, StartFailed, StartEnded
  <2>14. CASE KernelDeleteFinish(r)
    BY <2>14 DEF KernelDeleteFinish, ShutdownEnded
  <2>15. CASE KernelDeleteLost(r)
    BY <2>15 DEF KernelDeleteLost, ShutdownEnded
  <2> QED BY <1>2, <2>1, <2>2, <2>3, <2>4, <2>5, <2>6, <2>7, <2>8, <2>9, <2>10, <2>11, <2>12, <2>13, <2>14, <2>15 DEF Resume
<1>3. ASSUME NEW r \in Requests, Reuse(r) PROVE RemovedByDelete
  BY <1>3 DEF Reuse
<1>4. ASSUME NEW k \in Kernels, Process(k) PROVE RemovedByDelete
  BY <1>4 DEF Process, KernelReady, LaunchFailed, KernelRemoved, KernelDied, SetStage
<1>5. CASE ServerRestart
  BY <1>5 DEF ServerRestart
<1>6. CASE UNCHANGED vars
  BY <1>6 DEF vars
<1> QED BY <1>1, <1>2, <1>3, <1>4, <1>5, <1>6 DEF Next

(* A session whose kernel is in the map is removed by its DELETE only.     *)
THEOREM SurvivalSound == Spec => SessionSurvives
BY SurvivalStep, Typing, Consistency, PTL DEF Spec, SessionSurvives

LEMMA SuccessStep ==
  TypeOK /\ HandlersConsistent /\ OneReaper /\ [Next]_vars
    => GoneOnSuccess
<1> SUFFICES ASSUME TypeOK, HandlersConsistent, OneReaper, [Next]_vars
             PROVE  GoneOnSuccess
  OBVIOUS
<1> USE DEF TypeOK, HandlersConsistent, GoneOnSuccess, OneReaper, Reapers, Suspend, Answer,
            Job, Idle, Removed, IsLive, InMap
<1>1. ASSUME NEW r \in Requests, Call(r) PROVE GoneOnSuccess
  <2>1. CASE ListSessions(r)
    BY <2>1 DEF ListSessions
  <2>2. ASSUME NEW p \in Paths, PostExisting(r, p)
       PROVE GoneOnSuccess
    BY <2>2 DEF PostExisting, RowsAt
  <2>3. ASSUME NEW p \in Paths, NEW s \in Sessions, NEW k \in Kernels, PostShared(r, p, s, k)
       PROVE GoneOnSuccess
    BY <2>3 DEF PostShared, TablesWithout, RowsAt
  <2>4. ASSUME NEW p \in Paths, NEW s \in Sessions, NEW k \in Kernels, PostStart(r, p, s, k)
       PROVE GoneOnSuccess
    BY <2>4 DEF PostStart, TablesWithout, RowsAt, BeginStart
  <2>5. ASSUME NEW s \in Sessions, GetSession(r, s)
       PROVE GoneOnSuccess
    BY <2>5 DEF GetSession
  <2>6. ASSUME NEW s \in Sessions, SessionMissing(r, s)
       PROVE GoneOnSuccess
    BY <2>6 DEF SessionMissing
  <2>7. ASSUME NEW s \in Sessions, DeleteMissing(r, s)
       PROVE GoneOnSuccess
    BY <2>7 DEF DeleteMissing
  <2>8. ASSUME NEW s \in Sessions, DeleteShutdown(r, s)
       PROVE GoneOnSuccess
    BY <2>8 DEF DeleteShutdown, BeginShutdown, Turn
  <2>9. ASSUME NEW s \in Sessions, NEW p \in Paths \cup {None}, PatchPath(r, s, p)
       PROVE GoneOnSuccess
    BY <2>9 DEF PatchPath, Patched
  <2>10. ASSUME NEW s \in Sessions, NEW k \in Kernels, PatchUnknownKernel(r, s, k)
       PROVE GoneOnSuccess
    BY <2>10 DEF PatchUnknownKernel
  <2>11. ASSUME NEW s \in Sessions, NEW p \in Paths \cup {None}, NEW k \in Kernels, PatchKernelId(r, s, p, k)
       PROVE GoneOnSuccess
    BY <2>11 DEF PatchKernelId, Patched
  <2>12. ASSUME NEW s \in Sessions, NEW p \in Paths \cup {None}, NEW k \in Kernels, PatchKernelName(r, s, p, k)
       PROVE GoneOnSuccess
    BY <2>12 DEF PatchKernelName, BeginStart
  <2>13. ASSUME NEW k \in Kernels, KernelStart(r, k)
       PROVE GoneOnSuccess
    BY <2>13 DEF KernelStart, BeginStart
  <2>14. ASSUME NEW k \in Kernels, KernelDelete(r, k)
       PROVE GoneOnSuccess
    BY <2>14 DEF KernelDelete, BeginShutdown, Turn
  <2>15. ASSUME NEW k \in Kernels, KernelDeleteMissing(r, k)
       PROVE GoneOnSuccess
    BY <2>15 DEF KernelDeleteMissing
  <2> QED BY <1>1, <2>1, <2>2, <2>3, <2>4, <2>5, <2>6, <2>7, <2>8, <2>9, <2>10, <2>11, <2>12, <2>13, <2>14, <2>15 DEF Call
<1>2. ASSUME NEW r \in Requests, Resume(r) PROVE GoneOnSuccess
  <2>1. CASE PostFinish(r)
    BY <2>1 DEF PostFinish, Started, StartEnded
  <2>2. CASE PostFails(r)
    BY <2>2 DEF PostFails, StartFailed, StartEnded
  <2>3. CASE PatchFinish(r)
    BY <2>3 DEF PatchFinish, Started, StartEnded, Patched
  <2>4. CASE PatchLost(r)
    BY <2>4 DEF PatchLost, Started, StartEnded
  <2>5. CASE PatchFails(r)
    BY <2>5 DEF PatchFails, StartFailed, StartEnded
  <2>6. CASE SwapShutdown(r)
    BY <2>6 DEF SwapShutdown, BeginShutdown, Turn
  <2>7. CASE SwapGone(r)
    BY <2>7 DEF SwapGone
  <2>8. CASE SwapFinish(r)
    BY <2>8 DEF SwapFinish, ShutdownEnded
  <2>9. CASE SwapLost(r)
    BY <2>9 DEF SwapLost, ShutdownEnded
  <2>10. CASE DeleteFinish(r)
    BY <2>10 DEF DeleteFinish, ShutdownEnded
  <2>11. CASE DeleteLost(r)
    BY <2>11 DEF DeleteLost, ShutdownEnded
  <2>12. CASE KernelStartFinish(r)
    BY <2>12 DEF KernelStartFinish, Started, StartEnded
  <2>13. CASE KernelStartFails(r)
    BY <2>13 DEF KernelStartFails, StartFailed, StartEnded
  <2>14. CASE KernelDeleteFinish(r)
    BY <2>14 DEF KernelDeleteFinish, ShutdownEnded
  <2>15. CASE KernelDeleteLost(r)
    BY <2>15 DEF KernelDeleteLost, ShutdownEnded
  <2> QED BY <1>2, <2>1, <2>2, <2>3, <2>4, <2>5, <2>6, <2>7, <2>8, <2>9, <2>10, <2>11, <2>12, <2>13, <2>14, <2>15 DEF Resume
<1>3. ASSUME NEW r \in Requests, Reuse(r) PROVE GoneOnSuccess
  BY <1>3 DEF Reuse
<1>4. ASSUME NEW k \in Kernels, Process(k) PROVE GoneOnSuccess
  BY <1>4 DEF Process, KernelReady, LaunchFailed, KernelRemoved, KernelDied, SetStage
<1>5. CASE ServerRestart
  BY <1>5 DEF ServerRestart
<1>6. CASE UNCHANGED vars
  BY <1>6 DEF vars
<1> QED BY <1>1, <1>2, <1>3, <1>4, <1>5, <1>6 DEF Next

(* Success after a shutdown means that the kernel is gone, and the session *)
(* of a DELETE with it.                                                    *)
THEOREM SuccessSound == Spec => SuccessMeansGone
BY SuccessStep, Typing, Consistency, ReaperUnique, PTL DEF Spec, SuccessMeansGone

-----------------------------------------------------------------------------
(* Refinement.                                                             *)
Inv == TypeOK /\ HandlersConsistent /\ OneLauncher

(* Reading rows deletes only those that no client could see any more.      *)
LEMMA HealedView ==
  ASSUME Inv, NEW S, row' = Healed(S), UNCHANGED kernel
  PROVE  UNCHANGED <<SessionView, KernelView>>
BY DEF Inv, TypeOK, HandlersConsistent, SessionView, KernelView, Healed, Removed,
       IsLive, InTable, InMap

(* A kernel that begins to launch or to stop is where it was in the map.   *)
LEMMA KernelStepView ==
  ASSUME Inv, UNCHANGED row, NEW k \in Kernels, NEW t,
         kernel' = [kernel EXCEPT ![k] = t],
         \/ kernel[k] = "new" /\ t = "launching"
         \/ kernel[k] \in {"live", "stopping"} /\ t = "stopping"
  PROVE  UNCHANGED <<SessionView, KernelView>>
BY DEF Inv, TypeOK, HandlersConsistent, SessionView, KernelView, IsLive, InTable, InMap

(* An INSERT opens a session, an UPDATE rebinds one, a kernel that leaves   *)
(* or enters the map takes its sessions along or none.                      *)
LEMMA OpenView ==
  ASSUME Inv, NEW p \in Paths, NEW s \in Sessions, NEW k \in Kernels, UNCHANGED kernel, InMap(k), row[s] = Unborn,
    row' = [row EXCEPT ![s] = Row(p, k)]
  PROVE  Lifecycle!Open(s, p, k)
<1> USE DEF Inv, TypeOK, SessionView, KernelView, IsLive, InTable, InMap, Unborn, Row
<1>1. SessionView[s] = Lifecycle!Fresh BY DEF Lifecycle!Fresh
<1>2. KernelView[k] = "running" /\ UNCHANGED KernelView OBVIOUS
<1>3. ASSUME NEW t \in Sessions
      PROVE  SessionView'[t] = IF t = s THEN Lifecycle!OpenOn(p, k) ELSE SessionView[t]
  BY DEF Lifecycle!OpenOn
<1> HIDE DEF IsLive, InTable, InMap
<1> QED BY <1>1, <1>2, <1>3, ZenonT(60) DEF Lifecycle!Open

LEMMA RebindView ==
  ASSUME Inv, NEW p \in Paths, NEW s \in Sessions, NEW k \in Kernels, UNCHANGED kernel, InMap(k), IsLive(s),
    row' = [row EXCEPT ![s] = Row(p, k)]
  PROVE  Lifecycle!Rebind(s, p, k)
BY ZenonT(60) DEF Inv, TypeOK, SessionView, KernelView, IsLive, InTable, InMap, Row, Lifecycle!Rebind, Lifecycle!IsOpen, Lifecycle!OpenOn

LEMMA DownView ==
  ASSUME Inv, NEW K \in SUBSET Kernels, UNCHANGED row, kernel' = [k \in Kernels |-> IF k \in K THEN "gone" ELSE kernel[k]]
  PROVE  Lifecycle!KernelsDown(K)
<1>1. KernelView' = [k \in Kernels |-> IF k \in K THEN "dead" ELSE KernelView[k]]
  BY DEF Inv, TypeOK, KernelView, InMap
<1>2. ASSUME NEW s \in Sessions PROVE SessionView'[s] = IF Lifecycle!IsOpen(s) /\ SessionView[s].kernel \in K
                     THEN Lifecycle!Closed ELSE SessionView[s]
  BY DEF Inv, TypeOK, HandlersConsistent, SessionView, IsLive, InTable, InMap, Lifecycle!IsOpen, Lifecycle!Closed, Unborn, Removed
<1> QED BY <1>1, <1>2 DEF Lifecycle!KernelsDown, SessionView

LEMMA UpView == ASSUME Inv, NEW k \in Kernels, UNCHANGED row, kernel[k] = "launching", kernel' = [kernel EXCEPT ![k] = "live"]
  PROVE  Lifecycle!KernelUp(k)
<1> USE DEF Inv, TypeOK, HandlersConsistent, IsLive, InTable, InMap, Unborn, Removed
<1>1. KernelView[k] = "unused" BY DEF KernelView
<1>2. KernelView' = [KernelView EXCEPT ![k] = "running"] BY DEF KernelView
<1>3. UNCHANGED SessionView BY DEF SessionView
<1> QED BY <1>1, <1>2, <1>3 DEF Lifecycle!KernelUp

LEMMA CloseView == ASSUME Inv, NEW s \in Sessions, UNCHANGED kernel, row' = [row EXCEPT ![s] = Removed], row[s] # Unborn
  PROVE  Lifecycle!Close(s) \/ UNCHANGED <<SessionView, KernelView>>
<1>1. CASE IsLive(s)
  <2> USE DEF Inv, TypeOK, IsLive, InTable, InMap, Removed
  <2>1. Lifecycle!IsOpen(s) BY <1>1 DEF SessionView, Lifecycle!IsOpen
  <2>2. UNCHANGED KernelView BY DEF KernelView
  <2>3. ASSUME NEW t \in Sessions
        PROVE  SessionView'[t] = IF t = s THEN Lifecycle!Closed ELSE SessionView[t]
    BY <1>1 DEF SessionView, Lifecycle!Closed
  <2>4. SessionView' = [SessionView EXCEPT ![s] = Lifecycle!Closed] BY <2>3 DEF SessionView
  <2> QED BY <2>1, <2>2, <2>4 DEF Lifecycle!Close
<1>2. CASE ~IsLive(s)
  BY <1>2 DEF Inv, TypeOK, HandlersConsistent, SessionView, KernelView, IsLive, InTable, InMap, Removed, Unborn
<1> QED BY <1>1, <1>2

(* What session_exists leaves behind when it finds no session.             *)
LEMMA TablesHealed ==
  ASSUME TypeOK, NEW p, NEW table \in TablesWithout(p)
  PROVE  \E S \in SUBSET Sessions : table = Healed(S)
<1>1. CASE RowsAt(p) = {}
  <2>1. row = Healed({}) BY DEF Healed, TypeOK
  <2> QED BY <1>1, <2>1 DEF TablesWithout
<1>2. CASE RowsAt(p) # {}
  <2>1. PICK s \in RowsAt(p) : table = Healed({s}) BY <1>2 DEF TablesWithout
  <2>2. {s} \in SUBSET Sessions BY DEF RowsAt
  <2> QED BY <2>1, <2>2
<1> QED BY <1>1, <1>2

(* The same with a healed row, or with a row renamed by PATCH.             *)
LEMMA OpenHealedView ==
  ASSUME Inv, NEW p \in Paths, NEW s \in Sessions, NEW k \in Kernels, UNCHANGED kernel,
         InMap(k), ~Issued(s), NEW table \in TablesWithout(p),
         row' = [table EXCEPT ![s] = Row(p, k)]
  PROVE  Lifecycle!Open(s, p, k)
<1> USE DEF Inv, TypeOK, HandlersConsistent, SessionView, KernelView, IsLive, InTable, InMap,
            Unborn, Removed, Row, Issued
<1>1. SessionView[s] = Lifecycle!Fresh BY DEF Lifecycle!Fresh
<1>2. KernelView[k] = "running" /\ UNCHANGED KernelView OBVIOUS
<1>3. PICK S \in SUBSET Sessions : table = Healed(S) BY TablesHealed
<1>4. ASSUME NEW t \in Sessions
      PROVE  SessionView'[t] = IF t = s THEN Lifecycle!OpenOn(p, k) ELSE SessionView[t]
  BY <1>3 DEF Lifecycle!OpenOn, Healed
<1>5. SessionView' = [SessionView EXCEPT ![s] = Lifecycle!OpenOn(p, k)]
  <2> HIDE DEF IsLive, InTable, InMap, Row, TypeOK, HandlersConsistent
  <2> QED BY <1>4
<1> HIDE DEF SessionView, KernelView
<1> QED BY <1>1, <1>2, <1>5 DEF Lifecycle!Open

LEMMA StartView ==
  ASSUME Inv, NEW p \in Paths, NEW k \in Kernels, row' \in TablesWithout(p),
         kernel[k] = "new", kernel' = [kernel EXCEPT ![k] = "launching"]
  PROVE  UNCHANGED <<SessionView, KernelView>>
<1> USE DEF Inv, TypeOK, HandlersConsistent, IsLive, InTable, InMap, Unborn, Removed
<1>1. UNCHANGED KernelView BY DEF KernelView
<1>2. PICK S \in SUBSET Sessions : row' = Healed(S) BY TablesHealed
<1>3. UNCHANGED SessionView BY <1>2 DEF SessionView, Healed
<1> QED BY <1>1, <1>3

LEMMA PatchedView ==
  ASSUME Inv, NEW p \in Paths \cup {None}, NEW s \in Sessions, NEW k \in Kernels,
         UNCHANGED kernel, InMap(k), IsLive(s), row' = Patched(s, p, k)
  PROVE  Lifecycle!Next
<1> DEFINE q == IF p = None THEN row[s].path ELSE p
<1>1. row[s].path \in Paths
  BY DEF Inv, HandlersConsistent, IsLive, InTable, Unborn, Removed
<1>2. q \in Paths BY <1>1
<1>3. row' = [row EXCEPT ![s] = Row(q, k)] BY DEF Patched
<1> HIDE DEF q
<1>4. Lifecycle!Rebind(s, q, k) BY <1>2, <1>3, RebindView
<1> QED BY <1>2, <1>4 DEF Lifecycle!Next


LEMMA RefinementStep == Inv /\ [Next]_vars => [Lifecycle!Next]_(Lifecycle!vars)
<1> DEFINE Same == UNCHANGED <<SessionView, KernelView>>
           Opens(p, s, k) == Lifecycle!Open(s, p, k)
<1> SUFFICES ASSUME Inv, [Next]_vars PROVE Same \/ Lifecycle!Next
  BY DEF Lifecycle!vars
<1>0. ASSUME UNCHANGED <<row, kernel>> PROVE Same
  BY <1>0 DEF SessionView, KernelView, IsLive, InTable, InMap
<1>1. ASSUME NEW r \in Requests, Call(r) PROVE Same \/ Lifecycle!Next
  <2>1. CASE ListSessions(r)
    BY <2>1, HealedView DEF ListSessions
  <2>2. ASSUME NEW p \in Paths, PostExisting(r, p) PROVE Same
    BY <2>2, <1>0 DEF PostExisting
  <2>3. ASSUME NEW p \in Paths, NEW s \in Sessions, NEW k \in Kernels, PostShared(r, p, s, k)
        PROVE  Lifecycle!Next
    <3>1. PICK table \in TablesWithout(p) : row' = [table EXCEPT ![s] = Row(p, k)]
      BY <2>3 DEF PostShared
    <3>2. Lifecycle!Open(s, p, k)
      BY <2>3, <3>1, OpenHealedView DEF PostShared
    <3> QED BY <3>2 DEF Lifecycle!Next
  <2>4. ASSUME NEW p \in Paths, NEW s \in Sessions, NEW k \in Kernels, PostStart(r, p, s, k)
        PROVE  Same
    BY <2>4, StartView DEF PostStart, BeginStart
  <2>5. ASSUME NEW s \in Sessions, GetSession(r, s) PROVE Same
    BY <2>5, <1>0 DEF GetSession
  <2>6. ASSUME NEW s \in Sessions, SessionMissing(r, s) \/ DeleteMissing(r, s) PROVE Same
    BY <2>6, HealedView DEF SessionMissing, DeleteMissing
  <2>7. ASSUME NEW s \in Sessions, DeleteShutdown(r, s) PROVE Same
    <3>1. row[s].kernel \in Kernels /\ kernel[row[s].kernel] \in {"live", "stopping"}
      BY <2>7 DEF DeleteShutdown, IsLive, InMap
    <3> QED BY <2>7, <3>1, KernelStepView DEF DeleteShutdown, BeginShutdown
  <2>8. ASSUME NEW s \in Sessions, NEW p \in Paths \cup {None}, PatchPath(r, s, p)
        PROVE  Lifecycle!Next
    <3>1. row[s].kernel \in Kernels /\ InMap(row[s].kernel)
      BY <2>8 DEF PatchPath, IsLive, InMap
    <3> QED BY <2>8, <3>1, PatchedView DEF PatchPath
  <2>9. ASSUME NEW s \in Sessions, NEW k \in Kernels, PatchUnknownKernel(r, s, k) PROVE Same
    BY <2>9, <1>0 DEF PatchUnknownKernel
  <2>10. ASSUME NEW s \in Sessions, NEW p \in Paths \cup {None}, NEW k \in Kernels,
                PatchKernelId(r, s, p, k)
         PROVE  Lifecycle!Next
    BY <2>10, PatchedView DEF PatchKernelId
  <2>11. ASSUME NEW s \in Sessions, NEW p \in Paths \cup {None}, NEW k \in Kernels,
                PatchKernelName(r, s, p, k)
         PROVE  Same
    BY <2>11, KernelStepView DEF PatchKernelName, BeginStart
  <2>12. ASSUME NEW k \in Kernels, KernelStart(r, k) PROVE Same
    BY <2>12, KernelStepView DEF KernelStart, BeginStart
  <2>13. ASSUME NEW k \in Kernels, KernelDelete(r, k) PROVE Same
    BY <2>13, KernelStepView DEF KernelDelete, BeginShutdown, InMap
  <2>14. ASSUME NEW k \in Kernels, KernelDeleteMissing(r, k) PROVE Same
    BY <2>14, <1>0 DEF KernelDeleteMissing
  <2> QED BY <1>1, <2>1, <2>2, <2>3, <2>4, <2>5, <2>6, <2>7, <2>8, <2>9, <2>10, <2>11, <2>12,
             <2>13, <2>14 DEF Call
<1>2. ASSUME NEW r \in Requests, Resume(r) PROVE Same \/ Lifecycle!Next
  <2>1. CASE PostFinish(r)
    <3>1. /\ job[r].path \in Paths /\ job[r].sid \in Sessions /\ job[r].new \in Kernels
          /\ row[job[r].sid] = Unborn
      BY <2>1 DEF Inv, PostFinish, Started, StartEnded, HandlersConsistent, OneLauncher, InMap
    <3>2. Lifecycle!Open(job[r].sid, job[r].path, job[r].new)
      BY <2>1, <3>1, OpenView DEF PostFinish, Started
    <3> QED BY <3>1, <3>2 DEF Lifecycle!Next
  <2>2. CASE PatchFinish(r)
    <3>1. /\ job[r].path \in Paths \cup {None} /\ job[r].sid \in Sessions
          /\ job[r].new \in Kernels
      BY <2>2 DEF Inv, TypeOK, PatchFinish, Started, StartEnded, HandlersConsistent, InMap
    <3> QED BY <2>2, <3>1, PatchedView DEF PatchFinish, Started
  <2>3. CASE PatchLost(r)
    BY <2>3, HealedView DEF PatchLost
  <2>4. CASE SwapShutdown(r)
    <3>1. job[r].old \in Kernels /\ kernel[job[r].old] \in {"live", "stopping"}
      BY <2>4 DEF SwapShutdown, InMap
    <3> QED BY <2>4, <3>1, KernelStepView DEF SwapShutdown, BeginShutdown
  <2>5. CASE DeleteFinish(r)
    <3>1. job[r].sid \in Sessions /\ row[job[r].sid] # Unborn
      BY <2>5 DEF Inv, DeleteFinish, ShutdownEnded, HandlersConsistent, Issued, Unborn
    <3>2. Lifecycle!Close(job[r].sid) \/ Same
      BY <2>5, <3>1, CloseView DEF DeleteFinish
    <3> QED BY <3>1, <3>2 DEF Lifecycle!Next
  <2>6. CASE \/ PostFails(r) \/ PatchFails(r) \/ SwapGone(r) \/ SwapFinish(r) \/ SwapLost(r)
             \/ DeleteLost(r) \/ KernelStartFinish(r) \/ KernelStartFails(r)
             \/ KernelDeleteFinish(r) \/ KernelDeleteLost(r)
    BY <2>6, <1>0 DEF PostFails, PatchFails, SwapGone, SwapFinish, SwapLost, DeleteLost,
       KernelStartFinish, KernelStartFails, KernelDeleteFinish, KernelDeleteLost
  <2> QED BY <1>2, <2>1, <2>2, <2>3, <2>4, <2>5, <2>6 DEF Resume
<1>3. ASSUME NEW r \in Requests, Reuse(r) PROVE Same
  BY <1>3, <1>0 DEF Reuse
<1>4. ASSUME NEW k \in Kernels, Process(k) PROVE Lifecycle!Next
  <2>1. CASE KernelReady(k)
    BY <2>1, UpView DEF KernelReady, SetStage, Lifecycle!Next
  <2>2. CASE LaunchFailed(k) \/ KernelRemoved(k) \/ KernelDied(k)
    <3>1. kernel' = [j \in Kernels |-> IF j \in {k} THEN "gone" ELSE kernel[j]]
      BY <2>2 DEF LaunchFailed, KernelRemoved, KernelDied, SetStage, Inv, TypeOK
    <3>2. Lifecycle!KernelsDown({k})
      BY <2>2, <3>1, DownView DEF LaunchFailed, KernelRemoved, KernelDied, SetStage
    <3> QED BY <3>2 DEF Lifecycle!Next
  <2> QED BY <1>4, <2>1, <2>2 DEF Process
<1>5. CASE ServerRestart
  <2> DEFINE K == {k \in Kernels : kernel[k] # "new"}
  <2>1. kernel' = [k \in Kernels |-> IF k \in K THEN "gone" ELSE kernel[k]]
    BY <1>5 DEF ServerRestart
  <2>2. Lifecycle!KernelsDown(K)
    BY <1>5, <2>1, DownView DEF ServerRestart
  <2> QED BY <2>2 DEF Lifecycle!Next
<1>6. CASE UNCHANGED vars
  BY <1>6, <1>0 DEF vars
<1> QED BY <1>1, <1>2, <1>3, <1>4, <1>5, <1>6 DEF Next

(* The handlers, interleaved at every await, implement the atomic service. *)
THEOREM Refinement == Spec => ImplementsLifecycle
<1>1. Init => Lifecycle!Init
  BY DEF Init, Lifecycle!Init, Lifecycle!Fresh, SessionView, KernelView, InMap, Unborn
<1>2. Spec => []Inv
  BY Typing, Consistency, LauncherUnique, PTL DEF Inv
<1> QED BY <1>1, <1>2, RefinementStep, PTL DEF Spec, ImplementsLifecycle, Lifecycle!Spec
=============================================================================
