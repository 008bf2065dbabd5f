------------------------- MODULE RunningServers_proofs -------------------------
(***************************************************************************)
(* RunningServers, for any number of servers, commands and extensions that *)
(* fail in any way: a SIGINT is never left unanswered, a server that runs  *)
(* can be found, the cleanup that stops a loop is complete, and the fault  *)
(* of one package is no other's.                                           *)
(*                                                                         *)
(* IInv (the signals) is inductive.  TInv (the types, and that packages    *)
(* are started once and in order) is inductive given IInv; FInv (the       *)
(* files), CInv (the cleanups) and XInv (the packages) need both, and CInv *)
(* needs FInv.                                                             *)
(***************************************************************************)
EXTENDS RunningServers, FiniteSetTheorems, TLAPS

Calls == {"bind", "post_start", "restore", "stop"}

(* What the proof needs of the types.                                      *)
SignalTypes ==
  /\ phase \in [Servers -> Phases]
  /\ calls \in [Servers -> Seq(Calls)]
  /\ sigint \in [Servers -> [on : {"confirm", "stop"}, asking : BOOLEAN]]
  /\ stopping \in [Servers -> BOOLEAN]

Restores(c) == \E i \in DOMAIN c : c[i] = "restore"
Asks(s) == Alive(s) /\ sigint[s].on = "stop" => stopping[s] \/ sigint[s].asking \/ Restores(calls[s])
Unused(s) == phase[s] = "off" => sigint[s].on = "confirm"

IInv == SignalTypes /\ \A s \in Servers : Asks(s) /\ Unused(s)

unseen == <<phase, calls, sigint, stopping>>

-----------------------------------------------------------------------------
(* A callback that is added leaves the restoring one in the queue.         *)
LEMMA AppendRestores ==
  ASSUME NEW c \in Seq(Calls), NEW x \in Calls
  PROVE  /\ Append(c, x) \in Seq(Calls)
         /\ Restores(c) => Restores(Append(c, x))
         /\ Restores(Append(c, "restore"))
<1>1. Append(c, x) \in Seq(Calls)
  OBVIOUS
<1>2. ASSUME NEW i \in DOMAIN c, c[i] = "restore" PROVE Restores(Append(c, x))
  <2>1. i \in DOMAIN Append(c, x) /\ Append(c, x)[i] = "restore"
    BY <1>2
  <2> QED BY <2>1 DEF Restores
<1>3. Restores(Append(c, "restore"))
  <2>1. Len(c) + 1 \in DOMAIN Append(c, "restore") /\ Append(c, "restore")[Len(c) + 1] = "restore"
    OBVIOUS
  <2> QED BY <2>1 DEF Restores
<1> QED BY <1>1, <1>2, <1>3 DEF Restores

(* A callback that is run and is another leaves it there as well.          *)
LEMMA TailRestores ==
  ASSUME NEW c \in Seq(Calls), c # <<>>
  PROVE  /\ Tail(c) \in Seq(Calls)
         /\ Head(c) # "restore" /\ Restores(c) => Restores(Tail(c))
<1>1. Tail(c) \in Seq(Calls)
  OBVIOUS
<1>2. ASSUME NEW i \in DOMAIN c, c[i] = "restore", Head(c) # "restore" PROVE Restores(Tail(c))
  <2>1. i \in 1 .. Len(c) /\ i # 1
    BY <1>2
  <2>2. i - 1 \in DOMAIN Tail(c) /\ Tail(c)[i - 1] = "restore"
    BY <1>2, <2>1
  <2> QED BY <2>2 DEF Restores
<1> QED BY <1>1, <1>2 DEF Restores

-----------------------------------------------------------------------------
(* A step that touches none of the four keeps the invariant.               *)
LEMMA Untouched == IInv /\ UNCHANGED unseen => IInv'
  BY DEF IInv, SignalTypes, Asks, Unused, Alive, Restores, unseen

(* A process that ends asks no more.                                       *)
LEMMA DiedKeeps ==
  ASSUME NEW s \in Servers, IInv, Died(s), UNCHANGED stopping
  PROVE  IInv'
<1> USE DEF IInv
<1>1. SignalTypes'
  <2>1. phase' \in [Servers -> Phases]
    BY DEF SignalTypes, Died, Phases
  <2>2. calls' \in [Servers -> Seq(Calls)]
    <3>1. << >> \in Seq(Calls)
      OBVIOUS
    <3> QED BY <3>1 DEF SignalTypes, Died
  <2>3. sigint' \in [Servers -> [on : {"confirm", "stop"}, asking : BOOLEAN]]
    BY DEF SignalTypes, Died
  <2> QED BY <2>1, <2>2, <2>3 DEF SignalTypes
<1>2. ASSUME NEW q \in Servers PROVE Asks(q)' /\ Unused(q)'
  <2>1. CASE q = s
    <3>1. phase'[q] = "exited"
      BY <2>1 DEF Died, SignalTypes
    <3> QED BY <3>1 DEF Asks, Unused, Alive
  <2>2. CASE q # s
    <3>1. phase'[q] = phase[q] /\ calls'[q] = calls[q] /\ sigint'[q] = sigint[q] /\ stopping'[q] = stopping[q]
      BY <2>2 DEF Died, SignalTypes
    <3> QED BY <3>1 DEF Asks, Unused, Alive, Restores
  <2> QED BY <2>1, <2>2
<1> QED BY <1>1, <1>2

-----------------------------------------------------------------------------
(* What a step of one server must do: keep the types, leave the others     *)
(* alone, and leave a way on for its own signal.                           *)
Others(s) ==
  \A q \in Servers \ {s} :
    phase'[q] = phase[q] /\ calls'[q] = calls[q] /\ sigint'[q] = sigint[q] /\ stopping'[q] = stopping[q]

LEMMA OneServer ==
  ASSUME NEW s \in Servers, IInv, SignalTypes', Others(s), Asks(s)', Unused(s)'
  PROVE  IInv'
<1>1. ASSUME NEW q \in Servers, q # s PROVE Asks(q)' /\ Unused(q)'
  <2>1. phase'[q] = phase[q] /\ calls'[q] = calls[q] /\ sigint'[q] = sigint[q] /\ stopping'[q] = stopping[q]
    BY <1>1 DEF Others
  <2> QED BY <2>1 DEF IInv, Asks, Unused, Alive, Restores
<1> QED BY <1>1 DEF IInv

(* Another phase, but not back to the start.                               *)
LEMMA PhaseKeeps ==
  ASSUME NEW s \in Servers, NEW to \in Phases \ {"off"}, IInv,
         phase' = [phase EXCEPT ![s] = to], UNCHANGED <<calls, sigint, stopping>>,
         phase[s] # "exited"
  PROVE  IInv'
<1>1. SignalTypes'
  BY DEF IInv, SignalTypes
<1>2. Others(s)
  BY DEF IInv, SignalTypes, Others
<1>3. phase'[s] = to
  BY DEF IInv, SignalTypes
<1>4. Asks(s)' /\ Unused(s)'
  BY <1>3 DEF IInv, Asks, Unused, Alive, Restores
<1> QED BY <1>1, <1>2, <1>4, OneServer

(* A callback is added, and the phase may change.                          *)
LEMMA ScheduleKeeps ==
  ASSUME NEW s \in Servers, NEW to \in Phases \ {"off"}, NEW x \in Calls, IInv,
         phase' = [phase EXCEPT ![s] = to], Schedule(s, x), UNCHANGED <<sigint, stopping>>, Alive(s)
  PROVE  IInv'
<1>1. calls[s] \in Seq(Calls)
  BY DEF IInv, SignalTypes
<1>2. Append(calls[s], x) \in Seq(Calls) /\ (Restores(calls[s]) => Restores(Append(calls[s], x)))
  BY <1>1, AppendRestores
<1>3. calls'[s] = Append(calls[s], x) /\ phase'[s] = to
  BY DEF IInv, SignalTypes, Schedule
<1>4. SignalTypes'
  BY <1>2 DEF IInv, SignalTypes, Schedule
<1>5. Others(s)
  BY DEF IInv, SignalTypes, Others, Schedule
<1>6. Asks(s)' /\ Unused(s)'
  BY <1>2, <1>3 DEF IInv, Asks, Unused, Alive, Restores
<1> QED BY <1>4, <1>5, <1>6, OneServer

(* A callback other than the restoring one is run.                         *)
LEMMA NextKeeps ==
  ASSUME NEW s \in Servers, NEW x \in Calls \ {"restore"}, IInv,
         Runs(s, x), Next_(s), UNCHANGED <<phase, sigint, stopping>>
  PROVE  IInv'
<1>1. calls[s] \in Seq(Calls) /\ calls[s] # <<>> /\ Head(calls[s]) = x
  BY DEF IInv, SignalTypes, Runs
<1>2. Tail(calls[s]) \in Seq(Calls) /\ (Restores(calls[s]) => Restores(Tail(calls[s])))
  BY <1>1, TailRestores
<1>3. calls'[s] = Tail(calls[s])
  BY DEF IInv, SignalTypes, Next_
<1>4. SignalTypes'
  BY <1>2 DEF IInv, SignalTypes, Next_
<1>5. Others(s)
  BY DEF IInv, SignalTypes, Others, Next_
<1>6. Asks(s)' /\ Unused(s)'
  BY <1>2, <1>3 DEF IInv, Asks, Unused, Alive, Restores
<1> QED BY <1>4, <1>5, <1>6, OneServer

(* The server is told to stop.                                             *)
LEMMA StopKeeps ==
  ASSUME NEW s \in Servers, IInv, Stop(s), Unused(s)', UNCHANGED phase,
         sigint' \in [Servers -> [on : {"confirm", "stop"}, asking : BOOLEAN]],
         \A q \in Servers \ {s} : sigint'[q] = sigint[q]
  PROVE  IInv'
<1>1. Append(calls[s], "stop") \in Seq(Calls)
  BY AppendRestores DEF IInv, SignalTypes, Calls
<1>2. SignalTypes'
  BY <1>1 DEF IInv, SignalTypes, Stop, Schedule
<1>3. Others(s)
  BY DEF IInv, SignalTypes, Others, Stop, Schedule
<1>4. stopping'[s] = TRUE
  BY DEF IInv, SignalTypes, Stop
<1>5. Asks(s)'
  BY <1>4 DEF Asks
<1> QED BY <1>2, <1>3, <1>5, OneServer

-----------------------------------------------------------------------------
(* What a server does by itself.                                           *)
LEMMA ProceedsKeeps ==
  ASSUME NEW s \in Servers, IInv, Proceeds(s)
  PROVE  IInv'
<1>1. CASE Load(s)
  <2>1. CASE Died(s) /\ UNCHANGED stopping
    BY <2>1, DiedKeeps
  <2>2. CASE phase' = [phase EXCEPT ![s] = "loaded"] /\ Schedule(s, "bind") /\ UNCHANGED <<sigint, stopping>>
    BY <1>1, <2>2, ScheduleKeeps DEF Load, Alive, Phases, Calls
  <2> QED BY <1>1, <2>1, <2>2 DEF Load
<1>2. CASE WriteInfo(s)
  <2>1. phase' = [phase EXCEPT ![s] = "writing"] /\ UNCHANGED <<calls, sigint, stopping>> /\ phase[s] # "exited"
    BY <1>2 DEF WriteInfo, signals
  <2> QED BY <2>1, PhaseKeeps DEF Phases
<1>3. CASE InfoWritten(s)
  <2>1. phase' = [phase EXCEPT ![s] = "announced"] /\ UNCHANGED <<calls, sigint, stopping>> /\ phase[s] # "exited"
    BY <1>3 DEF InfoWritten, signals
  <2> QED BY <2>1, PhaseKeeps DEF Phases
<1>4. CASE StartLoop(s)
  <2>1. phase' = [phase EXCEPT ![s] = "running"] /\ Schedule(s, "post_start") /\ UNCHANGED <<sigint, stopping>> /\ Alive(s)
    BY <1>4 DEF StartLoop, signals, Alive
  <2> QED BY <2>1, ScheduleKeeps DEF Phases, Calls
<1>5. CASE Bind(s)
  <2>1. CASE Died(s) /\ UNCHANGED stopping
    BY <2>1, DiedKeeps
  <2>2. CASE Next_(s) /\ UNCHANGED <<phase, sigint, stopping>>
    BY <1>5, <2>2, NextKeeps DEF Bind, Calls
  <2> QED BY <1>5, <2>1, <2>2 DEF Bind
<1>6. CASE PostStart(s)
  BY <1>6, NextKeeps DEF PostStart, signals, Calls
<1>7. CASE RestoreHandler(s)
  <2>1. calls[s] \in Seq(Calls) /\ calls[s] # <<>>
    BY <1>7 DEF IInv, SignalTypes, RestoreHandler, Runs
  <2>2. Tail(calls[s]) \in Seq(Calls)
    BY <2>1, TailRestores
  <2>3. sigint'[s].on = "confirm"
    BY <1>7 DEF IInv, SignalTypes, RestoreHandler
  <2>4. SignalTypes'
    BY <1>7, <2>2 DEF IInv, SignalTypes, RestoreHandler, Next_
  <2>5. Others(s)
    BY <1>7 DEF IInv, SignalTypes, Others, RestoreHandler, Next_
  <2>6. Asks(s)' /\ Unused(s)'
    BY <2>3 DEF Asks, Unused
  <2> QED BY <2>4, <2>5, <2>6, OneServer
<1>8. CASE StopCall(s)
  BY <1>8, NextKeeps DEF StopCall, signals, Calls
<1>9. CASE \E p \in Packages : StartPoint(s, p)
  BY <1>9, Untouched DEF StartPoint, signals, unseen
<1>10. ASSUME NEW c \in Slots, CleanupKernels(s, c) PROVE IInv'
  BY <1>10, Untouched DEF CleanupKernels, signals, unseen
<1>11. ASSUME NEW c \in Slots, CloseAll(s, c) PROVE IInv'
  <2>1. phase' = [phase EXCEPT ![s] = "stopped"] /\ UNCHANGED <<calls, sigint, stopping>> /\ phase[s] # "exited"
    BY <1>11 DEF CloseAll, signals
  <2> QED BY <2>1, PhaseKeeps DEF Phases
<1>12. ASSUME NEW c \in Slots, NEW x \in Apps, StopApp(s, c, x) PROVE IInv'
  BY <1>12, Untouched DEF StopApp, signals, unseen
<1>13. CASE KernelStopped(s)
  BY <1>13, Untouched DEF KernelStopped, signals, unseen
<1>14. CASE Exit(s)
  BY <1>14, DiedKeeps DEF Exit
<1>15. ASSUME NEW ok \in BOOLEAN, KernelStarts(s, ok) PROVE IInv'
  BY <1>15, Untouched DEF KernelStarts, signals, unseen
<1> QED
  BY <1>1, <1>2, <1>3, <1>4, <1>5, <1>6, <1>7, <1>8, <1>9, <1>10, <1>11, <1>12, <1>13, <1>14, <1>15
  DEF Proceeds

(* What is done to a server.                                               *)
LEMMA StimulusKeeps ==
  ASSUME NEW s \in Servers, IInv, Stimulus(s)
  PROVE  IInv'
<1>1. CASE Initialize(s)
  <2>1. CASE Died(s) /\ UNCHANGED stopping
    BY <2>1, DiedKeeps
  <2>2. CASE phase' = [phase EXCEPT ![s] = "linked"] /\ UNCHANGED <<calls, sigint, stopping>>
    <3>1. phase[s] # "exited"
      BY <1>1 DEF Initialize
    <3> QED BY <2>2, <3>1, PhaseKeeps DEF Phases
  <2> QED BY <1>1, <2>1, <2>2 DEF Initialize
<1>2. CASE Refused(s)
  BY <1>2, DiedKeeps DEF Refused, init_webapp, start_app, write_browser_open_files
<1>3. CASE Terminate(s)
  <2>1. sigint' \in [Servers -> [on : {"confirm", "stop"}, asking : BOOLEAN]]
    BY <1>3 DEF Terminate, IInv, SignalTypes
  <2>2. Unused(s)' /\ UNCHANGED phase /\ Stop(s) /\ UNCHANGED sigint
    BY <1>3 DEF Terminate, Handles, Unused
  <2> QED BY <2>1, <2>2, StopKeeps
<1>4. CASE Interrupt(s)
  <2>1. CASE sigint' = [sigint EXCEPT ![s] = [on |-> "stop", asking |-> TRUE]]
             /\ UNCHANGED <<phase, stopping, calls>>
    <3>1. SignalTypes'
      BY <2>1 DEF IInv, SignalTypes
    <3>2. Others(s)
      BY <2>1 DEF IInv, SignalTypes, Others
    <3>3. sigint'[s].asking /\ phase'[s] # "off"
      BY <1>4, <2>1 DEF IInv, SignalTypes, Interrupt, Handles
    <3>4. Asks(s)' /\ Unused(s)'
      BY <3>3 DEF Asks, Unused
    <3> QED BY <3>1, <3>2, <3>4, OneServer
  <2>2. CASE Stop(s) /\ UNCHANGED <<phase, sigint>>
    <3>1. sigint' \in [Servers -> [on : {"confirm", "stop"}, asking : BOOLEAN]]
      BY <2>2 DEF IInv, SignalTypes
    <3>2. Unused(s)'
      BY <1>4, <2>2 DEF Interrupt, Handles, Unused
    <3> QED BY <2>2, <3>1, <3>2, StopKeeps
  <2> QED BY <1>4, <2>1, <2>2 DEF Interrupt
<1>5. CASE KeyboardInterrupt(s)
  <2>1. phase' = [phase EXCEPT ![s] = "stopped"] /\ UNCHANGED <<calls, sigint, stopping>> /\ phase[s] # "exited"
    BY <1>5 DEF KeyboardInterrupt, signals
  <2> QED BY <2>1, PhaseKeeps DEF Phases
<1>6. CASE Inactive(s)
  <2>1. sigint' \in [Servers -> [on : {"confirm", "stop"}, asking : BOOLEAN]]
    BY <1>6 DEF Inactive, IInv, SignalTypes
  <2>2. Unused(s)' /\ UNCHANGED phase /\ Stop(s) /\ UNCHANGED sigint
    BY <1>6 DEF Inactive, Unused
  <2> QED BY <2>1, <2>2, StopKeeps
<1>7. ASSUME NEW reply \in {"yes", "no", "nothing"}, Answer(s, reply) PROVE IInv'
  <2>1. sigint' \in [Servers -> [on : {"confirm", "stop"}, asking : BOOLEAN]]
    BY <1>7 DEF Answer, IInv, SignalTypes
  <2>2. /\ \A q \in Servers \ {s} : sigint'[q] = sigint[q]
        /\ sigint'[s].on = sigint[s].on
        /\ UNCHANGED phase
    BY <1>7 DEF Answer, IInv, SignalTypes
  <2>3. CASE Stop(s)
    <3>1. Unused(s)'
      BY <2>2 DEF IInv, Unused
    <3> QED BY <2>1, <2>2, <2>3, <3>1, StopKeeps
  <2>4. CASE stopping[s] /\ UNCHANGED <<stopping, calls>>
    <3>1. SignalTypes'
      BY <2>1, <2>2, <2>4 DEF IInv, SignalTypes
    <3>2. Others(s)
      BY <2>2, <2>4 DEF Others
    <3>3. stopping'[s] /\ phase'[s] = phase[s] /\ sigint'[s].on = sigint[s].on
      BY <2>2, <2>4
    <3>4. Asks(s)' /\ Unused(s)'
      BY <3>3 DEF IInv, Asks, Unused
    <3> QED BY <3>1, <3>2, <3>4, OneServer
  <2>5. CASE Schedule(s, "restore") /\ UNCHANGED stopping
    <3>1. Append(calls[s], "restore") \in Seq(Calls) /\ Restores(Append(calls[s], "restore"))
      BY AppendRestores DEF IInv, SignalTypes, Calls
    <3>2. calls'[s] = Append(calls[s], "restore") /\ phase'[s] = phase[s] /\ sigint'[s].on = sigint[s].on
      BY <2>2, <2>5 DEF IInv, SignalTypes, Schedule
    <3>3. SignalTypes'
      BY <2>1, <2>2, <2>5, <3>1 DEF IInv, SignalTypes, Schedule
    <3>4. Others(s)
      BY <2>2, <2>5 DEF IInv, SignalTypes, Others, Schedule
    <3>5. Asks(s)' /\ Unused(s)'
      BY <3>1, <3>2 DEF IInv, Asks, Unused
    <3> QED BY <3>3, <3>4, <3>5, OneServer
  <2>6. CASE reply = "yes"
    BY <1>7, <2>3, <2>6 DEF Answer
  <2>7. CASE reply # "yes"
    <3>1. UNCHANGED stopping
      BY <1>7, <2>7 DEF Answer
    <3>2. (stopping[s] /\ UNCHANGED calls) \/ Schedule(s, "restore")
      BY <1>7, <2>7 DEF Answer, Schedule
    <3> QED BY <2>4, <2>5, <3>1, <3>2
  <2> QED BY <2>6, <2>7
<1>8. CASE RequestKernel(s)
  BY <1>8, Untouched DEF RequestKernel, signals, unseen
<1>9. CASE Crash(s)
  BY <1>9, DiedKeeps DEF Crash
<1> QED
  BY <1>1, <1>2, <1>3, <1>4, <1>5, <1>6, <1>7, <1>8, <1>9 DEF Stimulus

(* The command signals a server, or only looks at its file.                *)
LEMMA CommandKeeps ==
  ASSUME IInv, CliStep \/ ListFiles
  PROVE  IInv'
<1>1. CASE ListFiles
  BY <1>1, Untouched DEF ListFiles, signals, unseen
<1>2. CASE EndCommand
  BY <1>2, Untouched DEF EndCommand, vars, unseen
<1>3. ASSUME NEW s \in Servers, ReadFile(s) PROVE IInv'
  BY <1>3, Untouched DEF ReadFile, vars, unseen
<1>4. ASSUME NEW s \in Servers, UnlinkFile(s) PROVE IInv'
  BY <1>4, Untouched DEF UnlinkFile, signals, unseen
<1>5. ASSUME NEW s \in Servers, RequestShutdown(s) PROVE IInv'
  BY <1>5, Untouched DEF RequestShutdown, signals, unseen
<1>6. ASSUME NEW s \in Servers, NEW ok \in BOOLEAN, Answered(s, ok) PROVE IInv'
  BY <1>6, Untouched DEF Answered, vars, unseen
<1>7. ASSUME NEW s \in Servers, ProcessGone(s) PROVE IInv'
  BY <1>7, Untouched DEF ProcessGone, vars, unseen
<1>8. ASSUME NEW s \in Servers, SendTerm(s) PROVE IInv'
  <2>1. sigint' \in [Servers -> [on : {"confirm", "stop"}, asking : BOOLEAN]]
    BY <1>8 DEF SendTerm, IInv, SignalTypes
  <2>2. Unused(s)' /\ UNCHANGED phase /\ Stop(s) /\ UNCHANGED sigint
    BY <1>8 DEF SendTerm, Alive, Unused
  <2> QED BY <2>1, <2>2, StopKeeps
<1>9. ASSUME NEW s \in Servers, SendKill(s) PROVE IInv'
  BY <1>9, DiedKeeps DEF SendKill
<1> QED
  BY <1>1, <1>2, <1>3, <1>4, <1>5, <1>6, <1>7, <1>8, <1>9 DEF CliStep

(* No step breaks the invariant.                                           *)
LEMMA StepKeeps == IInv /\ [Next]_allvars => IInv'
<1> SUFFICES ASSUME IInv, [Next]_allvars PROVE IInv'
  OBVIOUS
<1>1. CASE UNCHANGED allvars
  BY <1>1, Untouched DEF allvars, vars, unseen
<1>2. CASE ListFiles \/ CliStep
  BY <1>2, CommandKeeps
<1>3. ASSUME NEW s \in Servers, Server(s) PROVE IInv'
  BY <1>3, ProceedsKeeps, StimulusKeeps DEF Server
<1> QED BY <1>1, <1>2, <1>3 DEF Next

(* What the proof needs of the types holds, and a server that would stop   *)
(* at the next SIGINT has a reason to or a way back (serverapp.py          *)
(* _handle_sigint, _confirm_exit).                                         *)
THEOREM Inductive == Spec => []IInv
<1>1. AllInit => IInv
  <2> SUFFICES ASSUME AllInit PROVE IInv
    OBVIOUS
  <2>1. <<>> \in Seq(Calls)
    OBVIOUS
  <2>2. SignalTypes
    BY <2>1 DEF AllInit, Init, SignalTypes, Phases
  <2>3. \A s \in Servers : sigint[s].on = "confirm"
    BY DEF AllInit, Init
  <2> QED BY <2>2, <2>3 DEF IInv, Asks, Unused
<1> QED BY <1>1, StepKeeps, PTL DEF Spec

(* A SIGINT always leads somewhere, for any number of servers and          *)
(* commands, whatever hooks raise (the docstring of _confirm_exit).        *)
THEOREM InterruptSound == Spec => []InterruptAsksAgain
<1>1. IInv => InterruptAsksAgain
  BY DEF IInv, Asks, Restores, InterruptAsksAgain
<1> QED BY <1>1, Inductive, PTL
-----------------------------------------------------------------------------
(* The types of the rest of the state.                                     *)
Ext == [known : SUBSET Packages, linked : SUBSET Points, loaded : SUBSET Points,
        starting : SUBSET Packages, started : SUBSET Points, stopped : SUBSET Points]
Cleanup == [at : {"none", "extensions", "kernels", "closing", "done"}, todo : SUBSET Apps,
            failed : BOOLEAN, doomed : BOOLEAN]
Command == [at : CliStates, todo : SUBSET Servers, seen : SUBSET Servers, on : Servers \cup {Nobody}]

Types ==
  /\ ext \in [Servers -> Ext]
  /\ port \in [Servers -> [number : Ports \cup {Nobody}, bound : BOOLEAN]]
  /\ owner \in [Ports -> Servers \cup {Nobody}]
  /\ info \in [Servers -> {"none", "torn", "full"}] /\ page \in [Servers -> BOOLEAN]
  /\ cleanup \in [Servers -> [Slots -> Cleanup]]
  /\ aborted \in [Servers -> BOOLEAN]
  /\ kernel \in [Servers -> {"none", "starting", "running", "failed", "stopping", "gone"}]
  /\ events \in Nat
  /\ cli \in Command

(* The points of a package are started in order, and a package that is     *)
(* being started has one left.                                             *)
Upto(p, k) == {<<p, i>> : i \in 1 .. k}
Prefixed(x) ==
  \A p \in Packages : \E k \in 0 .. Size[p] :
    {y \in x.started : y[1] = p} = Upto(p, k) /\ (p \in x.starting => k < Size[p])

(* The packages are started once, by one callback.                         *)
Early == {"off", "linked", "loaded", "writing", "announced"}
Holds(c, call) == \E i \in DOMAIN c : c[i] = call
Once(c) == \A i, j \in DOMAIN c : c[i] = "post_start" /\ c[j] = "post_start" => i = j
Fresh(x) == x.started = {} /\ x.starting = {}
Startable(s) ==
  /\ phase[s] \in Early => Fresh(ext[s]) /\ ~Holds(calls[s], "post_start")
  /\ Once(calls[s])
  /\ Holds(calls[s], "post_start") => Fresh(ext[s])
TInv == Types /\ \A s \in Servers : Prefixed(ext[s]) /\ Startable(s)

-----------------------------------------------------------------------------
(* What callbacks a queue holds when one is added or run.                  *)
LEMMA AppendHolds ==
  ASSUME NEW c \in Seq(Calls), NEW x \in Calls
  PROVE  /\ \A y : Holds(Append(c, x), y) <=> Holds(c, y) \/ x = y
         /\ Once(c) /\ (x # "post_start" \/ ~Holds(c, "post_start")) => Once(Append(c, x))
<1>1. DOMAIN Append(c, x) = 1 .. Len(c) + 1 /\ DOMAIN c = 1 .. Len(c) /\ Len(c) \in Nat
  OBVIOUS
<1>2. /\ \A i \in 1 .. Len(c) : Append(c, x)[i] = c[i]
      /\ Append(c, x)[Len(c) + 1] = x
  OBVIOUS
<1>3. \A i \in DOMAIN Append(c, x) : i \in DOMAIN c \/ i = Len(c) + 1
  BY <1>1
<1>4. DOMAIN c \subseteq DOMAIN Append(c, x) /\ Len(c) + 1 \in DOMAIN Append(c, x)
  BY <1>1
<1>5. ASSUME NEW y PROVE Holds(Append(c, x), y) <=> Holds(c, y) \/ x = y
  BY <1>1, <1>2, <1>3, <1>4 DEF Holds
<1>6. ASSUME Once(c), x # "post_start" \/ ~Holds(c, "post_start") PROVE Once(Append(c, x))
  <2> SUFFICES ASSUME NEW i \in DOMAIN Append(c, x), NEW j \in DOMAIN Append(c, x),
                      Append(c, x)[i] = "post_start", Append(c, x)[j] = "post_start"
               PROVE  i = j
    BY DEF Once
  <2>1. CASE i \in DOMAIN c /\ j \in DOMAIN c
    BY <1>1, <1>2, <1>6, <2>1 DEF Once
  <2>2. CASE i = Len(c) + 1 /\ j = Len(c) + 1
    BY <2>2
  <2>3. CASE i \in DOMAIN c /\ j = Len(c) + 1
    BY <1>1, <1>2, <1>6, <2>3 DEF Holds
  <2>4. CASE j \in DOMAIN c /\ i = Len(c) + 1
    BY <1>1, <1>2, <1>6, <2>4 DEF Holds
  <2> QED BY <1>3, <2>1, <2>2, <2>3, <2>4
<1> QED BY <1>5, <1>6

LEMMA TailHolds ==
  ASSUME NEW c \in Seq(Calls), c # <<>>
  PROVE  /\ Tail(c) \in Seq(Calls)
         /\ \A y : Holds(Tail(c), y) => Holds(c, y)
         /\ \A y : Holds(c, y) /\ Head(c) # y => Holds(Tail(c), y)
         /\ Holds(c, Head(c))
         /\ Once(c) => Once(Tail(c))
         /\ Once(c) /\ Head(c) = "post_start" => ~Holds(Tail(c), "post_start")
<1>1. /\ Tail(c) \in Seq(Calls) /\ Head(c) = c[1]
      /\ Len(c) \in Nat /\ Len(c) >= 1
      /\ DOMAIN c = 1 .. Len(c) /\ DOMAIN Tail(c) = 1 .. Len(c) - 1
      /\ \A i \in 1 .. Len(c) - 1 : Tail(c)[i] = c[i + 1]
  OBVIOUS
<1>2. 1 \in DOMAIN c
  BY <1>1
<1>3. \A i \in DOMAIN Tail(c) : i + 1 \in DOMAIN c /\ i + 1 # 1 /\ Tail(c)[i] = c[i + 1]
  BY <1>1
<1>4. \A i \in DOMAIN c : i # 1 => i - 1 \in DOMAIN Tail(c) /\ Tail(c)[i - 1] = c[i]
  BY <1>1
<1>5. ASSUME NEW y, Holds(Tail(c), y) PROVE Holds(c, y)
  BY <1>3, <1>5 DEF Holds
<1>6. ASSUME NEW y, Holds(c, y), Head(c) # y PROVE Holds(Tail(c), y)
  BY <1>1, <1>4, <1>6 DEF Holds
<1>7. Holds(c, Head(c))
  BY <1>1, <1>2 DEF Holds
<1>8. ASSUME Once(c) PROVE Once(Tail(c))
  <2> SUFFICES ASSUME NEW i \in DOMAIN Tail(c), NEW j \in DOMAIN Tail(c),
                      Tail(c)[i] = "post_start", Tail(c)[j] = "post_start"
               PROVE  i = j
    BY DEF Once
  <2>1. i + 1 = j + 1
    BY <1>3, <1>8 DEF Once
  <2> QED BY <1>1, <2>1
<1>9. ASSUME Once(c), Head(c) = "post_start", Holds(Tail(c), "post_start") PROVE FALSE
  <2>1. PICK i \in DOMAIN Tail(c) : Tail(c)[i] = "post_start"
    BY <1>9 DEF Holds
  <2>2. i + 1 = 1
    BY <1>1, <1>2, <1>3, <1>9, <2>1 DEF Once
  <2> QED BY <1>3, <2>1, <2>2
<1> QED BY <1>1, <1>5, <1>6, <1>7, <1>8, <1>9

(* How many points a package has had started.                              *)
LEMMA UptoCounts ==
  ASSUME NEW p, NEW k \in Nat
  PROVE  Cardinality(Upto(p, k)) = k
<1> DEFINE f == [i \in 1 .. k |-> <<p, i>>]
<1>1. f \in Bijection(1 .. k, Upto(p, k))
  <2>1. f \in [1 .. k -> Upto(p, k)]
    BY DEF Upto
  <2>2. \A i, j \in 1 .. k : f[i] = f[j] => i = j
    OBVIOUS
  <2>3. \A x \in Upto(p, k) : \E i \in 1 .. k : f[i] = x
    BY DEF Upto
  <2> QED BY <2>1, <2>2, <2>3 DEF Bijection, Injection, Surjection, IsInjective
<1> QED BY <1>1, FS_CountingElements DEF ExistsBijection

(* The points of a package.                                                *)
LEMMA PointsUpto ==
  ASSUME NEW p \in Packages
  PROVE  /\ Size[p] \in Nat
         /\ PointsOf(p) = Upto(p, Size[p])
         /\ PointsOf(p) \subseteq Points
<1>1. Size[p] \in Nat
  BY ExtensionsAssumption
<1>2. PointsOf(p) = Upto(p, Size[p])
  BY DEF PointsOf, Points, Upto
<1> QED BY <1>1, <1>2 DEF PointsOf

-----------------------------------------------------------------------------
(* How the queue of a server changes when its packages are not started.    *)
CallsMove(s) ==
  \/ UNCHANGED calls
  \/ calls' = [calls EXCEPT ![s] = <<>>]
  \/ \E x \in Calls \ {"post_start"} : Schedule(s, x)
  \/ calls[s] # <<>> /\ Next_(s)
PhaseMove(s) ==
  \/ UNCHANGED phase
  \/ \E to \in Phases : phase' = [phase EXCEPT ![s] = to] /\ (to \in Early => phase[s] \in Early)

LEMMA MoveHolds ==
  ASSUME NEW s \in Servers, SignalTypes, CallsMove(s), NEW q \in Servers
  PROVE  /\ Holds(calls'[q], "post_start") => Holds(calls[q], "post_start")
         /\ Once(calls[q]) => Once(calls'[q])
<1>1. calls[q] \in Seq(Calls) /\ calls \in [Servers -> Seq(Calls)]
  BY DEF SignalTypes
<1>2. CASE calls'[q] = calls[q]
  BY <1>2
<1>3. CASE calls'[q] = <<>>
  <2>1. DOMAIN calls'[q] = {}
    BY <1>3
  <2> QED BY <2>1 DEF Holds, Once
<1>4. ASSUME NEW x \in Calls \ {"post_start"}, calls'[q] = Append(calls[q], x)
      PROVE  /\ Holds(calls'[q], "post_start") => Holds(calls[q], "post_start")
             /\ Once(calls[q]) => Once(calls'[q])
  BY <1>1, <1>4, AppendHolds
<1>5. CASE calls[q] # <<>> /\ calls'[q] = Tail(calls[q])
  BY <1>1, <1>5, TailHolds
<1> QED BY <1>1, <1>2, <1>3, <1>4, <1>5 DEF CallsMove, Schedule, Next_

(* A step that starts no package.                                          *)
LEMMA PlainKeeps ==
  ASSUME NEW s \in Servers, IInv, TInv, Types', PhaseMove(s), CallsMove(s),
         \A q \in Servers : ext'[q].started = ext[q].started /\ ext'[q].starting = ext[q].starting
  PROVE  TInv'
<1>1. ASSUME NEW q \in Servers PROVE Prefixed(ext'[q])
  BY DEF TInv, Prefixed
<1>2. ASSUME NEW q \in Servers PROVE Startable(q)'
  <2>1. phase'[q] \in Early => phase[q] \in Early
    BY DEF PhaseMove, IInv, SignalTypes
  <2>2. /\ Holds(calls'[q], "post_start") => Holds(calls[q], "post_start")
        /\ Once(calls[q]) => Once(calls'[q])
    BY MoveHolds DEF IInv
  <2>3. Fresh(ext[q]) => Fresh(ext'[q])
    BY DEF Fresh
  <2>4. Startable(q)
    BY DEF TInv
  <2> QED BY <2>1, <2>2, <2>3, <2>4 DEF Startable
<1> QED BY <1>1, <1>2 DEF TInv

LEMMA ClosedTyped ==
  ASSUME NEW s \in Servers, Types
  PROVE  Closed(s) \in [Ports -> Servers \cup {Nobody}]
  BY DEF Types, Closed

LEMMA EventTyped ==
  ASSUME Types, Event
  PROVE  events' \in Nat
  BY DEF Types, Event

LEMMA NoCleanupTyped == NoCleanup \in Cleanup
  BY DEF NoCleanup, Cleanup

LEMMA DiedTyped ==
  ASSUME NEW s \in Servers, Types, Died(s)
  PROVE  /\ owner' \in [Ports -> Servers \cup {Nobody}]
         /\ cleanup' \in [Servers -> [Slots -> Cleanup]]
         /\ kernel' \in [Servers -> {"none", "starting", "running", "failed", "stopping", "gone"}]
         /\ PhaseMove(s) /\ CallsMove(s)
<1>1. owner' \in [Ports -> Servers \cup {Nobody}]
  BY ClosedTyped DEF Died
<1>2. cleanup' \in [Servers -> [Slots -> Cleanup]]
  BY NoCleanupTyped DEF Died, Types
<1>3. kernel' \in [Servers -> {"none", "starting", "running", "failed", "stopping", "gone"}]
  BY DEF Died, Types
<1>4. PhaseMove(s) /\ CallsMove(s)
  BY DEF Died, PhaseMove, CallsMove, Phases, Early
<1> QED BY <1>1, <1>2, <1>3, <1>4

LEMMA CleansTyped ==
  ASSUME NEW s \in Servers, Types, Cleans(s)
  PROVE  /\ info' \in [Servers -> {"none", "torn", "full"}]
         /\ page' \in [Servers -> BOOLEAN]
         /\ cleanup' \in [Servers -> [Slots -> Cleanup]]
<1>1. extension_apps(ext[s].known) \in SUBSET Apps
  BY DEF extension_apps
<1>2. [at |-> "extensions", todo |-> extension_apps(ext[s].known), failed |-> FALSE,
       doomed |-> kernel[s] = "running"] \in Cleanup
  BY <1>1 DEF Cleanup
<1>3. ASSUME NEW c, NEW r \in Cleanup
      PROVE  [cleanup EXCEPT ![s][c] = r] \in [Servers -> [Slots -> Cleanup]]
  BY DEF Types
<1>4. cleanup' \in [Servers -> [Slots -> Cleanup]]
  BY <1>2, <1>3 DEF Cleans
<1> QED BY <1>4 DEF Cleans, Types

LEMMA StopMoves ==
  ASSUME NEW s \in Servers, Types, Stop(s)
  PROVE  owner' \in [Ports -> Servers \cup {Nobody}] /\ CallsMove(s)
<1>1. owner' \in [Ports -> Servers \cup {Nobody}]
  BY ClosedTyped DEF Stop
<1>2. CallsMove(s)
  BY DEF Stop, CallsMove, Calls
<1> QED BY <1>1, <1>2

LEMMA ExtensionTypes ==
  ASSUME NEW s \in Servers
  PROVE  /\ \A b : add_extension(jpserver_extensions(s), b) \in SUBSET Packages
         /\ \A k \in SUBSET Packages : \A b : link_all_extensions(k, b) \in SUBSET Points
         /\ \A k \in SUBSET Packages : \A b : load_all_extensions(k, b) \in SUBSET Points
         /\ \A k \in SUBSET Packages : start_all_extensions(k) \in SUBSET Packages
<1>1. jpserver_extensions(s) \subseteq Packages
  <2>1. Enabled[s] \subseteq Packages
    BY ServersAssumption
  <2>2. ASSUME Starter[s] # Nobody PROVE Starter[s][1] \in Packages
    <3>1. Starter[s] \in Points
      BY <2>2, ServersAssumption, ExtensionsAssumption
    <3>2. PICK p \in Packages : \E i \in 1 .. Size[p] : Starter[s] = <<p, i>>
      BY <3>1 DEF Points
    <3> QED BY <3>2
  <2> QED BY <2>1, <2>2 DEF jpserver_extensions
<1>2. \A b : add_extension(jpserver_extensions(s), b) \in SUBSET Packages
  BY <1>1 DEF add_extension
<1>3. \A p, b, h : Done(h, p, b) \subseteq Points
  BY DEF Done, PointsOf
<1>4. \A k \in SUBSET Packages : \A b : link_all_extensions(k, b) \in SUBSET Points
  BY <1>3 DEF link_all_extensions, link_extension
<1>5. \A k \in SUBSET Packages : \A b : load_all_extensions(k, b) \in SUBSET Points
  BY <1>3 DEF load_all_extensions, load_extension
<1>6. \A k \in SUBSET Packages : start_all_extensions(k) \in SUBSET Packages
  BY DEF start_all_extensions
<1> QED BY <1>2, <1>4, <1>5, <1>6

-----------------------------------------------------------------------------
SameStarts == \A q \in Servers : ext'[q].started = ext[q].started /\ ext'[q].starting = ext[q].starting

(* The loop starts, and the packages are to be started.                    *)
LEMMA StartLoopTyped ==
  ASSUME NEW s \in Servers, IInv, TInv, StartLoop(s), UNCHANGED cli
  PROVE  TInv'
<1>1. Types'
  BY DEF StartLoop, OpenPage, signals, TInv, Types
<1>2. ASSUME NEW q \in Servers PROVE Prefixed(ext'[q])
  BY DEF StartLoop, TInv
<1>3. ASSUME NEW q \in Servers PROVE Startable(q)'
  <2>1. Startable(q) /\ ext' = ext
    BY DEF StartLoop, TInv
  <2>2. CASE q # s
    <3>1. phase'[q] = phase[q] /\ calls'[q] = calls[q]
      BY <2>2 DEF StartLoop, Schedule, IInv, SignalTypes
    <3> QED BY <2>1, <3>1 DEF Startable
  <2>3. CASE q = s
    <3>1. phase'[q] = "running" /\ calls'[q] = Append(calls[q], "post_start") /\ calls[q] \in Seq(Calls)
      BY <2>3 DEF StartLoop, Schedule, IInv, SignalTypes
    <3>2. Fresh(ext[q]) /\ ~Holds(calls[q], "post_start")
      BY <2>1, <2>3 DEF StartLoop, Startable, Early
    <3>3. Once(calls'[q])
      BY <2>1, <3>1, <3>2, AppendHolds DEF Startable, Calls
    <3> QED BY <2>1, <3>1, <3>2, <3>3 DEF Startable, Early
  <2> QED BY <2>2, <2>3
<1> QED BY <1>1, <1>2, <1>3 DEF TInv

(* The packages begin to start.                                            *)
LEMMA PostStartTyped ==
  ASSUME NEW s \in Servers, IInv, TInv, PostStart(s), UNCHANGED cli
  PROVE  TInv'
<1> DEFINE S == start_all_extensions(ext[s].known)
<1>1. /\ ext[s] \in Ext /\ Startable(s)
      /\ calls[s] \in Seq(Calls) /\ calls[s] # <<>> /\ Head(calls[s]) = "post_start"
      /\ phase[s] = "running"
  BY DEF PostStart, Runs, TInv, Types, IInv, SignalTypes
<1>2. Fresh(ext[s])
  BY <1>1, TailHolds DEF Startable
<1>3. S \in SUBSET Packages
  BY <1>1, ExtensionTypes DEF Ext
<1>4. ext' = [ext EXCEPT ![s].starting = S]
  BY DEF PostStart
<1>5. Types'
  <2>1. ext' \in [Servers -> Ext]
    BY <1>1, <1>3, <1>4 DEF TInv, Types, Ext
  <2> QED BY <2>1 DEF PostStart, files, signals, TInv, Types
<1>6. ASSUME NEW q \in Servers PROVE Prefixed(ext'[q])
  <2>1. Prefixed(ext[q])
    BY DEF TInv
  <2>2. CASE q # s
    <3>1. ext'[q] = ext[q]
      BY <1>4, <2>2 DEF TInv, Types
    <3> QED BY <2>1, <3>1
  <2>3. CASE q = s
    <3> SUFFICES ASSUME NEW p \in Packages
                 PROVE  \E k \in 0 .. Size[p] :
                          {y \in ext'[q].started : y[1] = p} = Upto(p, k) /\ (p \in ext'[q].starting => k < Size[p])
      BY DEF Prefixed
    <3>1. ext'[q].started = {} /\ ext'[q].starting = S
      BY <1>1, <1>2, <1>4, <2>3 DEF TInv, Types, Ext, Fresh
    <3>2. Upto(p, 0) = {} /\ Size[p] \in Nat
      BY PointsUpto DEF Upto
    <3>3. ASSUME p \in S PROVE 0 < Size[p]
      <4>1. PointsOf(p) # {}
        BY <3>3 DEF start_all_extensions
      <4> QED BY <3>2, <4>1, PointsUpto
    <3>4. 0 \in 0 .. Size[p]
      BY <3>2
    <3> QED BY <3>1, <3>2, <3>3, <3>4
  <2> QED BY <2>2, <2>3
<1>7. ASSUME NEW q \in Servers PROVE Startable(q)'
  <2>1. Startable(q)
    BY DEF TInv
  <2>2. CASE q # s
    <3>1. ext'[q] = ext[q] /\ phase'[q] = phase[q] /\ calls'[q] = calls[q]
      BY <1>4, <2>2 DEF PostStart, Next_, TInv, Types, IInv, SignalTypes
    <3> QED BY <2>1, <3>1 DEF Startable
  <2>3. CASE q = s
    <3>1. calls'[q] = Tail(calls[q]) /\ phase'[q] = "running"
      BY <1>1, <2>3 DEF PostStart, Next_, IInv, SignalTypes
    <3>2. Once(calls'[q]) /\ ~Holds(calls'[q], "post_start")
      BY <1>1, <2>3, <3>1, TailHolds DEF Startable
    <3> QED BY <3>1, <3>2 DEF Startable, Early
  <2> QED BY <2>2, <2>3
<1> QED BY <1>5, <1>6, <1>7 DEF TInv

(* The point that is started is the next one of its package.               *)
LEMMA NextPoint ==
  ASSUME NEW s \in Servers, TInv, NEW p \in Packages, p \in ext[s].starting,
         NEW k \in 0 .. Size[p], {y \in ext[s].started : y[1] = p} = Upto(p, k)
  PROVE  /\ k < Size[p] /\ k \in Nat /\ Size[p] \in Nat
         /\ start_point(p, ext[s].started) = <<p, k + 1>>
         /\ <<p, k + 1>> \in PointsOf(p)
<1>1. Size[p] \in Nat /\ k \in Nat
  BY PointsUpto
<1>2. PICK j \in 0 .. Size[p] : {y \in ext[s].started : y[1] = p} = Upto(p, j) /\ j < Size[p]
  BY DEF TInv, Prefixed
<1>3. j = k
  <2>1. Cardinality(Upto(p, j)) = j /\ Cardinality(Upto(p, k)) = k
    BY <1>1, <1>2, UptoCounts
  <2> QED BY <1>2, <2>1
<1>4. start_point(p, ext[s].started) = <<p, k + 1>>
  <2>1. Cardinality({y \in ext[s].started : y[1] = p}) = k
    BY <1>1, UptoCounts
  <2> QED BY <1>1, <2>1 DEF start_point
<1>5. <<p, k + 1>> \in Upto(p, Size[p])
  BY <1>1, <1>2, <1>3 DEF Upto
<1> QED BY <1>1, <1>2, <1>3, <1>4, <1>5, PointsUpto

(* A point of a package is started.                                        *)
LEMMA StartPointTyped ==
  ASSUME NEW s \in Servers, NEW p \in Packages, IInv, TInv, StartPoint(s, p), UNCHANGED cli
  PROVE  TInv'
<1>1. ext[s] \in Ext /\ p \in ext[s].starting /\ Prefixed(ext[s]) /\ Startable(s)
  BY DEF StartPoint, TInv, Types
<1>2. PICK k \in 0 .. Size[p] : {y \in ext[s].started : y[1] = p} = Upto(p, k)
  BY <1>1 DEF Prefixed
<1>3. /\ k < Size[p] /\ k \in Nat /\ Size[p] \in Nat
      /\ start_point(p, ext[s].started) = <<p, k + 1>>
      /\ <<p, k + 1>> \in PointsOf(p)
  BY <1>1, <1>2, NextPoint
<1> DEFINE x == <<p, k + 1>>
<1>4. ext' = IF <<"start", x>> \in broken THEN [ext EXCEPT ![s].starting = @ \ {p}]
             ELSE [ext EXCEPT ![s].started = @ \cup {x},
                              ![s].starting = IF k + 1 = Size[p] THEN @ \ {p} ELSE @]
  <2>1. x[2] = k + 1
    OBVIOUS
  <2> QED BY <1>3, <2>1 DEF StartPoint
<1>5. /\ \A q \in Servers \ {s} : ext'[q] = ext[q]
      /\ \/ ext'[s].started = ext[s].started /\ ext'[s].starting = ext[s].starting \ {p}
         \/ /\ ext'[s].started = ext[s].started \cup {x}
            /\ ext'[s].starting = IF k + 1 = Size[p] THEN ext[s].starting \ {p} ELSE ext[s].starting
      /\ ext' \in [Servers -> Ext]
  <2>1. x \in Points
    BY <1>3, PointsUpto
  <2>2. CASE <<"start", x>> \in broken
    BY <1>1, <1>4, <2>2 DEF TInv, Types, Ext
  <2>3. CASE <<"start", x>> \notin broken
    <3> DEFINE S == ext[s].started \cup {x}
               T == IF k + 1 = Size[p] THEN ext[s].starting \ {p} ELSE ext[s].starting
    <3>1. S \in SUBSET Points /\ T \in SUBSET Packages /\ ext \in [Servers -> Ext]
      BY <1>1, <2>1 DEF Ext, TInv, Types
    <3>2. ext' = [ext EXCEPT ![s].started = S, ![s].starting = T]
      BY <1>4, <2>3, <3>1 DEF Ext
    <3> HIDE DEF S, T
    <3>3. /\ \A q \in Servers \ {s} : ext'[q] = ext[q]
          /\ ext'[s].started = S /\ ext'[s].starting = T
          /\ ext' \in [Servers -> Ext]
      BY <3>1, <3>2 DEF Ext
    <3> QED BY <3>3 DEF S, T
  <2> QED BY <2>2, <2>3
<1>6. Types'
  BY <1>5 DEF StartPoint, files, signals, TInv, Types
<1>7. ASSUME NEW q \in Servers PROVE Prefixed(ext'[q])
  <2>1. Prefixed(ext[q])
    BY DEF TInv
  <2>2. CASE q # s
    BY <1>5, <2>1, <2>2
  <2>3. CASE q = s
    <3> SUFFICES ASSUME NEW r \in Packages
                 PROVE  \E i \in 0 .. Size[r] :
                          {y \in ext'[s].started : y[1] = r} = Upto(r, i) /\ (r \in ext'[s].starting => i < Size[r])
      BY <2>3 DEF Prefixed
    <3>1. PICK i \in 0 .. Size[r] :
            {y \in ext[s].started : y[1] = r} = Upto(r, i) /\ (r \in ext[s].starting => i < Size[r])
      BY <1>1 DEF Prefixed
    <3>2. ext'[s].starting \subseteq ext[s].starting
      BY <1>5
    <3>3. CASE ext'[s].started = ext[s].started
      BY <3>1, <3>2, <3>3
    <3>4. CASE r # p /\ ext'[s].started = ext[s].started \cup {x}
      <4>1. {y \in ext'[s].started : y[1] = r} = {y \in ext[s].started : y[1] = r}
        BY <3>4
      <4> QED BY <3>1, <3>2, <4>1
    <3>5. CASE /\ r = p /\ ext'[s].started = ext[s].started \cup {x}
               /\ ext'[s].starting = IF k + 1 = Size[p] THEN ext[s].starting \ {p} ELSE ext[s].starting
      <4>1. {y \in ext'[s].started : y[1] = p} = Upto(p, k) \cup {x}
        BY <1>2, <3>5
      <4>2. Upto(p, k) \cup {x} = Upto(p, k + 1)
        <5>1. 1 .. k + 1 = (1 .. k) \cup {k + 1}
          BY <1>3
        <5> QED BY <5>1 DEF Upto
      <4>3. k + 1 \in 0 .. Size[p]
        BY <1>3
      <4>4. p \in ext'[s].starting => k + 1 < Size[p]
        BY <1>3, <3>5
      <4> QED BY <3>5, <4>1, <4>2, <4>3, <4>4
    <3> QED BY <1>5, <3>3, <3>4, <3>5
  <2> QED BY <2>2, <2>3
<1>8. ASSUME NEW q \in Servers PROVE Startable(q)'
  <2>1. Startable(q) /\ phase' = phase /\ calls' = calls
    BY DEF TInv, StartPoint
  <2>2. CASE q # s
    BY <1>5, <2>1, <2>2 DEF Startable
  <2>3. CASE q = s
    <3>1. ~Fresh(ext[s])
      BY <1>1 DEF Fresh
    <3> QED BY <2>1, <2>3, <3>1 DEF Startable
  <2> QED BY <2>2, <2>3
<1> QED BY <1>6, <1>7, <1>8 DEF TInv

-----------------------------------------------------------------------------
(* A server that is found and loaded.                                      *)
LEMMA InitializeTyped ==
  ASSUME NEW s \in Servers, IInv, TInv, Initialize(s), UNCHANGED cli
  PROVE  TInv'
<1> DEFINE known == add_extension(jpserver_extensions(s), broken)
<1>1. CASE Died(s) /\ UNCHANGED ext
  <2>1. Types'
    BY <1>1, DiedTyped DEF Initialize, files, TInv, Types
  <2> QED BY <1>1, <2>1, DiedTyped, PlainKeeps DEF TInv
<1>2. CASE /\ phase' = [phase EXCEPT ![s] = "linked"]
           /\ ext' = [ext EXCEPT ![s].known = known, ![s].linked = link_all_extensions(known, broken)]
           /\ UNCHANGED <<calls, owner, sigint, cleanup, kernel>>
  <2>1. known \in SUBSET Packages /\ link_all_extensions(known, broken) \in SUBSET Points
    BY ExtensionTypes
  <2> HIDE DEF known
  <2> DEFINE l == link_all_extensions(known, broken)
  <2>5. l \in SUBSET Points /\ ext' = [ext EXCEPT ![s].known = known, ![s].linked = l]
    BY <1>2, <2>1
  <2> HIDE DEF l
  <2>6. ext' \in [Servers -> Ext]
    <3> DEFINE e == [ext[s] EXCEPT !.known = known, !.linked = l]
    <3>1. ext[s] \in Ext
      BY DEF TInv, Types
    <3>2. e \in Ext
      BY <2>1, <2>5, <3>1 DEF Ext
    <3>3. ext' = [ext EXCEPT ![s] = e]
      BY <2>5, <3>1 DEF Ext, TInv, Types
    <3> QED BY <3>2, <3>3 DEF TInv, Types
  <2>7. ASSUME NEW q \in Servers PROVE ext'[q].started = ext[q].started /\ ext'[q].starting = ext[q].starting
    BY <2>5 DEF TInv, Types, Ext
  <2>2. ext' \in [Servers -> Ext] /\ SameStarts
    BY <2>6, <2>7 DEF SameStarts
  <2>3. Types'
    BY <1>2, <2>2 DEF Initialize, files, TInv, Types
  <2>4. PhaseMove(s) /\ CallsMove(s)
    BY <1>2 DEF Initialize, PhaseMove, CallsMove, Phases, Early
  <2> QED BY <2>2, <2>3, <2>4, PlainKeeps DEF SameStarts
<1> QED BY <1>1, <1>2 DEF Initialize

LEMMA LoadTyped ==
  ASSUME NEW s \in Servers, IInv, TInv, Load(s), UNCHANGED cli
  PROVE  TInv'
<1> DEFINE loaded == load_all_extensions(ext[s].known, broken)
<1>1. ext[s] \in Ext
  BY DEF TInv, Types
<1>2. loaded \in SUBSET Points /\ ext' = [ext EXCEPT ![s].loaded = loaded]
  BY <1>1, ExtensionTypes DEF Load, Ext
<1> HIDE DEF loaded
<1>3. ext' \in [Servers -> Ext] /\ SameStarts
  <2>1. ext' \in [Servers -> Ext]
    <3> DEFINE e == [ext[s] EXCEPT !.loaded = loaded]
    <3>1. e \in Ext
      BY <1>1, <1>2 DEF Ext
    <3>2. ext' = [ext EXCEPT ![s] = e]
      BY <1>2
    <3> QED BY <3>1, <3>2 DEF TInv, Types
  <2>2. ASSUME NEW q \in Servers PROVE ext'[q].started = ext[q].started /\ ext'[q].starting = ext[q].starting
    BY <1>2 DEF TInv, Types, Ext
  <2> QED BY <2>1, <2>2 DEF SameStarts
<1>4. CASE Died(s) /\ UNCHANGED port
  <2>1. Types'
    BY <1>3, <1>4, DiedTyped DEF Load, files, TInv, Types
  <2> QED BY <1>3, <1>4, <2>1, DiedTyped, PlainKeeps DEF TInv, SameStarts
<1>5. ASSUME NEW p \in find_http_port,
             port' = [port EXCEPT ![s].number = p], phase' = [phase EXCEPT ![s] = "loaded"],
             Schedule(s, "bind"), UNCHANGED <<owner, cleanup, kernel, sigint>>
      PROVE  TInv'
  <2>1. port' \in [Servers -> [number : Ports \cup {Nobody}, bound : BOOLEAN]]
    <3>1. p \in Ports
      BY DEF find_http_port
    <3> QED BY <1>5, <3>1 DEF TInv, Types
  <2>2. Types'
    BY <1>3, <1>5, <2>1 DEF Load, files, TInv, Types
  <2>3. PhaseMove(s) /\ CallsMove(s)
    BY <1>5 DEF Load, PhaseMove, CallsMove, Phases, Early, Calls
  <2> QED BY <1>3, <2>2, <2>3, PlainKeeps DEF SameStarts
<1> QED BY <1>4, <1>5 DEF Load

(* What a server does by itself.                                           *)
LEMMA ProceedsTyped ==
  ASSUME NEW s \in Servers, IInv, TInv, Proceeds(s), UNCHANGED cli
  PROVE  TInv'
<1>0. Types /\ \A c \in Slots : cleanup[s][c] \in Cleanup
  BY DEF TInv, Types
<1>1. CASE Load(s)
  BY <1>1, LoadTyped
<1>2. CASE WriteInfo(s)
  <2>1. Types' /\ SameStarts
    BY <1>0, <1>2 DEF WriteInfo, Types, SameStarts
  <2>2. PhaseMove(s) /\ CallsMove(s)
    BY <1>2 DEF WriteInfo, PhaseMove, CallsMove, Phases, Early
  <2> QED BY <2>1, <2>2, PlainKeeps DEF SameStarts
<1>3. CASE InfoWritten(s)
  <2>1. Types' /\ SameStarts
    BY <1>0, <1>3 DEF InfoWritten, Types, SameStarts
  <2>2. PhaseMove(s) /\ CallsMove(s)
    BY <1>3 DEF InfoWritten, PhaseMove, CallsMove, Phases, Early
  <2> QED BY <2>1, <2>2, PlainKeeps DEF SameStarts
<1>4. CASE StartLoop(s)
  BY <1>4, StartLoopTyped
<1>5. CASE Bind(s)
  <2>1. CASE Died(s) /\ UNCHANGED port
    <3>1. Types' /\ SameStarts
      BY <1>0, <1>5, <2>1, DiedTyped DEF Bind, files, Types, SameStarts
    <3> QED BY <1>0, <2>1, <3>1, DiedTyped, PlainKeeps DEF SameStarts
  <2>2. CASE /\ owner' = [owner EXCEPT ![port[s].number] = s]
             /\ port' = [port EXCEPT ![s].bound = TRUE]
             /\ Next_(s)
             /\ UNCHANGED <<phase, cleanup, kernel, sigint>>
    <3>1. Types' /\ SameStarts
      BY <1>0, <1>5, <2>2, ZenonT(60) DEF Bind, files, Types, SameStarts
    <3>2. PhaseMove(s) /\ CallsMove(s)
      BY <1>5, <2>2 DEF Bind, Runs, PhaseMove, CallsMove
    <3> QED BY <3>1, <3>2, PlainKeeps DEF SameStarts
  <2> QED BY <1>5, <2>1, <2>2 DEF Bind
<1>6. CASE PostStart(s)
  BY <1>6, PostStartTyped
<1>7. CASE RestoreHandler(s)
  <2>1. Types' /\ SameStarts
    BY <1>0, <1>7 DEF RestoreHandler, startup, files, Types, SameStarts
  <2>2. PhaseMove(s) /\ CallsMove(s)
    BY <1>7 DEF RestoreHandler, Runs, PhaseMove, CallsMove
  <2> QED BY <2>1, <2>2, PlainKeeps DEF SameStarts
<1>8. CASE StopCall(s)
  <2>1. Types' /\ SameStarts
    BY <1>0, <1>8, CleansTyped DEF StopCall, signals, Types, SameStarts
  <2>2. PhaseMove(s) /\ CallsMove(s)
    BY <1>8 DEF StopCall, Runs, PhaseMove, CallsMove
  <2> QED BY <2>1, <2>2, PlainKeeps DEF SameStarts
<1>9. ASSUME NEW p \in Packages, StartPoint(s, p) PROVE TInv'
  BY <1>9, StartPointTyped
<1>10. ASSUME NEW c \in Slots, CleanupKernels(s, c) PROVE TInv'
  <2>1. cleanup' \in [Servers -> [Slots -> Cleanup]] /\ aborted' \in [Servers -> BOOLEAN]
        /\ kernel' \in [Servers -> {"none", "starting", "running", "failed", "stopping", "gone"}]
    <3>1. \/ cleanup' = [cleanup EXCEPT ![s][c] = NoCleanup]
          \/ cleanup' = [cleanup EXCEPT ![s][c].at = "closing"]
          \/ cleanup' = [cleanup EXCEPT ![s][c].at = "kernels"]
      BY <1>10 DEF CleanupKernels, Aborts
    <3>2. cleanup' \in [Servers -> [Slots -> Cleanup]]
      <4>1. ASSUME NEW r \in Cleanup PROVE [cleanup EXCEPT ![s][c] = r] \in [Servers -> [Slots -> Cleanup]]
        BY <1>0 DEF Types
      <4>2. ASSUME NEW a \in {"closing", "kernels"}, cleanup' = [cleanup EXCEPT ![s][c].at = a]
            PROVE  \E r \in Cleanup : cleanup' = [cleanup EXCEPT ![s][c] = r]
        <5>1. [cleanup[s][c] EXCEPT !.at = a] \in Cleanup
          BY <1>0 DEF Cleanup
        <5> QED BY <4>2, <5>1
      <4> QED BY <3>1, <4>1, <4>2, NoCleanupTyped
    <3>3. aborted' \in [Servers -> BOOLEAN]
      BY <1>0, <1>10 DEF CleanupKernels, Aborts, Types
    <3>4. kernel' \in [Servers -> {"none", "starting", "running", "failed", "stopping", "gone"}]
      BY <1>0, <1>10 DEF CleanupKernels, Aborts, Types
    <3> QED BY <3>2, <3>3, <3>4
  <2>2. Types' /\ SameStarts
    BY <1>0, <1>10, <2>1 DEF CleanupKernels, startup, files, Types, SameStarts
  <2>3. PhaseMove(s) /\ CallsMove(s)
    BY <1>10 DEF CleanupKernels, PhaseMove, CallsMove
  <2> QED BY <2>2, <2>3, PlainKeeps DEF SameStarts
<1>11. ASSUME NEW c \in Slots, CloseAll(s, c) PROVE TInv'
  <2>1. cleanup' \in [Servers -> [Slots -> Cleanup]]
    BY <1>0, <1>11, ZenonT(60) DEF CloseAll, Types, Cleanup
  <2>2. Types' /\ SameStarts
    BY <1>0, <1>11, <2>1, ClosedTyped DEF CloseAll, startup, files, Types, SameStarts
  <2>3. PhaseMove(s) /\ CallsMove(s)
    BY <1>11 DEF CloseAll, PhaseMove, CallsMove, Phases, Early
  <2> QED BY <2>2, <2>3, PlainKeeps DEF SameStarts
<1>12. ASSUME NEW c \in Slots, NEW x \in Apps, StopApp(s, c, x) PROVE TInv'
  <2>1. cleanup[s][c] \in Cleanup /\ x \in Points /\ ext[s] \in Ext
    BY <1>0, ExtensionsAssumption DEF Types
  <2>2. CASE /\ cleanup' = [cleanup EXCEPT ![s][c].todo = @ \ PointsOf(x[1]), ![s][c].failed = TRUE]
             /\ UNCHANGED ext
    <3> DEFINE T == cleanup[s][c].todo \ PointsOf(x[1])
    <3>1. T \in SUBSET Apps /\ cleanup' = [cleanup EXCEPT ![s][c].todo = T, ![s][c].failed = TRUE]
      BY <2>1, <2>2 DEF Cleanup
    <3> HIDE DEF T
    <3>2. cleanup' \in [Servers -> [Slots -> Cleanup]]
      <4> DEFINE r == [cleanup[s][c] EXCEPT !.todo = T, !.failed = TRUE]
      <4>1. r \in Cleanup
        BY <2>1, <3>1 DEF Cleanup
      <4>2. cleanup' = [cleanup EXCEPT ![s][c] = r]
        BY <1>0, <3>1 DEF Types, Cleanup
      <4> QED BY <1>0, <4>1, <4>2 DEF Types
    <3>3. Types' /\ SameStarts
      BY <1>0, <1>12, <2>2, <3>2 DEF StopApp, files, signals, Types, SameStarts
    <3>4. PhaseMove(s) /\ CallsMove(s)
      BY <1>12 DEF StopApp, PhaseMove, CallsMove
    <3> QED BY <3>3, <3>4, PlainKeeps DEF SameStarts
  <2>3. CASE /\ cleanup' = [cleanup EXCEPT ![s][c].todo = @ \ {x}]
             /\ ext' = [ext EXCEPT ![s].stopped = @ \cup {x}]
    <3>1. cleanup' \in [Servers -> [Slots -> Cleanup]]
      BY <1>0, <2>3 DEF Types, Cleanup
    <3>2. ext' \in [Servers -> Ext] /\ SameStarts
      BY <1>0, <2>1, <2>3 DEF Types, Ext, SameStarts
    <3>3. Types'
      BY <1>0, <1>12, <3>1, <3>2 DEF StopApp, files, signals, Types
    <3>4. PhaseMove(s) /\ CallsMove(s)
      BY <1>12 DEF StopApp, PhaseMove, CallsMove
    <3> QED BY <3>2, <3>3, <3>4, PlainKeeps DEF SameStarts
  <2> QED BY <1>12, <2>2, <2>3 DEF StopApp
<1>13. CASE KernelStopped(s)
  <2>1. cleanup' \in [Servers -> [Slots -> Cleanup]]
    BY <1>0, <1>13, ZenonT(60) DEF KernelStopped, Types, Cleanup
  <2>2. Types' /\ SameStarts
    BY <1>0, <1>13, <2>1 DEF KernelStopped, startup, files, Types, SameStarts
  <2>3. PhaseMove(s) /\ CallsMove(s)
    BY <1>13 DEF KernelStopped, PhaseMove, CallsMove
  <2> QED BY <2>2, <2>3, PlainKeeps DEF SameStarts
<1>14. CASE Exit(s)
  <2>1. Types' /\ SameStarts
    BY <1>0, <1>14, DiedTyped DEF Exit, startup, files, Types, SameStarts
  <2> QED BY <1>0, <1>14, <2>1, DiedTyped, PlainKeeps DEF Exit, SameStarts
<1>15. ASSUME NEW ok \in BOOLEAN, KernelStarts(s, ok) PROVE TInv'
  <2>1. Types' /\ SameStarts
    BY <1>0, <1>15 DEF KernelStarts, startup, files, Types, SameStarts
  <2>2. PhaseMove(s) /\ CallsMove(s)
    BY <1>15 DEF KernelStarts, PhaseMove, CallsMove
  <2> QED BY <2>1, <2>2, PlainKeeps DEF SameStarts
<1> QED
  BY <1>1, <1>2, <1>3, <1>4, <1>5, <1>6, <1>7, <1>8, <1>9, <1>10, <1>11, <1>12, <1>13, <1>14, <1>15
  DEF Proceeds

(* A process that is ended from outside.                                   *)
LEMMA KilledTyped ==
  ASSUME NEW s \in Servers, IInv, TInv, Died(s), events' \in Nat, cli' \in Command,
         UNCHANGED <<startup, aborted>>
  PROVE  TInv'
<1>1. Types' /\ SameStarts
  BY DiedTyped DEF startup, files, TInv, Types, SameStarts
<1>2. PhaseMove(s) /\ CallsMove(s)
  BY DiedTyped DEF TInv
<1> QED BY <1>1, <1>2, PlainKeeps DEF SameStarts

(* A server that is told to stop.                                          *)
LEMMA StoppedTyped ==
  ASSUME NEW s \in Servers, IInv, TInv, Stop(s), events' \in Nat, cli' \in Command,
         UNCHANGED <<startup, phase, cleanup, aborted, kernel>>
  PROVE  TInv'
<1>1. Types' /\ SameStarts
  BY StopMoves DEF startup, files, TInv, Types, SameStarts
<1>2. PhaseMove(s) /\ CallsMove(s)
  BY StopMoves DEF PhaseMove, TInv
<1> QED BY <1>1, <1>2, PlainKeeps DEF SameStarts

(* What is done to a server.                                               *)
LEMMA StimulusTyped ==
  ASSUME NEW s \in Servers, IInv, TInv, Stimulus(s), UNCHANGED cli
  PROVE  TInv'
<1>0. Types /\ events \in Nat /\ cli' \in Command
  BY DEF TInv, Types
<1>1. CASE Initialize(s)
  BY <1>1, InitializeTyped
<1>2. CASE Refused(s)
  BY <1>0, <1>2, KilledTyped DEF Refused, init_webapp, start_app, write_browser_open_files
<1>3. CASE Terminate(s)
  BY <1>0, <1>3, EventTyped, StoppedTyped DEF Terminate
<1>4. CASE Interrupt(s)
  <2>1. events' \in Nat
    BY <1>0, <1>4, EventTyped DEF Interrupt
  <2>2. CASE Stop(s)
    BY <1>0, <1>4, <2>1, <2>2, StoppedTyped DEF Interrupt
  <2>3. CASE UNCHANGED <<stopping, owner, calls>>
    <3>1. Types' /\ SameStarts
      BY <1>0, <1>4, <2>1, <2>3 DEF Interrupt, startup, files, Types, SameStarts
    <3>2. PhaseMove(s) /\ CallsMove(s)
      BY <1>4, <2>3 DEF Interrupt, PhaseMove, CallsMove
    <3> QED BY <3>1, <3>2, PlainKeeps DEF SameStarts
  <2> QED BY <1>4, <2>2, <2>3 DEF Interrupt
<1>5. CASE KeyboardInterrupt(s)
  <2>1. Types' /\ SameStarts
    BY <1>0, <1>5, EventTyped DEF KeyboardInterrupt, startup, files, Types, SameStarts
  <2>2. PhaseMove(s) /\ CallsMove(s)
    BY <1>5 DEF KeyboardInterrupt, PhaseMove, CallsMove, Phases, Early
  <2> QED BY <2>1, <2>2, PlainKeeps DEF SameStarts
<1>6. CASE Inactive(s)
  BY <1>0, <1>6, EventTyped, StoppedTyped DEF Inactive
<1>7. ASSUME NEW reply \in {"yes", "no", "nothing"}, Answer(s, reply) PROVE TInv'
  <2>1. CASE Stop(s)
    BY <1>0, <1>7, <2>1, StoppedTyped DEF Answer
  <2>2. CASE UNCHANGED owner /\ (UNCHANGED calls \/ Schedule(s, "restore"))
    <3>1. Types' /\ SameStarts
      BY <1>0, <1>7, <2>2 DEF Answer, startup, files, Types, SameStarts
    <3>2. PhaseMove(s) /\ CallsMove(s)
      BY <1>7, <2>2 DEF Answer, PhaseMove, CallsMove, Calls
    <3> QED BY <3>1, <3>2, PlainKeeps DEF SameStarts
  <2> QED BY <1>7, <2>1, <2>2 DEF Answer, Schedule
<1>8. CASE RequestKernel(s)
  <2>1. Types' /\ SameStarts
    BY <1>0, <1>8 DEF RequestKernel, startup, files, Types, SameStarts
  <2>2. PhaseMove(s) /\ CallsMove(s)
    BY <1>8 DEF RequestKernel, PhaseMove, CallsMove
  <2> QED BY <2>1, <2>2, PlainKeeps DEF SameStarts
<1>9. CASE Crash(s)
  BY <1>0, <1>9, EventTyped, KilledTyped DEF Crash
<1> QED
  BY <1>1, <1>2, <1>3, <1>4, <1>5, <1>6, <1>7, <1>8, <1>9 DEF Stimulus

(* A command that changes no server.                                       *)
LEMMA CommandTyped ==
  ASSUME IInv, TInv, UNCHANGED <<phase, calls, ext, port, owner, cleanup, aborted, kernel>>,
         info' \in [Servers -> {"none", "torn", "full"}], page' = page,
         events' \in Nat, cli' \in Command
  PROVE  TInv'
<1>1. Types'
  BY DEF TInv, Types
<1> QED BY <1>1 DEF TInv, Prefixed, Startable, Holds, Once, Fresh

LEMMA CliTyped ==
  ASSUME IInv, TInv, CliStep \/ ListFiles
  PROVE  TInv'
<1>0. Types /\ events \in Nat /\ cli \in Command /\ Idle \in Command
      /\ info \in [Servers -> {"none", "torn", "full"}]
  BY DEF TInv, Types, Idle, Command, CliStates
<1>1. CASE ListFiles
  <2>1. cli' \in Command
    BY <1>1 DEF ListFiles, Idle, Command, CliStates
  <2> QED BY <1>0, <1>1, <2>1, EventTyped, CommandTyped DEF ListFiles, startup, files
<1>2. CASE EndCommand
  BY <1>0, <1>2, CommandTyped DEF EndCommand, vars
<1>3. ASSUME NEW s \in Servers, ReadFile(s) PROVE TInv'
  <2>1. \/ cli' = Idle
        \/ cli' = [cli EXCEPT !.todo = @ \ {s}]
        \/ cli' = [cli EXCEPT !.todo = @ \ {s}, !.seen = @ \cup {s}]
        \/ cli' = [cli EXCEPT !.todo = @ \ {s}, !.at = "unlinking", !.on = s]
    <3>1. info[s] \in {"none", "torn", "full"}
      BY <1>0
    <3> QED BY <1>3, <3>1 DEF ReadFile
  <2>2. cli' \in Command
    <3>1. CASE cli' = Idle
      BY <1>0, <3>1
    <3>2. CASE cli' = [cli EXCEPT !.todo = @ \ {s}]
      BY <1>0, <3>2 DEF Command
    <3>3. CASE cli' = [cli EXCEPT !.todo = @ \ {s}, !.seen = @ \cup {s}]
      <4>1. cli' = [at |-> cli.at, todo |-> cli.todo \ {s}, seen |-> cli.seen \cup {s}, on |-> cli.on]
        BY <1>0, <3>3 DEF Command
      <4> QED BY <1>0, <4>1 DEF Command
    <3>4. CASE cli' = [cli EXCEPT !.todo = @ \ {s}, !.at = "unlinking", !.on = s]
      <4>1. cli' = [at |-> "unlinking", todo |-> cli.todo \ {s}, seen |-> cli.seen, on |-> s]
        BY <1>0, <3>4 DEF Command
      <4> QED BY <1>0, <4>1 DEF Command, CliStates
    <3> QED BY <2>1, <3>1, <3>2, <3>3, <3>4
  <2> QED BY <1>0, <1>3, <2>2, CommandTyped DEF ReadFile, vars
<1>4. ASSUME NEW s \in Servers, UnlinkFile(s) PROVE TInv'
  <2>1. cli' \in Command /\ info' \in [Servers -> {"none", "torn", "full"}]
    BY <1>0, <1>4 DEF UnlinkFile, Command, CliStates
  <2> QED BY <1>0, <1>4, <2>1, CommandTyped DEF UnlinkFile
<1>5. ASSUME NEW s \in Servers, RequestShutdown(s) PROVE TInv'
  <2>1. CASE cli' = Idle /\ UNCHANGED <<files, cleanup, events>>
    BY <1>0, <1>5, <2>1, CommandTyped DEF RequestShutdown, files
  <2>2. CASE Event /\ Cleans(s) /\ cli' = [cli EXCEPT !.at = "waiting", !.on = s]
    <3>1. cli' \in Command
      BY <1>0, <2>2 DEF Command, CliStates
    <3>2. Types' /\ SameStarts
      BY <1>0, <1>5, <2>2, <3>1, EventTyped, CleansTyped DEF RequestShutdown, Types, SameStarts
    <3>3. PhaseMove(s) /\ CallsMove(s)
      BY <1>5 DEF RequestShutdown, PhaseMove, CallsMove
    <3> QED BY <3>2, <3>3, PlainKeeps DEF SameStarts
  <2> QED BY <1>5, <2>1, <2>2 DEF RequestShutdown
<1>6. ASSUME NEW s \in Servers, NEW ok \in BOOLEAN, Answered(s, ok) PROVE TInv'
  <2>1. cli' \in Command
    BY <1>0, <1>6 DEF Answered, Command, CliStates
  <2> QED BY <1>0, <1>6, <2>1, CommandTyped DEF Answered, vars
<1>7. ASSUME NEW s \in Servers, ProcessGone(s) PROVE TInv'
  BY <1>0, <1>7, CommandTyped DEF ProcessGone, vars
<1>8. ASSUME NEW s \in Servers, SendTerm(s) PROVE TInv'
  <2>1. cli' \in Command
    BY <1>0, <1>8 DEF SendTerm, Command, CliStates
  <2> QED BY <1>0, <1>8, <2>1, StoppedTyped DEF SendTerm
<1>9. ASSUME NEW s \in Servers, SendKill(s) PROVE TInv'
  BY <1>0, <1>9, KilledTyped DEF SendKill
<1> QED
  BY <1>1, <1>2, <1>3, <1>4, <1>5, <1>6, <1>7, <1>8, <1>9 DEF CliStep

LEMMA InitTyped == AllInit => TInv
<1> SUFFICES ASSUME AllInit PROVE TInv
  OBVIOUS
<1>1. Idle \in Command
  BY DEF Idle, Command, CliStates
<1>2. [known |-> {}, linked |-> {}, loaded |-> {}, starting |-> {}, started |-> {}, stopped |-> {}] \in Ext
  BY DEF Ext
<1>3. Types
  BY <1>1, <1>2, NoCleanupTyped DEF AllInit, Init, Types
<1>4. ASSUME NEW q \in Servers PROVE Prefixed(ext[q]) /\ Startable(q)
  <2>1. Fresh(ext[q]) /\ calls[q] = <<>>
    BY DEF AllInit, Init, Fresh
  <2>2. ASSUME NEW p \in Packages PROVE 0 \in 0 .. Size[p] /\ Upto(p, 0) = {}
    BY PointsUpto DEF Upto
  <2>3. Prefixed(ext[q])
    BY <2>1, <2>2 DEF Prefixed, Fresh
  <2>4. DOMAIN calls[q] = {}
    BY <2>1
  <2> QED BY <2>1, <2>3, <2>4 DEF Startable, Holds, Once
<1> QED BY <1>3, <1>4 DEF TInv

LEMMA StepTyped ==
  ASSUME IInv, TInv, [Next]_allvars
  PROVE  TInv'
<1>1. CASE UNCHANGED allvars
  BY <1>1, CommandTyped DEF allvars, vars, TInv, Types
<1>2. CASE ListFiles \/ CliStep
  BY <1>2, CliTyped
<1>3. ASSUME NEW s \in Servers, Server(s) PROVE TInv'
  BY <1>3, ProceedsTyped, StimulusTyped DEF Server
<1> QED BY <1>1, <1>2, <1>3 DEF Next

(* The types hold, the points of a package are started one after the       *)
(* other, and the callback that starts the packages is run at most once    *)
(* (serverapp.py start_ioloop, extension/manager.py start_all_points).     *)
THEOREM TypesHold == Spec => []TInv
<1>1. IInv /\ TInv /\ [Next]_allvars => TInv'
  BY StepTyped
<1> QED BY <1>1, InitTyped, Inductive, PTL DEF Spec

-----------------------------------------------------------------------------
Quiet(s) == \A c \in Slots : cleanup[s][c].at = "none"

(* The info file follows the phase until somebody asks the server to stop. *)
Filed(s) ==
  /\ phase[s] \in {"off", "linked", "loaded"} => info[s] = "none"
  /\ phase[s] = "writing" => info[s] = "torn"
  /\ phase[s] \in {"announced", "running"} /\ ~stopping[s] /\ ~aborted[s] /\ Quiet(s) => info[s] = "full"

(* A cleanup begins with the files, in a server that runs; nothing writes  *)
(* them again.  Only the file of a process that is gone is removed.        *)
Swept(s) ==
  /\ Holds(calls[s], "stop") => stopping[s]
  /\ ~Quiet(s) => phase[s] \in {"running", "stopped"} /\ info[s] = "none" /\ ~page[s]
  /\ cli.at = "unlinking" /\ cli.on = s => phase[s] = "exited"
FInv == \A s \in Servers : Filed(s) /\ Swept(s)

-----------------------------------------------------------------------------
(* A step that leaves the files of another server alone.                   *)
Looks(q) == UNCHANGED cli \/ cli'.at # "unlinking" \/ cli'.on # q
SameFiles(q) ==
  /\ phase'[q] = phase[q] /\ calls'[q] = calls[q] /\ stopping'[q] = stopping[q]
  /\ aborted'[q] = aborted[q] /\ info'[q] = info[q] /\ page'[q] = page[q]
  /\ cleanup'[q] = cleanup[q]

LEMMA OtherFiles ==
  ASSUME NEW q \in Servers, FInv, SameFiles(q), Looks(q)
  PROVE  Filed(q)' /\ Swept(q)'
  BY DEF FInv, SameFiles, Looks, Filed, Swept, Quiet, Holds

LEMMA OneFile ==
  ASSUME NEW s \in Servers, FInv, \A q \in Servers \ {s} : SameFiles(q), \A q \in Servers : Looks(q),
         Filed(s)', Swept(s)'
  PROVE  FInv'
<1>1. ASSUME NEW q \in Servers, q # s PROVE Filed(q)' /\ Swept(q)'
  BY <1>1, OtherFiles
<1> QED BY <1>1 DEF FInv

(* A step that leaves the files, the cleanups and the phase alone.         *)
LEMMA FilesUntouched ==
  ASSUME FInv, UNCHANGED <<phase, calls, stopping, aborted, info, page, cleanup>>, \A q \in Servers : Looks(q)
  PROVE  FInv'
<1>1. \A q \in Servers : SameFiles(q)
  BY DEF SameFiles
<1> QED BY <1>1, OtherFiles DEF FInv

(* A process that ends leaves its file, and may have it removed.           *)
LEMMA DiedFiles ==
  ASSUME NEW s \in Servers, IInv, TInv, FInv, Died(s), UNCHANGED <<info, page, stopping, aborted>>,
         \A q \in Servers : Looks(q)
  PROVE  FInv'
<1>1. \A q \in Servers \ {s} : SameFiles(q)
  BY DEF Died, SameFiles, IInv, SignalTypes, TInv, Types
<1>2. phase'[s] = "exited" /\ calls'[s] = <<>> /\ cleanup'[s] = [c \in Slots |-> NoCleanup]
  BY DEF Died, IInv, SignalTypes, TInv, Types
<1>3. DOMAIN calls'[s] = {}
  BY <1>2
<1>4. ~Holds(calls'[s], "stop")
  BY <1>3 DEF Holds
<1>5. Quiet(s)'
  BY <1>2 DEF Quiet, NoCleanup
<1>6. Filed(s)' /\ Swept(s)'
  BY <1>2, <1>4, <1>5 DEF Filed, Swept
<1> QED BY <1>1, <1>6, OneFile

(* A server that is told to stop need not be found.                        *)
LEMMA StopFiles ==
  ASSUME NEW s \in Servers, IInv, TInv, FInv, Stop(s), UNCHANGED <<phase, info, page, aborted, cleanup>>,
         \A q \in Servers : Looks(q)
  PROVE  FInv'
<1>1. \A q \in Servers \ {s} : SameFiles(q)
  BY DEF Stop, Schedule, SameFiles, IInv, SignalTypes
<1>2. stopping'[s] = TRUE
  BY DEF Stop, IInv, SignalTypes
<1>3. Filed(s) /\ Swept(s) /\ Looks(s)
  BY DEF FInv
<1>4. Filed(s)' /\ Swept(s)'
  BY <1>2, <1>3 DEF Filed, Swept, Quiet, Looks
<1> QED BY <1>1, <1>4, OneFile

(* There is always room for a cleanup, or another one is under way.        *)
LEMMA CleansMarks ==
  ASSUME NEW s \in Servers, TInv, Cleans(s), Slots # {}
  PROVE  ~Quiet(s)'
<1> DEFINE Free(c) == c \in Slots /\ cleanup[s][c].at = "none" /\ \A d \in Slots : d < c => cleanup[s][d].at # "none"
           k == CHOOSE c \in Slots : cleanup[s][c].at = "none" /\ \A d \in Slots : d < c => cleanup[s][d].at # "none"
           r == [at |-> "extensions", todo |-> extension_apps(ext[s].known), failed |-> FALSE,
                 doomed |-> kernel[s] = "running"]
<1>1. cleanup \in [Servers -> [Slots -> Cleanup]] /\ cleanup' = [cleanup EXCEPT ![s][k] = r] /\ r.at = "extensions"
  BY DEF Cleans, TInv, Types
<1>2. (\E c : Free(c)) => k \in Slots
  OBVIOUS
<1>3. Slots = 1 .. MaxEvents /\ MaxEvents \in Nat
  BY ServersAssumption DEF Slots
<1>4. Quiet(s) => Free(1)
  BY <1>3 DEF Quiet
<1>5. k \in Slots \/ ~Quiet(s)
  BY <1>2, <1>4
<1> HIDE DEF k, r, Free
<1>6. CASE k \in Slots
  <2>1. cleanup'[s][k] = r
    BY <1>1, <1>6
  <2> QED BY <1>1, <1>6, <2>1 DEF Quiet
<1>7. CASE k \notin Slots
  <2>1. \A c \in Slots : cleanup'[s][c] = cleanup[s][c]
    BY <1>1, <1>7
  <2> QED BY <1>5, <1>7, <2>1 DEF Quiet
<1> QED BY <1>6, <1>7

(* A cleanup removes the files, and has been asked for.                    *)
LEMMA CleansFiles ==
  ASSUME NEW s \in Servers, IInv, TInv, FInv, Cleans(s), phase[s] = "running", UNCHANGED <<phase, stopping, aborted>>,
         UNCHANGED calls \/ (calls[s] # <<>> /\ Next_(s)), Slots # {} \/ stopping[s],
         \A q \in Servers : Looks(q)
  PROVE  FInv'
<1>1. \A q \in Servers \ {s} : SameFiles(q)
  BY DEF Cleans, Next_, SameFiles, IInv, SignalTypes, TInv, Types
<1>2. info'[s] = "none" /\ page'[s] = FALSE
  BY DEF Cleans, TInv, Types
<1>3. Filed(s) /\ Swept(s) /\ Looks(s)
  BY DEF FInv
<1>4. Holds(calls'[s], "stop") => Holds(calls[s], "stop")
  <2>1. calls \in [Servers -> Seq(Calls)]
    BY DEF IInv, SignalTypes
  <2> QED BY <2>1, TailHolds DEF Next_
<1>5. Swept(s)'
  BY <1>2, <1>3, <1>4 DEF Swept, Looks
<1>6. stopping[s] \/ ~Quiet(s)'
  BY CleansMarks
<1>7. Filed(s)'
  BY <1>6 DEF Filed
<1> QED BY <1>1, <1>5, <1>7, OneFile

(* A step of a server that asks for no cleanup.                            *)
LEMMA CallsFiles ==
  ASSUME NEW s \in Servers, IInv,
         UNCHANGED calls \/ (calls[s] # <<>> /\ Next_(s)) \/ (\E x \in Calls \ {"stop"} : Schedule(s, x))
  PROVE  Holds(calls'[s], "stop") => Holds(calls[s], "stop")
<1>1. calls \in [Servers -> Seq(Calls)] /\ calls[s] \in Seq(Calls)
  BY DEF IInv, SignalTypes
<1>2. ASSUME NEW x \in Calls \ {"stop"}, Schedule(s, x) PROVE calls'[s] = Append(calls[s], x)
  BY <1>1, <1>2 DEF Schedule
<1>3. ASSUME Next_(s) PROVE calls'[s] = Tail(calls[s])
  BY <1>1, <1>3 DEF Next_
<1>4. ASSUME NEW x \in Calls \ {"stop"}, Schedule(s, x), Holds(calls'[s], "stop") PROVE Holds(calls[s], "stop")
  <2>1. Holds(Append(calls[s], x), "stop")
    BY <1>2, <1>4
  <2> QED BY <1>1, <2>1, AppendHolds
<1>5. ASSUME calls[s] # <<>>, Next_(s), Holds(calls'[s], "stop") PROVE Holds(calls[s], "stop")
  <2>1. Holds(Tail(calls[s]), "stop")
    BY <1>3, <1>5
  <2> QED BY <1>1, <1>5, <2>1, TailHolds
<1> QED BY <1>4, <1>5

(* The queue of a server moves on, and nothing else.                       *)
LEMMA QueueFiles ==
  ASSUME NEW s \in Servers, IInv, FInv, UNCHANGED <<phase, stopping, aborted, info, page, cleanup, cli>>,
         UNCHANGED calls \/ (calls[s] # <<>> /\ Next_(s)) \/ (\E x \in Calls \ {"stop"} : Schedule(s, x))
  PROVE  FInv'
<1>1. Holds(calls'[s], "stop") => Holds(calls[s], "stop")
  BY CallsFiles
<1>2. \A q \in Servers \ {s} : SameFiles(q)
  BY DEF SameFiles, Schedule, Next_, IInv, SignalTypes
<1>3. Filed(s)' /\ Swept(s)'
  BY <1>1 DEF FInv, Filed, Swept, Quiet
<1> QED BY <1>2, <1>3, OneFile DEF Looks

(* A cleanup goes on.                                                      *)
LEMMA CleanupFiles ==
  ASSUME NEW s \in Servers, IInv, TInv, FInv, phase[s] = "running",
         UNCHANGED phase \/ phase' = [phase EXCEPT ![s] = "stopped"],
         UNCHANGED <<calls, stopping, info, page, cli>>,
         \A q \in Servers \ {s} : cleanup'[q] = cleanup[q] /\ aborted'[q] = aborted[q],
         Quiet(s)' => Quiet(s) \/ aborted'[s] \/ phase'[s] = "stopped",
         aborted[s] => aborted'[s],
         Quiet(s) => Quiet(s)'
  PROVE  FInv'
<1>1. \A q \in Servers \ {s} : SameFiles(q)
  BY DEF SameFiles, IInv, SignalTypes
<1>2. phase'[s] \in {"running", "stopped"}
  BY DEF IInv, SignalTypes
<1>3. Filed(s) /\ Swept(s) /\ aborted[s] \in BOOLEAN /\ aborted'[s] = aborted'[s]
  BY DEF FInv, TInv, Types
<1>4. Filed(s)'
  BY <1>2, <1>3 DEF Filed
<1>5. Swept(s)'
  BY <1>2, <1>3 DEF Swept
<1> QED BY <1>1, <1>4, <1>5, OneFile DEF Looks

(* What a server does by itself.                                           *)
LEMMA ProceedsFiles ==
  ASSUME NEW s \in Servers, IInv, TInv, FInv, Proceeds(s), UNCHANGED cli
  PROVE  FInv'
<1>0. /\ Types /\ Filed(s) /\ Swept(s) /\ \A q \in Servers : Looks(q)
      /\ calls \in [Servers -> Seq(Calls)] /\ phase \in [Servers -> Phases]
      /\ stopping \in [Servers -> BOOLEAN]
  BY DEF TInv, FInv, Looks, IInv, SignalTypes
<1>1. CASE Load(s)
  <2>1. CASE Died(s)
    BY <1>0, <1>1, <2>1, DiedFiles DEF Load, files
  <2>2. CASE phase' = [phase EXCEPT ![s] = "loaded"] /\ Schedule(s, "bind") /\ UNCHANGED cleanup
    <3>1. \A q \in Servers \ {s} : SameFiles(q)
      BY <1>0, <1>1, <2>2 DEF Load, files, SameFiles, Schedule
    <3>2. Holds(calls'[s], "stop") => Holds(calls[s], "stop")
      BY <2>2, CallsFiles DEF Calls
    <3>3. phase'[s] = "loaded" /\ phase[s] = "linked"
      BY <1>0, <1>1, <2>2 DEF Load
    <3>4. Filed(s)' /\ Swept(s)'
      BY <1>0, <1>1, <2>2, <3>2, <3>3 DEF Load, files, Filed, Swept, Quiet
    <3> QED BY <1>0, <3>1, <3>4, OneFile
  <2> QED BY <1>1, <2>1, <2>2 DEF Load
<1>2. CASE WriteInfo(s)
  <2>1. \A q \in Servers \ {s} : SameFiles(q)
    BY <1>0, <1>2 DEF WriteInfo, signals, SameFiles, Types
  <2>2. phase'[s] = "writing" /\ info'[s] = "torn" /\ phase[s] = "loaded"
    BY <1>0, <1>2 DEF WriteInfo, Types
  <2>3. Filed(s)' /\ Swept(s)'
    BY <1>0, <1>2, <2>2 DEF WriteInfo, signals, Filed, Swept, Quiet
  <2> QED BY <1>0, <2>1, <2>3, OneFile
<1>3. CASE InfoWritten(s)
  <2>1. \A q \in Servers \ {s} : SameFiles(q)
    BY <1>0, <1>3 DEF InfoWritten, signals, SameFiles, Types
  <2>2. phase'[s] = "announced" /\ info'[s] = "full" /\ phase[s] = "writing"
    BY <1>0, <1>3 DEF InfoWritten, Types, Filed
  <2>3. Filed(s)' /\ Swept(s)'
    BY <1>0, <1>3, <2>2 DEF InfoWritten, signals, Filed, Swept, Quiet
  <2> QED BY <1>0, <2>1, <2>3, OneFile
<1>4. CASE StartLoop(s)
  <2>1. \A q \in Servers \ {s} : SameFiles(q)
    BY <1>0, <1>4 DEF StartLoop, OpenPage, Schedule, signals, SameFiles, Types
  <2>2. phase'[s] = "running" /\ phase[s] = "announced"
    BY <1>0, <1>4 DEF StartLoop
  <2>3. Holds(calls'[s], "stop") => Holds(calls[s], "stop")
    BY <1>4, CallsFiles DEF StartLoop, Calls
  <2>4. Filed(s)' /\ Swept(s)'
    BY <1>0, <1>4, <2>2, <2>3 DEF StartLoop, signals, Filed, Swept, Quiet
  <2> QED BY <1>0, <2>1, <2>4, OneFile
<1>5. CASE Bind(s)
  <2>1. CASE Died(s)
    BY <1>0, <1>5, <2>1, DiedFiles DEF Bind, files
  <2>2. CASE Next_(s) /\ UNCHANGED <<phase, cleanup>>
    BY <1>5, <2>2, QueueFiles DEF Bind, files, Runs
  <2> QED BY <1>5, <2>1, <2>2 DEF Bind
<1>6. CASE PostStart(s)
  BY <1>6, QueueFiles DEF PostStart, Runs, files, signals
<1>7. CASE RestoreHandler(s)
  BY <1>7, QueueFiles DEF RestoreHandler, Runs, startup, files
<1>8. CASE StopCall(s)
  <2>1. calls[s] # <<>> /\ Head(calls[s]) = "stop" /\ phase[s] = "running"
    BY <1>8 DEF StopCall, Runs
  <2>2. stopping[s]
    BY <1>0, <2>1, TailHolds DEF Swept
  <2> QED BY <1>0, <1>8, <2>1, <2>2, CleansFiles DEF StopCall, signals
<1>9. ASSUME NEW p \in Packages, StartPoint(s, p) PROVE FInv'
  BY <1>0, <1>9, FilesUntouched DEF StartPoint, files, signals
<1>10. ASSUME NEW c \in Slots, CleanupKernels(s, c) PROVE FInv'
  <2>1. cleanup[s][c].at = "extensions" /\ phase[s] = "running"
    BY <1>10 DEF CleanupKernels, Ready
  <2>2. ~Quiet(s)
    BY <2>1 DEF Quiet
  <2>3. \A q \in Servers \ {s} : cleanup'[q] = cleanup[q] /\ aborted'[q] = aborted[q]
    BY <1>0, <1>10 DEF CleanupKernels, Aborts, Types
  <2>4. CASE Aborts(s, c)
    <3>1. aborted'[s] = TRUE
      BY <1>0, <2>4 DEF Aborts, Types
    <3> QED BY <1>10, <2>1, <2>2, <2>3, <3>1, CleanupFiles DEF CleanupKernels, startup, files, signals
  <2>5. ASSUME NEW a \in {"closing", "kernels"}, cleanup' = [cleanup EXCEPT ![s][c].at = a], UNCHANGED aborted
        PROVE  FInv'
    <3>1. cleanup'[s][c].at = a
      BY <1>0, <2>5 DEF Types, Cleanup
    <3>2. ~Quiet(s)'
      BY <3>1 DEF Quiet
    <3> QED BY <1>10, <2>1, <2>2, <2>3, <2>5, <3>2, CleanupFiles DEF CleanupKernels, startup, files, signals
  <2> QED BY <1>10, <2>4, <2>5 DEF CleanupKernels
<1>11. ASSUME NEW c \in Slots, CloseAll(s, c) PROVE FInv'
  <2>1. \A q \in Servers \ {s} : cleanup'[q] = cleanup[q] /\ aborted'[q] = aborted[q]
    BY <1>0, <1>11 DEF CloseAll, Types
  <2>2. phase'[s] = "stopped" /\ phase[s] = "running" /\ ~Quiet(s)
    BY <1>0, <1>11 DEF CloseAll, Quiet
  <2> QED BY <1>11, <2>1, <2>2, CleanupFiles DEF CloseAll, startup, files, signals
<1>12. ASSUME NEW c \in Slots, NEW x \in Apps, StopApp(s, c, x) PROVE FInv'
  <2>1. \A q \in Servers \ {s} : cleanup'[q] = cleanup[q] /\ aborted'[q] = aborted[q]
    BY <1>0, <1>12 DEF StopApp, Types
  <2>2. cleanup[s][c].at = "extensions" /\ phase[s] = "running"
    BY <1>12 DEF StopApp
  <2>3. cleanup'[s][c].at = "extensions"
    <3>1. cleanup[s][c] \in Cleanup
      BY <1>0 DEF Types
    <3>2. CASE cleanup' = [cleanup EXCEPT ![s][c].todo = @ \ {x}]
      BY <1>0, <2>2, <3>1, <3>2 DEF Types, Cleanup
    <3>3. CASE cleanup' = [cleanup EXCEPT ![s][c].todo = @ \ PointsOf(x[1]), ![s][c].failed = TRUE]
      BY <1>0, <2>2, <3>1, <3>3 DEF Types, Cleanup
    <3> QED BY <1>12, <3>2, <3>3 DEF StopApp
  <2>4. ~Quiet(s) /\ ~Quiet(s)'
    BY <2>2, <2>3 DEF Quiet
  <2> QED BY <1>12, <2>1, <2>2, <2>4, CleanupFiles DEF StopApp, files, signals
<1>13. CASE KernelStopped(s)
  <2>1. \A q \in Servers \ {s} : cleanup'[q] = cleanup[q] /\ aborted'[q] = aborted[q]
    BY <1>0, <1>13 DEF KernelStopped, Types
  <2>2. ASSUME NEW c \in Slots
        PROVE  cleanup'[s][c].at = IF cleanup[s][c].at = "kernels" THEN "closing" ELSE cleanup[s][c].at
    <3>1. cleanup[s][c] \in Cleanup
      BY <1>0 DEF Types
    <3>2. cleanup'[s][c] = [cleanup[s][c] EXCEPT !.doomed = FALSE, !.at = IF @ = "kernels" THEN "closing" ELSE @]
      BY <1>0, <1>13 DEF KernelStopped, Types
    <3> QED BY <3>1, <3>2 DEF Cleanup
  <2>3. Quiet(s)' <=> Quiet(s)
    BY <2>2 DEF Quiet
  <2> QED BY <1>13, <2>1, <2>3, CleanupFiles DEF KernelStopped, startup, files, signals
<1>14. CASE Exit(s)
  BY <1>0, <1>14, DiedFiles DEF Exit, startup, files
<1>15. ASSUME NEW ok \in BOOLEAN, KernelStarts(s, ok) PROVE FInv'
  BY <1>0, <1>15, FilesUntouched DEF KernelStarts, startup, files, signals
<1> QED
  BY <1>1, <1>2, <1>3, <1>4, <1>5, <1>6, <1>7, <1>8, <1>9, <1>10, <1>11, <1>12, <1>13, <1>14, <1>15
  DEF Proceeds

(* What is done to a server.                                               *)
LEMMA StimulusFiles ==
  ASSUME NEW s \in Servers, IInv, TInv, FInv, Stimulus(s), UNCHANGED cli
  PROVE  FInv'
<1>0. /\ Types /\ Filed(s) /\ Swept(s) /\ \A q \in Servers : Looks(q)
      /\ calls \in [Servers -> Seq(Calls)] /\ phase \in [Servers -> Phases]
      /\ stopping \in [Servers -> BOOLEAN]
  BY DEF TInv, FInv, Looks, IInv, SignalTypes
<1>1. CASE Initialize(s)
  <2>1. CASE Died(s)
    BY <1>0, <1>1, <2>1, DiedFiles DEF Initialize, files
  <2>2. CASE phase' = [phase EXCEPT ![s] = "linked"] /\ UNCHANGED <<calls, cleanup>>
    <3>1. \A q \in Servers \ {s} : SameFiles(q)
      BY <1>0, <1>1, <2>2 DEF Initialize, files, SameFiles
    <3>2. phase'[s] = "linked" /\ phase[s] = "off"
      BY <1>0, <1>1, <2>2 DEF Initialize
    <3>3. Filed(s)' /\ Swept(s)'
      BY <1>0, <1>1, <2>2, <3>2 DEF Initialize, files, Filed, Swept, Quiet
    <3> QED BY <1>0, <3>1, <3>3, OneFile
  <2> QED BY <1>1, <2>1, <2>2 DEF Initialize
<1>2. CASE Refused(s)
  BY <1>0, <1>2, DiedFiles DEF Refused, startup, files, init_webapp, start_app, write_browser_open_files
<1>3. CASE Terminate(s)
  BY <1>0, <1>3, StopFiles DEF Terminate, startup, files
<1>4. CASE Interrupt(s)
  <2>1. CASE Stop(s)
    BY <1>0, <1>4, <2>1, StopFiles DEF Interrupt, startup, files
  <2>2. CASE UNCHANGED <<stopping, calls>>
    BY <1>0, <1>4, <2>2, FilesUntouched DEF Interrupt, startup, files
  <2> QED BY <1>4, <2>1, <2>2 DEF Interrupt
<1>5. CASE KeyboardInterrupt(s)
  <2>1. \A q \in Servers \ {s} : SameFiles(q)
    BY <1>0, <1>5 DEF KeyboardInterrupt, startup, files, signals, SameFiles, Types
  <2>2. phase'[s] = "stopped" /\ phase[s] = "running"
    BY <1>0, <1>5 DEF KeyboardInterrupt
  <2>3. Filed(s)' /\ Swept(s)'
    BY <1>0, <1>5, <2>2 DEF KeyboardInterrupt, startup, files, signals, Filed, Swept, Quiet
  <2> QED BY <1>0, <2>1, <2>3, OneFile
<1>6. CASE Inactive(s)
  BY <1>0, <1>6, StopFiles DEF Inactive, startup, files
<1>7. ASSUME NEW reply \in {"yes", "no", "nothing"}, Answer(s, reply) PROVE FInv'
  <2>1. CASE Stop(s)
    BY <1>0, <1>7, <2>1, StopFiles DEF Answer, startup, files
  <2>2. CASE UNCHANGED stopping /\ (UNCHANGED calls \/ Schedule(s, "restore"))
    BY <1>7, <2>2, QueueFiles DEF Answer, startup, files, Calls
  <2> QED BY <1>7, <2>1, <2>2 DEF Answer, Schedule
<1>8. CASE RequestKernel(s)
  BY <1>0, <1>8, FilesUntouched DEF RequestKernel, startup, files, signals
<1>9. CASE Crash(s)
  BY <1>0, <1>9, DiedFiles DEF Crash, startup, files
<1> QED
  BY <1>1, <1>2, <1>3, <1>4, <1>5, <1>6, <1>7, <1>8, <1>9 DEF Stimulus

(* A command removes the file of a process that has ended, and no other.   *)
LEMMA CliFiles ==
  ASSUME IInv, TInv, FInv, CliStep \/ ListFiles
  PROVE  FInv'
<1>0. Types /\ cli \in Command /\ phase \in [Servers -> Phases]
  BY DEF TInv, Types, IInv, SignalTypes
<1>1. CASE ListFiles
  <2>1. cli'.at = "listing"
    BY <1>1 DEF ListFiles, Idle
  <2> QED BY <1>1, <2>1, FilesUntouched DEF ListFiles, startup, files, signals, Looks
<1>2. CASE EndCommand
  <2>1. cli'.at = "idle"
    BY <1>2 DEF EndCommand, Idle
  <2> QED BY <1>2, <2>1, FilesUntouched DEF EndCommand, vars, Looks
<1>3. ASSUME NEW s \in Servers, ReadFile(s) PROVE FInv'
  <2>1. info[s] \in {"none", "torn", "full"}
    BY <1>0 DEF Types
  <2>2. CASE cli' = Idle \/ cli' = [cli EXCEPT !.todo = @ \ {s}] \/ cli' = [cli EXCEPT !.todo = @ \ {s}, !.seen = @ \cup {s}]
    <3>1. cli'.at # "unlinking"
      <4>1. cli.at = "listing"
        BY <1>3 DEF ReadFile
      <4>2. CASE cli' = Idle
        BY <4>2 DEF Idle
      <4>3. CASE cli' = [cli EXCEPT !.todo = @ \ {s}]
        BY <1>0, <4>1, <4>3 DEF Command
      <4>4. CASE cli' = [cli EXCEPT !.todo = @ \ {s}, !.seen = @ \cup {s}]
        BY <1>0, <4>1, <4>4 DEF Command
      <4> QED BY <2>2, <4>2, <4>3, <4>4
    <3> QED BY <1>3, <3>1, FilesUntouched DEF ReadFile, vars, Looks
  <2>3. CASE info[s] = "full" /\ ~Alive(s) /\ cli' = [cli EXCEPT !.todo = @ \ {s}, !.at = "unlinking", !.on = s]
    <3>1. phase[s] = "exited"
      BY <2>3 DEF Alive, FInv, Filed
    <3>2. cli'.on = s
      BY <1>0, <2>3 DEF Command
    <3>3. ASSUME NEW q \in Servers PROVE Filed(q)' /\ Swept(q)'
      <4>1. CASE q # s
        BY <1>3, <3>2, <4>1, OtherFiles DEF ReadFile, vars, SameFiles, Looks
      <4>2. CASE q = s
        <5>1. Filed(q) /\ Swept(q)
          BY DEF FInv
        <5> QED BY <1>3, <3>1, <4>2, <5>1 DEF ReadFile, vars, Filed, Swept, Quiet
      <4> QED BY <4>1, <4>2
    <3> QED BY <3>3 DEF FInv
  <2> QED BY <1>3, <2>1, <2>2, <2>3 DEF ReadFile
<1>4. ASSUME NEW s \in Servers, UnlinkFile(s) PROVE FInv'
  <2>1. phase[s] = "exited" /\ Filed(s) /\ Swept(s)
    BY <1>4 DEF UnlinkFile, FInv, Swept
  <2>2. cli'.at = "listing"
    BY <1>0, <1>4 DEF UnlinkFile, Command
  <2>3. \A q \in Servers \ {s} : SameFiles(q)
    BY <1>0, <1>4 DEF UnlinkFile, signals, SameFiles, Types
  <2>4. Filed(s)' /\ Swept(s)'
    BY <1>4, <2>1, <2>2 DEF UnlinkFile, signals, Filed, Swept, Quiet
  <2> QED BY <2>2, <2>3, <2>4, OneFile DEF Looks
<1>5. ASSUME NEW s \in Servers, RequestShutdown(s) PROVE FInv'
  <2>1. CASE cli' = Idle /\ UNCHANGED <<files, cleanup, events>>
    <3>1. cli'.at = "idle"
      BY <2>1 DEF Idle
    <3> QED BY <1>5, <2>1, <3>1, FilesUntouched DEF RequestShutdown, files, signals, Looks
  <2>2. CASE Event /\ Cleans(s) /\ phase[s] = "running" /\ cli' = [cli EXCEPT !.at = "waiting", !.on = s]
    <3>1. cli'.at = "waiting"
      BY <1>0, <2>2 DEF Command
    <3>2. Slots # {}
      <4>1. events \in Nat /\ MaxEvents \in Nat /\ events < MaxEvents
        BY <1>0, <2>2, ServersAssumption DEF Event, Types
      <4>2. 1 \in Slots
        BY <4>1 DEF Slots
      <4> QED BY <4>2
    <3> QED BY <1>5, <2>2, <3>1, <3>2, CleansFiles DEF RequestShutdown, signals, Looks
  <2> QED BY <1>5, <2>1, <2>2 DEF RequestShutdown
<1>6. ASSUME NEW s \in Servers, NEW ok \in BOOLEAN, Answered(s, ok) PROVE FInv'
  <2>1. cli'.at # "unlinking"
    BY <1>0, <1>6 DEF Answered, Idle, Command
  <2> QED BY <1>6, <2>1, FilesUntouched DEF Answered, vars, Looks
<1>7. ASSUME NEW s \in Servers, ProcessGone(s) PROVE FInv'
  <2>1. cli'.at # "unlinking"
    BY <1>7 DEF ProcessGone, Idle
  <2> QED BY <1>7, <2>1, FilesUntouched DEF ProcessGone, vars, Looks
<1>8. ASSUME NEW s \in Servers, SendTerm(s) PROVE FInv'
  <2>1. cli'.at # "unlinking"
    BY <1>0, <1>8 DEF SendTerm, Command
  <2> QED BY <1>8, <2>1, StopFiles DEF SendTerm, startup, files, Looks
<1>9. ASSUME NEW s \in Servers, SendKill(s) PROVE FInv'
  <2>1. cli'.at # "unlinking"
    BY <1>9 DEF SendKill, Idle
  <2> QED BY <1>9, <2>1, DiedFiles DEF SendKill, startup, files, Looks
<1> QED
  BY <1>1, <1>2, <1>3, <1>4, <1>5, <1>6, <1>7, <1>8, <1>9 DEF CliStep

LEMMA InitFiles == AllInit => FInv
<1> SUFFICES ASSUME AllInit, NEW q \in Servers PROVE Filed(q) /\ Swept(q)
  BY DEF FInv
<1>1. calls[q] = <<>> /\ phase[q] = "off" /\ info[q] = "none" /\ cli.at = "idle"
  BY DEF AllInit, Init, Idle
<1>2. Quiet(q)
  BY DEF AllInit, Init, Quiet, NoCleanup
<1>3. DOMAIN calls[q] = {}
  BY <1>1
<1> QED BY <1>1, <1>2, <1>3 DEF Filed, Swept, Holds

LEMMA StepFiles ==
  ASSUME IInv, TInv, FInv, [Next]_allvars
  PROVE  FInv'
<1>1. CASE UNCHANGED allvars
  BY <1>1, FilesUntouched DEF allvars, vars, Looks
<1>2. CASE ListFiles \/ CliStep
  BY <1>2, CliFiles
<1>3. ASSUME NEW s \in Servers, Server(s) PROVE FInv'
  BY <1>3, ProceedsFiles, StimulusFiles DEF Server
<1> QED BY <1>1, <1>2, <1>3 DEF Next

(* The files follow the life of their server, and a command removes only   *)
(* those of processes that are gone (serverapp.py write_server_info_file,  *)
(* remove_server_info_file, list_running_servers).                         *)
THEOREM FilesFollow == Spec => []FInv
<1>1. IInv /\ TInv /\ FInv /\ [Next]_allvars => FInv'
  BY StepFiles
<1> QED BY <1>1, InitFiles, Inductive, TypesHold, PTL DEF Spec

(* A server that runs and that nothing has told to stop can be found by    *)
(* its complete file, for any number of servers and any commands           *)
(* (serverapp.py list_running_servers).                                    *)
THEOREM ServersAreListed == Spec => []ListedWhileServing
<1>1. FInv => ListedWhileServing
  BY DEF FInv, Filed, Quiet, ListedWhileServing
<1> QED BY <1>1, FilesFollow, PTL

-----------------------------------------------------------------------------
(* What a cleanup has done when it is this far.                            *)
Progress(s, k) ==
  /\ k.at # "none" /\ ~k.failed => extension_apps(ext[s].known) \subseteq ext[s].stopped \cup k.todo
  /\ k.at \in {"kernels", "closing", "done"} => ~k.failed /\ k.todo = {}
  /\ k.doomed => kernel[s] \in {"running", "stopping"}
  /\ k.at \in {"closing", "done"} => ~k.doomed
  /\ k.at = "done" => phase[s] = "stopped" /\ \A p \in Ports : owner[p] # s
CInv == \A s \in Servers : \A c \in Slots : Progress(s, cleanup[s][c])

-----------------------------------------------------------------------------
(* A step that leaves the cleanups of another server, and what they look   *)
(* at, alone.                                                              *)
SameCleanups(q) ==
  /\ cleanup'[q] = cleanup[q] /\ kernel'[q] = kernel[q] /\ phase'[q] = phase[q]
  /\ ext'[q].known = ext[q].known /\ ext'[q].stopped = ext[q].stopped
  /\ \A p \in Ports : owner'[p] = q => owner[p] = q

LEMMA OtherCleanups ==
  ASSUME NEW q \in Servers, CInv, SameCleanups(q)
  PROVE  \A c \in Slots : Progress(q, cleanup[q][c])'
  BY DEF CInv, SameCleanups, Progress

LEMMA OneCleanup ==
  ASSUME NEW s \in Servers, CInv, \A q \in Servers \ {s} : SameCleanups(q),
         \A c \in Slots : Progress(s, cleanup[s][c])'
  PROVE  CInv'
<1>1. ASSUME NEW q \in Servers, q # s PROVE \A c \in Slots : Progress(q, cleanup[q][c])'
  BY <1>1, OtherCleanups
<1> QED BY <1>1 DEF CInv

LEMMA CleanupsUntouched ==
  ASSUME CInv, UNCHANGED <<cleanup, kernel, phase>>,
         \A q \in Servers : ext'[q].known = ext[q].known /\ ext'[q].stopped = ext[q].stopped,
         \A q \in Servers : \A p \in Ports : owner'[p] = q => owner[p] = q
  PROVE  CInv'
<1>1. \A q \in Servers : SameCleanups(q)
  BY DEF SameCleanups
<1> QED BY <1>1, OtherCleanups DEF CInv

(* A server that has no cleanup.                                           *)
LEMMA NoneCleans ==
  ASSUME NEW q \in Servers, NEW c \in Slots, cleanup'[q][c] = NoCleanup
  PROVE  Progress(q, cleanup[q][c])'
  BY DEF Progress, NoCleanup

(* Who listened and does not any more.                                     *)
LEMMA ClosedOwners ==
  ASSUME NEW s \in Servers, Types, owner' = Closed(s)
  PROVE  /\ \A q \in Servers, p \in Ports : owner'[p] = q => owner[p] = q
         /\ \A p \in Ports : owner'[p] # s
<1>1. Nobody \notin Servers
  BY ServersAssumption
<1> QED BY <1>1 DEF Closed, Types

(* A process that ends has no cleanup left.                                *)
LEMMA DiedCleans ==
  ASSUME NEW s \in Servers, IInv, TInv, CInv, Died(s),
         \A q \in Servers \ {s} : ext'[q].known = ext[q].known /\ ext'[q].stopped = ext[q].stopped
  PROVE  CInv'
<1>1. \A q \in Servers \ {s} : SameCleanups(q)
  BY ClosedOwners DEF Died, SameCleanups, IInv, SignalTypes, TInv, Types
<1>2. \A c \in Slots : cleanup'[s][c] = NoCleanup
  BY DEF Died, TInv, Types
<1> QED BY <1>1, <1>2, NoneCleans, OneCleanup

(* Before the loop runs there is no cleanup.                               *)
LEMMA EarlyCleans ==
  ASSUME NEW s \in Servers, IInv, TInv, FInv, CInv, phase[s] \in Early,
         \E to \in Phases : phase' = [phase EXCEPT ![s] = to],
         UNCHANGED <<cleanup, kernel, owner>>,
         \A q \in Servers \ {s} : ext'[q].known = ext[q].known /\ ext'[q].stopped = ext[q].stopped
  PROVE  CInv'
<1>1. \A q \in Servers \ {s} : SameCleanups(q)
  BY DEF SameCleanups, IInv, SignalTypes
<1>2. ASSUME NEW c \in Slots PROVE Progress(s, cleanup[s][c])'
  <2>1. cleanup[s][c].at = "none"
    BY DEF FInv, Swept, Early, Quiet
  <2>2. Progress(s, cleanup[s][c])
    BY DEF CInv
  <2> QED BY <2>1, <2>2 DEF Progress
<1> QED BY <1>1, <1>2, OneCleanup

(* A cleanup begins.                                                       *)
LEMMA CleansBegins ==
  ASSUME NEW s \in Servers, TInv, CInv, Cleans(s), UNCHANGED <<ext, kernel, phase, owner>>
  PROVE  CInv'
<1> DEFINE k == CHOOSE c \in Slots : cleanup[s][c].at = "none" /\ \A d \in Slots : d < c => cleanup[s][d].at # "none"
           r == [at |-> "extensions", todo |-> extension_apps(ext[s].known), failed |-> FALSE,
                 doomed |-> kernel[s] = "running"]
<1>1. cleanup \in [Servers -> [Slots -> Cleanup]] /\ cleanup' = [cleanup EXCEPT ![s][k] = r]
  BY DEF Cleans, TInv, Types
<1>2. ASSUME NEW c \in Slots, cleanup'[s][c] = r PROVE Progress(s, cleanup[s][c])'
  <2>3. r.at = "extensions" /\ r.failed = FALSE /\ r.todo = extension_apps(ext[s].known)
    OBVIOUS
  <2>4. r.doomed = (kernel[s] = "running")
    OBVIOUS
  <2> HIDE DEF r
  <2>1. /\ cleanup'[s][c].at = "extensions" /\ ~cleanup'[s][c].failed
        /\ cleanup'[s][c].todo = extension_apps(ext[s].known)
        /\ cleanup'[s][c].doomed => kernel[s] = "running"
    BY <1>2, <2>3, <2>4
  <2>2. extension_apps(ext'[s].known) = cleanup'[s][c].todo
    BY <2>1
  <2> QED BY <2>1, <2>2 DEF Progress
<1> HIDE DEF k, r
<1>3. \A q \in Servers \ {s} : SameCleanups(q)
  BY <1>1 DEF SameCleanups
<1>4. ASSUME NEW c \in Slots PROVE Progress(s, cleanup[s][c])'
  <2>1. cleanup'[s][c] = r \/ cleanup'[s][c] = cleanup[s][c]
    BY <1>1
  <2>2. CASE cleanup'[s][c] = r
    BY <1>2, <2>2
  <2>3. CASE cleanup'[s][c] = cleanup[s][c]
    <3>1. Progress(s, cleanup[s][c])
      BY DEF CInv
    <3> QED BY <2>3, <3>1 DEF Progress
  <2> QED BY <2>1, <2>2, <2>3
<1> QED BY <1>3, <1>4, OneCleanup

(* The kernels are shut down.                                              *)
LEMMA KernelsCleaned ==
  ASSUME NEW s \in Servers, NEW c \in Slots, IInv, TInv, CInv, CleanupKernels(s, c)
  PROVE  CInv'
<1>0. /\ cleanup \in [Servers -> [Slots -> Cleanup]] /\ phase[s] = "running"
      /\ kernel \in [Servers -> {"none", "starting", "running", "failed", "stopping", "gone"}]
      /\ cleanup[s][c] \in Cleanup /\ cleanup[s][c].at = "extensions" /\ cleanup[s][c].todo = {}
      /\ \A d \in Slots : Progress(s, cleanup[s][d])
      /\ UNCHANGED <<ext, phase, owner>>
  BY DEF CleanupKernels, Ready, startup, TInv, Types, CInv
<1>1. \A q \in Servers \ {s} : SameCleanups(q)
  BY <1>0 DEF CleanupKernels, Aborts, SameCleanups
<1>2. CASE Aborts(s, c)
  <2>1. ASSUME NEW d \in Slots PROVE Progress(s, cleanup[s][d])'
    <3>1. CASE d = c
      BY <1>0, <1>2, <3>1, NoneCleans DEF Aborts
    <3>2. CASE d # c
      <4>1. cleanup'[s][d] = cleanup[s][d] /\ kernel' = kernel /\ Progress(s, cleanup[s][d])
        BY <1>0, <1>2, <3>2 DEF Aborts
      <4> QED BY <1>0, <4>1 DEF Progress
    <3> QED BY <3>1, <3>2
  <2> QED BY <1>1, <2>1, OneCleanup
<1>3. ASSUME NEW a \in {"closing", "kernels"}, cleanup' = [cleanup EXCEPT ![s][c].at = a],
             ~cleanup[s][c].failed,
             a = "closing" => kernel[s] \in {"none", "gone"} /\ kernel'[s] = kernel[s],
             a = "kernels" => kernel[s] \in {"running", "stopping"} /\ kernel'[s] = "stopping"
      PROVE  CInv'
  <2>1. ASSUME NEW d \in Slots PROVE Progress(s, cleanup[s][d])'
    <3>1. Progress(s, cleanup[s][d])
      BY <1>0
    <3>2. CASE d = c
      <4>1. cleanup'[s][d] = [cleanup[s][d] EXCEPT !.at = a]
        BY <1>0, <1>3, <3>2
      <4>2. /\ cleanup'[s][d].at = a /\ cleanup'[s][d].todo = cleanup[s][d].todo
            /\ cleanup'[s][d].failed = cleanup[s][d].failed /\ cleanup'[s][d].doomed = cleanup[s][d].doomed
        BY <1>0, <3>2, <4>1 DEF Cleanup
      <4> QED BY <1>0, <1>3, <3>1, <3>2, <4>2 DEF Progress
    <3>3. CASE d # c
      <4>1. cleanup'[s][d] = cleanup[s][d]
        BY <1>0, <1>3, <3>3
      <4> QED BY <1>0, <1>3, <3>1, <4>1 DEF Progress
    <3> QED BY <3>2, <3>3
  <2> QED BY <1>1, <2>1, OneCleanup
<1> QED BY <1>0, <1>2, <1>3 DEF CleanupKernels

(* The kernel ends, and the cleanups that wait for it go on.               *)
LEMMA KernelEnds ==
  ASSUME NEW s \in Servers, IInv, TInv, CInv, KernelStopped(s)
  PROVE  CInv'
<1>0. /\ cleanup \in [Servers -> [Slots -> Cleanup]]
      /\ \A d \in Slots : Progress(s, cleanup[s][d])
      /\ UNCHANGED <<ext, phase, owner>>
  BY DEF KernelStopped, startup, TInv, Types, CInv
<1>1. \A q \in Servers \ {s} : SameCleanups(q)
  BY <1>0 DEF KernelStopped, SameCleanups, TInv, Types
<1>2. ASSUME NEW d \in Slots PROVE Progress(s, cleanup[s][d])'
  <2>1. Progress(s, cleanup[s][d]) /\ cleanup[s][d] \in Cleanup
    BY <1>0
  <2>2. cleanup'[s][d] = [cleanup[s][d] EXCEPT !.doomed = FALSE, !.at = IF @ = "kernels" THEN "closing" ELSE @]
    BY <1>0 DEF KernelStopped
  <2>3. /\ cleanup'[s][d].at = (IF cleanup[s][d].at = "kernels" THEN "closing" ELSE cleanup[s][d].at)
        /\ cleanup'[s][d].todo = cleanup[s][d].todo
        /\ cleanup'[s][d].failed = cleanup[s][d].failed /\ cleanup'[s][d].doomed = FALSE
    BY <2>1, <2>2 DEF Cleanup
  <2> QED BY <1>0, <2>1, <2>3 DEF Progress
<1> QED BY <1>1, <1>2, OneCleanup

(* The cleanup that stops the loop.                                        *)
LEMMA AllClosed ==
  ASSUME NEW s \in Servers, NEW c \in Slots, IInv, TInv, CInv, CloseAll(s, c)
  PROVE  CInv'
<1>0. /\ cleanup \in [Servers -> [Slots -> Cleanup]] /\ phase[s] = "running" /\ phase'[s] = "stopped"
      /\ cleanup[s][c] \in Cleanup /\ cleanup[s][c].at = "closing"
      /\ \A d \in Slots : Progress(s, cleanup[s][d])
      /\ UNCHANGED <<ext, kernel>>
      /\ \A q \in Servers, p \in Ports : owner'[p] = q => owner[p] = q
      /\ \A p \in Ports : owner'[p] # s
  <2>1. Types /\ owner' = Closed(s)
    BY DEF CloseAll, TInv
  <2>2. phase \in [Servers -> Phases] /\ phase[s] = "running" /\ phase' = [phase EXCEPT ![s] = "stopped"]
    BY DEF CloseAll, IInv, SignalTypes
  <2>3. phase'[s] = "stopped"
    BY <2>2
  <2>4. cleanup \in [Servers -> [Slots -> Cleanup]] /\ cleanup[s][c].at = "closing" /\ UNCHANGED <<ext, kernel>>
    BY DEF CloseAll, startup, TInv, Types
  <2>5. \A d \in Slots : Progress(s, cleanup[s][d])
    BY DEF CInv
  <2> QED BY <2>1, <2>2, <2>3, <2>4, <2>5, ClosedOwners
<1>1. \A q \in Servers \ {s} : SameCleanups(q)
  BY <1>0 DEF CloseAll, SameCleanups, IInv, SignalTypes
<1>2. ASSUME NEW d \in Slots PROVE Progress(s, cleanup[s][d])'
  <2>1. Progress(s, cleanup[s][d])
    BY <1>0
  <2>2. CASE d = c
    <3>1. /\ cleanup'[s][d].at = "done" /\ cleanup'[s][d].todo = cleanup[s][d].todo
          /\ cleanup'[s][d].failed = cleanup[s][d].failed /\ cleanup'[s][d].doomed = cleanup[s][d].doomed
      BY <1>0, <2>2 DEF CloseAll, Cleanup
    <3> QED BY <1>0, <2>1, <2>2, <3>1 DEF Progress
  <2>3. CASE d # c
    <3>1. cleanup'[s][d] = cleanup[s][d]
      BY <1>0, <2>3 DEF CloseAll
    <3> QED BY <1>0, <2>1, <3>1 DEF Progress
  <2> QED BY <2>2, <2>3
<1> QED BY <1>1, <1>2, OneCleanup

(* An app is stopped, or raises.                                           *)
LEMMA AppStopped ==
  ASSUME NEW s \in Servers, NEW c \in Slots, NEW x \in Apps, IInv, TInv, CInv, StopApp(s, c, x)
  PROVE  CInv'
<1>0. /\ cleanup \in [Servers -> [Slots -> Cleanup]] /\ ext \in [Servers -> Ext] /\ phase[s] = "running"
      /\ cleanup[s][c] \in Cleanup /\ cleanup[s][c].at = "extensions" /\ ext[s] \in Ext
      /\ \A d \in Slots : Progress(s, cleanup[s][d])
      /\ UNCHANGED <<phase, owner, kernel>>
  BY DEF StopApp, TInv, Types, CInv
<1>1. CASE /\ cleanup' = [cleanup EXCEPT ![s][c].todo = @ \ PointsOf(x[1]), ![s][c].failed = TRUE]
           /\ UNCHANGED ext
  <2>1. \A q \in Servers \ {s} : SameCleanups(q)
    BY <1>0, <1>1 DEF SameCleanups
  <2>2. ASSUME NEW d \in Slots PROVE Progress(s, cleanup[s][d])'
    <3>1. Progress(s, cleanup[s][d])
      BY <1>0
    <3>2. CASE d = c
      <4>1. cleanup'[s][d].at = "extensions" /\ cleanup'[s][d].failed /\ cleanup'[s][d].doomed = cleanup[s][d].doomed
        BY <1>0, <1>1, <3>2 DEF Cleanup
      <4> QED BY <1>0, <3>1, <4>1 DEF Progress
    <3>3. CASE d # c
      <4>1. cleanup'[s][d] = cleanup[s][d]
        BY <1>0, <1>1, <3>3
      <4> QED BY <1>0, <1>1, <3>1, <4>1 DEF Progress
    <3> QED BY <3>2, <3>3
  <2> QED BY <2>1, <2>2, OneCleanup
<1>2. CASE /\ cleanup' = [cleanup EXCEPT ![s][c].todo = @ \ {x}]
           /\ ext' = [ext EXCEPT ![s].stopped = @ \cup {x}]
  <2>1. \A q \in Servers \ {s} : SameCleanups(q)
    BY <1>0, <1>2 DEF SameCleanups
  <2>2. ext'[s].known = ext[s].known /\ ext'[s].stopped = ext[s].stopped \cup {x}
    BY <1>0, <1>2 DEF Ext
  <2>3. ASSUME NEW d \in Slots PROVE Progress(s, cleanup[s][d])'
    <3>1. Progress(s, cleanup[s][d])
      BY <1>0
    <3>2. CASE d = c
      <4>1. /\ cleanup'[s][d].at = "extensions" /\ cleanup'[s][d].todo = cleanup[s][d].todo \ {x}
            /\ cleanup'[s][d].failed = cleanup[s][d].failed /\ cleanup'[s][d].doomed = cleanup[s][d].doomed
        BY <1>0, <1>2, <3>2 DEF Cleanup
      <4>2. ext[s].stopped \cup cleanup[s][d].todo \subseteq ext'[s].stopped \cup cleanup'[s][d].todo
        BY <2>2, <4>1
      <4> QED BY <1>0, <2>2, <3>1, <3>2, <4>1, <4>2 DEF Progress
    <3>3. CASE d # c
      <4>1. cleanup'[s][d] = cleanup[s][d]
        BY <1>0, <1>2, <3>3
      <4> QED BY <1>0, <2>2, <3>1, <4>1 DEF Progress
    <3> QED BY <3>2, <3>3
  <2> QED BY <2>1, <2>3, OneCleanup
<1> QED BY <1>1, <1>2 DEF StopApp

(* What a server does by itself.                                           *)
LEMMA ProceedsCleans ==
  ASSUME NEW s \in Servers, IInv, TInv, FInv, CInv, Proceeds(s)
  PROVE  CInv'
<1>0. Types /\ Nobody \notin Servers
  BY ServersAssumption DEF TInv
<1>1. CASE Load(s)
  <2>1. \A q \in Servers : ext'[q].known = ext[q].known /\ ext'[q].stopped = ext[q].stopped
    <3>1. \A q \in Servers : ext[q] \in Ext
      BY <1>0 DEF Types
    <3>2. \E l : ext' = [ext EXCEPT ![s].loaded = l]
      BY <1>1 DEF Load
    <3> QED BY <1>0, <3>1, <3>2 DEF Types, Ext
  <2>2. CASE Died(s)
    BY <2>1, <2>2, DiedCleans
  <2>3. CASE phase' = [phase EXCEPT ![s] = "loaded"] /\ UNCHANGED <<owner, cleanup, kernel>>
    <3>1. phase[s] \in Early
      BY <1>1 DEF Load, Early
    <3>2. \E to \in Phases : phase' = [phase EXCEPT ![s] = to]
      BY <2>3 DEF Phases
    <3> QED BY <2>1, <2>3, <3>1, <3>2, EarlyCleans
  <2> QED BY <1>1, <2>2, <2>3 DEF Load
<1>2. CASE WriteInfo(s)
  <2>1. phase[s] \in Early /\ \E to \in Phases : phase' = [phase EXCEPT ![s] = to]
    BY <1>2 DEF WriteInfo, Early, Phases
  <2> QED BY <1>2, <2>1, EarlyCleans DEF WriteInfo
<1>3. CASE InfoWritten(s)
  <2>1. phase[s] \in Early /\ \E to \in Phases : phase' = [phase EXCEPT ![s] = to]
    BY <1>3 DEF InfoWritten, Early, Phases
  <2> QED BY <1>3, <2>1, EarlyCleans DEF InfoWritten
<1>4. CASE StartLoop(s)
  <2>1. phase[s] \in Early /\ \E to \in Phases : phase' = [phase EXCEPT ![s] = to]
    BY <1>4 DEF StartLoop, Early, Phases
  <2> QED BY <1>4, <2>1, EarlyCleans DEF StartLoop
<1>5. CASE Bind(s)
  <2>1. CASE Died(s)
    BY <1>5, <2>1, DiedCleans DEF Bind
  <2>2. CASE owner' = [owner EXCEPT ![port[s].number] = s] /\ UNCHANGED <<phase, cleanup, kernel>>
    <3>1. \A q \in Servers \ {s} : \A p \in Ports : owner'[p] = q => owner[p] = q
      BY <1>0, <2>2 DEF Types
    <3>2. \A q \in Servers \ {s} : SameCleanups(q)
      BY <1>5, <2>2, <3>1 DEF Bind, SameCleanups
    <3>3. ASSUME NEW c \in Slots PROVE Progress(s, cleanup[s][c])'
      <4>1. Progress(s, cleanup[s][c]) /\ phase[s] = "running"
        BY <1>5 DEF CInv, Bind, Runs
      <4> QED BY <1>5, <2>2, <4>1 DEF Bind, Progress
    <3> QED BY <3>2, <3>3, OneCleanup
  <2> QED BY <1>5, <2>1, <2>2 DEF Bind
<1>6. CASE PostStart(s)
  <2>1. \A q \in Servers : ext'[q].known = ext[q].known /\ ext'[q].stopped = ext[q].stopped
    BY <1>0, <1>6 DEF PostStart, Types, Ext
  <2> QED BY <1>6, <2>1, CleanupsUntouched DEF PostStart
<1>7. CASE RestoreHandler(s)
  BY <1>7, CleanupsUntouched DEF RestoreHandler, startup
<1>8. CASE StopCall(s)
  BY <1>8, CleansBegins DEF StopCall
<1>9. ASSUME NEW p \in Packages, StartPoint(s, p) PROVE CInv'
  <2>1. \A q \in Servers : ext[q] \in Ext
    BY <1>0 DEF Types
  <2>2. \/ \E t : ext' = [ext EXCEPT ![s].starting = t]
        \/ \E t, u : ext' = [ext EXCEPT ![s].started = u, ![s].starting = t]
    BY <1>9 DEF StartPoint
  <2>3. \A q \in Servers : ext'[q].known = ext[q].known /\ ext'[q].stopped = ext[q].stopped
    <3>1. ASSUME NEW t, ext' = [ext EXCEPT ![s].starting = t], NEW q \in Servers
          PROVE  ext'[q].known = ext[q].known /\ ext'[q].stopped = ext[q].stopped
      BY <1>0, <2>1, <3>1 DEF Types, Ext
    <3>2. ASSUME NEW t, NEW u, ext' = [ext EXCEPT ![s].started = u, ![s].starting = t], NEW q \in Servers
          PROVE  ext'[q].known = ext[q].known /\ ext'[q].stopped = ext[q].stopped
      BY <1>0, <2>1, <3>2 DEF Types, Ext
    <3> QED BY <2>2, <3>1, <3>2
  <2> QED BY <1>9, <2>3, CleanupsUntouched DEF StartPoint
<1>10. ASSUME NEW c \in Slots, CleanupKernels(s, c) PROVE CInv'
  BY <1>10, KernelsCleaned
<1>11. ASSUME NEW c \in Slots, CloseAll(s, c) PROVE CInv'
  BY <1>11, AllClosed
<1>12. ASSUME NEW c \in Slots, NEW x \in Apps, StopApp(s, c, x) PROVE CInv'
  BY <1>12, AppStopped
<1>13. CASE KernelStopped(s)
  BY <1>13, KernelEnds
<1>14. CASE Exit(s)
  BY <1>14, DiedCleans DEF Exit, startup
<1>15. ASSUME NEW ok \in BOOLEAN, KernelStarts(s, ok) PROVE CInv'
  <2>1. \A q \in Servers \ {s} : SameCleanups(q)
    BY <1>0, <1>15 DEF KernelStarts, startup, SameCleanups, Types
  <2>2. ASSUME NEW c \in Slots PROVE Progress(s, cleanup[s][c])'
    <3>1. Progress(s, cleanup[s][c]) /\ ~cleanup[s][c].doomed
      BY <1>15 DEF CInv, KernelStarts, Progress
    <3> QED BY <1>15, <3>1 DEF KernelStarts, startup, Progress
  <2> QED BY <2>1, <2>2, OneCleanup
<1> QED
  BY <1>1, <1>2, <1>3, <1>4, <1>5, <1>6, <1>7, <1>8, <1>9, <1>10, <1>11, <1>12, <1>13, <1>14, <1>15
  DEF Proceeds

(* A server that is told to stop closes its port.                          *)
LEMMA StopCleans ==
  ASSUME NEW s \in Servers, TInv, CInv, Stop(s), UNCHANGED <<cleanup, kernel, phase, ext>>
  PROVE  CInv'
  BY ClosedOwners, CleanupsUntouched DEF Stop, TInv

(* What is done to a server.                                               *)
LEMMA StimulusCleans ==
  ASSUME NEW s \in Servers, IInv, TInv, FInv, CInv, Stimulus(s)
  PROVE  CInv'
<1>1. CASE Initialize(s)
  <2>1. CASE Died(s) /\ UNCHANGED ext
    BY <2>1, DiedCleans
  <2>2. ASSUME NEW k, NEW l,
               phase' = [phase EXCEPT ![s] = "linked"], ext' = [ext EXCEPT ![s].known = k, ![s].linked = l],
               UNCHANGED <<owner, cleanup, kernel>>
        PROVE  CInv'
    <3>1. phase[s] \in Early /\ \E to \in Phases : phase' = [phase EXCEPT ![s] = to]
      BY <1>1, <2>2 DEF Initialize, Early, Phases
    <3>2. \A q \in Servers \ {s} : ext'[q] = ext[q]
      BY <2>2 DEF TInv, Types
    <3> QED BY <2>2, <3>1, <3>2, EarlyCleans
  <2> QED BY <1>1, <2>1, <2>2 DEF Initialize
<1>2. CASE Refused(s)
  BY <1>2, DiedCleans DEF Refused, startup, init_webapp, start_app, write_browser_open_files
<1>3. CASE Terminate(s)
  BY <1>3, StopCleans DEF Terminate, startup
<1>4. CASE Interrupt(s)
  <2>1. CASE Stop(s)
    BY <1>4, <2>1, StopCleans DEF Interrupt, startup
  <2>2. CASE UNCHANGED owner
    BY <1>4, <2>2, CleanupsUntouched DEF Interrupt, startup
  <2> QED BY <1>4, <2>1, <2>2 DEF Interrupt
<1>5. CASE KeyboardInterrupt(s)
  <2>1. \A q \in Servers \ {s} : SameCleanups(q)
    BY <1>5 DEF KeyboardInterrupt, startup, SameCleanups, IInv, SignalTypes
  <2>2. ASSUME NEW c \in Slots PROVE Progress(s, cleanup[s][c])'
    <3>1. Progress(s, cleanup[s][c]) /\ phase[s] = "running"
      BY <1>5 DEF CInv, KeyboardInterrupt
    <3> QED BY <1>5, <3>1 DEF KeyboardInterrupt, startup, Progress
  <2> QED BY <2>1, <2>2, OneCleanup
<1>6. CASE Inactive(s)
  BY <1>6, StopCleans DEF Inactive, startup
<1>7. ASSUME NEW reply \in {"yes", "no", "nothing"}, Answer(s, reply) PROVE CInv'
  <2>1. CASE Stop(s)
    BY <1>7, <2>1, StopCleans DEF Answer, startup
  <2>2. CASE UNCHANGED owner
    BY <1>7, <2>2, CleanupsUntouched DEF Answer, startup
  <2> QED BY <1>7, <2>1, <2>2 DEF Answer
<1>8. CASE RequestKernel(s)
  <2>1. \A q \in Servers \ {s} : SameCleanups(q)
    BY <1>8 DEF RequestKernel, startup, SameCleanups, TInv, Types
  <2>2. ASSUME NEW c \in Slots PROVE Progress(s, cleanup[s][c])'
    <3>1. Progress(s, cleanup[s][c]) /\ ~cleanup[s][c].doomed
      BY <1>8 DEF CInv, RequestKernel, Progress
    <3> QED BY <1>8, <3>1 DEF RequestKernel, startup, Progress
  <2> QED BY <2>1, <2>2, OneCleanup
<1>9. CASE Crash(s)
  BY <1>9, DiedCleans DEF Crash, startup
<1> QED
  BY <1>1, <1>2, <1>3, <1>4, <1>5, <1>6, <1>7, <1>8, <1>9 DEF Stimulus

(* A command starts a cleanup by a request, and ends a process by a signal.*)
LEMMA CliCleans ==
  ASSUME IInv, TInv, CInv, CliStep \/ ListFiles
  PROVE  CInv'
<1>1. CASE ListFiles
  BY <1>1, CleanupsUntouched DEF ListFiles, startup
<1>2. CASE EndCommand
  BY <1>2, CleanupsUntouched DEF EndCommand, vars
<1>3. ASSUME NEW s \in Servers, ReadFile(s) PROVE CInv'
  BY <1>3, CleanupsUntouched DEF ReadFile, vars
<1>4. ASSUME NEW s \in Servers, UnlinkFile(s) PROVE CInv'
  BY <1>4, CleanupsUntouched DEF UnlinkFile
<1>5. ASSUME NEW s \in Servers, RequestShutdown(s) PROVE CInv'
  <2>1. CASE UNCHANGED cleanup
    BY <1>5, <2>1, CleanupsUntouched DEF RequestShutdown
  <2>2. CASE Cleans(s)
    BY <1>5, <2>2, CleansBegins DEF RequestShutdown
  <2> QED BY <1>5, <2>1, <2>2 DEF RequestShutdown
<1>6. ASSUME NEW s \in Servers, NEW ok \in BOOLEAN, Answered(s, ok) PROVE CInv'
  BY <1>6, CleanupsUntouched DEF Answered, vars
<1>7. ASSUME NEW s \in Servers, ProcessGone(s) PROVE CInv'
  BY <1>7, CleanupsUntouched DEF ProcessGone, vars
<1>8. ASSUME NEW s \in Servers, SendTerm(s) PROVE CInv'
  BY <1>8, StopCleans DEF SendTerm, startup
<1>9. ASSUME NEW s \in Servers, SendKill(s) PROVE CInv'
  BY <1>9, DiedCleans DEF SendKill, startup
<1> QED
  BY <1>1, <1>2, <1>3, <1>4, <1>5, <1>6, <1>7, <1>8, <1>9 DEF CliStep

(* A cleanup that is this far has done this much, in every server          *)
(* (serverapp.py _cleanup, cleanup_extensions, cleanup_kernels).           *)
THEOREM CleanupsProgress == Spec => []CInv
<1>1. AllInit => CInv
  BY NoCleanupTyped DEF AllInit, Init, CInv, Progress, NoCleanup
<1>2. ASSUME IInv, TInv, FInv, CInv, [Next]_allvars PROVE CInv'
  <2>1. CASE UNCHANGED allvars
    BY <1>2, <2>1, CleanupsUntouched DEF allvars, vars
  <2>2. CASE ListFiles \/ CliStep
    BY <1>2, <2>2, CliCleans
  <2>3. ASSUME NEW s \in Servers, Server(s) PROVE CInv'
    BY <1>2, <2>3, ProceedsCleans, StimulusCleans DEF Server
  <2> QED BY <1>2, <2>1, <2>2, <2>3 DEF Next
<1>3. IInv /\ TInv /\ FInv /\ CInv /\ [Next]_allvars => CInv'
  BY <1>2
<1> QED BY <1>1, <1>3, Inductive, TypesHold, FilesFollow, PTL DEF Spec

(* The cleanup that stops the loop has left no file and no open port, has  *)
(* stopped every app and waited for the kernel, however many cleanups ran  *)
(* side by side and whatever hooks raised (serverapp.py _cleanup).         *)
THEOREM StopsAreClean == Spec => []StopIsClean
<1>1. ASSUME TInv, FInv, CInv, NEW s \in Servers, NEW c \in Slots, cleanup[s][c].at = "done"
      PROVE  /\ info[s] = "none" /\ ~page[s] /\ \A p \in Ports : owner[p] # s
             /\ extension_apps(ext[s].known) \subseteq ext[s].stopped
             /\ ~cleanup[s][c].doomed
  <2>1. Progress(s, cleanup[s][c]) /\ Swept(s) /\ ~Quiet(s)
    BY <1>1 DEF CInv, FInv, Quiet
  <2> QED BY <1>1, <2>1 DEF Progress, Swept
<1>2. TInv /\ FInv /\ CInv => StopIsClean
  BY <1>1 DEF StopIsClean
<1> QED BY <1>2, TypesHold, FilesFollow, CleanupsProgress, PTL

-----------------------------------------------------------------------------
(* What has been done for the packages.                                    *)
Linked(s) ==
  /\ Alive(s) => ext[s].known = add_extension(jpserver_extensions(s), broken)
                 /\ ext[s].linked = link_all_extensions(ext[s].known, broken)
  /\ phase[s] \in {"loaded", "writing", "announced", "running"} =>
       ext[s].loaded = load_all_extensions(ext[s].known, broken)
Started(s) ==
  phase[s] = "running" /\ ~Holds(calls[s], "post_start") =>
    \A p \in ext[s].known \ ext[s].starting :
      PointsOf(p) \subseteq ext[s].started \/ \E x \in PointsOf(p) : <<"start", x>> \in broken
XInv == \A s \in Servers : Linked(s) /\ Started(s)

-----------------------------------------------------------------------------
(* A step that does nothing for the packages of another server.            *)
SamePackages(q) ==
  /\ phase'[q] = phase[q] /\ calls'[q] = calls[q]
  /\ \A f \in {"known", "linked", "loaded", "starting", "started"} : ext'[q][f] = ext[q][f]

LEMMA OtherPackages ==
  ASSUME NEW q \in Servers, XInv, SamePackages(q), UNCHANGED broken
  PROVE  Linked(q)' /\ Started(q)'
<1>1. /\ phase'[q] = phase[q] /\ calls'[q] = calls[q]
      /\ ext'[q].known = ext[q].known /\ ext'[q].linked = ext[q].linked /\ ext'[q].loaded = ext[q].loaded
      /\ ext'[q].starting = ext[q].starting /\ ext'[q].started = ext[q].started
  BY DEF SamePackages
<1>2. Linked(q)'
  BY <1>1 DEF XInv, Linked, Alive
<1>3. Started(q)'
  BY <1>1 DEF XInv, Started, Holds
<1> QED BY <1>2, <1>3

LEMMA OnePackages ==
  ASSUME NEW s \in Servers, XInv, \A q \in Servers \ {s} : SamePackages(q), UNCHANGED broken,
         Linked(s)', Started(s)'
  PROVE  XInv'
<1>1. ASSUME NEW q \in Servers, q # s PROVE Linked(q)' /\ Started(q)'
  BY <1>1, OtherPackages
<1> QED BY <1>1 DEF XInv

(* A server that does not run any more.                                    *)
LEMMA DiedPackages ==
  ASSUME NEW s \in Servers, IInv, TInv, XInv, UNCHANGED broken,
         Died(s), \A q \in Servers \ {s} : ext'[q] = ext[q]
  PROVE  XInv'
<1>1. \A q \in Servers \ {s} : SamePackages(q)
  BY DEF Died, SamePackages, IInv, SignalTypes
<1>2. phase'[s] = "exited"
  BY DEF Died, IInv, SignalTypes
<1>3. Linked(s)' /\ Started(s)'
  BY <1>2 DEF Linked, Started, Alive
<1> QED BY <1>1, <1>3, OnePackages

LEMMA StoppedPackages ==
  ASSUME NEW s \in Servers, IInv, XInv, UNCHANGED <<broken, ext, calls>>, phase[s] = "running",
         phase' = [phase EXCEPT ![s] = "stopped"]
  PROVE  XInv'
<1>1. \A q \in Servers \ {s} : SamePackages(q)
  BY DEF SamePackages, IInv, SignalTypes
<1>2. phase'[s] = "stopped"
  BY DEF IInv, SignalTypes
<1>3. Linked(s)' /\ Started(s)'
  BY <1>2 DEF XInv, Linked, Started, Alive
<1> QED BY <1>1, <1>3, OnePackages

(* The callbacks change, other than the one that starts the packages.      *)
LEMMA QueuePackages ==
  ASSUME NEW s \in Servers, IInv, XInv, UNCHANGED <<broken, phase>>,
         \A q \in Servers : \A f \in {"known", "linked", "loaded", "starting", "started"} : ext'[q][f] = ext[q][f],
         \/ UNCHANGED calls
         \/ \E x \in Calls : Schedule(s, x)
         \/ calls[s] # <<>> /\ Head(calls[s]) # "post_start" /\ Next_(s)
  PROVE  XInv'
<1>0. calls \in [Servers -> Seq(Calls)] /\ calls[s] \in Seq(Calls)
  BY DEF IInv, SignalTypes
<1>1. \A q \in Servers \ {s} : SamePackages(q)
  BY <1>0 DEF SamePackages, Schedule, Next_
<1>2. /\ ext'[s].known = ext[s].known /\ ext'[s].linked = ext[s].linked /\ ext'[s].loaded = ext[s].loaded
      /\ ext'[s].starting = ext[s].starting /\ ext'[s].started = ext[s].started
  OBVIOUS
<1>3. Holds(calls[s], "post_start") => Holds(calls'[s], "post_start")
  <2>1. ASSUME NEW x \in Calls, Schedule(s, x), Holds(calls[s], "post_start") PROVE Holds(calls'[s], "post_start")
    <3>1. calls'[s] = Append(calls[s], x)
      BY <1>0, <2>1 DEF Schedule
    <3> QED BY <1>0, <2>1, <3>1, AppendHolds
  <2>2. ASSUME calls[s] # <<>>, Head(calls[s]) # "post_start", Next_(s), Holds(calls[s], "post_start")
        PROVE  Holds(calls'[s], "post_start")
    <3>1. calls'[s] = Tail(calls[s])
      BY <1>0, <2>2 DEF Next_
    <3> QED BY <1>0, <2>2, <3>1, TailHolds
  <2> QED BY <2>1, <2>2
<1>4. Linked(s)' /\ Started(s)'
  BY <1>2, <1>3 DEF XInv, Linked, Started, Alive
<1> QED BY <1>1, <1>4, OnePackages

LEMMA PackagesUntouched ==
  ASSUME XInv, UNCHANGED <<broken, phase, calls, ext>>
  PROVE  XInv'
<1>1. \A q \in Servers : SamePackages(q)
  BY DEF SamePackages
<1> QED BY <1>1, OtherPackages DEF XInv

(* The packages begin to start.                                            *)
LEMMA BeginsPackages ==
  ASSUME NEW s \in Servers, IInv, TInv, XInv, PostStart(s)
  PROVE  XInv'
<1>0. /\ calls \in [Servers -> Seq(Calls)] /\ ext \in [Servers -> Ext] /\ ext[s] \in Ext
      /\ ext' = [ext EXCEPT ![s].starting = start_all_extensions(ext[s].known)]
      /\ calls' = [calls EXCEPT ![s] = Tail(@)] /\ UNCHANGED <<broken, phase>>
      /\ Linked(s)
  BY DEF IInv, SignalTypes, TInv, Types, PostStart, Next_, XInv
<1>1. \A q \in Servers \ {s} : SamePackages(q)
  BY <1>0 DEF SamePackages
<1>2. /\ ext'[s].known = ext[s].known /\ ext'[s].linked = ext[s].linked /\ ext'[s].loaded = ext[s].loaded
      /\ ext'[s].starting = start_all_extensions(ext[s].known) /\ ext'[s].started = ext[s].started
  BY <1>0 DEF Ext
<1>3. Linked(s)'
  BY <1>0, <1>2 DEF Linked, Alive
<1>4. ASSUME NEW p \in ext'[s].known \ ext'[s].starting PROVE PointsOf(p) = {}
  BY <1>2, <1>4 DEF start_all_extensions
<1>5. Started(s)'
  BY <1>4 DEF Started
<1> QED BY <1>0, <1>1, <1>3, <1>5, OnePackages

(* A package is left when its points have been started, or one has raised. *)
LEMMA PointPackages ==
  ASSUME NEW s \in Servers, NEW p \in Packages, IInv, TInv, XInv, StartPoint(s, p)
  PROVE  XInv'
<1>0. /\ ext \in [Servers -> Ext] /\ ext[s] \in Ext /\ p \in ext[s].starting /\ Prefixed(ext[s])
      /\ Linked(s) /\ Started(s)
      /\ UNCHANGED <<broken, phase, calls>>
  BY DEF TInv, Types, StartPoint, XInv
<1>1. PICK k \in 0 .. Size[p] : {y \in ext[s].started : y[1] = p} = Upto(p, k)
  BY <1>0 DEF Prefixed
<1>2. /\ k < Size[p] /\ k \in Nat /\ Size[p] \in Nat
      /\ start_point(p, ext[s].started) = <<p, k + 1>>
      /\ <<p, k + 1>> \in PointsOf(p)
  BY <1>0, <1>1, NextPoint
<1> DEFINE x == <<p, k + 1>>
<1>3. ext' = IF <<"start", x>> \in broken THEN [ext EXCEPT ![s].starting = @ \ {p}]
             ELSE [ext EXCEPT ![s].started = @ \cup {x},
                              ![s].starting = IF k + 1 = Size[p] THEN @ \ {p} ELSE @]
  <2>1. x[2] = k + 1
    OBVIOUS
  <2> QED BY <1>2, <2>1 DEF StartPoint
<1>4. CASE <<"start", x>> \in broken
  <2>1. \A q \in Servers \ {s} : SamePackages(q)
    BY <1>0, <1>3, <1>4 DEF SamePackages
  <2>2. /\ ext'[s].known = ext[s].known /\ ext'[s].linked = ext[s].linked /\ ext'[s].loaded = ext[s].loaded
        /\ ext'[s].starting = ext[s].starting \ {p} /\ ext'[s].started = ext[s].started
    BY <1>0, <1>3, <1>4 DEF Ext
  <2>3. Linked(s)'
    BY <1>0, <2>2 DEF Linked, Alive
  <2>4. Started(s)'
    BY <1>0, <1>2, <1>4, <2>2 DEF Started
  <2> QED BY <1>0, <2>1, <2>3, <2>4, OnePackages
<1>5. CASE <<"start", x>> \notin broken
  <2> DEFINE S == ext[s].started \cup {x}
             T == IF k + 1 = Size[p] THEN ext[s].starting \ {p} ELSE ext[s].starting
  <2>1. ext' = [ext EXCEPT ![s].started = S, ![s].starting = T]
    BY <1>0, <1>3, <1>5 DEF Ext
  <2> HIDE DEF S, T
  <2>2. \A q \in Servers \ {s} : SamePackages(q)
    BY <1>0, <2>1 DEF SamePackages
  <2>3. /\ ext'[s].known = ext[s].known /\ ext'[s].linked = ext[s].linked /\ ext'[s].loaded = ext[s].loaded
        /\ ext'[s].starting = T /\ ext'[s].started = S
    BY <1>0, <2>1 DEF Ext
  <2>4. Linked(s)'
    BY <1>0, <2>3 DEF Linked, Alive
  <2>5. ASSUME p \notin T PROVE PointsOf(p) \subseteq S
    <3>1. k + 1 = Size[p]
      BY <1>0, <2>5 DEF T
    <3>2. 1 .. Size[p] = (1 .. k) \cup {k + 1}
      BY <1>2, <3>1
    <3>3. PointsOf(p) = Upto(p, k) \cup {x}
      BY <3>2, PointsUpto DEF Upto
    <3> QED BY <1>1, <3>3 DEF S
  <2>6. Started(s)'
    <3>1. ext[s].started \subseteq S /\ \A q \in ext[s].starting : q # p => q \in T
      BY DEF S, T
    <3> QED BY <1>0, <2>3, <2>5, <3>1 DEF Started
  <2> QED BY <1>0, <2>2, <2>4, <2>6, OnePackages
<1> QED BY <1>4, <1>5

(* A server that is on its way to its loop.                                *)
LEMMA EarlyPackages ==
  ASSUME NEW s \in Servers, NEW to \in {"writing", "announced"}, IInv, XInv, UNCHANGED <<broken, ext, calls>>,
         phase[s] \in {"loaded", "writing"}, phase' = [phase EXCEPT ![s] = to]
  PROVE  XInv'
<1>1. \A q \in Servers \ {s} : SamePackages(q)
  BY DEF SamePackages, IInv, SignalTypes
<1>2. phase'[s] = to
  BY DEF IInv, SignalTypes
<1>3. Linked(s)' /\ Started(s)'
  BY <1>2 DEF XInv, Linked, Started, Alive
<1> QED BY <1>1, <1>3, OnePackages

(* What a server does by itself.                                           *)
LEMMA ProceedsPackages ==
  ASSUME NEW s \in Servers, IInv, TInv, XInv, Proceeds(s)
  PROVE  XInv'
<1>0. /\ ext \in [Servers -> Ext] /\ ext[s] \in Ext /\ phase \in [Servers -> Phases]
      /\ calls \in [Servers -> Seq(Calls)] /\ Linked(s) /\ Startable(s)
  BY DEF TInv, Types, IInv, SignalTypes, XInv
<1>1. CASE Load(s)
  <2> DEFINE l == load_all_extensions(ext[s].known, broken)
  <2>1. ext' = [ext EXCEPT ![s].loaded = l] /\ UNCHANGED broken /\ phase[s] = "linked"
    BY <1>1 DEF Load
  <2> HIDE DEF l
  <2>2. \A q \in Servers \ {s} : ext'[q] = ext[q]
    BY <1>0, <2>1
  <2>3. CASE Died(s)
    BY <2>1, <2>2, <2>3, DiedPackages
  <2>4. CASE phase' = [phase EXCEPT ![s] = "loaded"] /\ Schedule(s, "bind")
    <3>1. \A q \in Servers \ {s} : SamePackages(q)
      BY <1>0, <2>2, <2>4 DEF SamePackages, Schedule
    <3>2. phase'[s] = "loaded" /\ ext'[s].known = ext[s].known /\ ext'[s].linked = ext[s].linked /\ ext'[s].loaded = l
      BY <1>0, <2>1, <2>4 DEF Ext
    <3>3. Linked(s)' /\ Started(s)'
      BY <1>0, <2>1, <3>2 DEF Linked, Started, Alive, l
    <3> QED BY <2>1, <3>1, <3>3, OnePackages
  <2> QED BY <1>1, <2>3, <2>4 DEF Load
<1>2. CASE WriteInfo(s)
  BY <1>2, EarlyPackages DEF WriteInfo
<1>3. CASE InfoWritten(s)
  BY <1>3, EarlyPackages DEF InfoWritten
<1>4. CASE StartLoop(s)
  <2>1. \A q \in Servers \ {s} : SamePackages(q)
    BY <1>0, <1>4 DEF StartLoop, Schedule, SamePackages
  <2>2. phase'[s] = "running" /\ phase[s] = "announced" /\ calls'[s] = Append(calls[s], "post_start")
    BY <1>0, <1>4 DEF StartLoop, Schedule
  <2>3. Holds(calls'[s], "post_start")
    BY <1>0, <2>2, AppendHolds DEF Calls
  <2>4. Linked(s)' /\ Started(s)'
    BY <1>0, <1>4, <2>2, <2>3 DEF StartLoop, Linked, Started, Alive
  <2> QED BY <1>4, <2>1, <2>4, OnePackages DEF StartLoop
<1>5. CASE Bind(s)
  <2>1. CASE Died(s)
    BY <1>5, <2>1, DiedPackages DEF Bind
  <2>2. CASE Next_(s) /\ UNCHANGED phase
    BY <1>5, <2>2, QueuePackages DEF Bind, Runs
  <2> QED BY <1>5, <2>1, <2>2 DEF Bind
<1>6. CASE PostStart(s)
  BY <1>6, BeginsPackages
<1>7. CASE RestoreHandler(s)
  BY <1>7, QueuePackages DEF RestoreHandler, Runs, startup
<1>8. CASE StopCall(s)
  BY <1>8, QueuePackages DEF StopCall, Runs
<1>9. ASSUME NEW p \in Packages, StartPoint(s, p) PROVE XInv'
  BY <1>9, PointPackages
<1>10. ASSUME NEW c \in Slots, CleanupKernels(s, c) PROVE XInv'
  BY <1>10, PackagesUntouched DEF CleanupKernels, startup
<1>11. ASSUME NEW c \in Slots, CloseAll(s, c) PROVE XInv'
  BY <1>11, StoppedPackages DEF CloseAll, startup
<1>12. ASSUME NEW c \in Slots, NEW x \in Apps, StopApp(s, c, x) PROVE XInv'
  <2>1. CASE UNCHANGED ext
    BY <1>12, <2>1, PackagesUntouched DEF StopApp
  <2>2. CASE ext' = [ext EXCEPT ![s].stopped = @ \cup {x}]
    <3>1. \A q \in Servers : \A f \in {"known", "linked", "loaded", "starting", "started"} : ext'[q][f] = ext[q][f]
      BY <1>0, <2>2 DEF Ext
    <3> QED BY <1>12, <3>1, QueuePackages DEF StopApp
  <2> QED BY <1>12, <2>1, <2>2 DEF StopApp
<1>13. CASE KernelStopped(s)
  BY <1>13, PackagesUntouched DEF KernelStopped, startup
<1>14. CASE Exit(s)
  BY <1>14, DiedPackages DEF Exit, startup
<1>15. ASSUME NEW ok \in BOOLEAN, KernelStarts(s, ok) PROVE XInv'
  BY <1>15, PackagesUntouched DEF KernelStarts, startup
<1> QED
  BY <1>1, <1>2, <1>3, <1>4, <1>5, <1>6, <1>7, <1>8, <1>9, <1>10, <1>11, <1>12, <1>13, <1>14, <1>15
  DEF Proceeds

LEMMA StopPackages ==
  ASSUME NEW s \in Servers, IInv, XInv, Stop(s), UNCHANGED <<broken, ext, phase>>
  PROVE  XInv'
  BY QueuePackages DEF Stop, Calls

(* What is done to a server.                                               *)
LEMMA StimulusPackages ==
  ASSUME NEW s \in Servers, IInv, TInv, XInv, Stimulus(s)
  PROVE  XInv'
<1>0. /\ ext \in [Servers -> Ext] /\ ext[s] \in Ext /\ phase \in [Servers -> Phases]
  BY DEF TInv, Types, IInv, SignalTypes
<1>1. CASE Initialize(s)
  <2> DEFINE k == add_extension(jpserver_extensions(s), broken)
             l == link_all_extensions(k, broken)
  <2>1. CASE Died(s) /\ UNCHANGED ext
    BY <1>1, <2>1, DiedPackages DEF Initialize
  <2>2. CASE phase' = [phase EXCEPT ![s] = "linked"] /\ ext' = [ext EXCEPT ![s].known = k, ![s].linked = l]
             /\ UNCHANGED calls
    <3> HIDE DEF k, l
    <3>1. \A q \in Servers \ {s} : SamePackages(q)
      BY <1>0, <2>2 DEF SamePackages
    <3>2. phase'[s] = "linked" /\ ext'[s].known = k /\ ext'[s].linked = l
      BY <1>0, <2>2 DEF Ext
    <3>3. UNCHANGED broken
      BY <1>1 DEF Initialize
    <3>4. Linked(s)' /\ Started(s)'
      BY <3>2, <3>3 DEF Linked, Started, Alive, k, l
    <3> QED BY <3>1, <3>3, <3>4, OnePackages
  <2> QED BY <1>1, <2>1, <2>2 DEF Initialize
<1>2. CASE Refused(s)
  BY <1>2, DiedPackages DEF Refused, startup, init_webapp, start_app, write_browser_open_files
<1>3. CASE Terminate(s)
  BY <1>3, StopPackages DEF Terminate, startup
<1>4. CASE Interrupt(s)
  <2>1. CASE Stop(s)
    BY <1>4, <2>1, StopPackages DEF Interrupt, startup
  <2>2. CASE UNCHANGED calls
    BY <1>4, <2>2, PackagesUntouched DEF Interrupt, startup
  <2> QED BY <1>4, <2>1, <2>2 DEF Interrupt
<1>5. CASE KeyboardInterrupt(s)
  BY <1>5, StoppedPackages DEF KeyboardInterrupt, startup
<1>6. CASE Inactive(s)
  BY <1>6, StopPackages DEF Inactive, startup
<1>7. ASSUME NEW reply \in {"yes", "no", "nothing"}, Answer(s, reply) PROVE XInv'
  <2>1. CASE Stop(s)
    BY <1>7, <2>1, StopPackages DEF Answer, startup
  <2>2. CASE UNCHANGED calls \/ Schedule(s, "restore")
    BY <1>7, <2>2, QueuePackages DEF Answer, startup, Calls
  <2> QED BY <1>7, <2>1, <2>2 DEF Answer, Schedule
<1>8. CASE RequestKernel(s)
  BY <1>8, PackagesUntouched DEF RequestKernel, startup
<1>9. CASE Crash(s)
  BY <1>9, DiedPackages DEF Crash, startup
<1> QED
  BY <1>1, <1>2, <1>3, <1>4, <1>5, <1>6, <1>7, <1>8, <1>9 DEF Stimulus

(* A command does nothing for packages.                                    *)
LEMMA CliPackages ==
  ASSUME IInv, TInv, XInv, CliStep \/ ListFiles
  PROVE  XInv'
<1>1. CASE ListFiles
  BY <1>1, PackagesUntouched DEF ListFiles, startup
<1>2. CASE EndCommand
  BY <1>2, PackagesUntouched DEF EndCommand, vars
<1>3. ASSUME NEW s \in Servers, ReadFile(s) PROVE XInv'
  BY <1>3, PackagesUntouched DEF ReadFile, vars
<1>4. ASSUME NEW s \in Servers, UnlinkFile(s) PROVE XInv'
  BY <1>4, PackagesUntouched DEF UnlinkFile
<1>5. ASSUME NEW s \in Servers, RequestShutdown(s) PROVE XInv'
  BY <1>5, PackagesUntouched DEF RequestShutdown
<1>6. ASSUME NEW s \in Servers, NEW ok \in BOOLEAN, Answered(s, ok) PROVE XInv'
  BY <1>6, PackagesUntouched DEF Answered, vars
<1>7. ASSUME NEW s \in Servers, ProcessGone(s) PROVE XInv'
  BY <1>7, PackagesUntouched DEF ProcessGone, vars
<1>8. ASSUME NEW s \in Servers, SendTerm(s) PROVE XInv'
  BY <1>8, StopPackages DEF SendTerm, startup
<1>9. ASSUME NEW s \in Servers, SendKill(s) PROVE XInv'
  BY <1>9, DiedPackages DEF SendKill, startup
<1> QED
  BY <1>1, <1>2, <1>3, <1>4, <1>5, <1>6, <1>7, <1>8, <1>9 DEF CliStep

(* What each phase has done for the packages, and that a package is left   *)
(* only when it is through or a hook of its own has raised                 *)
(* (extension/manager.py link_all_extensions, load_all_extensions,         *)
(* start_all_extensions).                                                  *)
THEOREM PackagesProgress == Spec => []XInv
<1>1. AllInit => XInv
  <2> SUFFICES ASSUME AllInit, NEW q \in Servers PROVE Linked(q) /\ Started(q)
    BY DEF XInv
  <2>1. phase[q] = "off"
    BY DEF AllInit, Init
  <2> QED BY <2>1 DEF Linked, Started, Alive
<1>2. ASSUME IInv, TInv, XInv, [Next]_allvars PROVE XInv'
  <2>1. CASE UNCHANGED allvars
    BY <1>2, <2>1, PackagesUntouched DEF allvars, vars
  <2>2. CASE ListFiles \/ CliStep
    BY <1>2, <2>2, CliPackages
  <2>3. ASSUME NEW s \in Servers, Server(s) PROVE XInv'
    BY <1>2, <2>3, ProceedsPackages, StimulusPackages DEF Server
  <2> QED BY <1>2, <2>1, <2>2, <2>3 DEF Next
<1>3. IInv /\ TInv /\ XInv /\ [Next]_allvars => XInv'
  BY <1>2
<1> QED BY <1>1, <1>3, Inductive, TypesHold, PTL DEF Spec

(* A package without a faulty hook is linked, loaded and started in full,  *)
(* whatever the hooks of other packages raise, for any packages and        *)
(* servers (extension/manager.py).                                         *)
THEOREM SoundPackagesStart == Spec => []SoundPackagesRun
<1>1. ASSUME NEW h \in Hooks \ {"stop"}, NEW p \in Packages, Sound(p), NEW x \in PointsOf(p)
      PROVE  <<h, x>> \notin broken
  BY <1>1 DEF Sound
<1>2. ASSUME NEW h \in Hooks \ {"stop"}, NEW p \in Packages, Sound(p)
      PROVE  PointsOf(p) \subseteq Done(h, p, broken)
  <2> SUFFICES ASSUME NEW x \in PointsOf(p), NEW i \in 1 .. x[2] PROVE <<h, <<p, i>>>> \notin broken
    BY DEF Done, Returns
  <2>1. PICK j \in 1 .. Size[p] : x = <<p, j>>
    BY PointsUpto DEF Upto
  <2>2. <<p, i>> \in PointsOf(p)
    <3>1. Size[p] \in Nat /\ i \in 1 .. j
      BY <2>1, PointsUpto
    <3>2. i \in 1 .. Size[p]
      BY <2>1, <3>1
    <3> QED BY <3>2, PointsUpto DEF Upto
  <2> QED BY <1>1, <1>2, <2>2
<1>3. ASSUME IInv, TInv, XInv, NEW s \in Servers, phase[s] = "running", ext[s].starting = {},
             ~Holds(calls[s], "post_start"), NEW p \in jpserver_extensions(s), Sound(p)
      PROVE  PointsOf(p) \subseteq ext[s].linked \cap ext[s].loaded \cap ext[s].started
  <2>1. Linked(s) /\ Started(s) /\ Alive(s)
    BY <1>3 DEF XInv, Alive
  <2>2. p \in add_extension(jpserver_extensions(s), broken) /\ p \in Packages
    <3>1. {"import"} \subseteq Hooks \ {"stop"}
      BY DEF Hooks
    <3>2. p \in add_extension(jpserver_extensions(s), broken)
      BY <1>3, <3>1 DEF add_extension, Returns, Sound
    <3> QED BY <3>2, ExtensionTypes
  <2>3. p \in ext[s].known
    BY <1>3, <2>1, <2>2 DEF Linked
  <2>4. {"link", "load", "start"} \subseteq Hooks \ {"stop"}
    BY DEF Hooks
  <2>5. PointsOf(p) \subseteq ext[s].linked
    BY <1>2, <1>3, <2>1, <2>2, <2>3, <2>4 DEF Linked, link_all_extensions, link_extension
  <2>6. PointsOf(p) \subseteq ext[s].loaded
    BY <1>2, <1>3, <2>1, <2>2, <2>3, <2>4 DEF Linked, load_all_extensions, load_extension
  <2>7. PointsOf(p) \subseteq ext[s].started
    BY <1>1, <1>3, <2>1, <2>2, <2>3, <2>4 DEF Started
  <2> QED BY <2>5, <2>6, <2>7
<1>4. IInv /\ TInv /\ XInv => SoundPackagesRun
  BY <1>3 DEF SoundPackagesRun, Holds
<1> QED BY <1>4, Inductive, TypesHold, PackagesProgress, PTL
=============================================================================
