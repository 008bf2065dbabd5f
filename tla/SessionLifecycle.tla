--------------------------- MODULE SessionLifecycle ---------------------------
(***************************************************************************)
(* What the sessions service promises its clients, with every request      *)
(* atomic: a session is opened once, on a running kernel; while it is open *)
(* its kernel runs and may be exchanged for another running one; it closes *)
(* when it is deleted or when its kernel goes, and a closed session is     *)
(* never seen again.  A kernel id runs once.                               *)
(*                                                                         *)
(* SessionKernels is the code; it is shown to implement this module.       *)
(***************************************************************************)
CONSTANTS Sessions, Kernels, Paths

VARIABLES session, \* session[s]: its stage and, when open, its path and kernel
          kernel   \* kernel[k]: "unused", "running" or "dead"

vars == <<session, kernel>>

Fresh  == [st |-> "fresh"]
Closed == [st |-> "closed"]
OpenOn(p, k) == [st |-> "open", path |-> p, kernel |-> k]

IsOpen(s) == session[s].st = "open"

Init == /\ session = [s \in Sessions |-> Fresh]
        /\ kernel = [k \in Kernels |-> "unused"]

-----------------------------------------------------------------------------
KernelUp(k) ==
  /\ kernel[k] = "unused"
  /\ kernel' = [kernel EXCEPT ![k] = "running"]
  /\ UNCHANGED session

(* Kernels end together with every session that is open on one of them.    *)
(* K is a set because a stopping server takes all of its kernels with it.  *)
KernelsDown(K) ==
  /\ kernel' = [k \in Kernels |-> IF k \in K THEN "dead" ELSE kernel[k]]
  /\ session' = [s \in Sessions |->
                   IF IsOpen(s) /\ session[s].kernel \in K
                     THEN Closed ELSE session[s]]

Open(s, p, k) ==
  /\ session[s] = Fresh
  /\ kernel[k] = "running"
  /\ session' = [session EXCEPT ![s] = OpenOn(p, k)]
  /\ UNCHANGED kernel

Rebind(s, p, k) ==
  /\ IsOpen(s)
  /\ kernel[k] = "running"
  /\ session' = [session EXCEPT ![s] = OpenOn(p, k)]
  /\ UNCHANGED kernel

Close(s) ==
  /\ IsOpen(s)
  /\ session' = [session EXCEPT ![s] = Closed]
  /\ UNCHANGED kernel

Next == \/ \E k \in Kernels : KernelUp(k)
        \/ \E K \in SUBSET Kernels : KernelsDown(K)
        \/ \E s \in Sessions, p \in Paths, k \in Kernels :
              Open(s, p, k) \/ Rebind(s, p, k)
        \/ \E s \in Sessions : Close(s)

Spec == Init /\ [][Next]_vars

=============================================================================
