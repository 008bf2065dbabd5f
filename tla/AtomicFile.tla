------------------------------ MODULE AtomicFile ------------------------------
(***************************************************************************)
(* What saving and reading a notebook promises.  The notebook has a        *)
(* content.  A save that is committed replaces it; a save that fails, or   *)
(* is cut off when the server stops, leaves it.  What a reader is given    *)
(* depends on where the content is then:                                   *)
(*   settled      it is at the notebook's path; readers are given it       *)
(*   damaged      the path holds an unreadable file and the content is in  *)
(*                the copy; a reader repairs this, or gets an error        *)
(*   missing      nothing is at the path and the content is in the copy;   *)
(*                readers get an error, and only a later save that fails   *)
(*                brings it back                                           *)
(* A save begun on a damaged notebook may lose the content.  Nothing is    *)
(* promised while requests that overlap are under way, and what they leave *)
(* is the content from then on.                                            *)
(***************************************************************************)
CONSTANTS Values, \* contents of a notebook
          None    \* no content; an error

VARIABLES content, \* the content kept
          state,   \* settled, damaged, missing, saving or overlapped
          given   \* what the last reader was given

vars == <<content, state, given>>

States == {"settled", "damaged", "missing", "saving", "overlapped"}

Init == content \in Values \cup {None} /\ state = "settled" /\ given = None

Read == /\ state = "settled"
        /\ given' = content
        /\ UNCHANGED <<content, state>>

ReadError == /\ state \in {"damaged", "missing"}
             /\ given' = None
             /\ UNCHANGED <<content, state>>

(* A reader moves the damaged file aside; a reader moves the copy back.    *)
Repair == /\ \/ state = "damaged" /\ state' = "missing"
             \/ state = "missing" /\ state' = "settled"
          /\ UNCHANGED <<content, given>>

Begin == /\ state \in {"settled", "damaged", "missing"}
         /\ state' = "saving"
         /\ \/ content' = content
            \/ state = "damaged" /\ content' = None
         /\ UNCHANGED given

(* The save is complete, whatever its client is told.                      *)
Commit(v) == /\ state = "saving"
             /\ state' = "settled"
             /\ content' = v
             /\ UNCHANGED given

(* The save fails.                                                         *)
Fail == /\ state = "saving"
        /\ state' \in {"settled", "damaged"}
        /\ UNCHANGED <<content, given>>

(* A request comes that may disturb another, or such requests are at work. *)
Disturbed == /\ "overlapped" \in {state, state'}
             /\ state' \in States
             /\ content' \in Values \cup {None}
             /\ given' \in Values \cup {None}

Next == \/ Read \/ ReadError \/ Repair
        \/ Begin \/ (\E v \in Values : Commit(v)) \/ Fail
        \/ Disturbed

Spec == Init /\ [][Next]_vars
=============================================================================
