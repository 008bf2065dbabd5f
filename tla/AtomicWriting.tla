----------------------------- MODULE AtomicWriting -----------------------------
(***************************************************************************)
(* Saving and reading one notebook: atomic_writing, copy2_safe and the     *)
(* asynchronous _save_notebook and _read_notebook of                       *)
(* services/contents/fileio.py, with use_atomic_writing at its default,    *)
(* True, in a directory the server can write to.                           *)
(*                                                                         *)
(* A save copies the file to ".~name" and truncates it without giving up   *)
(* the event loop, writes in a worker thread, then flushes and removes the *)
(* copy on the loop.  A read that finds the file unreadable moves it to    *)
(* "name.invalid" and puts the copy in its place.  The server may be       *)
(* killed between any two steps; what it has written by then stays.        *)
(***************************************************************************)
EXTENDS Integers, FiniteSets

CONSTANTS
  Requests,   \* slots for saves and reads being served
  Values,     \* contents of a notebook
  Overlap,    \* kinds of requests that come while another is served
  MaxCrashes, \* bound: times the server is killed
  None        \* no value

ASSUME NoneAssumption == None \notin Values
ASSUME OverlapAssumption == Overlap \subseteq {"save", "read"}
ASSUME CrashesAssumption == MaxCrashes \in Nat

VARIABLES
  file,       \* the notebook's path
  tmp,        \* path_to_intermediate of it
  invalid,    \* path_to_invalid of it
  req,        \* where each request is
  overlapped, \* whether the requests under way may disturb each other
  given,      \* what the last read that ended was given; None is an error
  crashes     \* times the server was killed

disk == <<file, tmp, invalid>>
history == <<overlapped, crashes>>
vars == <<file, tmp, invalid, req, overlapped, given, crashes>>

-----------------------------------------------------------------------------
(* What is at a path: nothing, one whole content, or what no reader can    *)
(* parse: an empty, cut-off or mixed file.                                 *)
At(st, v) == [st |-> st, val |-> v]
Absent == At("absent", None)
Torn == At("torn", None)
Whole(v) == At("whole", v)
IsFile(f) == f.st # "absent"

(* A request: its stage, the content it saves, the path at which the file  *)
(* it has open can be found ("file", "invalid", "gone") and whether        *)
(* another save has the same file open.                                    *)
Req(at, v, fd, mixed) == [at |-> at, val |-> v, fd |-> fd, mixed |-> mixed]
Idle == Req("idle", None, "gone", "alone")

Stage(r, at) == req[r].at = at
Goes(r, what) == req' = [req EXCEPT ![r] = what]
Next_(r, at) == Goes(r, Req(at, req[r].val, req[r].fd, req[r].mixed))
Ends(r, v) == Goes(r, Idle) /\ given' = v

(* These stages hold the event loop; a step on the loop by another request *)
(* waits for it.                                                           *)
OnLoop == {"copying", "copied", "flushed"}
LoopFree == \A r \in Requests : req[r].at \notin OnLoop
Quiet == \A r \in Requests : req[r] = Idle
Comes(kind) == LoopFree /\ (kind \in Overlap \/ Quiet)

(* A request that comes to others may disturb them or be disturbed, except *)
(* a read that finds all others reading a whole file.                      *)
ReadersOnly ==
  file.st = "whole" /\ \A r \in Requests : req[r].at \in {"idle", "reading"}
Arrives(kind) ==
  /\ Comes(kind)
  /\ overlapped' = (~Quiet /\ (overlapped \/ kind = "save" \/ ~ReadersOnly))

(* os.replace(src, dst) for requests that have a file at dst or src open.  *)
Moved(src, dst) ==
  [r \in Requests |->
     Req(req[r].at, req[r].val,
         IF req[r].fd = src THEN dst ELSE IF req[r].fd = dst THEN "gone" ELSE req[r].fd,
         req[r].mixed)]

-----------------------------------------------------------------------------
(* atomic_writing up to its yield.                                         *)
StartSave(r, v) ==
  /\ req[r] = Idle /\ Arrives("save")
  /\ IsFile(file)
  /\ tmp' = Torn
  /\ Goes(r, Req("copying", v, "gone", "alone"))
  /\ UNCHANGED <<file, invalid, given, crashes>>

(* There is no file to copy.                                               *)
StartNew(r, v) ==
  /\ req[r] = Idle /\ Arrives("save")
  /\ ~IsFile(file)
  /\ file' = Torn
  /\ Goes(r, Req("writing", v, "file", "alone"))
  /\ UNCHANGED <<tmp, invalid, given, crashes>>

CopyDone(r) ==
  /\ Stage(r, "copying")
  /\ tmp' = file
  /\ Next_(r, "copied")
  /\ UNCHANGED <<file, invalid, given, history>>

(* copy2_safe or open raises: nothing is restored, the copy stays.         *)
EnterFails(r) ==
  /\ Stage(r, "copying") \/ Stage(r, "copied")
  /\ Goes(r, Idle)
  /\ UNCHANGED <<disk, given, history>>

(* open(path, "w") truncates.                                              *)
Writing == {"writing", "failing", "written"}
Sharing(r) == {s \in Requests \ {r} : req[s].at \in Writing /\ req[s].fd = "file"}

Truncate(r) ==
  /\ Stage(r, "copied")
  /\ file' = Torn
  /\ req' = [s \in Requests |->
       IF s = r THEN Req("writing", req[r].val, "file",
                         IF Sharing(r) = {} THEN "alone" ELSE "mixed")
       ELSE IF s \in Sharing(r) THEN Req(req[s].at, req[s].val, "file", "mixed")
       ELSE req[s]]
  /\ UNCHANGED <<tmp, invalid, given, history>>

-----------------------------------------------------------------------------
(* The content is in the file the save has open, wherever that is now;     *)
(* with another save in it, in part perhaps.                               *)
Written(r) == IF req[r].mixed = "mixed" THEN {Whole(req[r].val), Torn}
              ELSE {Whole(req[r].val)}
Puts(r) ==
  /\ \E f \in Written(r) :
       /\ file'    = IF req[r].fd = "file" THEN f ELSE file
       /\ invalid' = IF req[r].fd = "invalid" THEN f ELSE invalid
  /\ UNCHANGED tmp

(* The worker thread: nbformat.write returns or raises.  What it writes    *)
(* stays in the buffers of the file, or is more than they hold.            *)
ThreadWrote(r) ==
  /\ Stage(r, "writing")
  /\ UNCHANGED disk \/ Puts(r)
  /\ Next_(r, "written")
  /\ UNCHANGED <<given, history>>

ThreadFailed(r) ==
  /\ Stage(r, "writing")
  /\ Next_(r, "failing")
  /\ UNCHANGED <<disk, given, history>>

(* The except branch: move the copy back.                                  *)
Restore(r) ==
  /\ Stage(r, "failing") /\ LoopFree
  /\ IsFile(tmp)
  /\ file' = tmp /\ tmp' = Absent
  /\ req' = [Moved("tmp", "file") EXCEPT ![r] = Idle]
  /\ UNCHANGED <<invalid, given, history>>

(* close raises, or replace_file does, as it must without a copy: the file *)
(* stays as the save has left it.                                          *)
RestoreFails(r) ==
  /\ Stage(r, "failing") /\ LoopFree
  /\ Goes(r, Idle)
  /\ UNCHANGED <<disk, given, history>>

(* Mutant: the thread is not awaited.                                      *)
Flush_NotAwaited(r) ==
  /\ Stage(r, "writing") /\ LoopFree
  /\ Next_(r, "flushed")
  /\ UNCHANGED <<disk, given, history>>

(* flush and fsync.                                                        *)
Flush(r) ==
  /\ Stage(r, "written") /\ LoopFree
  /\ Puts(r)
  /\ Next_(r, "flushed")
  /\ UNCHANGED <<given, history>>

(* Mutant: the copy goes before the content is flushed.                    *)
FlushFails_CopyGone(r) ==
  /\ Stage(r, "written") /\ LoopFree
  /\ tmp' = Absent
  /\ Goes(r, Idle)
  /\ UNCHANGED <<file, invalid, given, history>>

(* flush raises (no space left), or fsync does, when the content is in the *)
(* file: this is outside the try, and nothing is restored.                 *)
FlushFails(r) ==
  /\ Stage(r, "written") /\ LoopFree
  /\ UNCHANGED disk \/ Puts(r)
  /\ Goes(r, Idle)
  /\ UNCHANGED <<given, history>>

(* The copy is removed and the save has succeeded.                         *)
Finish(r) ==
  /\ Stage(r, "flushed")
  /\ tmp' = Absent
  /\ Goes(r, Idle)
  /\ UNCHANGED <<file, invalid, given, history>>

(* The copy cannot be removed: an error, though the content is saved.      *)
FinishFails(r) ==
  /\ Stage(r, "flushed") /\ IsFile(tmp)
  /\ Goes(r, Idle)
  /\ UNCHANGED <<disk, given, history>>

-----------------------------------------------------------------------------
(* _read_notebook: open the file; read and parse it in a thread.           *)
StartRead(r) ==
  /\ req[r] = Idle /\ Arrives("read")
  /\ IsFile(file)
  /\ Goes(r, Req("reading", None, "file", "alone"))
  /\ UNCHANGED <<disk, given, crashes>>

(* "Cannot read non-file": 400, and a copy is not looked for.              *)
ReadMissing(r) ==
  /\ req[r] = Idle /\ Comes("read")
  /\ ~IsFile(file)
  /\ given' = None
  /\ UNCHANGED <<disk, req, history>>

(* What the thread may find in the file that was opened.                   *)
Found(r) == IF req[r].fd = "file" THEN {file}
            ELSE IF req[r].fd = "invalid" THEN {invalid}
            ELSE {Torn} \cup {Whole(v) : v \in Values}

Readable(r) ==
  /\ Stage(r, "reading")
  /\ \E v \in Values : Whole(v) \in Found(r) /\ Ends(r, v)
  /\ UNCHANGED <<disk, history>>

Unreadable(r) ==
  /\ Stage(r, "reading") /\ Torn \in Found(r)
  /\ Goes(r, Req("bad", None, "gone", "alone"))
  /\ UNCHANGED <<disk, given, history>>

(* Cut off inside a character: 400, before a copy is looked for.           *)
NotText(r) ==
  /\ Stage(r, "reading") /\ Torn \in Found(r)
  /\ Ends(r, None)
  /\ UNCHANGED <<disk, history>>

(* Without a copy: 400.                                                    *)
NoCopy(r) ==
  /\ Stage(r, "bad") /\ LoopFree
  /\ ~IsFile(tmp)
  /\ Ends(r, None)
  /\ UNCHANGED <<disk, history>>

FoundCopy(r) ==
  /\ Stage(r, "bad") /\ LoopFree
  /\ IsFile(tmp)
  /\ Next_(r, "aside")
  /\ UNCHANGED <<disk, given, history>>

(* Move the bad file aside.                                                *)
MoveAside(r) ==
  /\ Stage(r, "aside") /\ IsFile(file)
  /\ invalid' = file /\ file' = Absent
  /\ req' = [Moved("file", "invalid") EXCEPT ![r] = Req("moved", None, "gone", "alone")]
  /\ UNCHANGED <<tmp, given, history>>

(* The first await is over, the second begins.                             *)
Resume(r) ==
  /\ Stage(r, "moved") /\ LoopFree
  /\ Next_(r, "putback")
  /\ UNCHANGED <<disk, given, history>>

(* Mutant: the copy is copied back, and found again.                       *)
PutBack_Copies(r) ==
  /\ Stage(r, "putback") /\ IsFile(tmp)
  /\ file' = tmp
  /\ req' = [Moved("tmp", "file") EXCEPT ![r] = Req("again", None, "gone", "alone")]
  /\ UNCHANGED <<tmp, invalid, given, history>>

(* Restore the intermediate.                                               *)
PutBack(r) ==
  /\ Stage(r, "putback") /\ IsFile(tmp)
  /\ file' = tmp /\ tmp' = Absent
  /\ req' = [Moved("tmp", "file") EXCEPT ![r] = Req("again", None, "gone", "alone")]
  /\ UNCHANGED <<invalid, given, history>>

(* os.replace raises: the file or the copy has gone meanwhile, or may not  *)
(* be moved.                                                               *)
ReplaceFails(r) ==
  /\ Stage(r, "aside") \/ Stage(r, "putback")
  /\ Ends(r, None)
  /\ UNCHANGED <<disk, history>>

(* Try again.                                                              *)
Reopen(r) ==
  /\ Stage(r, "again") /\ LoopFree
  /\ IF IsFile(file)
       THEN Goes(r, Req("reading", None, "file", "alone")) /\ UNCHANGED given
       ELSE Ends(r, None)
  /\ UNCHANGED <<disk, history>>

-----------------------------------------------------------------------------
(* The server is killed, and started again.                                *)
Crash ==
  /\ crashes < MaxCrashes
  /\ crashes' = crashes + 1
  /\ req' = [r \in Requests |-> Idle]
  /\ UNCHANGED <<disk, overlapped, given>>

Init ==
  /\ file \in {Absent} \cup {Whole(v) : v \in Values}
  /\ tmp = Absent /\ invalid = Absent
  /\ req = [r \in Requests |-> Idle]
  /\ overlapped = FALSE
  /\ given = None
  /\ crashes = 0

Save(r) ==
  \/ CopyDone(r) \/ EnterFails(r) \/ Truncate(r)
  \/ ThreadWrote(r) \/ ThreadFailed(r) \/ Restore(r) \/ RestoreFails(r)
  \/ Flush(r) \/ FlushFails(r) \/ Finish(r) \/ FinishFails(r)

Read(r) ==
  \/ Readable(r) \/ Unreadable(r) \/ NotText(r) \/ NoCopy(r) \/ FoundCopy(r)
  \/ MoveAside(r) \/ Resume(r) \/ PutBack(r) \/ ReplaceFails(r) \/ Reopen(r)

Next ==
  \/ \E r \in Requests : \/ \E v \in Values : StartSave(r, v) \/ StartNew(r, v)
                         \/ StartRead(r) \/ ReadMissing(r)
                         \/ Save(r) \/ Read(r)
  \/ Crash

Spec == Init /\ [][Next]_vars

(* The event loop and the worker threads go on.  The loop takes what is    *)
(* ready in the order it came, so that saves that hold the loop again and  *)
(* again do not keep another from it.                                      *)
Fairness == \A r \in Requests : SF_vars(Save(r)) /\ WF_vars(Read(r))
FairSpec == Spec /\ Fairness

-----------------------------------------------------------------------------
(* What is on the disk at each stage, while no requests disturb others.    *)
AgreesWith(q) ==
  /\ q.at = "idle" => q = Idle
  /\ q.at = "copying" => IsFile(file) /\ tmp = Torn
  /\ q.at = "copied" => IsFile(file) /\ tmp = file
  /\ q.at \in Writing => q.fd = "file" /\ q.mixed = "alone"
  /\ q.at \in {"writing", "failing"} => file = Torn
  /\ q.at = "written" => file \in {Torn, Whole(q.val)}
  /\ q.at = "flushed" => file = Whole(q.val)
  /\ q.at = "reading" => IsFile(file) /\ q.fd = "file"
  /\ q.at \in {"bad", "aside"} => file = Torn
  /\ q.at \in {"moved", "putback"} => file = Absent
  /\ q.at \in {"aside", "moved", "putback"} => IsFile(tmp)
  /\ q.at = "again" => IsFile(file)

StagesAgree ==
  ~overlapped =>
    /\ \A r, s \in Requests : req[r] # Idle /\ req[s] # Idle => r = s \/ ReadersOnly
    /\ \A r \in Requests : AgreesWith(req[r])

(* The types of the variables.                                             *)
DiskType == {Absent, Torn} \cup {Whole(v) : v \in Values}
SaveStages == {"copying", "copied", "writing", "failing", "written", "flushed"}
ReadStages == {"idle", "reading", "bad", "aside", "moved", "putback", "again"}
ReqType ==
  LET Reqs(stages, vals) ==
        [at : stages, val : vals, fd : {"file", "invalid", "gone"},
         mixed : {"alone", "mixed"}]
  IN Reqs(SaveStages, Values) \cup Reqs(ReadStages, {None})

TypeOK ==
  /\ file \in DiskType /\ tmp \in DiskType /\ invalid \in DiskType
  /\ req \in [Requests -> ReqType]
  /\ overlapped \in BOOLEAN
  /\ given \in Values \cup {None}
  /\ crashes \in Nat

(* atomic_writing: a save that succeeds has its content at the notebook's  *)
(* path, whatever other requests do meanwhile, unless one of them has      *)
(* moved the file away or another save has it open too.                    *)
Succeeds ==
  \A r \in Requests :
    Finish(r) /\ req[r].fd = "file" /\ req[r].mixed = "alone" => file' = Whole(req[r].val)
SuccessMeansSaved == [][Succeeds]_vars

(* Without the exceptions this does not hold: a reader takes the file that *)
(* is being written for a damaged one.                                     *)
SuccessMeansSavedAlways ==
  [][\A r \in Requests : Finish(r) => file' = Whole(req[r].val)]_vars

(* Every save ends, and so does every read, though reading starts over     *)
(* after it has repaired the notebook, unless saves keep coming meanwhile. *)
SaveUnderWay(r) == req[r].at \in SaveStages
RequestsEnd ==
  \A r \in Requests :
    /\ SaveUnderWay(r) ~> req[r] = Idle
    /\ req[r] # Idle ~> req[r] = Idle \/ \E s \in Requests \ {r} : SaveUnderWay(s)

(* "Write to a file only if the entire write is successful": whatever      *)
(* fails and whenever the server is killed, the content of the last save   *)
(* that was complete is kept, and readers are given it where AtomicFile    *)
(* says so.  It is at the notebook's path or, while a save writes and      *)
(* after one that was cut off, in the copy beside it.                      *)
Content == IF file.st = "whole" /\ \A r \in Requests : req[r].at \notin Writing
           THEN file.val
           ELSE IF tmp.st = "whole" THEN tmp.val ELSE None

Saving == Writing \cup {"copying", "copied"}
State == IF overlapped /\ ~Quiet THEN "overlapped"
         ELSE IF \E r \in Requests : req[r].at \in Saving THEN "saving"
         ELSE IF file.st = "whole" \/ Content = None THEN "settled"
         ELSE IF IsFile(file) THEN "damaged" ELSE "missing"

Atomic == INSTANCE AtomicFile WITH content <- Content, state <- State
ImplementsAtomicFile == Atomic!Spec
=============================================================================
