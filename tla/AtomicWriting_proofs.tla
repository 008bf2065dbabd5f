------------------------- MODULE AtomicWriting_proofs -------------------------
(***************************************************************************)
(* AtomicWriting, for any number of requests, contents and crashes and     *)
(* whatever requests overlap: a save that succeeds with the file to itself *)
(* has its content at the path, and the files implement AtomicFile.        *)
(*                                                                         *)
(* Held is the invariant of the first: who has the file at the path open.  *)
(* StagesAgree is that of the second: it ties what is on the disk to the   *)
(* stage of the one request, or the readers, under way until a request     *)
(* comes that may disturb them.  Each step then maps to one of AtomicFile  *)
(* or to a stutter.                                                        *)
(*                                                                         *)
(* The last part, about AsyncContents, has Inv: a request that no other    *)
(* has overlapped is alone on its paths, and a checkpoint without its file *)
(* there, if it found none, is one that it will itself remove or move.     *)
(***************************************************************************)
EXTENDS AtomicWriting, SequenceTheorems, WellFoundedInduction, TLAPS

USE NoneAssumption, OverlapAssumption, CrashesAssumption

-----------------------------------------------------------------------------
(* Types.  The operators that make records return the records they name.   *)
LEMMA DiskTypes ==
  /\ Absent \in DiskType /\ Torn \in DiskType
  /\ \A v \in Values : Whole(v) \in DiskType
BY DEF DiskType

LEMMA ReqTypes ==
  ASSUME NEW at, NEW v, NEW fd \in {"file", "invalid", "gone"},
         NEW mixed \in {"alone", "mixed"},
         \/ at \in SaveStages /\ v \in Values
         \/ at \in ReadStages /\ v = None
  PROVE Req(at, v, fd, mixed) \in ReqType
BY DEF Req, ReqType

LEMMA Advance ==
  ASSUME NEW q \in ReqType, NEW at,
         \/ at \in SaveStages /\ q.at \in SaveStages
         \/ at \in ReadStages /\ q.at \in ReadStages
  PROVE Req(at, q.val, q.fd, q.mixed) \in ReqType
BY DEF Req, ReqType, SaveStages, ReadStages

LEMMA MovedTypes ==
  ASSUME req \in [Requests -> ReqType], NEW src \in {"file", "tmp"},
         NEW dst \in {"file", "invalid"}
  PROVE Moved(src, dst) \in [Requests -> ReqType]
BY DEF Moved, Req, ReqType, SaveStages, ReadStages

(* What a save puts into the file it has open.                             *)
LEMMA PutsTypes ==
  ASSUME TypeOK, NEW r \in Requests, Puts(r), req[r].val \in Values
  PROVE file' \in DiskType /\ tmp' \in DiskType /\ invalid' \in DiskType
<1>1. PICK f \in Written(r) :
        /\ file'    = IF req[r].fd = "file" THEN f ELSE file
        /\ invalid' = IF req[r].fd = "invalid" THEN f ELSE invalid
  BY DEF Puts
<1> QED BY <1>1, DiskTypes DEF Puts, Written, TypeOK

LEMMA TypeStep == TypeOK /\ [Next]_vars => TypeOK'
<1> SUFFICES ASSUME TypeOK, [Next]_vars PROVE TypeOK'
  OBVIOUS
<1> USE DEF TypeOK, disk, history
<1>i. Idle \in ReqType
  BY ReqTypes DEF Idle, ReadStages
<1>n. ASSUME NEW r \in Requests, NEW at, Next_(r, at),
             \/ at \in SaveStages /\ req[r].at \in SaveStages
             \/ at \in ReadStages /\ req[r].at \in ReadStages
      PROVE req' \in [Requests -> ReqType]
  BY <1>n, Advance DEF Next_, Goes
<1>g. ASSUME NEW r \in Requests, Goes(r, Idle)
      PROVE req' \in [Requests -> ReqType]
  BY <1>g, <1>i DEF Goes
<1>b. ASSUME NEW kind, Arrives(kind) PROVE overlapped' \in BOOLEAN
  BY <1>b DEF Arrives
<1>v. ASSUME NEW r \in Requests, req[r].at \in SaveStages
      PROVE req[r].val \in Values
  BY <1>v DEF ReqType, SaveStages, ReadStages
<1>e. ASSUME NEW r \in Requests, Ends(r, None)
      PROVE req' \in [Requests -> ReqType] /\ given' \in Values \cup {None}
  BY <1>e, <1>i DEF Ends, Goes
<1>1. ASSUME NEW r \in Requests, NEW v \in Values, StartSave(r, v) PROVE TypeOK'
  BY <1>1, <1>b, DiskTypes, ReqTypes DEF StartSave, Goes, SaveStages
<1>2. ASSUME NEW r \in Requests, NEW v \in Values, StartNew(r, v) PROVE TypeOK'
  BY <1>2, <1>b, DiskTypes, ReqTypes DEF StartNew, Goes, SaveStages
<1>3. ASSUME NEW r \in Requests, StartRead(r) PROVE TypeOK'
  BY <1>3, <1>b, ReqTypes DEF StartRead, Goes, ReadStages
<1>m. ASSUME NEW r \in Requests, ReadMissing(r) PROVE TypeOK'
  BY <1>m DEF ReadMissing
<1>4. ASSUME NEW r \in Requests, Save(r) PROVE TypeOK'
  <2>1. CASE CopyDone(r)     BY <2>1, <1>n DEF CopyDone, Stage, SaveStages
  <2>2. CASE EnterFails(r)   BY <2>2, <1>g DEF EnterFails
  <2>3. CASE Truncate(r)
    <3>1. \A s \in Requests, m \in {"alone", "mixed"} :
            Req(req[s].at, req[s].val, "file", m) \in ReqType
      BY ReqTypes DEF ReqType
    <3>2. \A m \in {"alone", "mixed"} : Req("writing", req[r].val, "file", m) \in ReqType
      BY <2>3, <1>v, ReqTypes DEF Truncate, Stage, SaveStages
    <3>4. req' \in [Requests -> ReqType]
      BY <2>3, <3>1, <3>2 DEF Truncate
    <3> QED BY <2>3, <3>4, DiskTypes DEF Truncate
  <2>4. CASE ThreadWrote(r)
    <3>1. req[r].val \in Values BY <2>4, <1>v DEF ThreadWrote, Stage, SaveStages
    <3> QED BY <2>4, <3>1, <1>n, PutsTypes DEF ThreadWrote, Stage, SaveStages
  <2>5. CASE ThreadFailed(r) BY <2>5, <1>n DEF ThreadFailed, Stage, SaveStages
  <2>6. CASE Restore(r)
    BY <2>6, <1>i, MovedTypes, DiskTypes DEF Restore
  <2>7. CASE RestoreFails(r) BY <2>7, <1>g DEF RestoreFails
  <2>8. CASE Flush(r)
    <3>1. req[r].val \in Values BY <2>8, <1>v DEF Flush, Stage, SaveStages
    <3> QED BY <2>8, <3>1, <1>n, PutsTypes DEF Flush, Stage, SaveStages
  <2>9. CASE FlushFails(r)
    <3>1. req[r].val \in Values BY <2>9, <1>v DEF FlushFails, Stage, SaveStages
    <3> QED BY <2>9, <3>1, <1>g, PutsTypes DEF FlushFails
  <2>10. CASE Finish(r)       BY <2>10, <1>g, DiskTypes DEF Finish
  <2>11. CASE FinishFails(r)  BY <2>11, <1>g DEF FinishFails
  <2> QED BY <1>4, <2>1, <2>2, <2>3, <2>4, <2>5, <2>6, <2>7, <2>8, <2>9, <2>10, <2>11 DEF Save
<1>5. ASSUME NEW r \in Requests, Read(r) PROVE TypeOK'
  <2>1. CASE Readable(r)
    <3>1. PICK v \in Values : Ends(r, v) BY <2>1 DEF Readable
    <3> QED BY <2>1, <3>1, <1>g DEF Readable, Ends
  <2>2. CASE Unreadable(r)
    BY <2>2, ReqTypes DEF Unreadable, Goes, ReadStages
  <2>3. CASE NoCopy(r)       BY <2>3, <1>e DEF NoCopy
  <2>4. CASE FoundCopy(r)    BY <2>4, <1>n DEF FoundCopy, Stage, ReadStages
  <2>5. CASE MoveAside(r)
    BY <2>5, MovedTypes, ReqTypes, DiskTypes DEF MoveAside, ReadStages
  <2>6. CASE Resume(r)       BY <2>6, <1>n DEF Resume, Stage, ReadStages
  <2>7. CASE PutBack(r)
    BY <2>7, MovedTypes, ReqTypes, DiskTypes DEF PutBack, ReadStages
  <2>8. CASE ReplaceFails(r) BY <2>8, <1>e DEF ReplaceFails
  <2>9. CASE NotText(r)      BY <2>9, <1>e DEF NotText
  <2>10. CASE Reopen(r)
    <3>1. req' \in [Requests -> ReqType] /\ given' \in Values \cup {None}
      BY <2>10, <1>e, ReqTypes DEF Reopen, Goes, ReadStages
    <3> QED BY <2>10, <3>1 DEF Reopen
  <2> QED BY <1>5, <2>1, <2>2, <2>3, <2>4, <2>5, <2>6, <2>7, <2>8, <2>9, <2>10 DEF Read
<1>6. CASE Crash
  BY <1>6, <1>i DEF Crash
<1>7. CASE UNCHANGED vars
  BY <1>7 DEF vars
<1> QED BY <1>1, <1>2, <1>3, <1>m, <1>4, <1>5, <1>6, <1>7 DEF Next

(* Every variable keeps its type, whether requests overlap or not.         *)
THEOREM Typing == Spec => []TypeOK
<1>1. Init => TypeOK
  <2>1. Idle \in ReqType
    BY ReqTypes DEF Idle, ReadStages
  <2>2. Init => file \in DiskType /\ tmp \in DiskType /\ invalid \in DiskType
    BY DEF Init, DiskType
  <2>3. Init => overlapped \in BOOLEAN
    BY Zenon DEF Init
  <2>4. Init => req \in [Requests -> ReqType]
    BY <2>1 DEF Init
  <2> QED BY <2>2, <2>3, <2>4 DEF Init, TypeOK
<1> QED BY <1>1, TypeStep, PTL DEF Spec

-----------------------------------------------------------------------------
LEMMA Fields ==
  ASSUME NEW at, NEW v, NEW fd, NEW mixed
  PROVE /\ Req(at, v, fd, mixed).at = at
        /\ Req(at, v, fd, mixed).val = v
        /\ Req(at, v, fd, mixed).fd = fd
        /\ Req(at, v, fd, mixed).mixed = mixed
BY DEF Req

LEMMA Kinds ==
  /\ ~IsFile(Absent) /\ IsFile(Torn)
  /\ \A v : IsFile(Whole(v)) /\ Whole(v).st = "whole" /\ Whole(v).val = v
  /\ Absent.st # "whole" /\ Torn.st # "whole"
  /\ \A f \in DiskType : /\ ~IsFile(f) => f = Absent
                         /\ IsFile(f) /\ f.st # "whole" => f = Torn
                         /\ f.st = "whole" => f = Whole(f.val) /\ f.val \in Values
BY DEF IsFile, Absent, Torn, Whole, At, DiskType

LEMMA IdleFields == Idle.at = "idle" /\ Idle.fd = "gone"
BY Fields DEF Idle

(* What a rename leaves of the requests.                                   *)
LEMMA MovedFields ==
  ASSUME NEW src, NEW dst, NEW s \in Requests
  PROVE /\ Moved(src, dst)[s].at = req[s].at
        /\ Moved(src, dst)[s].val = req[s].val
        /\ Moved(src, dst)[s].mixed = req[s].mixed
        /\ Moved(src, dst)[s].fd =
             IF req[s].fd = src THEN dst ELSE IF req[s].fd = dst THEN "gone" ELSE req[s].fd
BY Fields DEF Moved

-----------------------------------------------------------------------------
(* A save that succeeds.  One request holds the loop; two saves that have  *)
(* the file at the path open know of each other; and a save whose content  *)
(* is flushed, alone, to the file at the path finds it there.              *)
Opened == Writing \cup {"flushed"}
HasOpen(r) == req[r].at \in Opened /\ req[r].fd = "file"

Held ==
  /\ \A r, s \in Requests : req[r].at \in OnLoop /\ req[s].at \in OnLoop => r = s
  /\ \A r \in Requests : HasOpen(r) => IsFile(file)
  /\ \A r, s \in Requests : HasOpen(r) /\ HasOpen(s) /\ r # s => req[r].mixed = "mixed"
  /\ \A r \in Requests : HasOpen(r) /\ req[r].at = "flushed" /\ req[r].mixed = "alone"
                          => file = Whole(req[r].val)

(* A request that has no file of its own to write at the path.             *)
LEMMA HeldQuietly ==
  ASSUME TypeOK, Held, NEW r \in Requests, file' = file,
         req'[r].at \in OnLoop => \A s \in Requests : req[s].at \in OnLoop => s = r,
         ~HasOpen(r)', \A s \in Requests \ {r} : req'[s] = req[s]
  PROVE Held'
<1>1. \A s \in Requests : HasOpen(s)' => s # r /\ HasOpen(s) /\ req'[s] = req[s]
  BY DEF HasOpen
<1>2. \A s \in Requests : req'[s].at \in OnLoop => s = r \/ req[s].at \in OnLoop
  OBVIOUS
<1> QED BY <1>1, <1>2 DEF Held

(* A rename puts another file at the path, or takes it away.               *)
LEMMA HeldMoved ==
  ASSUME TypeOK, Held, NEW r \in Requests, NEW src, NEW dst, "file" \in {src, dst},
         dst \in {"file", "invalid"}, src # dst,
         src = "tmp" \/ src = "file",
         NEW q, q.at \notin OnLoop, q.at \notin Opened,
         req' = [Moved(src, dst) EXCEPT ![r] = q]
  PROVE Held'
<1>1. req'[r] = q /\ \A s \in Requests \ {r} : req'[s] = Moved(src, dst)[s]
  BY DEF Moved
<1>2. \A s \in Requests : req'[s].fd = "file" /\ s # r => FALSE
  BY <1>1, MovedFields DEF TypeOK, ReqType
<1>3. \A s \in Requests : ~HasOpen(s)'
  BY <1>1, <1>2 DEF HasOpen
<1>4. \A s \in Requests : req'[s].at \in OnLoop => req[s].at \in OnLoop
  BY <1>1, MovedFields
<1> QED BY <1>3, <1>4 DEF Held

(* A save goes on with the file it has open, in the part of the loop it    *)
(* has or in its thread.                                                   *)
LEMMA HeldNext ==
  ASSUME TypeOK, Held, NEW r \in Requests, NEW at, Next_(r, at),
         HasOpen(r)' => HasOpen(r),
         at \in OnLoop => LoopFree \/ req[r].at \in OnLoop,
         \/ file' = file /\ at # "flushed"
         \/ Puts(r) /\ LoopFree
         \/ Puts(r) /\ req[r].at \in Writing /\ at # "flushed"
  PROVE Held'
<1>1. /\ req'[r].at = at /\ req'[r].val = req[r].val
      /\ req'[r].fd = req[r].fd /\ req'[r].mixed = req[r].mixed
      /\ \A s \in Requests \ {r} : req'[s] = req[s]
  BY Fields DEF Next_, Goes, TypeOK
<1>2. \A s, t \in Requests : req'[s].at \in OnLoop /\ req'[t].at \in OnLoop => s = t
  BY <1>1 DEF Held, LoopFree
<1>3. \A s \in Requests : HasOpen(s)' => HasOpen(s) /\ req'[s].mixed = req[s].mixed
  BY <1>1 DEF HasOpen
<1>4. IsFile(file) => IsFile(file')
  <2>1. CASE Puts(r)
    BY <2>1, Kinds DEF Puts, Written
  <2> QED BY <2>1
<1>5. ASSUME NEW s \in Requests, HasOpen(s)', req'[s].at = "flushed",
             req'[s].mixed = "alone"
      PROVE file' = Whole(req'[s].val)
  <2>1. CASE s = r
    <3>1. CASE Puts(r)
      BY <2>1, <3>1, <1>1, <1>3, <1>5 DEF Puts, Written, HasOpen
    <3>2. CASE ~Puts(r)
      BY <3>2, <2>1, <1>1, <1>5
    <3> QED BY <3>1, <3>2
  <2>2. CASE s # r
    <3>1. /\ req[s].at = "flushed" /\ HasOpen(s) /\ req[s].mixed = "alone"
          /\ file = Whole(req[s].val) /\ req'[s].val = req[s].val
      BY <2>2, <1>1, <1>3, <1>5 DEF Held
    <3>2. CASE LoopFree
      BY <3>1, <3>2 DEF LoopFree, OnLoop
    <3>3. CASE Puts(r) /\ req[r].at \in Writing
      <4>1. req[r].fd # "file"
        BY <3>1, <3>3, <2>2 DEF Held, HasOpen, Opened
      <4> QED BY <3>1, <3>3, <4>1 DEF Puts
    <3> QED BY <3>1, <3>2, <3>3
  <2> QED BY <2>1, <2>2
<1> QED BY <1>2, <1>3, <1>4, <1>5 DEF Held

LEMMA HeldStep == TypeOK /\ Held /\ [Next]_vars => Held'
<1> SUFFICES ASSUME TypeOK, Held, [Next]_vars PROVE Held'
  OBVIOUS
<1> USE DEF disk, history
<1>z. ASSUME NEW r \in Requests, Goes(r, Idle), file' = file PROVE Held'
  <2>1. req'[r] = Idle /\ \A s \in Requests \ {r} : req'[s] = req[s]
    BY <1>z DEF Goes, TypeOK
  <2> QED BY <2>1, <1>z, IdleFields, HeldQuietly DEF HasOpen, OnLoop
<1>b. ASSUME NEW r \in Requests, NEW q, Goes(r, q), file' = file, LoopFree,
             q.at \notin Opened
      PROVE Held'
  <2>1. req'[r] = q /\ \A s \in Requests \ {r} : req'[s] = req[s]
    BY <1>b DEF Goes, TypeOK
  <2> QED BY <2>1, <1>b, HeldQuietly DEF HasOpen, LoopFree
<1>1. ASSUME NEW r \in Requests, NEW v \in Values, StartSave(r, v) PROVE Held'
  BY <1>1, <1>b, Fields DEF StartSave, Arrives, Comes, Opened, Writing
<1>2. ASSUME NEW r \in Requests, NEW v \in Values, StartNew(r, v) PROVE Held'
  <2>1. /\ req'[r] = Req("writing", v, "file", "alone")
        /\ \A s \in Requests \ {r} : req'[s] = req[s]
    BY <1>2 DEF StartNew, Goes, TypeOK
  <2>2. \A s \in Requests : ~HasOpen(s)
    BY <1>2 DEF StartNew, Held
  <2>3. \A s \in Requests : HasOpen(s)' => s = r
    BY <2>1, <2>2 DEF HasOpen
  <2>4. \A s \in Requests : req'[s].at \notin OnLoop
    BY <1>2, <2>1, Fields DEF StartNew, Arrives, Comes, LoopFree, OnLoop
  <2>5. req'[r].at # "flushed"
    BY <2>1, Fields
  <2> QED BY <1>2, <2>3, <2>4, <2>5, Kinds DEF StartNew, Held
<1>3. ASSUME NEW r \in Requests, StartRead(r) PROVE Held'
  BY <1>3, <1>b, Fields DEF StartRead, Arrives, Comes, Opened, Writing
<1>m. ASSUME NEW r \in Requests, ReadMissing(r) PROVE Held'
  BY <1>m DEF ReadMissing, Held, HasOpen
<1>4. ASSUME NEW r \in Requests, Save(r) PROVE Held'
  <2>n. ASSUME NEW at, Next_(r, at)
        PROVE HasOpen(r)' <=> at \in Opened /\ req[r].fd = "file"
    BY <2>n, Fields DEF Next_, Goes, TypeOK, HasOpen
  <2>1. CASE CopyDone(r)
    <3>1. Next_(r, "copied") /\ file' = file /\ req[r].at \in OnLoop
      BY <2>1 DEF CopyDone, Stage, OnLoop, Writing
    <3>2. HasOpen(r)' => HasOpen(r)
      BY <2>1, <3>1, <2>n DEF CopyDone, Stage, HasOpen, Opened, Writing
    <3> QED BY <3>1, <3>2, HeldNext DEF OnLoop
  <2>2. CASE EnterFails(r)   BY <2>2, <1>z DEF EnterFails
  <2>3. CASE Truncate(r)
    <3>1. /\ req'[r].at = "writing" /\ req'[r].fd = "file"
          /\ req'[r].mixed = IF Sharing(r) = {} THEN "alone" ELSE "mixed"
      BY <2>3, Fields DEF Truncate
    <3>2. \A s \in Requests \ {r} :
            /\ req'[s].at = req[s].at /\ req'[s].fd = req[s].fd
            /\ s \in Sharing(r) => req'[s].mixed = "mixed"
            /\ s \notin Sharing(r) => req'[s] = req[s]
      BY <2>3, Fields DEF Truncate, Sharing
    <3>3. \A s \in Requests : req'[s].at \notin OnLoop
      BY <2>3, <3>1, <3>2 DEF Truncate, Stage, Held, OnLoop
    <3>4. \A s \in Requests \ {r} : HasOpen(s)' => s \in Sharing(r)
      BY <3>2, <3>3 DEF HasOpen, Opened, OnLoop, Sharing
    <3>5. \A s, t \in Requests : HasOpen(s)' /\ HasOpen(t)' /\ s # t
                              => req'[s].mixed = "mixed"
      BY <3>1, <3>2, <3>4
    <3> QED BY <2>3, <3>3, <3>5, Kinds DEF Truncate, Held, OnLoop
  <2>4. CASE ThreadWrote(r)
    <3>1. Next_(r, "written") /\ req[r].at \in Writing /\ (file' = file \/ Puts(r))
      BY <2>4 DEF ThreadWrote, Stage, OnLoop, Writing
    <3>2. HasOpen(r)' => HasOpen(r)
      BY <2>4, <3>1, <2>n DEF ThreadWrote, Stage, HasOpen, Opened, Writing
    <3> QED BY <3>1, <3>2, HeldNext DEF OnLoop
  <2>5. CASE ThreadFailed(r)
    <3>1. Next_(r, "failing") /\ file' = file
      BY <2>5 DEF ThreadFailed, Stage, OnLoop, Writing
    <3>2. HasOpen(r)' => HasOpen(r)
      BY <2>5, <3>1, <2>n DEF ThreadFailed, Stage, HasOpen, Opened, Writing
    <3> QED BY <3>1, <3>2, HeldNext DEF OnLoop
  <2>6. CASE Restore(r)
    BY <2>6, HeldMoved, IdleFields DEF Restore, OnLoop, Opened, Writing
  <2>7. CASE RestoreFails(r) BY <2>7, <1>z DEF RestoreFails
  <2>8. CASE Flush(r)
    <3>1. Next_(r, "flushed") /\ LoopFree /\ Puts(r)
      BY <2>8 DEF Flush, Stage, OnLoop, Writing
    <3>2. HasOpen(r)' => HasOpen(r)
      BY <2>8, <3>1, <2>n DEF Flush, Stage, HasOpen, Opened, Writing
    <3> QED BY <3>1, <3>2, HeldNext DEF OnLoop
  <2>9. CASE FlushFails(r)
    <3>1. CASE UNCHANGED disk BY <2>9, <3>1, <1>z DEF FlushFails
    <3>2. CASE Puts(r)
      <4>1. req'[r] = Idle /\ \A s \in Requests \ {r} : req'[s] = req[s]
        BY <2>9 DEF FlushFails, Goes, TypeOK
      <4>2. \A s \in Requests : req'[s].at \notin OnLoop
        BY <2>9, <4>1, IdleFields DEF FlushFails, LoopFree, OnLoop
      <4>3. \A s \in Requests : HasOpen(s)' => HasOpen(s) /\ req'[s] = req[s]
        BY <4>1, IdleFields DEF HasOpen
      <4>4. IsFile(file) => IsFile(file')
        BY <3>2, Kinds DEF Puts, Written
      <4> QED BY <4>2, <4>3, <4>4 DEF Held, OnLoop
    <3> QED BY <2>9, <3>1, <3>2 DEF FlushFails
  <2>10. CASE Finish(r)      BY <2>10, <1>z DEF Finish
  <2>11. CASE FinishFails(r) BY <2>11, <1>z DEF FinishFails
  <2> QED BY <1>4, <2>1, <2>2, <2>3, <2>4, <2>5, <2>6, <2>7, <2>8, <2>9, <2>10, <2>11 DEF Save
<1>5. ASSUME NEW r \in Requests, Read(r) PROVE Held'
  <2>q. ASSUME NEW q, Goes(r, q), file' = file, q.at \notin OnLoop, q.at \notin Opened
        PROVE Held'
    <3>1. req'[r] = q /\ \A s \in Requests \ {r} : req'[s] = req[s]
      BY <2>q DEF Goes, TypeOK
    <3> QED BY <3>1, <2>q, HeldQuietly DEF HasOpen
  <2>1. CASE Readable(r)     BY <2>1, <1>z DEF Readable, Ends
  <2>2. CASE Unreadable(r)
    BY <2>2, <2>q, Fields DEF Unreadable, OnLoop, Opened, Writing
  <2>3. CASE NoCopy(r)       BY <2>3, <1>z DEF NoCopy, Ends
  <2>4. CASE FoundCopy(r)
    BY <2>4, <2>q, Fields DEF FoundCopy, Next_, OnLoop, Opened, Writing
  <2>5. CASE MoveAside(r)
    BY <2>5, HeldMoved, Fields DEF MoveAside, OnLoop, Opened, Writing
  <2>6. CASE Resume(r)
    BY <2>6, <2>q, Fields DEF Resume, Next_, OnLoop, Opened, Writing
  <2>7. CASE PutBack(r)
    BY <2>7, HeldMoved, Fields DEF PutBack, OnLoop, Opened, Writing
  <2>8. CASE ReplaceFails(r) BY <2>8, <1>z DEF ReplaceFails, Ends
  <2>9. CASE NotText(r)      BY <2>9, <1>z DEF NotText, Ends
  <2>10. CASE Reopen(r)
    BY <2>10, <2>q, <1>z, Fields DEF Reopen, Ends, OnLoop, Opened, Writing
  <2> QED BY <1>5, <2>1, <2>2, <2>3, <2>4, <2>5, <2>6, <2>7, <2>8, <2>9, <2>10 DEF Read
<1>6. CASE Crash
  BY <1>6, IdleFields DEF Crash, Held, HasOpen, Opened, Writing, OnLoop
<1>7. CASE UNCHANGED vars
  BY <1>7 DEF vars, Held, HasOpen
<1> QED BY <1>1, <1>2, <1>3, <1>m, <1>4, <1>5, <1>6, <1>7 DEF Next

(* A save that succeeds has its content at the notebook's path.            *)
THEOREM SuccessSound == Spec => SuccessMeansSaved
<1>1. Init => Held
  BY IdleFields DEF Init, Held, HasOpen, Opened, Writing, OnLoop
<1>2. TypeOK /\ Held /\ [Next]_vars => [Succeeds]_vars
  <2> SUFFICES ASSUME TypeOK, Held, NEW r \in Requests, Finish(r),
                      req[r].fd = "file", req[r].mixed = "alone"
               PROVE file' = Whole(req[r].val)
    BY DEF Succeeds
  <2> QED BY DEF Finish, Stage, Held, HasOpen, Opened
<1> QED BY <1>1, <1>2, HeldStep, Typing, PTL DEF Spec, SuccessMeansSaved

-----------------------------------------------------------------------------
(* Requests that do not disturb each other agree with the disk.  One that  *)
(* does anything but read a whole file is the only one.                    *)
LEMMA Others ==
  ASSUME StagesAgree, ~overlapped, ~ReadersOnly, NEW r \in Requests, req[r].at # "idle"
  PROVE \A s \in Requests \ {r} : req[s] = Idle
BY IdleFields DEF StagesAgree

LEMMA Alone ==
  ASSUME NEW r \in Requests, \A s \in Requests \ {r} : req'[s] = Idle,
         AgreesWith(req[r])'
  PROVE StagesAgree'
<1>1. AgreesWith(Idle)'
  BY IdleFields DEF AgreesWith, Writing
<1>2. \A s \in Requests : AgreesWith(req[s])'
  BY <1>1
<1> QED BY <1>2 DEF StagesAgree

(* The next state of a request that goes on as q.                          *)
LEMMA Going ==
  ASSUME TypeOK, NEW r \in Requests, NEW q, Goes(r, q),
         \A s \in Requests \ {r} : req[s] = Idle
  PROVE req'[r] = q /\ \A s \in Requests \ {r} : req'[s] = Idle
BY DEF TypeOK, Goes

LEMMA MovedIdle ==
  ASSUME NEW s \in Requests, req[s] = Idle, NEW src \in {"file", "tmp"},
         NEW dst \in {"file", "invalid"}
  PROVE Moved(src, dst)[s] = Idle
<1>1. /\ Idle.at = "idle" /\ Idle.val = None
      /\ Idle.fd = "gone" /\ Idle.mixed = "alone"
  BY Fields DEF Idle
<1>2. Moved(src, dst)[s] = Req("idle", None, "gone", "alone")
  BY <1>1 DEF Moved
<1> QED BY <1>2 DEF Idle

LEMMA Renamed ==
  ASSUME TypeOK, NEW r \in Requests, NEW src \in {"file", "tmp"},
         NEW dst \in {"file", "invalid"}, NEW q,
         req' = [Moved(src, dst) EXCEPT ![r] = q],
         \A s \in Requests \ {r} : req[s] = Idle
  PROVE req'[r] = q /\ \A s \in Requests \ {r} : req'[s] = Idle
<1>1. req'[r] = q /\ \A s \in Requests \ {r} : req'[s] = Moved(src, dst)[s]
  BY DEF Moved
<1> QED BY <1>1, MovedIdle

(* While requests do not disturb each other, a step of a save, or of a     *)
(* read that is not given a content, is a step of the only request.        *)
LEMMA Acting ==
  ASSUME TypeOK, StagesAgree, ~overlapped, NEW r \in Requests,
         Save(r) \/ (Read(r) /\ ~Readable(r))
  PROVE /\ req[r].at # "idle" /\ AgreesWith(req[r])
        /\ \A s \in Requests \ {r} : req[s] = Idle
<1>1. CASE Save(r)
  <2>1. req[r].at \notin {"idle", "reading"}
    BY <1>1 DEF Save, CopyDone, EnterFails, Truncate, ThreadWrote, ThreadFailed, Restore,
       RestoreFails, Flush, FlushFails, Finish, FinishFails, Stage
  <2> QED BY <2>1, Others DEF ReadersOnly, StagesAgree
<1>2. CASE Read(r) /\ ~Readable(r) /\ req[r].at # "reading"
  <2>1. req[r].at \notin {"idle", "reading"}
    BY <1>2 DEF Read, Unreadable, NotText, NoCopy, FoundCopy, MoveAside, Resume, PutBack,
       ReplaceFails, Reopen, Stage
  <2> QED BY <2>1, Others DEF ReadersOnly, StagesAgree
<1>3. CASE Read(r) /\ ~Readable(r) /\ req[r].at = "reading"
  <2>1. AgreesWith(req[r])
    BY DEF StagesAgree
  <2>2. Torn \in Found(r)
    BY <1>3 DEF Read, Unreadable, NotText, NoCopy, FoundCopy, MoveAside, Resume, PutBack,
       ReplaceFails, Reopen, Stage
  <2>3. file = Torn
    BY <1>3, <2>1, <2>2 DEF AgreesWith, Found
  <2> QED BY <1>3, <2>1, <2>3, Kinds, Others DEF ReadersOnly
<1> QED BY <1>1, <1>2, <1>3

(* A reader is given what the file holds.                                  *)
LEMMA Reading ==
  ASSUME TypeOK, StagesAgree, ~overlapped, NEW r \in Requests, Readable(r)
  PROVE /\ file.st = "whole" /\ given' = file.val /\ ReadersOnly
        /\ req'[r] = Idle /\ \A s \in Requests \ {r} : req'[s] = req[s]
<1>1. PICK v \in Values : Whole(v) \in Found(r) /\ Ends(r, v)
  BY DEF Readable
<1>2. file = Whole(v)
  BY <1>1 DEF Readable, Stage, StagesAgree, AgreesWith, Found
<1>3. \A s \in Requests : req[s].at \in {"idle", "reading"}
  BY IdleFields DEF Readable, Stage, StagesAgree, ReadersOnly
<1> QED BY <1>1, <1>2, <1>3, Kinds DEF Ends, Goes, TypeOK, ReadersOnly

LEMMA AgreeStep ==
  ASSUME TypeOK, StagesAgree, [Next]_vars
  PROVE StagesAgree'
<1> SUFFICES ASSUME ~overlapped' PROVE StagesAgree'
  BY DEF StagesAgree
<1> USE DEF disk, history
<1>q. ASSUME Quiet, NEW r \in Requests
      PROVE \A s \in Requests \ {r} : req[s] = Idle
  BY <1>q DEF Quiet
<1>z. ASSUME NEW r \in Requests, Goes(r, Idle),
             \A s \in Requests \ {r} : req[s] = Idle
      PROVE StagesAgree'
  <2>1. AgreesWith(Idle)'
    BY IdleFields DEF AgreesWith, Writing
  <2> QED BY <1>z, <2>1, Going, Alone
<1>t. file \in DiskType /\ tmp \in DiskType /\ req \in [Requests -> ReqType]
  BY DEF TypeOK
<1>1. ASSUME NEW r \in Requests, NEW v \in Values, StartSave(r, v) PROVE StagesAgree'
  <2>q. Quiet
    BY <1>1 DEF StartSave, Arrives
  <2>1. req'[r] = Req("copying", v, "gone", "alone")
    BY <1>1, <1>q, <2>q, Going DEF StartSave
  <2>2. AgreesWith(req[r])'
    BY <1>1, <2>1, Fields DEF StartSave, AgreesWith, IsFile, Writing
  <2> QED BY <1>1, <1>q, <2>q, <2>2, Going, Alone DEF StartSave
<1>2. ASSUME NEW r \in Requests, NEW v \in Values, StartNew(r, v) PROVE StagesAgree'
  <2>q. Quiet
    BY <1>2 DEF StartNew, Arrives
  <2>1. req'[r] = Req("writing", v, "file", "alone")
    BY <1>2, <1>q, <2>q, Going DEF StartNew
  <2>2. AgreesWith(req[r])'
    BY <1>2, <2>1, Fields DEF StartNew, AgreesWith
  <2> QED BY <1>2, <1>q, <2>q, <2>2, Going, Alone DEF StartNew
<1>3. ASSUME NEW r \in Requests, StartRead(r) PROVE StagesAgree'
  <2>1. /\ req'[r] = Req("reading", None, "file", "alone")
        /\ \A s \in Requests \ {r} : req'[s] = req[s]
    BY <1>3, <1>t DEF StartRead, Goes
  <2>2. AgreesWith(req[r])'
    BY <1>3, <2>1, Fields DEF StartRead, AgreesWith, IsFile, Writing
  <2>3. CASE Quiet
    BY <2>1, <2>2, <2>3, <1>q, Alone
  <2>4. CASE ~Quiet
    <3>1. ~overlapped /\ ReadersOnly
      BY <1>3, <2>4 DEF StartRead, Arrives
    <3>2. ReadersOnly'
      BY <1>3, <2>1, <3>1, Fields DEF StartRead, ReadersOnly
    <3>3. \A s \in Requests \ {r} : AgreesWith(req[s])'
      BY <1>3, <2>1, <3>1 DEF StartRead, StagesAgree, AgreesWith
    <3> QED BY <2>2, <3>2, <3>3 DEF StagesAgree
  <2> QED BY <2>3, <2>4
<1>m. ASSUME NEW r \in Requests, ReadMissing(r) PROVE StagesAgree'
  BY <1>m DEF ReadMissing, StagesAgree, AgreesWith, ReadersOnly
<1>4. ASSUME NEW r \in Requests, Save(r) PROVE StagesAgree'
  <2>n. ~overlapped
    BY <1>4 DEF Save, CopyDone, EnterFails, Truncate, ThreadWrote, ThreadFailed, Restore,
       RestoreFails, Flush, FlushFails, Finish, FinishFails
  <2>s. Save(r) \/ (Read(r) /\ ~Readable(r))
    BY <1>4
  <2>o. /\ req[r].at # "idle" /\ AgreesWith(req[r])
        /\ \A s \in Requests \ {r} : req[s] = Idle
    BY <2>s, <2>n, Acting
  <2>a. ASSUME NEW at, Next_(r, at)
        PROVE /\ req'[r] = Req(at, req[r].val, req[r].fd, req[r].mixed)
              /\ \A s \in Requests \ {r} : req'[s] = Idle
    BY <2>a, <2>o, Going DEF Next_
  <2>p. ASSUME Puts(r), req[r].at = "writing" \/ req[r].at = "written"
        PROVE file' = Whole(req[r].val)
    BY <2>p, <2>o DEF Puts, Written, AgreesWith, Writing
  <2>1. CASE CopyDone(r)
    <3>1. AgreesWith(req[r])'
      BY <2>1, <2>a, <2>o, Fields DEF CopyDone, AgreesWith, IsFile, Stage, Writing
    <3> QED BY <2>1, <2>a, <3>1, Alone DEF CopyDone
  <2>2. CASE EnterFails(r)
    BY <2>2, <2>o, <1>z DEF EnterFails
  <2>3. CASE Truncate(r)
    <3>1. Sharing(r) = {}
      BY <2>o, IdleFields DEF Sharing
    <3>2. /\ req'[r] = Req("writing", req[r].val, "file", "alone")
          /\ \A s \in Requests \ {r} : req'[s] = Idle
      BY <2>3, <2>o, <3>1 DEF Truncate
    <3>3. AgreesWith(req[r])'
      BY <2>3, <3>2, Fields DEF Truncate, AgreesWith
    <3> QED BY <3>2, <3>3, Alone
  <2>4. CASE ThreadWrote(r)
    <3>1. file' \in {Torn, Whole(req[r].val)}
      BY <2>4, <2>p, <2>o DEF ThreadWrote, Stage, AgreesWith
    <3>2. AgreesWith(req[r])'
      BY <2>4, <2>a, <2>o, <3>1, Fields DEF ThreadWrote, AgreesWith, Stage, Writing
    <3> QED BY <2>4, <2>a, <3>2, Alone DEF ThreadWrote
  <2>5. CASE ThreadFailed(r)
    <3>1. AgreesWith(req[r])'
      BY <2>5, <2>a, <2>o, Fields DEF ThreadFailed, AgreesWith, Stage, Writing
    <3> QED BY <2>5, <2>a, <3>1, Alone DEF ThreadFailed
  <2>6. CASE Restore(r)
    <3>1. req'[r] = Idle /\ \A s \in Requests \ {r} : req'[s] = Idle
      BY <2>6, <2>o, Renamed DEF Restore
    <3>2. AgreesWith(Idle)'
      BY IdleFields DEF AgreesWith, Writing
    <3> QED BY <3>1, <3>2, Alone
  <2>7. CASE RestoreFails(r)
    BY <2>7, <2>o, <1>z DEF RestoreFails
  <2>8. CASE Flush(r)
    <3>1. file' = Whole(req[r].val)
      BY <2>8, <2>p DEF Flush, Stage
    <3>2. AgreesWith(req[r])'
      BY <2>8, <2>a, <3>1, Fields DEF Flush, AgreesWith, Writing
    <3> QED BY <2>8, <2>a, <3>2, Alone DEF Flush
  <2>9. CASE FlushFails(r)
    BY <2>9, <2>o, <1>z DEF FlushFails
  <2>10. CASE Finish(r)
    BY <2>10, <2>o, <1>z DEF Finish
  <2>11. CASE FinishFails(r)
    BY <2>11, <2>o, <1>z DEF FinishFails
  <2> QED BY <1>4, <2>1, <2>2, <2>3, <2>4, <2>5, <2>6, <2>7, <2>8, <2>9, <2>10, <2>11 DEF Save
<1>5. ASSUME NEW r \in Requests, Read(r) PROVE StagesAgree'
  <2>n. ~overlapped
    BY <1>5 DEF Read, Readable, Unreadable, NotText, NoCopy, FoundCopy, MoveAside, Resume,
       PutBack, ReplaceFails, Reopen
  <2>1. CASE Readable(r)
    <3>1. /\ ReadersOnly /\ req'[r] = Idle
          /\ \A s \in Requests \ {r} : req'[s] = req[s]
      BY <2>1, <2>n, Reading
    <3>2. ReadersOnly'
      BY <2>1, <3>1, IdleFields DEF Readable, ReadersOnly
    <3>3. AgreesWith(Idle)'
      BY IdleFields DEF AgreesWith, Writing
    <3>4. \A s \in Requests : AgreesWith(req[s])'
      BY <2>1, <2>n, <3>1, <3>3 DEF Readable, StagesAgree, AgreesWith
    <3> QED BY <3>2, <3>4 DEF StagesAgree
  <2> SUFFICES ASSUME ~Readable(r) PROVE StagesAgree'
    BY <2>1
  <2>o. /\ req[r].at # "idle" /\ AgreesWith(req[r])
        /\ \A s \in Requests \ {r} : req[s] = Idle
    BY <1>5, <2>n, Acting
  <2>a. ASSUME NEW at, Next_(r, at)
        PROVE /\ req'[r] = Req(at, req[r].val, req[r].fd, req[r].mixed)
              /\ \A s \in Requests \ {r} : req'[s] = Idle
    BY <2>a, <2>o, Going DEF Next_
  <2>2. CASE Unreadable(r)
    <3>1. file = Torn
      BY <2>2, <2>o DEF Unreadable, Stage, AgreesWith, Found
    <3>2. req'[r] = Req("bad", None, "gone", "alone")
      BY <2>2, <2>o, Going DEF Unreadable
    <3>3. AgreesWith(req[r])'
      BY <2>2, <3>1, <3>2, Fields DEF Unreadable, AgreesWith, Writing
    <3> QED BY <2>2, <2>o, <3>3, Going, Alone DEF Unreadable
  <2>3. CASE NoCopy(r)
    BY <2>3, <2>o, <1>z DEF NoCopy, Ends
  <2>4. CASE FoundCopy(r)
    <3>1. AgreesWith(req[r])'
      BY <2>4, <2>a, <2>o, Fields DEF FoundCopy, AgreesWith, Stage, IsFile, Writing
    <3> QED BY <2>4, <2>a, <3>1, Alone DEF FoundCopy
  <2>5. CASE MoveAside(r)
    <3>1. /\ req'[r] = Req("moved", None, "gone", "alone")
          /\ \A s \in Requests \ {r} : req'[s] = Idle
      BY <2>5, <2>o, Renamed DEF MoveAside
    <3>2. AgreesWith(req[r])'
      BY <2>5, <2>o, <3>1, Fields DEF MoveAside, AgreesWith, Stage, IsFile, Writing
    <3> QED BY <3>1, <3>2, Alone
  <2>6. CASE Resume(r)
    <3>1. AgreesWith(req[r])'
      BY <2>6, <2>a, <2>o, Fields DEF Resume, AgreesWith, Stage, IsFile, Writing
    <3> QED BY <2>6, <2>a, <3>1, Alone DEF Resume
  <2>7. CASE PutBack(r)
    <3>1. /\ req'[r] = Req("again", None, "gone", "alone")
          /\ \A s \in Requests \ {r} : req'[s] = Idle
      BY <2>7, <2>o, Renamed DEF PutBack
    <3>2. AgreesWith(req[r])'
      BY <2>7, <3>1, Fields DEF PutBack, AgreesWith, IsFile, Writing
    <3> QED BY <3>1, <3>2, Alone
  <2>8. CASE ReplaceFails(r)
    BY <2>8, <2>o, <1>z DEF ReplaceFails, Ends
  <2>9. CASE NotText(r)
    BY <2>9, <2>o, <1>z DEF NotText, Ends
  <2>10. CASE Reopen(r)
    <3>1. CASE Ends(r, None)
      BY <3>1, <2>o, <1>z DEF Ends
    <3>2. CASE IsFile(file) /\ Goes(r, Req("reading", None, "file", "alone"))
      <4>1. AgreesWith(req[r])'
        BY <2>10, <3>2, <2>o, Going, Fields DEF Reopen, AgreesWith, IsFile, Writing
      <4> QED BY <3>2, <2>o, <4>1, Going, Alone
    <3> QED BY <2>10, <3>1, <3>2 DEF Reopen
  <2> QED BY <1>5, <2>2, <2>3, <2>4, <2>5, <2>6, <2>7, <2>8, <2>9, <2>10 DEF Read
<1>6. CASE Crash
  <2>1. AgreesWith(Idle)'
    BY IdleFields DEF AgreesWith, Writing
  <2> QED BY <1>6, <2>1 DEF Crash, StagesAgree
<1>7. CASE UNCHANGED vars
  BY <1>7 DEF vars, StagesAgree, AgreesWith, ReadersOnly
<1> QED BY <1>1, <1>2, <1>3, <1>m, <1>4, <1>5, <1>6, <1>7 DEF Next

(* While requests do not disturb each other, each agrees with the disk.    *)
THEOREM Agreement == Spec => []StagesAgree
<1>1. Init => StagesAgree
  <2> SUFFICES ASSUME Init PROVE StagesAgree
    OBVIOUS
  <2>1. AgreesWith(Idle)
    BY IdleFields DEF AgreesWith, Writing
  <2> QED BY <2>1 DEF Init, StagesAgree
<1>2. TypeOK /\ StagesAgree /\ [Next]_vars => StagesAgree'
  BY AgreeStep
<1> QED BY <1>1, <1>2, Typing, PTL DEF Spec

-----------------------------------------------------------------------------
(* AtomicWriting implements AtomicFile.  Stored and Resting are content and  *)
(* state while no save is writing, InCopy is the content while one is.     *)
InCopy == IF tmp.st = "whole" THEN tmp.val ELSE None
Stored == IF file.st = "whole" THEN file.val ELSE InCopy
Resting == IF file.st = "whole" \/ Stored = None THEN "settled"
           ELSE IF IsFile(file) THEN "damaged" ELSE "missing"
Disturbing == overlapped /\ ~Quiet

LEMMA NotSaving ==
  ASSUME \A s \in Requests : req[s].at \notin Saving, ~Disturbing
  PROVE State = Resting /\ Content = Stored
<1>1. Content = Stored
  BY DEF Content, Stored, InCopy, Saving
<1> QED BY <1>1 DEF State, Resting, Disturbing

LEMMA NotSavingNext ==
  ASSUME \A s \in Requests : req'[s].at \notin Saving, ~Disturbing'
  PROVE State' = Resting' /\ Content' = Stored'
<1>1. Content' = Stored'
  BY DEF Content, Stored, InCopy, Saving
<1> QED BY <1>1 DEF State, Resting, Disturbing

LEMMA IsSaving ==
  ASSUME NEW r \in Requests, req[r].at \in Saving, ~Disturbing,
         \A s \in Requests \ {r} : req[s] = Idle
  PROVE State = "saving" /\ Content = IF req[r].at \in Writing THEN InCopy ELSE Stored
<1>1. \A s \in Requests \ {r} : req[s].at \notin Writing
  BY IdleFields DEF Writing
<1> QED BY <1>1 DEF State, Content, Stored, InCopy, Disturbing

LEMMA IsSavingNext ==
  ASSUME NEW r \in Requests, req'[r].at \in Saving, ~Disturbing',
         \A s \in Requests \ {r} : req'[s] = Idle
  PROVE State' = "saving" /\ Content' = IF req'[r].at \in Writing THEN InCopy' ELSE Stored'
<1>1. \A s \in Requests \ {r} : req'[s].at \notin Writing
  BY IdleFields DEF Writing
<1> QED BY <1>1 DEF State, Content, Stored, InCopy, Disturbing

AbstractTypeOK == Content \in Values \cup {None} /\ State \in Atomic!States

LEMMA AbstractTypes == TypeOK => AbstractTypeOK
<1>1. \A f \in DiskType : f.st = "whole" => f.val \in Values
  BY Kinds
<1> QED BY <1>1 DEF Content, State, TypeOK, Atomic!States, AbstractTypeOK

(* While requests may disturb each other, every step is allowed.           *)
LEMMA DisturbedStep ==
  ASSUME TypeOK, TypeOK', Disturbing \/ Disturbing'
  PROVE Atomic!Disturbed
<1>1. State = "overlapped" \/ State' = "overlapped"
  BY DEF State, Disturbing
<1>2. AbstractTypeOK'
  BY AbstractTypes, PTL
<1> QED BY <1>1, <1>2 DEF Atomic!Disturbed, AbstractTypeOK, TypeOK

(* One step of a save, of the only request under way.                      *)
LEMMA SaveStep ==
  ASSUME TypeOK, StagesAgree, StagesAgree', ~overlapped, NEW r \in Requests, Save(r)
  PROVE [Atomic!Next]_(Atomic!vars)
<1> USE DEF disk, history
<1>o. /\ req[r].at # "idle" /\ AgreesWith(req[r])
      /\ \A s \in Requests \ {r} : req[s] = Idle
  BY Acting
<1>v. overlapped' = overlapped /\ given' = given
  BY DEF Save, CopyDone, EnterFails, Truncate, ThreadWrote, ThreadFailed, Restore,
     RestoreFails, Flush, FlushFails, Finish, FinishFails
<1>d. ~Disturbing /\ ~Disturbing'
  BY <1>v DEF Disturbing
<1>k. /\ file \in DiskType /\ tmp \in DiskType
      /\ req[r].val \in Values \cup {None}
  BY DEF TypeOK, ReqType
<1>n. ASSUME NEW at, Next_(r, at)
      PROVE req'[r].at = at /\ \A s \in Requests \ {r} : req'[s] = Idle
  BY <1>n, <1>o, Going, Fields DEF Next_
<1>z. ASSUME Goes(r, Idle)
      PROVE \A s \in Requests : req'[s].at \notin Saving
  BY <1>z, <1>o, Going, IdleFields DEF Saving, Writing
<1>u. State' = State /\ Content' = Content => UNCHANGED Atomic!vars
  BY <1>v DEF Atomic!vars
<1>s. ASSUME req[r].at \in Saving
      PROVE State = "saving" /\ Content = IF req[r].at \in Writing THEN InCopy ELSE Stored
  BY <1>s, <1>o, <1>d, IsSaving
<1>g. ASSUME NEW at \in Saving, Next_(r, at)
      PROVE State' = "saving" /\ Content' = IF at \in Writing THEN InCopy' ELSE Stored'
  <2>1. req'[r].at = at /\ \A s \in Requests \ {r} : req'[s] = Idle
    BY <1>g, <1>n
  <2> QED BY <2>1, <1>d, IsSavingNext
<1>e. ASSUME \A s \in Requests : req'[s].at \notin Saving
      PROVE State' = Resting' /\ Content' = Stored'
  BY <1>e, <1>d, NotSavingNext
<1>w. ASSUME file' = Whole(req[r].val)
      PROVE Resting' = "settled" /\ Stored' = req[r].val
  BY <1>w, Kinds DEF Resting, Stored
<1>p. ASSUME req[r].at \in {"writing", "written"}, Puts(r)
      PROVE file' = Whole(req[r].val) /\ tmp' = tmp
  BY <1>p, <1>o DEF Puts, Written, AgreesWith, Writing
<1>c. ASSUME req[r].at \in Writing, State' = "settled", Content' = req[r].val
      PROVE Atomic!Next
  <2>1. State = "saving" /\ req[r].val \in Values
    BY <1>c, <1>s DEF Saving, Writing, TypeOK, ReqType, ReadStages
  <2> QED BY <2>1, <1>c, <1>v DEF Atomic!Next, Atomic!Commit
<1>f. ASSUME State = "saving", State' \in {"settled", "damaged"}, Content' = Content
      PROVE Atomic!Next
  BY <1>f, <1>v DEF Atomic!Next, Atomic!Fail
<1>i. ASSUME IsFile(file), UNCHANGED file
      PROVE Resting' \in {"settled", "damaged"}
  BY <1>i DEF Resting
<1>1. CASE CopyDone(r)
  <2>1. State = "saving" /\ Content = Stored
    BY <1>1, <1>s DEF CopyDone, Stage, Saving, Writing
  <2>2. State' = "saving" /\ Content' = Stored'
    BY <1>1, <1>g DEF CopyDone, Saving, Writing
  <2>3. Stored' = Stored
    BY <1>1, <1>o, Kinds DEF CopyDone, Stage, AgreesWith, Stored, InCopy
  <2> QED BY <2>1, <2>2, <2>3, <1>u
<1>2. CASE EnterFails(r)
  <2>1. State = "saving" /\ Content = Stored /\ IsFile(file)
    BY <1>2, <1>s, <1>o DEF EnterFails, Stage, Saving, Writing, AgreesWith
  <2>2. State' = Resting' /\ Content' = Stored' /\ UNCHANGED <<file, tmp>>
    BY <1>2, <1>z, <1>e DEF EnterFails
  <2> QED BY <2>1, <2>2, <1>i, <1>f DEF Stored, InCopy
<1>3. CASE Truncate(r)
  <2>1. State = "saving" /\ Content = Stored
    BY <1>3, <1>s DEF Truncate, Stage, Saving, Writing
  <2>2. req'[r].at = "writing" /\ \A s \in Requests \ {r} : req'[s] = Idle
    BY <1>3, <1>o, IdleFields, Fields DEF Truncate, Sharing, Writing
  <2>3. State' = "saving" /\ Content' = InCopy'
    BY <2>2, <1>d, IsSavingNext DEF Saving, Writing
  <2>4. InCopy' = Stored
    BY <1>3, <1>o DEF Truncate, Stage, AgreesWith, Stored, InCopy
  <2> QED BY <2>1, <2>3, <2>4, <1>u
<1>4. CASE ThreadWrote(r)
  <2>1. State = "saving" /\ Content = InCopy
    BY <1>4, <1>s DEF ThreadWrote, Stage, Saving, Writing
  <2>2. State' = "saving" /\ Content' = InCopy'
    BY <1>4, <1>g DEF ThreadWrote, Saving, Writing
  <2>3. tmp' = tmp
    BY <1>4 DEF ThreadWrote, Puts
  <2> QED BY <2>1, <2>2, <2>3, <1>u DEF InCopy
<1>5. CASE ThreadFailed(r)
  <2>1. State = "saving" /\ Content = InCopy
    BY <1>5, <1>s DEF ThreadFailed, Stage, Saving, Writing
  <2>2. State' = "saving" /\ Content' = InCopy'
    BY <1>5, <1>g DEF ThreadFailed, Saving, Writing
  <2> QED BY <1>5, <2>1, <2>2, <1>u DEF ThreadFailed, InCopy
<1>6. CASE Restore(r)
  <2>1. State = "saving" /\ Content = InCopy
    BY <1>6, <1>s DEF Restore, Stage, Saving, Writing
  <2>2. \A s \in Requests : req'[s] = Idle
    BY <1>6, <1>o, Renamed DEF Restore
  <2>3. State' = Resting' /\ Content' = Stored'
    BY <2>2, <1>e, IdleFields DEF Saving, Writing
  <2>4. Stored' = InCopy /\ Resting' = "settled"
    BY <1>6, <1>k, Kinds DEF Restore, Stored, InCopy, Resting
  <2> QED BY <2>1, <2>3, <2>4, <1>f
<1>7. CASE RestoreFails(r)
  <2>1. State = "saving" /\ Content = InCopy /\ file = Torn
    BY <1>7, <1>s, <1>o DEF RestoreFails, Stage, Saving, Writing, AgreesWith
  <2>2. State' = Resting' /\ Content' = Stored' /\ UNCHANGED <<file, tmp>>
    BY <1>7, <1>z, <1>e DEF RestoreFails
  <2>3. Stored' = InCopy
    BY <2>1, <2>2, Kinds DEF Stored, InCopy
  <2> QED BY <2>1, <2>2, <2>3, <1>i, <1>f, Kinds
<1>8. CASE Flush(r)
  <2>1. file' = Whole(req[r].val)
    BY <1>8, <1>p DEF Flush, Stage
  <2>2. \A s \in Requests : req'[s].at \notin Saving
    BY <1>8, <1>n, IdleFields DEF Flush, Saving, Writing
  <2> QED BY <1>8, <2>1, <2>2, <1>e, <1>w, <1>c DEF Flush, Stage, Writing
<1>9. CASE FlushFails(r)
  <2>1. State = "saving" /\ Content = InCopy /\ file \in {Torn, Whole(req[r].val)}
    BY <1>9, <1>s, <1>o DEF FlushFails, Stage, Saving, Writing, AgreesWith
  <2>2. State' = Resting' /\ Content' = Stored'
    BY <1>9, <1>z, <1>e DEF FlushFails
  <2>3. CASE file' = Whole(req[r].val)
    BY <1>9, <2>2, <2>3, <1>w, <1>c DEF FlushFails, Stage, Writing
  <2>4. CASE file = Torn /\ UNCHANGED <<file, tmp>>
    <3>1. Stored' = InCopy
      BY <2>4, Kinds DEF Stored, InCopy
    <3> QED BY <2>1, <2>2, <2>4, <3>1, <1>i, <1>f, Kinds
  <2>5. file' = Whole(req[r].val) \/ UNCHANGED <<file, tmp>>
    BY <1>9, <1>p DEF FlushFails, Stage
  <2> QED BY <2>1, <2>3, <2>4, <2>5
<1>10. CASE Finish(r) \/ FinishFails(r)
  <2>1. file = Whole(req[r].val) /\ file' = file
    BY <1>10, <1>o DEF Finish, FinishFails, Stage, AgreesWith
  <2>2. State = Resting /\ Content = Stored
    <3>1. \A s \in Requests : req[s].at \notin Saving
      BY <1>10, <1>o, IdleFields DEF Finish, FinishFails, Stage, Saving, Writing
    <3> QED BY <3>1, <1>d, NotSaving
  <2>3. State' = Resting' /\ Content' = Stored'
    BY <1>10, <1>z, <1>e DEF Finish, FinishFails
  <2>4. Stored' = Stored /\ Resting' = Resting
    BY <2>1, Kinds DEF Stored, Resting
  <2> QED BY <2>2, <2>3, <2>4, <1>u
<1> QED BY <1>1, <1>2, <1>3, <1>4, <1>5, <1>6, <1>7, <1>8, <1>9, <1>10 DEF Save

(* One step of a read.                                                     *)
LEMMA ReadStep ==
  ASSUME TypeOK, StagesAgree, StagesAgree', ~overlapped, NEW r \in Requests, Read(r)
  PROVE [Atomic!Next]_(Atomic!vars)
<1> USE DEF disk, history
<1>v. overlapped' = overlapped
  BY DEF Read, Readable, Unreadable, NotText, NoCopy, FoundCopy, MoveAside, Resume, PutBack,
     ReplaceFails, Reopen
<1>d. ~Disturbing /\ ~Disturbing'
  BY <1>v DEF Disturbing
<1>k. file \in DiskType /\ tmp \in DiskType
  BY DEF TypeOK
<1>1. CASE Readable(r)
  <2>1. /\ file.st = "whole" /\ given' = file.val /\ ReadersOnly
        /\ req'[r] = Idle /\ \A s \in Requests \ {r} : req'[s] = req[s]
    BY <1>1, Reading
  <2>2. \A s \in Requests : req[s].at \notin Saving /\ req'[s].at \notin Saving
    BY <2>1, IdleFields DEF ReadersOnly, Saving, Writing
  <2>3. State = Resting /\ Content = Stored /\ State' = Resting' /\ Content' = Stored'
    BY <2>2, <1>d, NotSaving, NotSavingNext
  <2> QED BY <1>1, <2>1, <2>3 DEF Readable, Resting, Stored, Atomic!Next, Atomic!Read
<1> SUFFICES ASSUME ~Readable(r) PROVE [Atomic!Next]_(Atomic!vars)
  BY <1>1
<1>o. /\ req[r].at # "idle" /\ AgreesWith(req[r])
      /\ \A s \in Requests \ {r} : req[s] = Idle
  BY Acting
<1>r. /\ \A s \in Requests : req[s].at \notin Saving /\ req'[s].at \notin Saving
  <2>1. req[r].at \in ReadStages
    BY DEF Read, Unreadable, NotText, NoCopy, FoundCopy, MoveAside, Resume, PutBack,
       ReplaceFails, Reopen, Stage, ReadStages
  <2>2. req'[r].at \in ReadStages /\ \A s \in Requests \ {r} : req'[s] = Idle
    <3>1. ASSUME NEW at \in ReadStages, NEW v, NEW fd, NEW mixed,
                 Goes(r, Req(at, v, fd, mixed))
          PROVE req'[r].at \in ReadStages /\ \A s \in Requests \ {r} : req'[s] = Idle
      BY <3>1, <1>o, Going, Fields
    <3>2. ASSUME Goes(r, Idle)
          PROVE req'[r].at \in ReadStages /\ \A s \in Requests \ {r} : req'[s] = Idle
      BY <3>2, <1>o, Going, IdleFields DEF ReadStages
    <3>3. CASE MoveAside(r) \/ PutBack(r)
      BY <3>3, <1>o, Renamed, Fields DEF MoveAside, PutBack, ReadStages
    <3>4. CASE Unreadable(r) \/ FoundCopy(r) \/ Resume(r)
      BY <3>4, <3>1 DEF Unreadable, FoundCopy, Resume, Next_, ReadStages
    <3>5. CASE NotText(r) \/ NoCopy(r) \/ ReplaceFails(r)
      BY <3>5, <3>2 DEF NotText, NoCopy, ReplaceFails, Ends
    <3>6. CASE Reopen(r)
      BY <3>6, <3>1, <3>2 DEF Reopen, Ends, ReadStages
    <3> QED BY <3>3, <3>4, <3>5, <3>6 DEF Read
  <2> QED BY <2>1, <2>2, <1>o, IdleFields DEF ReadStages, Saving, Writing
<1>s. /\ State = Resting /\ Content = Stored /\ State' = Resting' /\ Content' = Stored'
  BY <1>r, <1>d, NotSaving, NotSavingNext
<1>u. ASSUME UNCHANGED <<file, tmp, given>> PROVE UNCHANGED Atomic!vars
  BY <1>u, <1>s DEF Atomic!vars, Resting, Stored, InCopy
<1>e. ASSUME UNCHANGED <<file, tmp>>, given' = None, file.st # "whole"
      PROVE Atomic!Next
  <2>1. State' = State /\ Content' = Content
    BY <1>e, <1>s DEF Resting, Stored, InCopy
  <2>2. State \in {"damaged", "missing"} \/ (State = "settled" /\ Content = None)
    BY <1>e, <1>s DEF Resting
  <2> QED BY <1>e, <2>1, <2>2 DEF Atomic!Next, Atomic!Read, Atomic!ReadError
<1>2. CASE Unreadable(r) \/ FoundCopy(r) \/ Resume(r)
  BY <1>2, <1>u DEF Unreadable, FoundCopy, Resume
<1>3. CASE NotText(r) \/ NoCopy(r) \/ ReplaceFails(r)
  <2>1. file.st # "whole"
    BY <1>3, <1>o, Kinds DEF NotText, NoCopy, ReplaceFails, Stage, AgreesWith, Found
  <2> QED BY <1>3, <2>1, <1>e DEF NotText, NoCopy, ReplaceFails, Ends
<1>4. CASE MoveAside(r)
  <2>1. file = Torn /\ file' = Absent /\ UNCHANGED <<tmp, given>>
    BY <1>4, <1>o DEF MoveAside, Stage, AgreesWith
  <2>2. Stored = InCopy /\ Stored' = InCopy
    BY <2>1, Kinds DEF Stored, InCopy
  <2>3. CASE InCopy = None
    BY <2>1, <2>2, <2>3, <1>s DEF Resting, Atomic!vars
  <2>4. CASE InCopy # None
    BY <2>1, <2>2, <2>4, <1>s, Kinds DEF Resting, Atomic!Next, Atomic!Repair
  <2> QED BY <2>3, <2>4
<1>5. CASE PutBack(r)
  <2>1. file = Absent /\ file' = tmp /\ tmp' = Absent /\ IsFile(tmp) /\ UNCHANGED given
    BY <1>5, <1>o DEF PutBack, Stage, AgreesWith
  <2>2. Stored = InCopy /\ Stored' = InCopy
    BY <2>1, Kinds DEF Stored, InCopy
  <2>3. CASE tmp.st = "whole"
    <3>1. InCopy # None
      BY <2>3, <1>k, Kinds DEF InCopy
    <3> QED BY <2>1, <2>2, <2>3, <3>1, <1>s, Kinds DEF Resting, Atomic!Next, Atomic!Repair
  <2>4. CASE tmp.st # "whole"
    BY <2>1, <2>2, <2>4, <1>s, Kinds DEF Resting, InCopy, Atomic!vars
  <2> QED BY <2>3, <2>4
<1>6. CASE Reopen(r)
  BY <1>6, <1>o, <1>u DEF Reopen, Stage, AgreesWith
<1> QED BY <1>2, <1>3, <1>4, <1>5, <1>6 DEF Read

LEMMA AbstractStep ==
  ASSUME TypeOK, StagesAgree, TypeOK', StagesAgree', [Next]_vars
  PROVE [Atomic!Next]_(Atomic!vars)
<1> SUFFICES ASSUME ~Disturbing, ~Disturbing' PROVE [Atomic!Next]_(Atomic!vars)
  BY DisturbedStep DEF Atomic!Next
<1> USE DEF disk, history
<1>k. file \in DiskType /\ tmp \in DiskType
  BY DEF TypeOK
<1>q. ASSUME Quiet
      PROVE State = Resting /\ Content = Stored
  BY <1>q, NotSaving, IdleFields DEF Quiet, Saving, Writing
<1>b. ASSUME NEW r \in Requests, req[r] = Idle, NEW q, Goes(r, q), q.at # "idle",
             Arrives("save")
      PROVE Quiet /\ req'[r] = q /\ \A s \in Requests \ {r} : req'[s] = Idle
  <2>1. req'[r] = q
    BY <1>b DEF Goes, TypeOK
  <2>2. ~Quiet'
    BY <2>1, <1>b, IdleFields DEF Quiet
  <2>3. Quiet
    BY <2>2, <1>b, Zenon DEF Disturbing, Arrives
  <2> QED BY <2>1, <2>3, <1>b, Going DEF Quiet
<1>1. ASSUME NEW r \in Requests, NEW v \in Values, StartSave(r, v) PROVE Atomic!Next
  <2>1. /\ Quiet /\ req'[r] = Req("copying", v, "gone", "alone")
        /\ \A s \in Requests \ {r} : req'[s] = Idle
    BY <1>1, <1>b, Fields DEF StartSave
  <2>2. State = Resting /\ Content = Stored /\ State' = "saving" /\ Content' = Stored'
    BY <2>1, <1>q, Fields, IsSavingNext DEF Saving, Writing
  <2>3. CASE file.st = "whole"
    BY <1>1, <2>2, <2>3 DEF StartSave, Stored, Resting, Atomic!Next, Atomic!Begin
  <2>4. CASE file.st # "whole"
    <3>1. Stored' = None
      BY <1>1, <2>4, Kinds DEF StartSave, Stored, InCopy
    <3>2. State = "damaged" \/ (State = "settled" /\ Content = None)
      BY <1>1, <2>2, <2>4 DEF StartSave, Resting
    <3> QED BY <1>1, <2>2, <3>1, <3>2 DEF StartSave, Atomic!Next, Atomic!Begin
  <2> QED BY <2>3, <2>4
<1>2. ASSUME NEW r \in Requests, NEW v \in Values, StartNew(r, v) PROVE Atomic!Next
  <2>1. /\ Quiet /\ req'[r] = Req("writing", v, "file", "alone")
        /\ \A s \in Requests \ {r} : req'[s] = Idle
    BY <1>2, <1>b, Fields DEF StartNew
  <2>2. State = Resting /\ Content = Stored /\ State' = "saving" /\ Content' = InCopy'
    BY <2>1, <1>q, Fields, IsSavingNext DEF Saving, Writing
  <2>3. InCopy' = Stored
    BY <1>2, <1>k, Kinds DEF StartNew, Stored, InCopy
  <2> QED BY <1>2, <2>2, <2>3 DEF StartNew, Resting, Atomic!Next, Atomic!Begin
<1>3. ASSUME NEW r \in Requests, StartRead(r) PROVE UNCHANGED Atomic!vars
  <2>1. /\ req'[r] = Req("reading", None, "file", "alone")
        /\ \A s \in Requests \ {r} : req'[s] = req[s]
    BY <1>3 DEF StartRead, Goes, TypeOK
  <2>2. ~Quiet'
    BY <2>1, Fields, IdleFields DEF Quiet
  <2>3. Quiet \/ ReadersOnly
    BY <1>3, <2>2 DEF StartRead, Arrives, Disturbing
  <2>4. \A s \in Requests : req[s].at \notin Saving
    BY <2>3, IdleFields DEF Quiet, ReadersOnly, Saving, Writing
  <2>5. \A s \in Requests : req'[s].at \notin Saving
    BY <2>1, <2>4, Fields DEF Saving, Writing
  <2>6. State = Resting /\ Content = Stored /\ State' = Resting' /\ Content' = Stored'
    BY <2>4, <2>5, NotSaving, NotSavingNext
  <2> QED BY <1>3, <2>6 DEF StartRead, Resting, Stored, InCopy, Atomic!vars
<1>4. ASSUME NEW r \in Requests, ReadMissing(r) PROVE Atomic!Next
  <2>1. ~IsFile(file) /\ UNCHANGED <<disk, req, overlapped>> /\ given' = None
    BY <1>4 DEF ReadMissing
  <2>2. \A s \in Requests : req[s].at \notin Saving
    <3>1. CASE Quiet
      BY <3>1, IdleFields DEF Quiet, Saving, Writing
    <3>2. CASE ~Quiet
      BY <3>2, <2>1, <1>k, Kinds DEF Disturbing, StagesAgree, AgreesWith, Saving, Writing
    <3> QED BY <3>1, <3>2
  <2>3. State = Resting /\ Content = Stored
    BY <2>2, NotSaving
  <2>4. State' = State /\ Content' = Content
    BY <2>1 DEF State, Content, Quiet
  <2>5. State = "missing" \/ (State = "settled" /\ Content = None)
    BY <2>1, <2>3, <1>k, Kinds DEF Resting
  <2> QED BY <2>1, <2>4, <2>5 DEF Atomic!Next, Atomic!Read, Atomic!ReadError
<1>5. ASSUME NEW r \in Requests, Save(r) \/ Read(r) PROVE [Atomic!Next]_(Atomic!vars)
  <2>1. req[r].at # "idle"
    BY <1>5 DEF Save, CopyDone, EnterFails, Truncate, ThreadWrote, ThreadFailed, Restore,
       RestoreFails, Flush, FlushFails, Finish, FinishFails, Read, Readable, Unreadable,
       NotText, NoCopy, FoundCopy, MoveAside, Resume, PutBack, ReplaceFails, Reopen, Stage
  <2>2. ~overlapped
    BY <2>1, IdleFields DEF Disturbing, Quiet
  <2> QED BY <1>5, <2>2, SaveStep, ReadStep
<1>6. CASE Crash
  <2>1. /\ \A s \in Requests : req'[s] = Idle
        /\ UNCHANGED <<file, tmp, given>>
    BY <1>6 DEF Crash
  <2>2. State' = Resting /\ Content' = Stored
    BY <2>1, NotSavingNext, IdleFields DEF Saving, Writing, Resting, Stored, InCopy
  <2>3. CASE \A s \in Requests : req[s].at \notin Saving
    BY <2>1, <2>2, <2>3, NotSaving DEF Atomic!vars
  <2>4. ASSUME NEW r \in Requests, req[r].at \in Saving PROVE Atomic!Next
    <3>1. ~overlapped
      BY <2>4, IdleFields DEF Disturbing, Quiet, Saving, Writing
    <3>2. AgreesWith(req[r]) /\ \A s \in Requests \ {r} : req[s] = Idle
      BY <2>4, <3>1, Others, IdleFields DEF StagesAgree, ReadersOnly, Saving, Writing
    <3>3. State = "saving" /\ Content = IF req[r].at \in Writing THEN InCopy ELSE Stored
      BY <2>4, <3>2, IsSaving
    <3>4. IsFile(file) /\ Resting \in {"settled", "damaged"}
      BY <2>4, <3>2, Kinds DEF AgreesWith, Saving, Writing, Resting
    <3>5. CASE Content = Stored
      BY <2>1, <2>2, <3>3, <3>4, <3>5 DEF Atomic!Next, Atomic!Fail
    <3>6. CASE Content # Stored
      <4>1. file = Whole(req[r].val) /\ req[r].val \in Values
        BY <2>4, <3>2, <3>3, <3>6, Kinds DEF AgreesWith, Writing, Stored, TypeOK, ReqType,
           ReadStages
      <4>2. Stored = req[r].val /\ Resting = "settled"
        BY <4>1, Kinds DEF Stored, Resting
      <4> QED BY <2>1, <2>2, <3>3, <4>1, <4>2 DEF Atomic!Next, Atomic!Commit
    <3> QED BY <3>5, <3>6
  <2> QED BY <2>3, <2>4
<1>7. CASE UNCHANGED vars
  BY <1>7 DEF vars, Atomic!vars, State, Content, Quiet
<1> QED BY <1>1, <1>2, <1>3, <1>4, <1>5, <1>6, <1>7 DEF Next

(* Whatever fails, whatever overlaps and whenever the server is killed,    *)
(* the file and its copy keep the content as AtomicFile says.              *)
THEOREM Refinement == Spec => ImplementsAtomicFile
<1>1. Init => Atomic!Init
  <2> SUFFICES ASSUME Init PROVE Atomic!Init
    OBVIOUS
  <2>1. Quiet /\ ~Disturbing /\ \A s \in Requests : req[s].at \notin Saving
    BY IdleFields DEF Init, Quiet, Disturbing, Saving, Writing
  <2>2. State = Resting /\ Content = Stored
    BY <2>1, NotSaving
  <2>3. InCopy = None
    BY Kinds DEF Init, InCopy
  <2>4. Stored \in Values \cup {None} /\ Resting = "settled"
    BY <2>3, Kinds DEF Init, Stored, Resting
  <2> QED BY <2>2, <2>4 DEF Init, Atomic!Init
<1>2. TypeOK /\ StagesAgree /\ TypeOK' /\ StagesAgree' /\ [Next]_vars
        => [Atomic!Next]_(Atomic!vars)
  BY AbstractStep
<1> QED BY <1>1, <1>2, Typing, Agreement, PTL DEF Spec, ImplementsAtomicFile, Atomic!Spec

-----------------------------------------------------------------------------
(* AsyncContents, the service whose saves of notebooks are these: a        *)
(* request that no other overlaps leaves no checkpoint without its file.   *)
CONSTANTS Paths, HiddenNames, Variants, Untitled, Notebooks, MaxChunks, Configs, Targets, SaveTypes,
          MaxFaults
VARIABLES tree, cps, conf, answer, reqs, faults, met

Async == INSTANCE AsyncContents WITH req <- reqs, Kinds <- SaveTypes

ContentsAssumption ==
  Async!PathsAssumption /\ Async!NamesAssumption /\ Async!TargetsAssumption

Names == DOMAIN Variants
Places == Paths \cup {Async!Root}

-----------------------------------------------------------------------------
(* The invariant.                                                          *)
ReqFields == {"op", "at", "src", "p", "fd", "type", "data", "left", "own"}
Deleting == {"looking", "removing", "removed"}
Removing == {"removed", "cp_removed", "unlinking"}
Renaming == {"moved", "cp_moved", "cp_moving"}

Shape ==
  /\ DOMAIN tree = Paths /\ DOMAIN cps = Paths /\ DOMAIN reqs = Requests
  /\ \A r \in Requests : DOMAIN reqs[r] = ReqFields

Under(claim, x) == \E c \in claim : Async!Within(c, x)

(* A request works on paths that it has claimed, and knows what was there. *)
WellClaimed(q) ==
  /\ q.own.claim \subseteq Places /\ q.p \in q.own.claim /\ q.src \in q.own.claim
  /\ DOMAIN q.own.tree = {x \in Paths : Under(q.own.claim, x)}

(* A copy that has not chosen its name yet.                                *)
Copies(q) == q.at = "measuring" \/ (q.at \in {"reading", "read"} /\ q.op = "copy")

(* What a copy, a delete and a rename are about, at each of their stages.  *)
WellNamed(q) ==
  /\ Copies(q) => q.src \in Paths /\ Async!CopyClaim(q.src, q.p) \subseteq q.own.claim
  /\ q.at \in Deleting => q.src = q.p
  /\ q.at = "moving" \/ q.at \in Renaming => q.p \in Paths /\ q.src \in Paths

(* No other request is about its paths.                                    *)
ClaimAlone(r) ==
  \A s \in Requests \ {r} :
    reqs[s].at # "idle" => \A c \in reqs[r].own.claim, d \in reqs[s].own.claim : ~Async!Related(c, d)

(* A request that no other has overlapped, and that found no orphans.      *)
Good(r) == r \notin met /\ Async!FoundBacked(r)

(* What a rename relies on then.                                           *)
WellStaged(q) ==
  /\ q.at = "moving" => cps[q.p] = None
  /\ q.at \in Renaming => (cps[q.src] # None => Async!file_exists(tree, q.p))

(* The checkpoint whose file a request has removed or moved, and which it  *)
(* is going to remove or move after it.                                    *)
Due(r, x) ==
  \/ reqs[r].at \in Removing /\ x = reqs[r].p
  \/ reqs[r].at \in Renaming /\ x = reqs[r].src

(* The others that it is about have their files.                           *)
Backed(r) ==
  \A x \in Paths :
    Under(reqs[r].own.claim, x) /\ cps[x] # None => Async!file_exists(tree, x) \/ Due(r, x)

Sound(r) ==
  reqs[r].at # "idle" =>
    /\ WellClaimed(reqs[r]) /\ WellNamed(reqs[r])
    /\ r \notin met => ClaimAlone(r)
    /\ Good(r) => WellStaged(reqs[r]) /\ Backed(r)

Inv == faults \in Nat /\ Shape /\ \A r \in Requests : Sound(r)

-----------------------------------------------------------------------------
(* Paths that begin with others.                                           *)
LEMMA Sequences ==
  ASSUME ContentsAssumption
  PROVE  Places \subseteq Seq(Names)
<1>1. Async!Root \in Seq(Names)
  BY EmptySeq DEF Async!Root
<1> QED BY <1>1 DEF Places, Names, ContentsAssumption, Async!PathsAssumption

LEMMA WithinMeans ==
  ASSUME NEW p \in Seq(Names), NEW q \in Seq(Names)
  PROVE  Async!Within(p, q) <=> Len(p) <= Len(q) /\ \A i \in 1 .. Len(p) : q[i] = p[i]
<1>1. ASSUME Len(p) <= Len(q) PROVE SubSeq(q, 1, Len(p)) = p <=> \A i \in 1 .. Len(p) : q[i] = p[i]
  <2>1. /\ SubSeq(q, 1, Len(p)) \in Seq(Names) /\ Len(SubSeq(q, 1, Len(p))) = Len(p)
        /\ \A i \in 1 .. Len(p) : SubSeq(q, 1, Len(p))[i] = q[i]
    <3>1. \A i \in 1 .. Len(p) : q[i] \in Names
      BY <1>1
    <3>2. 1 \in Int /\ Len(p) \in Int /\ Len(p) \in Nat
      OBVIOUS
    <3>3. /\ SubSeq(q, 1, Len(p)) \in Seq(Names)
          /\ Len(SubSeq(q, 1, Len(p))) = IF 1 <= Len(p) THEN Len(p) - 1 + 1 ELSE 0
          /\ \A i \in 1 .. Len(p) - 1 + 1 : SubSeq(q, 1, Len(p))[i] = q[1 + i - 1]
      BY <3>1, SubSeqProperties
    <3> QED BY <3>2, <3>3
  <2> QED BY <2>1, SeqEqual
<1> QED BY <1>1 DEF Async!Within

LEMMA WithinSelf ==
  ASSUME NEW p \in Seq(Names)
  PROVE  Async!Within(p, p)
BY WithinMeans

LEMMA WithinRoot ==
  ASSUME NEW p \in Seq(Names)
  PROVE  Async!Within(Async!Root, p)
<1>1. Async!Root \in Seq(Names) /\ Len(Async!Root) = 0
  BY EmptySeq DEF Async!Root
<1>2. Len(Async!Root) <= Len(p) /\ \A i \in 1 .. Len(Async!Root) : p[i] = Async!Root[i]
  <2>1. Len(p) \in Nat /\ 1 .. Len(Async!Root) = {}
    BY <1>1
  <2> QED BY <1>1, <2>1
<1> QED BY <1>1, <1>2, WithinMeans

LEMMA WithinBoth ==
  ASSUME NEW p \in Seq(Names), NEW q \in Seq(Names), Async!Within(p, q), Async!Within(q, p)
  PROVE  p = q
BY WithinMeans, SeqEqual

LEMMA WithinChain ==
  ASSUME NEW p \in Seq(Names), NEW q \in Seq(Names), NEW x \in Seq(Names),
         Async!Within(p, q), Async!Within(q, x)
  PROVE  Async!Within(p, x)
BY WithinMeans

(* Two paths that another begins with are related.                         *)
LEMMA WithinCommon ==
  ASSUME NEW p \in Seq(Names), NEW q \in Seq(Names), NEW x \in Seq(Names),
         Async!Within(p, x), Async!Within(q, x)
  PROVE  Async!Related(p, q)
<1>1. /\ Len(p) <= Len(x) /\ Len(q) <= Len(x)
      /\ \A i \in 1 .. Len(p) : x[i] = p[i]
      /\ \A i \in 1 .. Len(q) : x[i] = q[i]
  BY WithinMeans
<1>2. CASE Len(p) <= Len(q)
  BY <1>1, <1>2, WithinMeans DEF Async!Related
<1>3. CASE Len(q) <= Len(p)
  BY <1>1, <1>3, WithinMeans DEF Async!Related
<1> QED BY <1>2, <1>3

LEMMA WithinJoin ==
  ASSUME NEW p \in Seq(Names), NEW n \in Names
  PROVE  Async!Within(p, Async!Join(p, n)) /\ Async!Join(p, n) \in Seq(Names)
<1>1. /\ Async!Join(p, n) \in Seq(Names) /\ Len(Async!Join(p, n)) = Len(p) + 1
      /\ \A i \in 1 .. Len(p) : Async!Join(p, n)[i] = p[i]
  BY AppendProperties DEF Async!Join
<1> QED BY <1>1, WithinMeans

(* What lies below one path lies below the other when it is rebased.       *)
LEMMA RebasedWithin ==
  ASSUME NEW p \in Seq(Names), NEW q \in Seq(Names), NEW x \in Seq(Names), Async!Within(p, x)
  PROVE  Async!Within(q, Async!Rebased(x, p, q))
<1>1. Len(p) + 1 \in Int /\ Len(x) \in Int /\ \A i \in Len(p) + 1 .. Len(x) : x[i] \in Names
  OBVIOUS
<1>2. SubSeq(x, Len(p) + 1, Len(x)) \in Seq(Names)
  BY <1>1, SubSeqProperties, Zenon
<1> DEFINE tail == SubSeq(x, Len(p) + 1, Len(x))
<1>3. /\ q \o tail \in Seq(Names) /\ Len(q \o tail) = Len(q) + Len(tail)
      /\ \A i \in 1 .. Len(q) + Len(tail) :
           (q \o tail)[i] = IF i <= Len(q) THEN q[i] ELSE tail[i - Len(q)]
  BY <1>2, ConcatProperties, Zenon
<1> HIDE DEF tail
<1>4. Len(tail) \in Nat
  BY <1>2 DEF tail
<1>5. Async!Within(q, q \o tail)
  <2>1. Len(q) <= Len(q \o tail) /\ \A i \in 1 .. Len(q) : (q \o tail)[i] = q[i]
    BY <1>3, <1>4
  <2> QED BY <1>3, <2>1, WithinMeans
<1> QED BY <1>5 DEF Async!Rebased, tail

LEMMA RebasedSelf ==
  ASSUME NEW p \in Seq(Names), NEW q \in Seq(Names)
  PROVE  Async!Rebased(p, p, q) = q
<1>1. SubSeq(p, Len(p) + 1, Len(p)) = <<>>
  BY SubSeqEmpty
<1> QED BY <1>1, ConcatEmptySeq DEF Async!Rebased

-----------------------------------------------------------------------------
(* Steps of one request.                                                   *)

(* What every step does to the history.                                    *)
History == faults' \in Nat /\ met' = {r \in Async!Active' : r \in met \/ Async!Overlapped(r)'}

(* The step leaves the others be, but for where their open files are.      *)
OthersStay(r) ==
  \A s \in Requests \ {r} :
    /\ reqs'[s].op = reqs[s].op /\ reqs'[s].at = reqs[s].at /\ reqs'[s].p = reqs[s].p
    /\ reqs'[s].src = reqs[s].src /\ reqs'[s].own = reqs[s].own

(* The paths that it is about: those it has claimed, or is about to claim. *)
Holds(r, claim) == reqs[r].at # "idle" => claim = reqs[r].own.claim
Keeps(r, q, claim) == q.own = IF reqs[r].at = "idle" THEN Async!Own(claim) ELSE reqs[r].own

(* There are no orphans among them, or none but those it will remove.      *)
Trusted(r, claim) ==
  IF reqs[r].at = "idle"
  THEN \A x \in Paths : Under(claim, x) /\ cps[x] # None => Async!file_exists(tree, x)
  ELSE Good(r)

(* What is at a path still backs its checkpoint, if it did.                *)
Kept(x) ==
  /\ cps'[x] = cps[x]
  /\ Async!file_exists(tree, x) => Async!file_exists(tree', x)

Leaves(r) ==
  Async!Ended(r) /\ ~Async!Failed /\ r \notin met /\ Async!FoundBacked(r) =>
    \A x \in DOMAIN reqs[r].own.tree : cps'[x] # None => Async!file_exists(tree', x)

(* What a step of a request keeps, and what its last step leaves.          *)
Fine(r) == Inv' /\ OthersStay(r) /\ Leaves(r)

LEMMA FileMeans ==
  ASSUME ContentsAssumption, NEW x \in Paths
  PROVE  /\ Async!file_exists(tree, x) <=> tree[x].kind = "file"
         /\ Async!file_exists(tree', x) <=> tree'[x].kind = "file"
         /\ Async!file_exists(tree, x)' <=> tree'[x].kind = "file"
BY DEF Async!file_exists, Async!Kind, ContentsAssumption, Async!PathsAssumption

(* No path lies under two claims that are apart.                           *)
LEMMA Untouched ==
  ASSUME ContentsAssumption, NEW a \in SUBSET Places, NEW b \in SUBSET Places,
         \A c \in a, d \in b : ~Async!Related(c, d), NEW x \in Paths, Under(b, x)
  PROVE  ~Under(a, x)
<1> SUFFICES ASSUME NEW c \in a, Async!Within(c, x) PROVE FALSE
  BY DEF Under
<1>1. PICK d \in b : Async!Within(d, x)
  BY DEF Under
<1>2. c \in Seq(Names) /\ d \in Seq(Names) /\ x \in Seq(Names)
  BY Sequences DEF Places
<1> QED BY <1>1, <1>2, WithinCommon

(* A step of one request leaves another sound.                             *)
LEMMA OthersSound ==
  ASSUME ContentsAssumption, Inv, History, NEW r \in Requests, NEW claim \in SUBSET Places,
         Holds(r, claim),
         Shape', OthersStay(r), NEW s \in Requests \ {r},
         reqs'[r].at # "idle" => reqs'[r].own.claim = claim,
         reqs[r].at # "idle" \/ reqs'[r].at # "idle" \/ \A x \in Paths : Kept(x),
         \A x \in Paths : Under(claim, x) \/ Kept(x)
  PROVE  Sound(s)'
<1>1. /\ reqs'[s].op = reqs[s].op /\ reqs'[s].at = reqs[s].at /\ reqs'[s].p = reqs[s].p
      /\ reqs'[s].src = reqs[s].src /\ reqs'[s].own = reqs[s].own
  BY DEF OthersStay
<1> SUFFICES ASSUME reqs[s].at # "idle" PROVE Sound(s)'
  BY <1>1 DEF Sound
<1>2. Shape /\ Sound(s)
  BY DEF Inv
<1>3. WellClaimed(reqs[s]) /\ WellNamed(reqs[s])
  BY <1>2 DEF Sound
<1>4. WellClaimed(reqs[s])'
  BY <1>1, <1>3 DEF WellClaimed, Under
<1>5. WellNamed(reqs[s])'
  BY <1>1, <1>3 DEF WellNamed, Copies, Renaming, Deleting
<1>6. s \notin met' => ClaimAlone(s)' /\ s \notin met
  <2> SUFFICES ASSUME s \notin met' PROVE ClaimAlone(s)' /\ s \notin met
    OBVIOUS
  <2>1. s \in Async!Active'
    BY <1>1 DEF Async!Active
  <2>2. s \notin met /\ ~Async!Overlapped(s)'
    BY <2>1 DEF History
  <2>3. ClaimAlone(s)'
    BY <2>2 DEF ClaimAlone, Async!Overlapped, Async!Active
  <2> QED BY <2>2, <2>3
<1>7. ASSUME Good(s)' PROVE WellStaged(reqs[s])' /\ Backed(s)'
  <2>1. s \notin met' /\ s \notin met /\ ClaimAlone(s)'
    BY <1>6, <1>7 DEF Good
  <2>2. Good(s)
    BY <1>1, <1>7, <2>1 DEF Good, Async!FoundBacked
  <2>3. WellStaged(reqs[s]) /\ Backed(s) /\ ClaimAlone(s)
    BY <1>2, <2>2 DEF Sound, Good
  <2>4. ASSUME NEW x \in Paths, Under(reqs[s].own.claim, x) PROVE Kept(x)
    <3>1. CASE reqs[r].at # "idle" \/ reqs'[r].at # "idle"
      <4>1. \A c \in claim, d \in reqs[s].own.claim : ~Async!Related(c, d)
        <5> SUFFICES ASSUME NEW c \in claim, NEW d \in reqs[s].own.claim PROVE ~Async!Related(c, d)
          OBVIOUS
        <5>1. CASE reqs[r].at # "idle"
          BY <2>3, <5>1 DEF ClaimAlone, Holds, Async!Related
        <5>2. CASE reqs'[r].at # "idle"
          <6>1. reqs'[r].own.claim = claim /\ reqs'[s].own.claim = reqs[s].own.claim
            BY <1>1, <5>2
          <6> QED BY <2>1, <5>2, <6>1 DEF ClaimAlone, Async!Related
        <5> QED BY <3>1, <5>1, <5>2
      <4>2. reqs[s].own.claim \in SUBSET Places
        BY <1>3 DEF WellClaimed
      <4> QED BY <2>4, <4>1, <4>2, Untouched
    <3> QED BY <3>1
  <2>5. ASSUME NEW x \in Paths, x = reqs[s].p \/ x = reqs[s].src PROVE Kept(x)
    <3>1. Async!Within(x, x)
      BY Sequences, WithinSelf DEF Places
    <3>2. Under(reqs[s].own.claim, x)
      BY <1>3, <2>5, <3>1 DEF WellClaimed, Under
    <3> QED BY <2>4, <3>2
  <2>6. WellStaged(reqs[s])'
    <3>1. reqs[s].at = "moving" => cps'[reqs[s].p] = None
      BY <1>3, <2>3, <2>5 DEF WellStaged, WellNamed, Kept
    <3>2. reqs[s].at \in Renaming => (cps'[reqs[s].src] # None => Async!file_exists(tree', reqs[s].p))
      <4> SUFFICES ASSUME reqs[s].at \in Renaming, cps'[reqs[s].src] # None
                   PROVE  Async!file_exists(tree', reqs[s].p)
        OBVIOUS
      <4>1. reqs[s].p \in Paths /\ reqs[s].src \in Paths
        BY <1>3 DEF WellNamed
      <4>2. Kept(reqs[s].p) /\ Kept(reqs[s].src)
        BY <2>5, <4>1
      <4> QED BY <2>3, <4>2 DEF WellStaged, Kept
    <3>3. reqs'[s].at \in Renaming => (cps'[reqs'[s].src] # None => Async!file_exists(tree', reqs'[s].p))
      BY <1>1, <3>2
    <3>4. reqs'[s].at = "moving" => cps'[reqs'[s].p] = None
      BY <1>1, <3>1
    <3>5. Async!file_exists(tree, reqs[s].p)' <=> Async!file_exists(tree', reqs'[s].p)
      BY DEF Async!file_exists, Async!Kind
    <3> QED BY <3>3, <3>4, <3>5 DEF WellStaged, Renaming
  <2>7. Backed(s)'
    <3> SUFFICES ASSUME NEW x \in Paths, Under(reqs[s].own.claim, x), cps'[x] # None
                 PROVE  Async!file_exists(tree, x)' \/ Due(s, x)'
      BY <1>1 DEF Backed, Under
    <3>1. Kept(x)
      BY <2>4
    <3>2. Async!file_exists(tree, x) \/ Due(s, x)
      BY <2>3, <3>1 DEF Backed, Kept
    <3>3. CASE Due(s, x)
      BY <1>1, <3>3 DEF Due, Renaming, Removing
    <3>4. CASE Async!file_exists(tree, x)
      BY <3>1, <3>4, FileMeans DEF Kept
    <3> QED BY <3>2, <3>3, <3>4
  <2> QED BY <2>6, <2>7
<1> QED BY <1>4, <1>5, <1>6, <1>7 DEF Sound

LEMMA RequestStep ==
  ASSUME ContentsAssumption, Inv, History, NEW r \in Requests, NEW claim \in SUBSET Places,
         Holds(r, claim),
         Shape', OthersStay(r),
         \/ reqs'[r].at = "idle"
         \/ Keeps(r, reqs'[r], claim) /\ WellClaimed(reqs[r])' /\ WellNamed(reqs[r])',
         reqs[r].at # "idle" \/ reqs'[r].at # "idle" \/ \A x \in Paths : Kept(x),
         \A x \in Paths : Under(claim, x) \/ Kept(x),
         \/ Async!Ended(r) /\ Async!Failed
         \/ ~Trusted(r, claim)
         \/ /\ reqs'[r].at = "idle" \/ WellStaged(reqs[r])'
            /\ \A x \in Paths : \/ cps'[x] = None \/ Async!file_exists(tree', x) \/ Due(r, x)'
                                \/ Kept(x) /\ ~Due(r, x)
  PROVE  Fine(r)
<1>1. Shape /\ Sound(r)
  BY DEF Inv
<1>2. reqs'[r].at # "idle" => reqs'[r].own.claim = claim
  BY DEF Keeps, Holds, Async!Own
<1>3. ASSUME NEW s \in Requests \ {r} PROVE Sound(s)'
  BY <1>2, OthersSound
<1>4. ASSUME NEW x \in Paths, Under(claim, x), cps'[x] # None, Trusted(r, claim),
             ~(Async!Ended(r) /\ Async!Failed)
      PROVE  Async!file_exists(tree, x)' \/ Due(r, x)'
  <2>1. CASE Kept(x) /\ ~Due(r, x)
    <3>1. Async!file_exists(tree, x)
      <4>1. CASE reqs[r].at = "idle"
        BY <1>4, <2>1, <4>1 DEF Trusted, Kept
      <4>2. CASE reqs[r].at # "idle"
        <5>1. Backed(r) /\ claim = reqs[r].own.claim
          BY <1>1, <1>4, <4>2 DEF Trusted, Sound, Holds
        <5> QED BY <1>4, <2>1, <5>1 DEF Backed, Kept
      <4> QED BY <4>1, <4>2
    <3> QED BY <2>1, <3>1, FileMeans DEF Kept
  <2> QED BY <1>4, <2>1, FileMeans
<1>5. Sound(r)'
  <2> SUFFICES ASSUME reqs'[r].at # "idle" PROVE Sound(r)'
    BY DEF Sound
  <2>1. Keeps(r, reqs'[r], claim) /\ WellClaimed(reqs[r])' /\ WellNamed(reqs[r])' /\ ~Async!Ended(r)
    BY DEF Async!Ended, Async!At
  <2>2. r \notin met' => ClaimAlone(r)' /\ r \notin met
    <3> SUFFICES ASSUME r \notin met' PROVE ClaimAlone(r)' /\ r \notin met
      OBVIOUS
    <3>1. r \in Async!Active'
      BY DEF Async!Active
    <3>2. r \notin met /\ ~Async!Overlapped(r)'
      BY <3>1 DEF History
    <3>3. ClaimAlone(r)'
      BY <3>2 DEF ClaimAlone, Async!Overlapped, Async!Active
    <3> QED BY <3>2, <3>3
  <2>3. ASSUME Good(r)' PROVE WellStaged(reqs[r])' /\ Backed(r)'
    <3>1. Trusted(r, claim)
      <4>1. CASE reqs[r].at = "idle"
        <5> SUFFICES ASSUME NEW x \in Paths, Under(claim, x), cps[x] # None
                     PROVE  Async!file_exists(tree, x)
          BY <4>1 DEF Trusted
        <5>1. reqs'[r].own = Async!Own(claim)
          BY <2>1, <4>1 DEF Keeps
        <5>2. /\ x \in DOMAIN Async!Own(claim).tree /\ Async!Own(claim).tree[x] = tree[x]
              /\ Async!Own(claim).cps[x] = cps[x]
          BY DEF Async!Own, Under
        <5>3. tree[x].kind = "file"
          BY <2>3, <5>1, <5>2 DEF Good, Async!FoundBacked
        <5> QED BY <5>3, FileMeans
      <4>2. CASE reqs[r].at # "idle"
        <5>1. reqs'[r].own = reqs[r].own
          BY <2>1, <4>2 DEF Keeps
        <5> QED BY <2>2, <2>3, <4>2, <5>1 DEF Trusted, Good, Async!FoundBacked
      <4> QED BY <4>1, <4>2
    <3>2. WellStaged(reqs[r])'
      BY <2>1, <3>1
    <3>3. Backed(r)'
      BY <1>2, <1>4, <2>1, <3>1 DEF Backed, Under
    <3> QED BY <3>2, <3>3
  <2> QED BY <2>1, <2>2, <2>3 DEF Sound
<1>6. Leaves(r)
  <2> SUFFICES ASSUME Async!Ended(r), ~Async!Failed, Good(r), NEW x \in DOMAIN reqs[r].own.tree,
                      cps'[x] # None
               PROVE  Async!file_exists(tree', x)
    BY DEF Leaves, Good
  <2>1. reqs[r].at # "idle" /\ reqs'[r].at = "idle"
    BY DEF Async!Ended, Async!At
  <2>2. Trusted(r, claim) /\ claim = reqs[r].own.claim
    BY <2>1 DEF Trusted, Holds
  <2>3. x \in Paths /\ Under(claim, x)
    BY <1>1, <2>1, <2>2 DEF Sound, WellClaimed
  <2>4. ~Due(r, x)'
    BY <2>1 DEF Due, Removing, Renaming
  <2> QED BY <1>4, <2>2, <2>3, <2>4, FileMeans
<1>7. Inv'
  BY <1>3, <1>5 DEF Inv, History
<1> QED BY <1>6, <1>7 DEF Fine

-----------------------------------------------------------------------------
(* One request gets another record.                                        *)
LEMMA Change ==
  ASSUME Shape, NEW r \in Requests, NEW q, DOMAIN q = ReqFields, reqs' = [reqs EXCEPT ![r] = q],
         DOMAIN tree' = Paths, DOMAIN cps' = Paths
  PROVE  reqs'[r] = q /\ OthersStay(r) /\ Shape'
<1>1. reqs'[r] = q /\ \A s \in Requests \ {r} : reqs'[s] = reqs[s]
  BY DEF Shape
<1>2. DOMAIN reqs' = Requests
  BY DEF Shape
<1> QED BY <1>1, <1>2 DEF Shape, OthersStay

LEMMA IdleRecord == DOMAIN Async!Idle = ReqFields /\ Async!Idle.at = "idle"
BY DEF Async!Idle, ReqFields

LEMMA NewRecord ==
  ASSUME NEW op, NEW at, NEW src, NEW p, NEW type, NEW data, NEW claim \in SUBSET Places,
         src \in claim, p \in claim
  PROVE  LET q == Async!Req(op, at, src, p, type, data, claim)
         IN /\ DOMAIN q = ReqFields /\ q.op = op /\ q.at = at /\ q.src = src /\ q.p = p /\ q.data = data
            /\ q.type = type /\ q.own = Async!Own(claim) /\ q.own.claim = claim /\ WellClaimed(q)
<1> DEFINE q == Async!Req(op, at, src, p, type, data, claim)
<1>1. /\ DOMAIN q = ReqFields /\ q.op = op /\ q.at = at /\ q.src = src /\ q.p = p /\ q.data = data
      /\ q.type = type /\ q.own = Async!Own(claim)
  BY DEF Async!Req, ReqFields
<1>2. Async!Own(claim).claim = claim /\ DOMAIN Async!Own(claim).tree = {x \in Paths : Under(claim, x)}
  BY DEF Async!Own, Under
<1> HIDE DEF q
<1>3. WellClaimed(q)
  BY <1>1, <1>2 DEF WellClaimed
<1> QED BY <1>1, <1>2, <1>3 DEF q

(* A record that a request may have next.                                  *)
Suits(r, q, claim) == Keeps(r, q, claim) /\ WellClaimed(q) /\ WellNamed(q)

LEMMA ActiveHolds ==
  ASSUME Inv, NEW r \in Requests, reqs[r].at # "idle"
  PROVE  /\ Holds(r, reqs[r].own.claim) /\ WellClaimed(reqs[r]) /\ WellNamed(reqs[r])
         /\ reqs[r].own.claim \in SUBSET Places
BY DEF Inv, Holds, Sound, WellClaimed

LEMMA ComesIdle ==
  ASSUME NEW r \in Requests, NEW op, NEW claim, Async!Comes(r, op, claim)
  PROVE  Holds(r, claim) /\ reqs[r].at = "idle"
BY DEF Async!Comes, Holds, Async!At

(* A request that changes nothing on the disk.                             *)
LEMMA NothingDone ==
  ASSUME ContentsAssumption, Inv, History, NEW r \in Requests, reqs[r].at # "idle",
         NEW q, DOMAIN q = ReqFields, reqs' = [reqs EXCEPT ![r] = q], UNCHANGED <<tree, cps>>,
         \/ q.at = "idle"
         \/ /\ q.own = reqs[r].own /\ q.p = reqs[r].p /\ q.src = reqs[r].src
            /\ q.at # "moving" /\ (q.at \in Renaming => reqs[r].at \in Renaming)
            /\ q.at \in Deleting => reqs[r].at \in Deleting
            /\ Copies(q) => Copies(reqs[r]),
         reqs[r].at \in Removing /\ reqs[r].p \in Paths => cps[reqs[r].p] = None \/ q.at \in Removing,
         reqs[r].at \in Renaming => cps[reqs[r].src] = None \/ q.at \in Renaming
  PROVE  Fine(r)
<1>1. Shape /\ Sound(r)
  BY DEF Inv
<1>2. reqs'[r] = q /\ OthersStay(r) /\ Shape'
  BY <1>1, Change DEF Shape
<1>3. /\ Holds(r, reqs[r].own.claim) /\ WellClaimed(reqs[r]) /\ WellNamed(reqs[r])
      /\ reqs[r].own.claim \in SUBSET Places
  BY ActiveHolds
<1>4. \/ reqs'[r].at = "idle"
      \/ Keeps(r, reqs'[r], reqs[r].own.claim) /\ WellClaimed(reqs[r])' /\ WellNamed(reqs[r])'
  <2> SUFFICES ASSUME q.at # "idle"
               PROVE  Keeps(r, q, reqs[r].own.claim) /\ WellClaimed(reqs[r])' /\ WellNamed(reqs[r])'
    BY <1>2
  <2>1. WellClaimed(reqs[r])'
    BY <1>2, <1>3 DEF WellClaimed, Under
  <2>2. WellNamed(reqs[r])'
    BY <1>2, <1>3 DEF WellNamed, Copies
  <2> QED BY <2>1, <2>2 DEF Keeps
<1>5. Trusted(r, reqs[r].own.claim) => reqs'[r].at = "idle" \/ WellStaged(reqs[r])'
  <2> SUFFICES ASSUME Good(r), q.at # "idle" PROVE WellStaged(reqs[r])'
    BY <1>2 DEF Trusted
  <2>1. WellStaged(reqs[r])
    BY <1>1 DEF Sound
  <2> QED BY <1>2, <2>1 DEF WellStaged, Async!file_exists, Async!Kind
<1>6. \A x \in Paths : Kept(x)
  BY DEF Kept
<1>7. ASSUME NEW x \in Paths
      PROVE cps'[x] = None \/ Due(r, x)' \/ (Kept(x) /\ ~Due(r, x))
  <2>1. CASE ~Due(r, x)
    BY <1>6, <2>1
  <2>2. CASE reqs[r].at \in Removing /\ x = reqs[r].p
    <3>1. CASE cps[reqs[r].p] = None
      BY <2>2, <3>1
    <3>2. CASE q.at \in Removing
      <4>1. q.at # "idle"
        BY <3>2 DEF Removing
      <4> QED BY <1>2, <2>2, <3>2, <4>1 DEF Due
    <3> QED BY <2>2, <3>1, <3>2
  <2>3. CASE reqs[r].at \in Renaming /\ x = reqs[r].src
    <3>1. CASE cps[reqs[r].src] = None
      BY <2>3, <3>1
    <3>2. CASE q.at \in Renaming
      <4>1. q.at # "idle"
        BY <3>2 DEF Renaming
      <4> QED BY <1>2, <2>3, <3>2, <4>1 DEF Due
    <3> QED BY <2>3, <3>1, <3>2
  <2> QED BY <2>1, <2>2, <2>3 DEF Due
<1> HIDE DEF Inv
<1> QED BY <1>2, <1>3, <1>4, <1>5, <1>6, <1>7, RequestStep

(* A request whose call fails, and that answers so.                        *)
LEMMA Failing ==
  ASSUME ContentsAssumption, Inv, History, NEW r \in Requests, reqs[r].at # "idle", Async!Fault,
         NEW code \in {400} \cup Async!OSErrors, Async!Ends(r, code),
         DOMAIN tree' = Paths, DOMAIN cps' = Paths,
         \A x \in Paths : Under(reqs[r].own.claim, x) \/ Kept(x)
  PROVE  Fine(r)
<1>1. Shape
  BY DEF Inv
<1>2. PICK q : q = Async!Idle
  OBVIOUS
<1>3. DOMAIN q = ReqFields /\ q.at = "idle" /\ reqs' = [reqs EXCEPT ![r] = q]
  BY <1>2, IdleRecord DEF Async!Ends
<1>4. reqs'[r] = q /\ OthersStay(r) /\ Shape'
  BY <1>1, <1>3, Change
<1>5. Holds(r, reqs[r].own.claim) /\ reqs[r].own.claim \in SUBSET Places
  BY ActiveHolds
<1>6. Async!Ended(r) /\ Async!Failed
  <2>1. faults' # faults
    BY DEF Inv, Async!Fault
  <2>2. answer'.code >= 400
    BY DEF Async!Ends, Async!Answer, Async!OSErrors
  <2> QED BY <1>3, <1>4, <2>1, <2>2 DEF Async!Ended, Async!Failed, Async!At
<1> HIDE DEF Inv
<1> QED BY <1>3, <1>4, <1>5, <1>6, RequestStep

(* A request that makes files, or moves on.                                *)
LEMMA Writes ==
  ASSUME ContentsAssumption, Inv, History, NEW r \in Requests, NEW claim \in SUBSET Places,
         Holds(r, claim), reqs[r].at \notin Removing \cup Renaming,
         NEW q, DOMAIN q = ReqFields, reqs' = [reqs EXCEPT ![r] = q],
         \/ q.at = "idle"
         \/ Suits(r, q, claim) /\ (Trusted(r, claim) => WellStaged(q)'),
         DOMAIN tree' = Paths, DOMAIN cps' = Paths,
         \A x \in Paths : \/ Kept(x)
                          \/ reqs[r].at # "idle" /\ Under(claim, x) /\ Async!file_exists(tree', x)
  PROVE  Fine(r)
<1>1. Shape
  BY DEF Inv
<1>2. reqs'[r] = q /\ OthersStay(r) /\ Shape'
  BY <1>1, Change
<1>3. \/ reqs'[r].at = "idle"
      \/ Keeps(r, reqs'[r], claim) /\ WellClaimed(reqs[r])' /\ WellNamed(reqs[r])'
  <2>1. q.at # "idle" => WellClaimed(reqs[r])'
    BY <1>2 DEF Suits, WellClaimed, Under
  <2>2. q.at # "idle" => WellNamed(reqs[r])'
    BY <1>2 DEF Suits, WellNamed, Copies
  <2> QED BY <1>2, <2>1, <2>2 DEF Suits
<1>4. Trusted(r, claim) => reqs'[r].at = "idle" \/ WellStaged(reqs[r])'
  BY <1>2 DEF WellStaged
<1>5. \A x \in Paths : ~Due(r, x)
  BY DEF Due
<1> HIDE DEF Inv
<1> QED BY <1>2, <1>3, <1>4, <1>5, RequestStep

(* A request that comes.                                                   *)
LEMMA Starts ==
  ASSUME ContentsAssumption, Inv, History, NEW r \in Requests, NEW claim \in SUBSET Places,
         NEW kind, Async!Comes(r, kind, claim),
         NEW op, NEW at, NEW src \in claim, NEW p \in claim, NEW type, NEW data,
         at \notin Renaming, at # "moving", at \in Deleting => src = p,
         at \in {"measuring", "reading", "read"} =>
           \/ at = "reading" /\ op = "get"
           \/ src \in Paths /\ Async!CopyClaim(src, p) \subseteq claim,
         reqs' = [reqs EXCEPT ![r] = Async!Req(op, at, src, p, type, data, claim)],
         UNCHANGED <<tree, cps>>
  PROVE  Fine(r)
<1>1. PICK q : /\ q = Async!Req(op, at, src, p, type, data, claim)
              /\ DOMAIN q = ReqFields /\ q.at = at /\ q.own.claim = claim /\ WellClaimed(q)
              /\ q.op = op /\ q.src = src /\ q.p = p /\ q.own = Async!Own(claim)
  BY NewRecord
<1>2. Holds(r, claim) /\ reqs[r].at = "idle"
  BY ComesIdle
<1>3. reqs[r].at \notin Removing \cup Renaming
  BY <1>2 DEF Removing, Renaming
<1>4. \A x \in Paths : Kept(x)
  BY DEF Kept
<1>5. DOMAIN tree' = Paths /\ DOMAIN cps' = Paths
  BY DEF Inv, Shape
<1>6. WellNamed(q) /\ WellStaged(q)'
  BY <1>1 DEF WellNamed, WellStaged, Copies
<1>7. Suits(r, q, claim)
  BY <1>1, <1>2, <1>6 DEF Suits, Keeps
<1>8. reqs' = [reqs EXCEPT ![r] = q]
  BY <1>1
<1> HIDE DEF Inv
<1> QED BY <1>1, <1>2, <1>3, <1>4, <1>5, <1>6, <1>7, <1>8, Writes

(* save up to its first suspension.                                        *)
LEMMA Begins ==
  ASSUME ContentsAssumption, Inv, History, NEW r \in Requests, NEW claim \in SUBSET Places,
         Holds(r, claim),
         reqs[r].at \notin Removing \cup Renaming,
         NEW q, DOMAIN q = ReqFields, WellClaimed(q), Keeps(r, q, claim),
         Async!Begin(r, q), UNCHANGED cps
  PROVE  Fine(r)
<1>1. PICK t : DOMAIN t = ReqFields /\ reqs' = [reqs EXCEPT ![r] = t]
               /\ (t.at = "idle" \/ (Suits(r, t, claim) /\ WellStaged(t)'))
  <2>1. CASE reqs' = [reqs EXCEPT ![r] = Async!Idle]
    BY <2>1, IdleRecord
  <2>2. ASSUME NEW at \in {"writing", "mkdir"}, reqs' = [reqs EXCEPT ![r] = [q EXCEPT !.at = at]]
        PROVE \E t : DOMAIN t = ReqFields /\ reqs' = [reqs EXCEPT ![r] = t]
               /\ (t.at = "idle" \/ (Suits(r, t, claim) /\ WellStaged(t)'))
    <3> DEFINE t == [q EXCEPT !.at = at]
    <3>1. DOMAIN t = ReqFields /\ t.at = at /\ t.own = q.own /\ t.p = q.p /\ t.src = q.src
      BY DEF ReqFields
    <3> HIDE DEF t
    <3>2. WellClaimed(t) /\ WellNamed(t)
      BY <3>1 DEF WellClaimed, WellNamed, Renaming, Deleting, Copies
    <3>3. WellStaged(t)'
      BY <3>1 DEF WellStaged, Renaming
    <3>4. reqs' = [reqs EXCEPT ![r] = t]
      BY <2>2 DEF t
    <3>5. Keeps(r, t, claim)
      BY <3>1 DEF Keeps
    <3> QED BY <3>1, <3>2, <3>3, <3>4, <3>5 DEF Suits
  <2> QED BY <2>1, <2>2 DEF Async!Begin
<1>2. DOMAIN tree = Paths /\ DOMAIN cps = Paths
  BY DEF Inv, Shape
<1>3. tree' = tree \/ tree' = [tree EXCEPT ![q.p] = Async!File(<<>>)]
  BY DEF Async!Begin
<1>4. DOMAIN tree' = Paths /\ DOMAIN cps' = Paths
  BY <1>2, <1>3
<1>5. \A x \in Paths : Kept(x)
  <2> SUFFICES ASSUME NEW x \in Paths PROVE Kept(x)
    OBVIOUS
  <2>1. tree'[x] = tree[x] \/ tree'[x].kind = "file"
    BY <1>2, <1>3 DEF Async!File, Async!Entry
  <2> QED BY <2>1, FileMeans DEF Kept
<1> HIDE DEF Inv
<1> QED BY <1>1, <1>4, <1>5, Writes

-----------------------------------------------------------------------------
(* Steps that change nothing on the disk: the answer, the next call, and   *)
(* what a request remembers of what it read.                               *)
LEMMA Ending ==
  ASSUME ContentsAssumption, Inv, History, NEW r \in Requests, reqs[r].at # "idle", NEW code,
         Async!Ends(r, code),
         UNCHANGED <<tree, cps>>,
         reqs[r].at \in Removing /\ reqs[r].p \in Paths => cps[reqs[r].p] = None,
         reqs[r].at \in Renaming => cps[reqs[r].src] = None
  PROVE  Fine(r)
<1>1. PICK q : q = Async!Idle
  OBVIOUS
<1>2. DOMAIN q = ReqFields /\ q.at = "idle" /\ reqs' = [reqs EXCEPT ![r] = q]
  BY <1>1, IdleRecord DEF Async!Ends
<1> QED BY <1>2, NothingDone

LEMMA GoesOn ==
  ASSUME ContentsAssumption, Inv, History, NEW r \in Requests, reqs[r].at # "idle", NEW at,
         Async!Goes(r, at),
         UNCHANGED <<tree, cps>>, at # "moving",
         at \in Renaming => reqs[r].at \in Renaming, at \in Deleting => reqs[r].at \in Deleting,
         at \notin {"measuring", "reading", "read"},
         reqs[r].at \in Removing /\ reqs[r].p \in Paths => cps[reqs[r].p] = None \/ at \in Removing,
         reqs[r].at \in Renaming => cps[reqs[r].src] = None \/ at \in Renaming
  PROVE  Fine(r)
<1>1. DOMAIN reqs = Requests /\ DOMAIN reqs[r] = ReqFields
  BY DEF Inv, Shape
<1>2. PICK q : q = [reqs[r] EXCEPT !.at = at]
  OBVIOUS
<1>3. /\ DOMAIN q = ReqFields /\ q.at = at /\ q.own = reqs[r].own /\ q.p = reqs[r].p
      /\ q.src = reqs[r].src
  BY <1>1, <1>2 DEF ReqFields
<1>4. reqs' = [reqs EXCEPT ![r] = q]
  BY <1>2 DEF Async!Goes
<1>5. ~Copies(q)
  BY <1>3 DEF Copies
<1> QED BY <1>3, <1>4, <1>5, NothingDone

(* A request reads or lists.                                               *)
LookingAt == {"reading", "read", "listdir", "listing", "entry"}

LEMMA Looking ==
  ASSUME ContentsAssumption, Inv, History, NEW r \in Requests, reqs[r].at \in LookingAt,
         NEW q, DOMAIN q = ReqFields, q.at \in LookingAt,
         q.own = reqs[r].own, q.p = reqs[r].p, q.src = reqs[r].src, Copies(q) => Copies(reqs[r]),
         reqs' = [reqs EXCEPT ![r] = q], UNCHANGED <<tree, cps>>
  PROVE  Fine(r)
<1>1. /\ reqs[r].at # "idle" /\ reqs[r].at \notin Removing /\ reqs[r].at \notin Renaming
      /\ q.at # "moving" /\ q.at \notin Renaming /\ q.at \notin Deleting
  BY DEF LookingAt, Removing, Renaming, Deleting
<1> QED BY <1>1, NothingDone

LEMMA ReadSteps ==
  ASSUME ContentsAssumption, Inv, History, NEW r \in Requests,
         \/ Async!Read(r) \/ Async!FinishGet(r) \/ Async!Listed(r) \/ Async!StatEntry(r)
         \/ Async!GetEntry(r) \/ Async!FinishList(r)
  PROVE  Fine(r)
<1>1. DOMAIN reqs = Requests /\ DOMAIN reqs[r] = ReqFields
  BY DEF Inv, Shape
<1> HIDE DEF Inv
<1>2. CASE Async!Read(r)
  <2>1. PICK data : /\ reqs' = [reqs EXCEPT ![r].at = "read", ![r].data = data]
                    /\ UNCHANGED <<tree, cps>>
    BY <1>2 DEF Async!Read, Async!disk
  <2>2. PICK q : q = [reqs[r] EXCEPT !.at = "read", !.data = data]
    OBVIOUS
  <2>3. /\ DOMAIN q = ReqFields /\ q.op = reqs[r].op /\ q.at = "read" /\ q.own = reqs[r].own
        /\ q.p = reqs[r].p /\ q.src = reqs[r].src
    BY <1>1, <2>2 DEF ReqFields
  <2>4. reqs' = [reqs EXCEPT ![r] = q]
    BY <1>1, <2>1, <2>2
  <2>5. reqs[r].at \in LookingAt /\ q.at \in LookingAt
    BY <1>2, <2>3 DEF Async!Read, Async!At, LookingAt
  <2>6. Copies(q) => Copies(reqs[r])
    BY <1>2, <2>3 DEF Async!Read, Async!At, Copies
  <2> QED BY <2>1, <2>3, <2>4, <2>5, <2>6, Looking
<1>3. CASE Async!FinishGet(r) \/ Async!FinishList(r)
  <2>1. PICK q : q = Async!Idle
    OBVIOUS
  <2>2. DOMAIN q = ReqFields /\ q.at = "idle"
    BY <2>1, IdleRecord
  <2>3. reqs' = [reqs EXCEPT ![r] = q] /\ UNCHANGED <<tree, cps>>
    BY <1>3, <2>1 DEF Async!FinishGet, Async!FinishList, Async!disk
  <2>4. reqs[r].at # "idle" /\ reqs[r].at \notin Removing /\ reqs[r].at \notin Renaming
    BY <1>3 DEF Async!FinishGet, Async!FinishList, Async!At, Removing, Renaming
  <2> QED BY <2>2, <2>3, <2>4, NothingDone
<1>4. CASE Async!Listed(r)
  <2>1. PICK left : /\ reqs' = [reqs EXCEPT ![r].at = "listing", ![r].left = left]
                    /\ UNCHANGED <<tree, cps>>
    BY <1>4 DEF Async!Listed, Async!disk
  <2>2. PICK q : q = [reqs[r] EXCEPT !.at = "listing", !.left = left]
    OBVIOUS
  <2>3. /\ DOMAIN q = ReqFields /\ q.at = "listing" /\ q.own = reqs[r].own /\ q.p = reqs[r].p
        /\ q.src = reqs[r].src
    BY <1>1, <2>2 DEF ReqFields
  <2>4. reqs' = [reqs EXCEPT ![r] = q]
    BY <1>1, <2>1, <2>2
  <2>5. reqs[r].at \in LookingAt /\ q.at \in LookingAt /\ ~Copies(q)
    BY <1>4, <2>3 DEF Async!Listed, Async!At, LookingAt, Copies
  <2> QED BY <2>1, <2>3, <2>4, <2>5, Looking
<1>5. CASE Async!StatEntry(r)
  <2>1. PICK x, at : /\ at \in {"entry", "listing"}
                     /\ reqs' = [reqs EXCEPT ![r].left = @ \ {x}, ![r].at = at, ![r].fd = x]
                     /\ UNCHANGED <<tree, cps>>
    BY <1>5 DEF Async!StatEntry, Async!disk
  <2>2. PICK q : q = [reqs[r] EXCEPT !.left = @ \ {x}, !.at = at, !.fd = x]
    OBVIOUS
  <2>3. /\ DOMAIN q = ReqFields /\ q.at = at /\ q.own = reqs[r].own /\ q.p = reqs[r].p
        /\ q.src = reqs[r].src
    BY <1>1, <2>2 DEF ReqFields
  <2>4. reqs' = [reqs EXCEPT ![r] = q]
    BY <1>1, <2>1, <2>2
  <2>5. reqs[r].at \in LookingAt /\ q.at \in LookingAt /\ ~Copies(q)
    BY <1>5, <2>1, <2>3 DEF Async!StatEntry, Async!At, LookingAt, Copies
  <2> QED BY <2>1, <2>3, <2>4, <2>5, Looking
<1>6. CASE Async!GetEntry(r)
  <2>1. reqs[r].at \in LookingAt /\ UNCHANGED <<tree, cps>>
    BY <1>6 DEF Async!GetEntry, Async!At, LookingAt, Async!disk
  <2>2. CASE Async!Ends(r, 404)
    <3>1. reqs[r].at # "idle" /\ reqs[r].at \notin Removing /\ reqs[r].at \notin Renaming
      BY <2>1 DEF LookingAt, Removing, Renaming
    <3> QED BY <2>1, <2>2, <3>1, Ending
  <2>3. CASE reqs' = [reqs EXCEPT ![r].at = "listing", ![r].data = @ \cup {reqs[r].fd}]
    <3>1. PICK q : q = [reqs[r] EXCEPT !.at = "listing", !.data = @ \cup {reqs[r].fd}]
      OBVIOUS
    <3>2. /\ DOMAIN q = ReqFields /\ q.at = "listing" /\ q.own = reqs[r].own /\ q.p = reqs[r].p
          /\ q.src = reqs[r].src
      BY <1>1, <3>1 DEF ReqFields
    <3>3. reqs' = [reqs EXCEPT ![r] = q]
      BY <1>1, <2>3, <3>1
    <3>4. q.at \in LookingAt /\ ~Copies(q)
      BY <3>2 DEF LookingAt, Copies
    <3> QED BY <2>1, <3>2, <3>3, <3>4, Looking
  <2> QED BY <1>6, <2>2, <2>3 DEF Async!GetEntry
<1> QED BY <1>2, <1>3, <1>4, <1>5, <1>6

(* Steps of a request that looks, on the loop, at what its calls have done. *)
LEMMA LoopSteps ==
  ASSUME ContentsAssumption, Inv, History, NEW r \in Requests,
         \/ Async!AfterWrite(r) \/ Async!FinishSave(r) \/ Async!LookedInside(r)
         \/ Async!ListCheckpoints(r) \/ Async!DeleteCheckpoint(r)
         \/ Async!RenameCheckpoint(r) \/ Async!FinishRename(r) \/ Async!FinishCheckpoint(r)
  PROVE  Fine(r)
<1>1. UNCHANGED <<tree, cps>>
  BY DEF Async!AfterWrite, Async!FinishSave, Async!LookedInside, Async!ListCheckpoints,
         Async!DeleteCheckpoint, Async!RenameCheckpoint,
         Async!FinishRename, Async!FinishCheckpoint, Async!disk
<1> HIDE DEF Inv
<1>2. CASE Async!AfterWrite(r)
  <2>1. PICK at \in {"saved", "checkpointing", "statting"} : Async!Goes(r, at)
    BY <1>2 DEF Async!AfterWrite
  <2>2. /\ reqs[r].at # "idle" /\ reqs[r].at \notin Removing /\ reqs[r].at \notin Renaming
        /\ at # "moving" /\ at \notin Renaming /\ at \notin Deleting
        /\ at \notin {"measuring", "reading", "read"}
    BY <1>2, <2>1 DEF Async!AfterWrite, Async!At, Removing, Renaming, Deleting
  <2> QED BY <1>1, <2>1, <2>2, GoesOn
<1>3. CASE Async!FinishSave(r) \/ Async!FinishRename(r) \/ Async!FinishCheckpoint(r)
  <2>1. PICK code : Async!Ends(r, code)
    BY <1>3 DEF Async!FinishSave, Async!FinishRename, Async!FinishCheckpoint
  <2>2. reqs[r].at # "idle" /\ reqs[r].at \notin Removing /\ reqs[r].at \notin Renaming
    BY <1>3 DEF Async!FinishSave, Async!FinishRename, Async!FinishCheckpoint, Async!At, Removing,
                Renaming
  <2> QED BY <1>1, <2>1, <2>2, Ending
<1>4. CASE Async!LookedInside(r)
  <2>1. reqs[r].at # "idle" /\ reqs[r].at \notin Removing /\ reqs[r].at \notin Renaming
    BY <1>4 DEF Async!LookedInside, Async!At, Removing, Renaming
  <2>2. CASE Async!Ends(r, 400)
    BY <1>1, <2>1, <2>2, Ending
  <2>3. CASE Async!Goes(r, "removing")
    <3>1. "removing" \notin Renaming /\ reqs[r].at \in Deleting
      BY <1>4 DEF Async!LookedInside, Async!At, Renaming, Deleting
    <3> QED BY <1>1, <2>1, <2>3, <3>1, GoesOn
  <2> QED BY <1>4, <2>2, <2>3 DEF Async!LookedInside
<1>5. CASE Async!ListCheckpoints(r)
  <2>1. reqs[r].at = "removed" \/ reqs[r].at = "moved"
    BY <1>5 DEF Async!ListCheckpoints, Async!At
  <2>2. CASE cps[reqs[r].src] # None
    <3>1. PICK at : /\ Async!Goes(r, at)
                    /\ at = IF reqs[r].at = "removed" THEN "cp_removed" ELSE "cp_moved"
      BY <1>5, <2>2 DEF Async!ListCheckpoints
    <3>2. /\ reqs[r].at # "idle" /\ at # "moving"
          /\ at \in Renaming => reqs[r].at \in Renaming
          /\ at \notin Deleting /\ at \notin {"measuring", "reading", "read"}
          /\ reqs[r].at \in Removing => at \in Removing
          /\ reqs[r].at \in Renaming => at \in Renaming
      BY <2>1, <3>1 DEF Renaming, Removing, Deleting
    <3> QED BY <1>1, <3>1, <3>2, GoesOn
  <2>3. CASE cps[reqs[r].src] = None
    <3>1. PICK code : Async!Ends(r, code)
      BY <1>5, <2>3 DEF Async!ListCheckpoints
    <3>2. reqs[r].at \in Removing => reqs[r].p = reqs[r].src
      <4>1. reqs[r].at = "removed" => reqs[r].at \in Deleting
        BY DEF Deleting
      <4> QED BY <2>1, <4>1, ActiveHolds DEF WellNamed, Removing
    <3>3. reqs[r].at # "idle"
      BY <2>1
    <3> QED BY <1>1, <2>3, <3>1, <3>2, <3>3, Ending
  <2> QED BY <2>2, <2>3
<1>6. CASE Async!DeleteCheckpoint(r)
  <2>1. reqs[r].at = "cp_removed"
    BY <1>6 DEF Async!DeleteCheckpoint, Async!At
  <2>2. CASE cps[reqs[r].p] = None
    <3>1. PICK code : Async!Ends(r, code)
      BY <1>6, <2>2 DEF Async!DeleteCheckpoint
    <3> QED BY <1>1, <2>1, <2>2, <3>1, Ending DEF Renaming
  <2>3. CASE cps[reqs[r].p] # None
    <3>1. Async!Goes(r, "unlinking")
      BY <1>6, <2>3 DEF Async!DeleteCheckpoint
    <3> QED BY <1>1, <2>1, <3>1, GoesOn DEF Renaming, Deleting, Removing
  <2> QED BY <2>2, <2>3
<1>7. CASE Async!RenameCheckpoint(r)
  <2>1. reqs[r].at \in Renaming /\ reqs[r].at # "idle" /\ reqs[r].at \notin Removing
    BY <1>7 DEF Async!RenameCheckpoint, Async!At, Renaming, Removing
  <2>2. CASE cps[reqs[r].src] = None /\ Async!Ends(r, 500)
    BY <1>1, <2>1, <2>2, Ending
  <2>3. CASE Async!Goes(r, IF cps[reqs[r].src] = None THEN "renamed" ELSE "cp_moving")
    <3>1. PICK at : /\ Async!Goes(r, at)
                    /\ at = IF cps[reqs[r].src] = None THEN "renamed" ELSE "cp_moving"
      BY <2>3
    <3>2. /\ at # "moving" /\ at \notin Deleting /\ at \notin {"measuring", "reading", "read"}
          /\ cps[reqs[r].src] = None \/ at \in Renaming
      BY <3>1 DEF Renaming, Deleting
    <3> QED BY <1>1, <2>1, <3>1, <3>2, GoesOn
  <2> QED BY <1>7, <2>2, <2>3 DEF Async!RenameCheckpoint
<1> QED BY <1>2, <1>3, <1>4, <1>5, <1>6, <1>7

-----------------------------------------------------------------------------
(* Steps that write.                                                       *)
LEMMA CallReturns ==
  ASSUME ContentsAssumption, Inv, History, NEW r \in Requests,
         reqs[r].at # "idle", reqs[r].at \notin Removing \cup Renaming,
         \/ \E code : Async!Ends(r, code)
         \/ \E at \in {"saved", "wrote", "statting"} : Async!Goes(r, at),
         DOMAIN tree' = Paths, DOMAIN cps' = Paths,
         \A x \in Paths : Kept(x) \/ (Under(reqs[r].own.claim, x) /\ Async!file_exists(tree', x))
  PROVE  Fine(r)
<1>1. /\ Holds(r, reqs[r].own.claim) /\ WellClaimed(reqs[r])
      /\ reqs[r].own.claim \in SUBSET Places
  BY ActiveHolds
<1>2. DOMAIN reqs[r] = ReqFields
  BY DEF Inv, Shape
<1> HIDE DEF Inv
<1>3. CASE \E code : Async!Ends(r, code)
  <2>1. PICK q : q = Async!Idle
    OBVIOUS
  <2>2. DOMAIN q = ReqFields /\ q.at = "idle" /\ reqs' = [reqs EXCEPT ![r] = q]
    BY <1>3, <2>1, IdleRecord DEF Async!Ends
  <2> QED BY <1>1, <2>2, Writes
<1>4. ASSUME NEW at \in {"saved", "wrote", "statting"}, Async!Goes(r, at) PROVE Fine(r)
  <2>1. PICK q : q = [reqs[r] EXCEPT !.at = at]
    OBVIOUS
  <2>2. /\ DOMAIN q = ReqFields /\ q.at = at /\ q.own = reqs[r].own /\ q.p = reqs[r].p
        /\ q.src = reqs[r].src
    BY <1>2, <2>1 DEF ReqFields
  <2>3. WellClaimed(q) /\ WellNamed(q)
    BY <1>1, <2>2 DEF WellClaimed, WellNamed, Renaming, Deleting, Copies
  <2>4. WellStaged(q)'
    BY <2>2 DEF WellStaged, Renaming
  <2>5. reqs' = [reqs EXCEPT ![r] = q]
    BY <1>4, <2>1 DEF Async!Goes
  <2>6. Suits(r, q, reqs[r].own.claim)
    BY <2>2, <2>3 DEF Suits, Keeps
  <2> QED BY <1>1, <2>2, <2>4, <2>5, <2>6, Writes
<1> QED BY <1>3, <1>4

(* A file that is written backs its checkpoint.                            *)
LEMMA FileWritten ==
  ASSUME ContentsAssumption, Shape, NEW p, NEW data,
         tree' = tree \/ tree' = [tree EXCEPT ![p] = Async!File(data)], UNCHANGED cps
  PROVE  DOMAIN tree' = Paths /\ DOMAIN cps' = Paths /\ \A x \in Paths : Kept(x)
<1>1. DOMAIN tree = Paths /\ DOMAIN cps = Paths
  BY DEF Shape
<1>2. ASSUME NEW x \in Paths PROVE Kept(x)
  <2>1. tree'[x] = tree[x] \/ tree'[x].kind = "file"
    BY <1>1 DEF Async!File, Async!Entry
  <2> QED BY <2>1, FileMeans DEF Kept
<1> QED BY <1>1, <1>2

LEMMA WritingSteps ==
  ASSUME ContentsAssumption, Inv, History, NEW r \in Requests,
         \/ Async!Mkdir(r) \/ Async!Wrote(r) \/ Async!Appended(r)
         \/ Async!Checkpointed(r) \/ Async!Restored(r)
  PROVE  Fine(r)
<1>1. /\ reqs[r].at # "idle" /\ reqs[r].at \notin Removing \cup Renaming
  BY DEF Async!Mkdir, Async!Wrote, Async!Appended, Async!Checkpointed, Async!Restored, Async!At,
         Removing, Renaming
<1>2. /\ WellClaimed(reqs[r]) /\ Holds(r, reqs[r].own.claim)
      /\ reqs[r].own.claim \in SUBSET Places /\ reqs[r].p \in reqs[r].own.claim
  BY <1>1, ActiveHolds DEF WellClaimed
<1>3. Shape
  BY DEF Inv
<1>4. CASE Async!Mkdir(r)
  <2>1. \/ \E code : Async!Ends(r, code)
        \/ \E at \in {"saved", "wrote", "statting"} : Async!Goes(r, at)
    BY <1>4 DEF Async!Mkdir
  <2>2. CASE tree' = tree
    <3>1. \A x \in Paths : Kept(x)
      BY <1>4, <2>2 DEF Kept, Async!Mkdir
    <3>2. DOMAIN tree' = Paths /\ DOMAIN cps' = Paths
      BY <1>3, <1>4, <2>2 DEF Async!Mkdir, Shape
    <3> QED BY <1>1, <2>1, <3>1, <3>2, CallReturns
  <2>3. CASE ~Async!exists(tree, reqs[r].p) /\ tree' = [tree EXCEPT ![reqs[r].p] = Async!Dir]
    <3>1. UNCHANGED cps
      BY <1>4 DEF Async!Mkdir
    <3>2. \A x \in Paths : Kept(x)
      <4> SUFFICES ASSUME NEW x \in Paths PROVE Kept(x)
        OBVIOUS
      <4>1. CASE x = reqs[r].p
        <5>1. ~Async!file_exists(tree, x)
          BY <2>3, <4>1 DEF Async!exists, Async!file_exists
        <5> QED BY <3>1, <5>1 DEF Kept
      <4>2. CASE x # reqs[r].p
        <5>1. tree'[x] = tree[x]
          BY <1>3, <2>3, <4>2 DEF Shape
        <5> QED BY <3>1, <5>1, FileMeans DEF Kept
      <4> QED BY <4>1, <4>2
    <3>3. DOMAIN tree' = Paths /\ DOMAIN cps' = Paths
      BY <1>3, <2>3, <3>1 DEF Shape
    <3> QED BY <1>1, <2>1, <3>2, <3>3, CallReturns
  <2> QED BY <1>4, <2>2, <2>3 DEF Async!Mkdir
<1>5. CASE Async!Wrote(r) \/ Async!Appended(r)
  <2>1. PICK p, data : tree' = tree \/ tree' = [tree EXCEPT ![p] = Async!File(data)]
    BY <1>5 DEF Async!Wrote, Async!Appended
  <2>2. UNCHANGED cps /\ \E at \in {"saved", "wrote", "statting"} : Async!Goes(r, at)
    BY <1>5 DEF Async!Wrote, Async!Appended
  <2>3. DOMAIN tree' = Paths /\ DOMAIN cps' = Paths /\ \A x \in Paths : Kept(x)
    BY <1>3, <2>1, <2>2, FileWritten
  <2> QED BY <1>1, <2>2, <2>3, CallReturns
<1>6. CASE Async!Restored(r)
  <2>1. PICK p, data : tree' = tree \/ tree' = [tree EXCEPT ![p] = Async!File(data)]
    BY <1>6 DEF Async!Restored
  <2>2. UNCHANGED cps /\ \E code : Async!Ends(r, code)
    BY <1>6 DEF Async!Restored
  <2>3. DOMAIN tree' = Paths /\ DOMAIN cps' = Paths /\ \A x \in Paths : Kept(x)
    BY <1>3, <2>1, <2>2, FileWritten
  <2> QED BY <1>1, <2>2, <2>3, CallReturns
<1>7. CASE Async!Checkpointed(r)
  <2>1. \/ \E code : Async!Ends(r, code)
        \/ \E at \in {"saved", "wrote", "statting"} : Async!Goes(r, at)
    BY <1>7 DEF Async!Checkpointed
  <2>2. UNCHANGED tree /\ DOMAIN cps' = Paths
    BY <1>3, <1>7 DEF Async!Checkpointed, Shape
  <2>3. ASSUME NEW x \in Paths
        PROVE  Kept(x) \/ (Under(reqs[r].own.claim, x) /\ Async!file_exists(tree', x))
    <3>1. CASE cps'[x] = cps[x]
      BY <2>2, <3>1 DEF Kept
    <3>2. CASE cps'[x] # cps[x]
      <4>1. x = reqs[r].p /\ Async!file_exists(tree, x)
        BY <1>3, <1>7, <3>2 DEF Async!Checkpointed, Shape
      <4>2. Async!Within(x, x)
        BY Sequences, WithinSelf DEF Places
      <4> QED BY <1>2, <2>2, <4>1, <4>2 DEF Under
    <3> QED BY <3>1, <3>2
  <2>4. DOMAIN tree' = Paths
    BY <1>3, <2>2 DEF Shape
  <2> QED BY <1>1, <2>1, <2>2, <2>3, <2>4, CallReturns
<1> QED BY <1>4, <1>5, <1>6, <1>7

-----------------------------------------------------------------------------
(* Steps that remove and move.                                             *)

(* What is under the claim of a request, and is not due, has its file.     *)
LEMMA Covered ==
  ASSUME Inv, NEW r \in Requests, NEW claim \in SUBSET Places, Holds(r, claim),
         Trusted(r, claim),
         NEW x \in Paths, Under(claim, x), ~Due(r, x), cps[x] # None
  PROVE  Async!file_exists(tree, x)
<1>1. CASE reqs[r].at = "idle"
  BY <1>1 DEF Trusted
<1>2. CASE reqs[r].at # "idle"
  <2>1. Backed(r) /\ claim = reqs[r].own.claim
    BY <1>2 DEF Inv, Sound, Trusted, Holds
  <2> QED BY <2>1 DEF Backed
<1> QED BY <1>1, <1>2

(* A path does not begin the one above it.                                 *)
LEMMA NotAbove ==
  ASSUME ContentsAssumption, NEW p \in Paths, NEW x \in Paths, Async!Within(x, Async!Parent(p))
  PROVE  ~Async!Within(p, x)
<1>1. p \in Seq(Names) /\ x \in Seq(Names) /\ p # <<>>
  BY Sequences DEF Places, Async!Root, ContentsAssumption, Async!PathsAssumption
<1>2. Len(p) \in Nat /\ Len(p) # 0
  BY <1>1, EmptySeq
<1>3. Len(Async!Parent(p)) = Len(p) - 1
  <2>1. Len(p) - 1 \in Int /\ 1 \in Int /\ \A i \in 1 .. Len(p) - 1 : p[i] \in Names
    BY <1>1, <1>2
  <2>2. Len(SubSeq(p, 1, Len(p) - 1)) = IF 1 <= Len(p) - 1 THEN Len(p) - 1 - 1 + 1 ELSE 0
    BY <2>1, SubSeqProperties
  <2>3. PICK n \in Nat : n = Len(p)
    BY <1>2
  <2>4. n # 0 /\ Len(Async!Parent(p)) = IF 1 <= n - 1 THEN n - 1 - 1 + 1 ELSE 0
    BY <1>2, <2>2, <2>3 DEF Async!Parent
  <2>5. Len(Async!Parent(p)) = n - 1
    BY <2>4
  <2> QED BY <2>3, <2>5
<1>4. Len(x) <= Len(p) - 1
  BY <1>3 DEF Async!Within
<1> QED BY <1>1, <1>2, <1>4, WithinMeans

LEMMA UnderSelf ==
  ASSUME NEW claim \in SUBSET Places, NEW p \in claim
  PROVE  \A x \in Places : Async!Within(p, x) => Under(claim, x)
BY DEF Under

(* The open files of the other requests go or move along.                  *)
LEMMA ChangeFiles ==
  ASSUME Shape, NEW r \in Requests, NEW q, DOMAIN q = ReqFields, NEW p, NEW to,
         \/ reqs' = [Async!Renewed(p) EXCEPT ![r] = q]
         \/ reqs' = [Async!Followed(p, to) EXCEPT ![r] = q],
         DOMAIN tree' = Paths, DOMAIN cps' = Paths
  PROVE  reqs'[r] = q /\ OthersStay(r) /\ Shape'
<1>1. DOMAIN reqs = Requests /\ \A s \in Requests : DOMAIN reqs[s] = ReqFields
  BY DEF Shape
<1>2. ASSUME NEW f, f = Async!Renewed(p) \/ f = Async!Followed(p, to)
      PROVE  /\ DOMAIN f = Requests
             /\ \A s \in Requests : \E fd : f[s] = reqs[s] \/ f[s] = [reqs[s] EXCEPT !.fd = fd]
  BY <1>2 DEF Async!Renewed, Async!Followed
<1>3. ASSUME NEW s \in Requests, NEW fd, NEW t, t = [reqs[s] EXCEPT !.fd = fd]
      PROVE  /\ DOMAIN t = ReqFields /\ t.op = reqs[s].op /\ t.at = reqs[s].at /\ t.p = reqs[s].p
             /\ t.src = reqs[s].src /\ t.own = reqs[s].own
  BY <1>1, <1>3 DEF ReqFields
<1>4. PICK f : (f = Async!Renewed(p) \/ f = Async!Followed(p, to)) /\ reqs' = [f EXCEPT ![r] = q]
  OBVIOUS
<1>5. /\ DOMAIN f = Requests
      /\ \A s \in Requests : /\ DOMAIN f[s] = ReqFields /\ f[s].op = reqs[s].op
                             /\ f[s].at = reqs[s].at /\ f[s].p = reqs[s].p
                             /\ f[s].src = reqs[s].src /\ f[s].own = reqs[s].own
  <2>1. DOMAIN f = Requests
    BY <1>2, <1>4
  <2>2. ASSUME NEW s \in Requests
        PROVE  /\ DOMAIN f[s] = ReqFields /\ f[s].op = reqs[s].op /\ f[s].at = reqs[s].at
               /\ f[s].p = reqs[s].p
               /\ f[s].src = reqs[s].src /\ f[s].own = reqs[s].own
    <3>1. PICK fd : f[s] = reqs[s] \/ f[s] = [reqs[s] EXCEPT !.fd = fd]
      BY <1>2, <1>4
    <3>2. CASE f[s] = reqs[s]
      BY <1>1, <3>2
    <3>3. CASE f[s] = [reqs[s] EXCEPT !.fd = fd]
      BY <1>3, <3>3
    <3> QED BY <3>1, <3>2, <3>3
  <2> QED BY <2>1, <2>2
<1>6. DOMAIN reqs' = Requests /\ reqs'[r] = q /\ \A s \in Requests \ {r} : reqs'[s] = f[s]
  BY <1>4, <1>5
<1> QED BY <1>5, <1>6 DEF OthersStay, Shape

LEMMA Removes ==
  ASSUME ContentsAssumption, Inv, History, NEW r \in Requests, NEW claim \in SUBSET Places,
         Holds(r, claim), reqs[r].at \notin Removing \cup Renaming, NEW p \in claim, Async!Removed(p),
         NEW q, DOMAIN q = ReqFields, WellClaimed(q), Keeps(r, q, claim),
         q.at = "removed", q.p = p, q.src = p, reqs' = [Async!Renewed(p) EXCEPT ![r] = q]
  PROVE  Fine(r)
<1>1. Shape
  BY DEF Inv
<1>2. DOMAIN tree' = Paths /\ DOMAIN cps' = Paths
  BY DEF Async!Removed, Async!Without
<1>3. reqs'[r] = q /\ OthersStay(r) /\ Shape'
  BY <1>1, <1>2, ChangeFiles
<1>4. Keeps(r, reqs'[r], claim) /\ WellClaimed(reqs[r])' /\ WellNamed(reqs[r])' /\ WellStaged(reqs[r])'
  <2>1. WellClaimed(reqs[r])'
    BY <1>3 DEF WellClaimed, Under
  <2>2. WellNamed(reqs[r])' /\ WellStaged(reqs[r])'
    BY <1>3 DEF WellNamed, WellStaged, Renaming, Deleting, Copies
  <2> QED BY <1>3, <2>1, <2>2
<1>5. ASSUME NEW x \in Paths
      PROVE  /\ Under(claim, x) \/ Kept(x)
             /\ cps'[x] = None \/ Due(r, x)' \/ (Kept(x) /\ ~Due(r, x))
  <2>1. CASE ~Async!Within(p, x) /\ x # p
    <3>1. tree'[x] = tree[x] /\ cps'[x] = cps[x]
      BY <2>1 DEF Async!Removed, Async!Without
    <3> QED BY <3>1, FileMeans DEF Kept, Due
  <2>2. CASE x = p
    <3>1. Due(r, x)'
      BY <1>3, <2>2 DEF Due, Removing
    <3>2. Under(claim, x)
      BY <2>2, UnderSelf, WithinSelf, Sequences DEF Places
    <3> QED BY <3>1, <3>2
  <2>3. CASE Async!Within(p, x) /\ x # p
    <3>1. cps'[x] = None
      BY <2>3 DEF Async!Removed, Async!Without
    <3>2. Under(claim, x)
      BY <2>3, UnderSelf DEF Places
    <3> QED BY <3>1, <3>2
  <2> QED BY <2>1, <2>2, <2>3
<1>6. reqs'[r].at # "idle"
  BY <1>3
<1> HIDE DEF Inv
<1> QED BY <1>3, <1>4, <1>5, <1>6, RequestStep

LEMMA RemovingSteps ==
  ASSUME ContentsAssumption, Inv, History, NEW r \in Requests, Async!Remove(r) \/ Async!Unlinked(r)
  PROVE  Fine(r)
<1>1. reqs[r].at # "idle"
  BY DEF Async!Remove, Async!Unlinked, Async!At
<1>2. /\ WellClaimed(reqs[r]) /\ WellNamed(reqs[r]) /\ Holds(r, reqs[r].own.claim)
      /\ reqs[r].own.claim \in SUBSET Places /\ reqs[r].p \in reqs[r].own.claim
  BY <1>1, ActiveHolds DEF WellClaimed
<1>3. Shape
  BY DEF Inv
<1>6. CASE Async!Remove(r) /\ Async!Ends(r, 500) /\ UNCHANGED Async!disk
  <2>1. reqs[r].at \notin Removing /\ reqs[r].at \notin Renaming /\ UNCHANGED <<tree, cps>>
    BY <1>6 DEF Async!Remove, Async!At, Removing, Renaming, Async!disk
  <2> HIDE DEF Inv
  <2> QED BY <1>1, <1>6, <2>1, Ending
<1>4. CASE /\ Async!Remove(r) /\ Async!Removed(reqs[r].p)
           /\ reqs' = [Async!Renewed(reqs[r].p) EXCEPT ![r] = [reqs[r] EXCEPT !.at = "removed"]]
  <2>1. reqs[r].at = "removing" /\ Async!Removed(reqs[r].p)
    BY <1>4 DEF Async!Remove, Async!At
  <2>2. PICK q : q = [reqs[r] EXCEPT !.at = "removed"]
    OBVIOUS
  <2>3. /\ DOMAIN q = ReqFields /\ q.at = "removed" /\ q.own = reqs[r].own /\ q.p = reqs[r].p
        /\ q.src = reqs[r].src
    BY <1>3, <2>2 DEF ReqFields, Shape
  <2>4. WellClaimed(q) /\ q.src = reqs[r].p /\ Keeps(r, q, reqs[r].own.claim)
    BY <1>1, <1>2, <2>1, <2>3 DEF WellClaimed, WellNamed, Deleting, Keeps
  <2>5. reqs' = [Async!Renewed(reqs[r].p) EXCEPT ![r] = q]
    BY <1>4, <2>2
  <2>6. reqs[r].at \notin Removing \cup Renaming
    BY <2>1 DEF Removing, Renaming
  <2> HIDE DEF Inv
  <2> QED BY <1>2, <2>1, <2>3, <2>4, <2>5, <2>6, Removes
<1>5. CASE Async!Unlinked(r)
  <2>1. reqs[r].at = "unlinking" /\ UNCHANGED tree /\ cps' = [cps EXCEPT ![reqs[r].p] = None]
    BY <1>5 DEF Async!Unlinked, Async!At
  <2>2. PICK q : q = Async!Idle
    OBVIOUS
  <2>3. DOMAIN q = ReqFields /\ q.at = "idle" /\ reqs' = [reqs EXCEPT ![r] = q]
    BY <1>5, <2>2, IdleRecord DEF Async!Unlinked, Async!Ends
  <2>4. reqs'[r] = q /\ OthersStay(r) /\ Shape'
    BY <1>3, <2>1, <2>3, Change DEF Shape
  <2>5. ASSUME NEW x \in Paths
        PROVE  /\ Under(reqs[r].own.claim, x) \/ Kept(x)
               /\ cps'[x] = None \/ (Kept(x) /\ ~Due(r, x))
    <3>1. CASE x = reqs[r].p
      <4>1. cps'[x] = None
        BY <1>3, <2>1, <3>1 DEF Shape
      <4>2. Under(reqs[r].own.claim, x)
        BY <1>2, <3>1, UnderSelf, WithinSelf, Sequences DEF Places
      <4> QED BY <4>1, <4>2
    <3>2. CASE x # reqs[r].p
      <4>1. cps'[x] = cps[x]
        BY <1>3, <2>1, <3>2 DEF Shape
      <4>2. ~Due(r, x)
        BY <2>1, <3>2 DEF Due, Renaming
      <4> QED BY <2>1, <4>1, <4>2 DEF Kept
    <3> QED BY <3>1, <3>2
  <2>6. reqs'[r].at = "idle"
    BY <2>3, <2>4
  <2> HIDE DEF Inv
  <2> QED BY <1>1, <1>2, <2>4, <2>5, <2>6, RequestStep
<1> QED BY <1>4, <1>5, <1>6 DEF Async!Remove

LEMMA MovingSteps ==
  ASSUME ContentsAssumption, Inv, History, NEW r \in Requests, Async!Move(r) \/ Async!MoveCheckpoint(r)
  PROVE  Fine(r)
<1> DEFINE p == reqs[r].src
           to == reqs[r].p
           claim == reqs[r].own.claim
<1>1. reqs[r].at = "moving" \/ reqs[r].at = "cp_moving"
  BY DEF Async!Move, Async!MoveCheckpoint, Async!At
<1>2. /\ WellClaimed(reqs[r]) /\ WellNamed(reqs[r]) /\ Holds(r, claim)
      /\ claim \in SUBSET Places /\ to \in claim /\ p \in claim
  BY <1>1, ActiveHolds DEF WellClaimed
<1>3. Shape /\ (Trusted(r, claim) => WellStaged(reqs[r]))
  BY <1>1 DEF Inv, Sound, Trusted
<1>4. p \in Paths /\ to \in Paths
  BY <1>1, <1>2 DEF WellNamed, Renaming
<1>5. Under(claim, p) /\ Under(claim, to)
  BY <1>2, <1>4, UnderSelf, WithinSelf, Sequences DEF Places
<1> HIDE DEF Inv
<1>6. CASE /\ Async!Move(r) /\ Async!CanMove(tree, p, to) /\ tree' = Async!Carried(tree, p, to)
           /\ cps' = [Async!Moved(cps, None, p, to) EXCEPT ![p] = cps[p], ![to] = cps[to]]
           /\ reqs' = [Async!Followed(p, to) EXCEPT ![r] = [reqs[r] EXCEPT !.at = "moved"]]
  <2>1. /\ reqs[r].at = "moving"
        /\ \A x \in Paths : Async!Within(to, x) => Async!Rebased(x, to, p) \in Paths
    BY <1>6 DEF Async!Move, Async!At, Async!Fits
  <2>2. Trusted(r, claim) => cps[to] = None
    BY <1>3, <2>1 DEF WellStaged
  <2>3. \A x \in Paths : ~Due(r, x)
    BY <2>1 DEF Due, Removing, Renaming
  <2>4. PICK q : q = [reqs[r] EXCEPT !.at = "moved"]
    OBVIOUS
  <2>5. DOMAIN q = ReqFields /\ q.at = "moved" /\ q.own = reqs[r].own /\ q.p = to /\ q.src = p
    BY <1>3, <2>4 DEF ReqFields, Shape
  <2>6. DOMAIN tree' = Paths /\ DOMAIN cps' = Paths
    BY <1>6 DEF Async!Moved, Async!Carried, Async!Made
  <2>7. reqs' = [Async!Followed(p, to) EXCEPT ![r] = q]
    BY <1>6, <2>4
  <2>8. reqs'[r] = q /\ OthersStay(r) /\ Shape'
    BY <1>3, <2>5, <2>6, <2>7, ChangeFiles
  <2>9. ASSUME NEW x \in Paths
        PROVE  \/ tree'[x] = Async!Moved(tree, Async!Absent, p, to)[x]
               \/ ~Async!Within(to, x) /\ ~Async!file_exists(tree, x)
    <3>1. CASE Async!Within(x, Async!Parent(to)) /\ ~Async!Blocked(tree, Async!Parent(to))
      <4>1. ~Async!file_exists(tree, x)
        BY <3>1 DEF Async!Blocked
      <4>2. ~Async!Within(to, x)
        BY <1>4, <3>1, NotAbove
      <4> QED BY <4>1, <4>2
    <3>2. CASE ~(Async!Within(x, Async!Parent(to)) /\ ~Async!Blocked(tree, Async!Parent(to)))
      BY <1>6, <3>2 DEF Async!Carried, Async!CanMove, Async!Made
    <3> QED BY <3>1, <3>2
  <2>10. tree'[to] = tree[p]
    <3>1. Async!Within(to, to) /\ Async!Rebased(to, to, p) = p
      BY <1>4, Sequences, WithinSelf, RebasedSelf DEF Places
    <3> QED BY <1>4, <2>9, <3>1 DEF Async!Moved
  <2>11. cps'[to] = cps[to] /\ (cps'[p] = cps[p] \/ cps'[p] = cps[to])
    BY <1>4, <1>6 DEF Async!Moved
  <2>12. WellClaimed(reqs[r])' /\ WellNamed(reqs[r])' /\ Keeps(r, reqs'[r], claim)
    <3>1. WellClaimed(reqs[r])'
      BY <1>2, <2>5, <2>8 DEF WellClaimed, Under
    <3>2. WellNamed(reqs[r])'
      BY <1>4, <2>5, <2>8 DEF WellNamed, Deleting, Copies
    <3> QED BY <1>1, <2>5, <2>8, <3>1, <3>2 DEF Keeps
  <2>13. Trusted(r, claim) => WellStaged(reqs[r])'
    <3> SUFFICES ASSUME Trusted(r, claim), cps'[p] # None PROVE Async!file_exists(tree', to)
      BY <2>5, <2>8 DEF WellStaged, Async!file_exists, Async!Kind
    <3>1. cps[p] # None
      BY <2>2, <2>11
    <3>2. Async!file_exists(tree, p)
      BY <1>2, <1>4, <1>5, <2>3, <3>1, Covered
    <3> QED BY <1>4, <2>10, <3>2, FileMeans
  <2>14. ASSUME NEW x \in Paths
         PROVE  /\ Under(claim, x) \/ Kept(x)
                /\ Trusted(r, claim) =>
                     cps'[x] = None \/ Async!file_exists(tree', x) \/ Due(r, x)' \/ (Kept(x) /\ ~Due(r, x))
    <3>1. CASE x = p
      <4>1. Due(r, x)'
        BY <2>5, <2>8, <3>1 DEF Due, Renaming
      <4> QED BY <1>5, <3>1, <4>1
    <3>2. CASE x = to
      BY <1>5, <2>2, <2>11, <3>2
    <3>3. CASE x # p /\ x # to /\ Async!Within(to, x)
      <4>1. PICK y \in Paths : y = Async!Rebased(x, to, p)
        BY <2>1, <3>3
      <4>2. tree'[x] = tree[y] /\ cps'[x] = cps[y]
        BY <1>6, <2>9, <3>3, <4>1 DEF Async!Moved
      <4>3. Async!Within(p, y)
        BY <1>4, <3>3, <4>1, RebasedWithin, Sequences DEF Places
      <4>4. Under(claim, x) /\ Under(claim, y)
        BY <1>2, <3>3, <4>3, UnderSelf DEF Places
      <4>5. Trusted(r, claim) /\ cps[y] # None => Async!file_exists(tree, y)
        BY <1>2, <2>3, <4>4, Covered
      <4> QED BY <4>2, <4>4, <4>5, FileMeans
    <3>4. CASE x # p /\ x # to /\ ~Async!Within(to, x) /\ Async!Within(p, x)
      <4>1. cps'[x] = None
        BY <1>6, <3>4 DEF Async!Moved
      <4>2. Under(claim, x)
        BY <1>2, <3>4, UnderSelf DEF Places
      <4> QED BY <4>1, <4>2
    <3>5. CASE x # p /\ x # to /\ ~Async!Within(to, x) /\ ~Async!Within(p, x)
      <4>1. cps'[x] = cps[x]
        BY <1>6, <3>5 DEF Async!Moved
      <4>2. tree'[x] = tree[x] \/ ~Async!file_exists(tree, x)
        BY <2>9, <3>5 DEF Async!Moved
      <4> QED BY <2>3, <4>1, <4>2, FileMeans DEF Kept
    <3> QED BY <3>1, <3>2, <3>3, <3>4, <3>5
  <2>15. reqs[r].at # "idle"
    BY <1>1
  <2> HIDE DEF claim, p, to
  <2> QED BY <1>2, <2>8, <2>12, <2>13, <2>14, <2>15, RequestStep
<1>7. CASE Async!Move(r) /\ UNCHANGED Async!disk /\ \E code : Async!Ends(r, code)
  <2>1. UNCHANGED <<tree, cps>> /\ reqs[r].at = "moving"
    BY <1>7 DEF Async!Move, Async!disk, Async!At
  <2>2. reqs[r].at # "idle" /\ reqs[r].at \notin Removing /\ reqs[r].at \notin Renaming
    BY <2>1 DEF Removing, Renaming
  <2> QED BY <1>7, <2>1, <2>2, Ending
<1>8. CASE Async!MoveCheckpoint(r) /\ cps[p] # None
  <2>1. /\ reqs[r].at = "cp_moving" /\ cps[p] # None /\ UNCHANGED tree
        /\ cps' = [cps EXCEPT ![to] = cps[p], ![p] = None]
    BY <1>8 DEF Async!MoveCheckpoint, Async!At
  <2>2. Trusted(r, claim) => Async!file_exists(tree, to)
    BY <1>3, <2>1 DEF WellStaged, Renaming
  <2>3. PICK q : q = [reqs[r] EXCEPT !.at = "renamed"]
    OBVIOUS
  <2>4. DOMAIN q = ReqFields /\ q.at = "renamed" /\ q.own = reqs[r].own /\ q.p = to /\ q.src = p
    BY <1>3, <2>3 DEF ReqFields, Shape
  <2>5. DOMAIN tree' = Paths /\ DOMAIN cps' = Paths
    BY <1>3, <2>1 DEF Shape
  <2>6. reqs' = [reqs EXCEPT ![r] = q]
    BY <1>8, <2>3 DEF Async!MoveCheckpoint, Async!Goes
  <2>7. reqs'[r] = q /\ OthersStay(r) /\ Shape'
    BY <1>3, <2>4, <2>5, <2>6, Change
  <2>8. /\ WellClaimed(reqs[r])' /\ WellNamed(reqs[r])' /\ WellStaged(reqs[r])'
        /\ Keeps(r, reqs'[r], claim)
    <3>1. WellClaimed(reqs[r])'
      BY <1>2, <2>4, <2>7 DEF WellClaimed, Under
    <3>2. WellNamed(reqs[r])' /\ WellStaged(reqs[r])'
      BY <2>4, <2>7 DEF WellNamed, WellStaged, Deleting, Renaming, Copies
    <3> QED BY <1>1, <2>4, <2>7, <3>1, <3>2 DEF Keeps
  <2>9. ASSUME NEW x \in Paths
        PROVE  /\ Under(claim, x) \/ Kept(x)
               /\ Trusted(r, claim) =>
                    cps'[x] = None \/ Async!file_exists(tree', x) \/ (Kept(x) /\ ~Due(r, x))
    <3>1. CASE x = p
      <4>1. cps'[x] = None
        BY <1>3, <1>4, <2>1, <3>1 DEF Shape
      <4> QED BY <1>5, <3>1, <4>1
    <3>2. CASE x = to
      BY <1>5, <2>1, <2>2, <3>2
    <3>3. CASE x # p /\ x # to
      <4>1. cps'[x] = cps[x]
        BY <1>3, <2>1, <3>3 DEF Shape
      <4>2. ~Due(r, x)
        BY <2>1, <3>3 DEF Due, Removing
      <4> QED BY <2>1, <4>1, <4>2 DEF Kept
    <3> QED BY <3>1, <3>2, <3>3
  <2>10. reqs[r].at # "idle"
    BY <1>1
  <2> HIDE DEF claim, p, to
  <2> QED BY <1>2, <2>7, <2>8, <2>9, <2>10, RequestStep
<1>9. CASE Async!MoveCheckpoint(r) /\ cps[p] = None
  <2>1. /\ UNCHANGED <<tree, cps>> /\ Async!Ends(r, 500) /\ reqs[r].at = "cp_moving"
    BY <1>9 DEF Async!MoveCheckpoint, Async!At
  <2>2. reqs[r].at # "idle" /\ reqs[r].at \notin Removing
    BY <2>1 DEF Removing
  <2> QED BY <1>9, <2>1, <2>2, Ending
<1> QED BY <1>6, <1>7, <1>8, <1>9 DEF Async!Move

-----------------------------------------------------------------------------
(* Steps that copy.                                                        *)

(* The name chosen is one of the variants, and free.                       *)
LEMMA NameChosen ==
  ASSUME ContentsAssumption, NEW dir, NEW name \in Names, Async!Free(tree, dir, name) # {}
  PROVE  LET p == Async!increment_filename(dir, name)
         IN \E i \in DOMAIN Variants[name] : p = Async!Variant(dir, name, i) /\ p \in Paths
<1> DEFINE free == Async!Free(tree, dir, name)
<1>1. free \subseteq Nat
  <2>1. Variants[name] \in Seq(Names)
    BY DEF Names, ContentsAssumption, Async!NamesAssumption
  <2>2. DOMAIN Variants[name] \subseteq Nat
    BY <2>1
  <2> QED BY <2>2 DEF Async!Free
<1>2. PICK i \in free : \A j \in free : i <= j
  <2>1. PICK i \in free : \A j \in free : <<j, i>> \notin OpToRel(<, Nat)
    <3>1. IsWellFoundedOn(OpToRel(<, Nat), free)
      BY <1>1, NatLessThanWellFounded, IsWellFoundedOnSubset
    <3> QED BY <3>1, WFMin
  <2>2. \A j \in free : ~(j < i)
    BY <1>1, <2>1 DEF OpToRel
  <2> QED BY <1>1, <2>2
<1>3. (CHOOSE k \in free : \A j \in free : k <= j) \in free
  BY <1>2
<1>4. \A k \in free : k \in DOMAIN Variants[name] /\ Async!Variant(dir, name, k) \in Paths
  BY DEF Async!Free, Async!Variant
<1> QED BY <1>3, <1>4 DEF Async!increment_filename

LEMMA NameOf ==
  ASSUME ContentsAssumption, NEW p \in Paths
  PROVE  Async!Name(p) \in Names
<1>1. p \in Seq(Names) /\ p # <<>>
  BY Sequences DEF Places, Async!Root, ContentsAssumption, Async!PathsAssumption
<1> QED BY <1>1 DEF Async!Name

(* The name that a copy gets in a directory is under its claim.            *)
LEMMA CopyName ==
  ASSUME ContentsAssumption, Inv, NEW r \in Requests, reqs[r].at # "idle", Copies(reqs[r]),
         Async!Free(tree, reqs[r].p, Async!Name(reqs[r].src)) # {}
  PROVE  Async!increment_filename(reqs[r].p, Async!Name(reqs[r].src)) \in Paths \cap reqs[r].own.claim
<1>1. reqs[r].src \in Paths /\ Async!CopyClaim(reqs[r].src, reqs[r].p) \subseteq reqs[r].own.claim
  BY ActiveHolds DEF WellNamed
<1>2. Async!Name(reqs[r].src) \in Names
  BY <1>1, NameOf
<1>3. PICK i \in DOMAIN Variants[Async!Name(reqs[r].src)] :
        LET p == Async!increment_filename(reqs[r].p, Async!Name(reqs[r].src))
        IN p = Async!Variant(reqs[r].p, Async!Name(reqs[r].src), i) /\ p \in Paths
  BY <1>2, NameChosen
<1> QED BY <1>1, <1>3 DEF Async!CopyClaim

LEMMA CopySteps ==
  ASSUME ContentsAssumption, Inv, History, NEW r \in Requests, Async!ChooseCopy(r) \/ Async!CopyTree(r)
  PROVE  Fine(r)
<1> DEFINE claim == reqs[r].own.claim
           name == Async!Name(reqs[r].src)
<1>1. Copies(reqs[r]) /\ reqs[r].at # "idle" /\ reqs[r].at \notin Removing /\ reqs[r].at \notin Renaming
  BY DEF Async!ChooseCopy, Async!CopyTree, Async!At, Copies, Removing, Renaming
<1>2. /\ WellClaimed(reqs[r]) /\ WellNamed(reqs[r]) /\ Holds(r, claim)
      /\ claim \in SUBSET Places /\ reqs[r].p \in claim /\ reqs[r].src \in claim /\ reqs[r].src \in Paths
  BY <1>1, ActiveHolds DEF WellClaimed, WellNamed
<1>3. Shape
  BY DEF Inv
<1>4. Async!dir_exists(tree, reqs[r].p) => Async!increment_filename(reqs[r].p, name) \in Paths \cap claim
  <2>1. Async!dir_exists(tree, reqs[r].p) => Async!Free(tree, reqs[r].p, name) # {}
    BY DEF Async!ChooseCopy, Async!CopyTree
  <2> QED BY <1>1, <2>1, CopyName
<1> HIDE DEF Inv
<1>5. CASE Async!ChooseCopy(r)
  <2> DEFINE p == IF Async!dir_exists(tree, reqs[r].p) 
                  THEN Async!increment_filename(reqs[r].p, name) ELSE reqs[r].p
             there == \/ Async!dir_exists(tree, reqs[r].p)
                      \/ Async!dir_exists(tree, Async!Parent(reqs[r].p))
  <2>1. p \in claim /\ UNCHANGED cps
    BY <1>2, <1>4, <1>5 DEF Async!ChooseCopy
  <2>2. CASE there
    <3>1. PICK q : q = [reqs[r] EXCEPT !.p = p, !.fd = p]
      OBVIOUS
    <3>2. DOMAIN q = ReqFields /\ q.p = p /\ q.src = reqs[r].src /\ q.own = reqs[r].own
      BY <1>3, <3>1 DEF ReqFields, Shape
    <3>3. Async!Begin(r, q)
      BY <1>5, <2>2, <3>1 DEF Async!ChooseCopy
    <3>4. WellClaimed(q) /\ Keeps(r, q, claim)
      BY <1>1, <1>2, <2>1, <3>2 DEF WellClaimed, Keeps
    <3> HIDE DEF claim
    <3> QED BY <1>1, <1>2, <2>1, <3>2, <3>3, <3>4, Begins
  <2>3. CASE ~there
    <3>1. Async!Ends(r, 404) /\ UNCHANGED tree
      BY <1>5, <2>3 DEF Async!ChooseCopy
    <3> QED BY <1>1, <2>1, <3>1, Ending
  <2> QED BY <2>2, <2>3
<1>6. CASE Async!CopyTree(r)
  <2> DEFINE p == IF Async!dir_exists(tree, reqs[r].p) THEN Async!increment_filename(reqs[r].p, name)
                  ELSE Async!Join(reqs[r].p, name)
  <2>1. CASE Async!Blocked(tree, p) \/ ~Async!dir_exists(tree, reqs[r].src)
    <3>1. Async!Ends(r, 400) /\ UNCHANGED <<tree, cps>>
      BY <1>6, <2>1 DEF Async!CopyTree, Async!disk
    <3> QED BY <1>1, <3>1, Ending
  <2>2. CASE ~(Async!Blocked(tree, p) \/ ~Async!dir_exists(tree, reqs[r].src))
    <3>1. /\ p \in Paths /\ Async!Fits(tree, reqs[r].src, p)
          /\ tree' = Async!Made(Async!Copied(tree, reqs[r].src, p), p)
          /\ cps' = [Async!Copied(cps, reqs[r].src, p) EXCEPT ![p] = cps[p]]
          /\ reqs' = [reqs EXCEPT ![r] = Async!Idle]
      BY <1>6, <2>2 DEF Async!CopyTree
    <3>2. PICK q : q = Async!Idle
      OBVIOUS
    <3>3. DOMAIN q = ReqFields /\ q.at = "idle" /\ reqs' = [reqs EXCEPT ![r] = q]
      BY <3>1, <3>2, IdleRecord
    <3>4. DOMAIN tree' = Paths /\ DOMAIN cps' = Paths
      BY <3>1 DEF Async!Made, Async!Copied
    <3>5. reqs'[r] = q /\ OthersStay(r) /\ Shape'
      BY <1>3, <3>3, <3>4, Change
    <3>6. reqs'[r].at = "idle"
      BY <3>3, <3>5
    <3>7. \E c \in claim : Async!Within(c, p)
      <4>1. Async!dir_exists(tree, reqs[r].p) => p \in claim /\ Async!Within(p, p)
        BY <1>4, <3>1, WithinSelf, Sequences DEF Places
      <4>2. ~Async!dir_exists(tree, reqs[r].p) => Async!Within(reqs[r].p, p)
        BY <1>2, NameOf, WithinJoin, Sequences
      <4> QED BY <1>2, <4>1, <4>2
    <3>8. \A x \in Paths : ~Due(r, x)
      BY <1>1 DEF Due
    <3> HIDE DEF p, name
    <3>9. /\ p \in Seq(Names) /\ Async!Within(p, p) /\ Paths \subseteq Seq(Names)
          /\ claim \subseteq Seq(Names)
      BY <1>2, <3>1, WithinSelf, Sequences DEF Places
    <3> HIDE DEF claim
    <3>10. \A x \in Paths : Async!Within(x, p) => ~Async!file_exists(tree, x)
      BY <2>2 DEF Async!Blocked
    <3>11. ASSUME NEW x \in Paths
           PROVE  /\ Under(claim, x) \/ Kept(x)
                  /\ Trusted(r, claim) =>
                       cps'[x] = None \/ Async!file_exists(tree', x) \/ (Kept(x) /\ ~Due(r, x))
      <4>1. CASE x = p
        <5>1. cps'[x] = cps[x]
          BY <3>1, <4>1 DEF Async!Copied
        <5> QED BY <3>8, <3>9, <3>10, <4>1, <5>1 DEF Kept
      <4>2. CASE x # p /\ Async!Within(p, x)
        <5>1. ~Async!Within(x, p)
          BY <3>9, <4>2, WithinBoth
        <5>2. PICK y \in Paths : y = Async!Rebased(x, p, reqs[r].src)
          BY <3>1, <4>2 DEF Async!Fits
        <5>3. tree'[x] = tree[y] /\ cps'[x] = cps[y]
          BY <3>1, <4>2, <5>1, <5>2 DEF Async!Made, Async!Copied
        <5>4. Async!Within(reqs[r].src, y)
          BY <1>2, <3>9, <4>2, <5>2, RebasedWithin
        <5>5. Under(claim, y)
          BY <1>2, <5>4 DEF Under
        <5>6. Under(claim, x)
          BY <3>7, <3>9, <4>2, WithinChain DEF Under
        <5>7. Trusted(r, claim) /\ cps[y] # None => Async!file_exists(tree, y)
          BY <1>2, <3>8, <5>5, Covered
        <5> QED BY <5>3, <5>6, <5>7, FileMeans
      <4>3. CASE x # p /\ ~Async!Within(p, x)
        <5>1. cps'[x] = cps[x]
          BY <3>1, <4>3 DEF Async!Copied
        <5>2. Async!file_exists(tree, x) => tree'[x] = tree[x]
          BY <3>1, <3>10, <4>3 DEF Async!Made, Async!Copied
        <5> QED BY <3>8, <5>1, <5>2, FileMeans DEF Kept
      <4> QED BY <4>1, <4>2, <4>3
    <3> QED BY <1>1, <1>2, <3>5, <3>6, <3>11, RequestStep
  <2> QED BY <2>1, <2>2
<1> QED BY <1>5, <1>6

-----------------------------------------------------------------------------
(* Steps that fail.                                                        *)
LEMMA FailingSteps ==
  ASSUME ContentsAssumption, Inv, History, NEW r \in Requests,
         Async!CallFails(r) \/ Async!CopyTreeFails(r)
  PROVE  Fine(r)
<1>1. reqs[r].at # "idle" /\ Async!Fault
  BY DEF Async!CallFails, Async!CopyTreeFails, Async!Calls, Async!At
<1>2. /\ WellClaimed(reqs[r]) /\ reqs[r].own.claim \in SUBSET Places
      /\ reqs[r].p \in reqs[r].own.claim
  BY <1>1, ActiveHolds DEF WellClaimed
<1>3. DOMAIN tree = Paths /\ DOMAIN cps = Paths
  BY DEF Inv, Shape
<1>4. PICK code \in {400} \cup Async!OSErrors : Async!Ends(r, code)
  BY DEF Async!CallFails, Async!CopyTreeFails
<1> HIDE DEF Inv
<1>5. CASE Async!CallFails(r)
  <2>1. PICK entry, data : /\ tree' = tree \/ tree' = [tree EXCEPT ![reqs[r].p] = entry]
                           /\ cps' = cps \/ cps' = [cps EXCEPT ![reqs[r].p] = data]
    BY <1>5 DEF Async!CallFails
  <2>2. DOMAIN tree' = Paths /\ DOMAIN cps' = Paths
    BY <1>3, <2>1
  <2>3. ASSUME NEW x \in Paths PROVE Under(reqs[r].own.claim, x) \/ Kept(x)
    <3>1. CASE x = reqs[r].p
      BY <1>2, <3>1, UnderSelf, WithinSelf, Sequences DEF Places
    <3>2. CASE x # reqs[r].p
      <4>1. tree'[x] = tree[x] /\ cps'[x] = cps[x]
        BY <1>3, <2>1, <3>2
      <4> QED BY <4>1, FileMeans DEF Kept
    <3> QED BY <3>1, <3>2
  <2> QED BY <1>1, <1>4, <2>2, <2>3, Failing
<1>6. CASE Async!CopyTreeFails(r)
  <2>1. UNCHANGED cps /\ (UNCHANGED tree \/ \E p : ~Async!Blocked(tree, p) /\ tree' = Async!Made(tree, p))
    BY <1>6 DEF Async!CopyTreeFails
  <2>2. DOMAIN tree' = Paths /\ DOMAIN cps' = Paths
    BY <1>3, <2>1 DEF Async!Made
  <2>3. ASSUME NEW x \in Paths PROVE Kept(x)
    <3>1. tree'[x] = tree[x] \/ ~Async!file_exists(tree, x)
      BY <2>1 DEF Async!Made, Async!Blocked
    <3> QED BY <2>1, <3>1, FileMeans DEF Kept
  <2> QED BY <1>1, <1>4, <2>2, <2>3, Failing
<1> QED BY <1>5, <1>6

-----------------------------------------------------------------------------
(* Requests that come.                                                     *)
LEMMA Same ==
  ASSUME Inv, faults' \in Nat, UNCHANGED <<tree, cps, reqs>>, History \/ met' = met
  PROVE  Inv'
<1>1. Shape'
  BY DEF Inv, Shape
<1>2. ASSUME NEW r \in Requests PROVE Sound(r)'
  <2> SUFFICES ASSUME reqs[r].at # "idle" PROVE Sound(r)'
    BY DEF Sound
  <2>1. Sound(r)
    BY DEF Inv
  <2>2. WellClaimed(reqs[r])' /\ WellNamed(reqs[r])'
    BY <2>1 DEF Sound, WellClaimed, WellNamed, Copies, Under
  <2>3. r \notin met' => r \notin met
    BY DEF History, Async!Active
  <2>4. r \notin met' => ClaimAlone(r)'
    BY <2>1, <2>3 DEF Sound, ClaimAlone
  <2>5. ASSUME Good(r)' PROVE WellStaged(reqs[r])' /\ Backed(r)'
    <3>1. Good(r)
      BY <2>3, <2>5 DEF Good, Async!FoundBacked
    <3>2. WellStaged(reqs[r]) /\ Backed(r)
      BY <2>1, <3>1 DEF Sound
    <3>3. WellStaged(reqs[r])'
      BY <3>2 DEF WellStaged, Async!file_exists, Async!Kind
    <3>4. Backed(r)'
      BY <3>2 DEF Backed, Under, Due, Async!file_exists, Async!Kind
    <3> QED BY <3>3, <3>4
  <2> QED BY <2>2, <2>4, <2>5 DEF Sound
<1> QED BY <1>1, <1>2 DEF Inv

LEMMA Refusals ==
  ASSUME Inv, History, UNCHANGED <<tree, cps, reqs>>, NEW r \in Requests
  PROVE  Fine(r)
<1>1. Inv'
  BY Same DEF History
<1> QED BY <1>1 DEF Fine, OthersStay, Leaves, Async!Ended, Async!At

LEMMA Refusing ==
  ASSUME Inv, History, NEW op, NEW p, NEW code, Async!Refuses(op, p, code), NEW r \in Requests
  PROVE  Fine(r)
BY Refusals DEF Async!Refuses, Async!disk

LEMMA SaveStarts ==
  ASSUME ContentsAssumption, Inv, History, NEW r \in Requests, NEW kind, NEW op, NEW p \in Places,
         NEW type, NEW data, Async!Comes(r, kind, {p}),
         Async!Begin(r, Async!Req(op, "new", p, p, type, data, {p})), UNCHANGED cps
  PROVE  Fine(r)
<1>1. PICK q : /\ q = Async!Req(op, "new", p, p, type, data, {p})
               /\ DOMAIN q = ReqFields /\ q.own = Async!Own({p}) /\ WellClaimed(q)
  BY NewRecord
<1>2. Holds(r, {p}) /\ reqs[r].at = "idle" /\ {p} \in SUBSET Places
  BY ComesIdle
<1>3. reqs[r].at \notin Removing \cup Renaming
  BY <1>2 DEF Removing, Renaming
<1>4. Async!Begin(r, q) /\ Keeps(r, q, {p})
  BY <1>1, <1>2 DEF Keeps
<1> QED BY <1>1, <1>2, <1>3, <1>4, Begins

LEMMA NewSaves ==
  ASSUME ContentsAssumption, Inv, History, NEW r \in Requests,
         NEW p \in Places, NEW type, NEW v, Async!StartSave(r, type, p, v)
  PROVE  Fine(r)
<1>1. CASE Async!Refused(p)
  BY <1>1, Refusing DEF Async!StartSave
<1>2. CASE ~Async!Refused(p)
  <2>1. /\ Async!Comes(r, "save", {p}) /\ UNCHANGED cps
        /\ Async!Begin(r, Async!Req("save", "new", p, p, type, <<v>>, {p}))
    BY <1>2 DEF Async!StartSave
  <2> HIDE DEF Inv
  <2> QED BY <2>1, SaveStarts
<1> QED BY <1>1, <1>2

LEMMA NewUntitled ==
  ASSUME ContentsAssumption, Inv, History, NEW r \in Requests,
         NEW dir \in Places, NEW type \in DOMAIN Untitled, NEW v, Async!StartNew(r, dir, type, v)
  PROVE  Fine(r)
<1>1. CASE ~Async!dir_exists(tree, dir)
  BY <1>1, Refusing DEF Async!StartNew
<1>2. CASE Async!dir_exists(tree, dir)
  <2>1. Untitled[type] \in Names /\ Async!Free(tree, dir, Untitled[type]) # {}
    BY <1>2 DEF Async!StartNew, Names, ContentsAssumption, Async!NamesAssumption
  <2>2. PICK p : p = Async!increment_filename(dir, Untitled[type])
    OBVIOUS
  <2>3. p \in Places
    BY <2>1, <2>2, NameChosen DEF Places
  <2>4. /\ Async!Comes(r, "new", {p}) /\ UNCHANGED cps
        /\ Async!Begin(r, Async!Req("new", "new", p, p, type, <<v>>, {p}))
    BY <1>2, <2>2 DEF Async!StartNew
  <2> QED BY <2>3, <2>4, SaveStarts
<1> QED BY <1>1, <1>2

LEMMA NewChunks ==
  ASSUME ContentsAssumption, Inv, History, NEW r \in Requests,
         NEW p \in Places, NEW chunk, NEW v, Async!StartChunk(r, p, chunk, v)
  PROVE  Fine(r)
<1>1. CASE Async!Refused(p)
  BY <1>1, Refusing DEF Async!StartChunk
<1>2. CASE /\ ~Async!Refused(p)
           /\ Async!Begin(r, Async!Req(Async!Piece(chunk), "new", p, p, "file", <<v>>, {p}))
  <2>1. Async!Comes(r, "chunk", {p}) /\ UNCHANGED cps
    BY <1>2 DEF Async!StartChunk
  <2> QED BY <1>2, <2>1, SaveStarts
<1>3. CASE /\ Async!CanSave(tree, "file", p)
           /\ tree' = [tree EXCEPT ![p] = Async!Unsaved(tree, p)]
           /\ reqs' = [reqs EXCEPT ![r] = Async!Req("append", "appending", p, p, "file", <<v>>, {p})]
           /\ Async!Comes(r, "chunk", {p}) /\ UNCHANGED cps
  <2>1. PICK q : /\ q = Async!Req("append", "appending", p, p, "file", <<v>>, {p})
                 /\ DOMAIN q = ReqFields /\ q.at = "appending" /\ q.own = Async!Own({p}) /\ WellClaimed(q)
    BY NewRecord
  <2>2. Holds(r, {p}) /\ reqs[r].at = "idle" /\ {p} \in SUBSET Places
    BY <1>3, ComesIdle
  <2>3. reqs[r].at \notin Removing \cup Renaming
    BY <2>2 DEF Removing, Renaming
  <2>4. DOMAIN tree = Paths /\ DOMAIN cps = Paths
    BY DEF Inv, Shape
  <2>5. DOMAIN tree' = Paths /\ DOMAIN cps' = Paths
    BY <1>3, <2>4
  <2>6. WellStaged(q)' /\ Suits(r, q, {p})
    BY <2>1, <2>2 DEF WellStaged, WellNamed, Suits, Keeps, Renaming, Deleting, Copies
  <2>7. ASSUME NEW x \in Paths PROVE Kept(x)
    <3>1. tree'[x] = tree[x] \/ tree'[x].kind = "file"
      BY <1>3, <2>4 DEF Async!Unsaved, Async!File, Async!Entry
    <3> QED BY <1>3, <3>1, FileMeans DEF Kept
  <2>8. reqs' = [reqs EXCEPT ![r] = q]
    BY <1>3, <2>1
  <2> HIDE DEF Inv
  <2> QED BY <1>3, <2>1, <2>2, <2>3, <2>5, <2>6, <2>7, <2>8, Writes
<1> QED BY <1>1, <1>2, <1>3 DEF Async!StartChunk

LEMMA NewReads ==
  ASSUME ContentsAssumption, Inv, History, NEW r \in Requests,
         NEW p \in Places, Async!StartGet(r, p) \/ Async!StartList(r, p)
  PROVE  Fine(r)
<1>1. {p} \in SUBSET Places /\ p \in {p}
  OBVIOUS
<1>2. CASE Async!StartGet(r, p) /\ (Async!Refused(p) \/ ~Async!exists(tree, p))
  BY <1>2, Refusing DEF Async!StartGet
<1>3. CASE Async!StartGet(r, p) /\ ~(Async!Refused(p) \/ ~Async!exists(tree, p))
  <2>1. /\ Async!Comes(r, "get", {p}) /\ UNCHANGED <<tree, cps>>
        /\ reqs' = [reqs EXCEPT ![r] = Async!Req("get", "reading", p, p, Async!TypeOf(p), <<>>, {p})]
    BY <1>3 DEF Async!StartGet, Async!disk
  <2>2. "reading" \notin Renaming /\ "reading" \notin Deleting
    BY DEF Renaming, Deleting
  <2> HIDE DEF Inv
  <2> QED BY <1>1, <2>1, <2>2, Starts
<1>4. CASE Async!StartList(r, p)
  <2>1. /\ Async!Comes(r, "list", {p}) /\ UNCHANGED <<tree, cps>>
        /\ reqs' = [reqs EXCEPT ![r] = Async!Req("get", "listdir", p, p, "directory", {}, {p})]
    BY <1>4 DEF Async!StartList, Async!disk
  <2>2. "listdir" \notin Renaming /\ "listdir" \notin Deleting
    BY DEF Renaming, Deleting
  <2> HIDE DEF Inv
  <2> QED BY <1>1, <2>1, <2>2, Starts
<1> QED BY <1>2, <1>3, <1>4

LEMMA NewCopies ==
  ASSUME ContentsAssumption, Inv, History, NEW r \in Requests,
         NEW src \in Places, NEW to \in Places, src # Async!Root, Async!StartCopy(r, src, to)
  PROVE  Fine(r)
<1> DEFINE claim == Async!CopyClaim(src, to)
<1>1. claim \in SUBSET Places /\ src \in claim /\ to \in claim /\ src \in Paths
  BY DEF Async!CopyClaim, Places
<1>2. CASE \/ Async!file_exists(tree, to) \/ Async!Refused(to)
           \/ Async!Refused(src) \/ ~Async!exists(tree, src)
  BY <1>2, Refusing DEF Async!StartCopy
<1>3. CASE ~(\/ Async!file_exists(tree, to) \/ Async!Refused(to)
             \/ Async!Refused(src) \/ ~Async!exists(tree, src))
  <2>1. PICK at \in {"measuring", "reading"} :
          reqs' = [reqs EXCEPT ![r] = Async!Req("copy", at, src, to, Async!TypeOf(src), <<>>, claim)]
    BY <1>3 DEF Async!StartCopy
  <2>2. Async!Comes(r, "copy", claim) /\ UNCHANGED <<tree, cps>>
    BY <1>3 DEF Async!StartCopy, Async!disk
  <2>3. at \notin Renaming /\ at \notin Deleting /\ at # "moving"
    BY DEF Renaming, Deleting
  <2>4. Async!CopyClaim(src, to) \subseteq claim
    OBVIOUS
  <2> HIDE DEF claim, Inv
  <2> QED BY <1>1, <2>1, <2>2, <2>3, <2>4, Starts
<1> QED BY <1>2, <1>3

LEMMA NewDeletes ==
  ASSUME ContentsAssumption, Inv, History, NEW r \in Requests,
         NEW p \in Places, Async!StartDelete(r, p)
  PROVE  Fine(r)
<1>1. CASE Async!Refused(p) \/ p = Async!Root \/ ~Async!exists(tree, p)
  BY <1>1, Refusing DEF Async!StartDelete
<1>2. CASE ~(Async!Refused(p) \/ p = Async!Root \/ ~Async!exists(tree, p))
  <2>1. PICK new : /\ new = Async!Req("delete", "removing", p, p,
                             IF Async!dir_exists(tree, p) THEN "directory" ELSE "file", <<>>, {p})
                   /\ DOMAIN new = ReqFields /\ new.at = "removing" /\ new.p = p /\ new.src = p
                   /\ new.own = Async!Own({p}) /\ WellClaimed(new)
    BY NewRecord
  <2>2. Async!Comes(r, "delete", {p}) /\ UNCHANGED faults
    BY <1>2 DEF Async!StartDelete
  <2>3. Holds(r, {p}) /\ reqs[r].at = "idle" /\ {p} \in SUBSET Places
    BY <2>2, ComesIdle
  <2>4. reqs[r].at \notin Removing \cup Renaming
    BY <2>3 DEF Removing, Renaming
  <2>5. ASSUME NEW at, NEW q, q = [new EXCEPT !.at = at]
        PROVE  /\ DOMAIN q = ReqFields /\ q.at = at /\ q.p = p /\ q.src = p
               /\ q.own = Async!Own({p}) /\ WellClaimed(q)
    <3>1. DOMAIN q = ReqFields /\ q.at = at /\ q.p = p /\ q.src = p /\ q.own = new.own
      BY <2>1, <2>5 DEF ReqFields
    <3> QED BY <2>1, <3>1 DEF WellClaimed
  <2>6. CASE conf.trash
    <3>1. /\ Async!Removed(p)
          /\ reqs' = [Async!Renewed(p) EXCEPT ![r] = [new EXCEPT !.at = "removed"]]
      BY <1>2, <2>1, <2>6 DEF Async!StartDelete
    <3>2. PICK q : q = [new EXCEPT !.at = "removed"]
      OBVIOUS
    <3>3. /\ DOMAIN q = ReqFields /\ q.at = "removed" /\ q.p = p /\ q.src = p
          /\ q.own = Async!Own({p}) /\ WellClaimed(q)
      BY <2>5, <3>2
    <3>4. reqs' = [Async!Renewed(p) EXCEPT ![r] = q] /\ Keeps(r, q, {p})
      BY <2>3, <3>1, <3>2, <3>3 DEF Keeps
    <3> HIDE DEF Inv
    <3> QED BY <2>2, <2>3, <2>4, <3>1, <3>3, <3>4, Removes
  <2>7. CASE ~conf.trash
    <3>1. /\ UNCHANGED <<tree, cps>>
          /\ reqs' = [reqs EXCEPT ![r] =
                IF Async!dir_exists(tree, p) /\ ~conf.force THEN [new EXCEPT !.at = "looking"] ELSE new]
      BY <1>2, <2>1, <2>7 DEF Async!StartDelete, Async!disk
    <3>2. PICK q : /\ q = new \/ q = [new EXCEPT !.at = "looking"]
                   /\ reqs' = [reqs EXCEPT ![r] = q]
      BY <3>1
    <3>3. /\ DOMAIN q = ReqFields /\ q.at \in {"looking", "removing"} /\ q.p = p /\ q.src = p
          /\ q.own = Async!Own({p}) /\ WellClaimed(q)
      <4>1. CASE q = new
        BY <2>1, <4>1
      <4>2. CASE q = [new EXCEPT !.at = "looking"]
        BY <2>5, <4>2
      <4> QED BY <3>2, <4>1, <4>2
    <3>4. WellStaged(q)' /\ Suits(r, q, {p})
      BY <2>3, <3>3 DEF WellStaged, WellNamed, Suits, Keeps, Renaming, Deleting, Copies
    <3>5. \A x \in Paths : Kept(x)
      BY <3>1 DEF Kept
    <3>6. DOMAIN tree' = Paths /\ DOMAIN cps' = Paths
      BY <3>1 DEF Inv, Shape
    <3> HIDE DEF Inv
    <3> QED BY <2>2, <2>3, <2>4, <3>2, <3>3, <3>4, <3>5, <3>6, Writes
  <2> QED BY <2>6, <2>7
<1> QED BY <1>1, <1>2

LEMMA NewRenames ==
  ASSUME ContentsAssumption, Inv, History, NEW r \in Requests,
         NEW p \in Places, NEW to \in Places, Async!StartRename(r, p, to)
  PROVE  Fine(r)
<1> DEFINE claim == Async!RenameClaim(p, to)
<1>1. CASE Async!Refused(p) \/ Async!Refused(to) \/ Async!exists(tree, to)
  BY <1>1, Refusing DEF Async!StartRename
<1>2. CASE ~(Async!Refused(p) \/ Async!Refused(to) \/ Async!exists(tree, to))
  <2>1. /\ ~Async!Related(p, to) /\ Async!Comes(r, "rename", claim)
        /\ reqs' = [reqs EXCEPT ![r] = Async!Req("rename", "moving", p, to, "file", <<>>, claim)]
        /\ UNCHANGED <<tree, cps>>
    BY <1>2 DEF Async!StartRename, Async!disk
  <2>2. p \in Paths /\ to \in Paths
    <3>1. Async!Within(Async!Root, p) /\ Async!Within(Async!Root, to)
      BY Sequences, WithinRoot
    <3> QED BY <2>1, <3>1 DEF Async!Related, Places
  <2>3. claim \in SUBSET Places /\ p \in claim /\ to \in claim
    BY DEF Async!RenameClaim, Places
  <2> HIDE DEF claim
  <2>4. Holds(r, claim) /\ reqs[r].at = "idle"
    BY <2>1, ComesIdle
  <2>5. reqs[r].at \notin Removing \cup Renaming
    BY <2>4 DEF Removing, Renaming
  <2>6. Trusted(r, claim) => cps[to] = None
    <3>1. Under(claim, to) /\ ~Due(r, to)
      BY <2>2, <2>3, <2>5, UnderSelf, WithinSelf, Sequences DEF Due
    <3>2. ~Async!file_exists(tree, to)
      BY <1>2 DEF Async!exists, Async!file_exists
    <3> HIDE DEF Inv
    <3> QED BY <2>2, <2>3, <2>4, <3>1, <3>2, Covered
  <2>7. PICK q : /\ q = Async!Req("rename", "moving", p, to, "file", <<>>, claim)
                 /\ DOMAIN q = ReqFields /\ q.at = "moving" /\ q.p = to /\ q.src = p
                 /\ q.own = Async!Own(claim) /\ WellClaimed(q)
    BY <2>3, NewRecord
  <2>8. Trusted(r, claim) => WellStaged(q)'
    BY <2>1, <2>6, <2>7 DEF WellStaged, Renaming
  <2>9. Suits(r, q, claim)
    BY <2>2, <2>4, <2>7 DEF Suits, Keeps, WellNamed, Renaming, Deleting, Copies
  <2>10. reqs' = [reqs EXCEPT ![r] = q]
    BY <2>1, <2>7
  <2>11. \A x \in Paths : Kept(x)
    BY <2>1 DEF Kept
  <2>12. DOMAIN tree' = Paths /\ DOMAIN cps' = Paths
    BY <2>1 DEF Inv, Shape
  <2> HIDE DEF Inv
  <2> QED BY <2>3, <2>4, <2>5, <2>7, <2>8, <2>9, <2>10, <2>11, <2>12, Writes
<1> QED BY <1>1, <1>2

LEMMA NewCheckpoints ==
  ASSUME ContentsAssumption, Inv, History, NEW r \in Requests,
         NEW p \in Places,
         Async!StartCheckpoint(r, p) \/ Async!StartRestore(r, p) \/ Async!StartUncheckpoint(r, p)
  PROVE  Fine(r)
<1>1. CASE \E op, code : Async!Refuses(op, p, code)
  BY <1>1, Refusing
<1>2. CASE ~\E op, code : Async!Refuses(op, p, code)
  <2>1. PICK op \in {"checkpoint", "restore", "uncheckpoint"},
             at \in {"checkpointing", "restoring", "unlinking"} :
          /\ Async!Comes(r, op, {p}) /\ UNCHANGED <<tree, cps>>
          /\ reqs' = [reqs EXCEPT ![r] = Async!Req(op, at, p, p, "file", <<>>, {p})]
    BY <1>2 DEF Async!StartCheckpoint, Async!StartRestore, Async!StartUncheckpoint, Async!disk
  <2>2. /\ at \notin Renaming /\ at # "moving" /\ at \notin Deleting
        /\ {p} \in SUBSET Places /\ p \in {p}
        /\ at \notin {"measuring", "reading", "read"}
    BY DEF Renaming, Deleting
  <2> HIDE DEF Inv
  <2> QED BY <2>1, <2>2, Starts
<1> QED BY <1>1, <1>2

-----------------------------------------------------------------------------
(* Every step keeps the history, and counts the failures.                  *)
LEMMA Remembers ==
  ASSUME Inv, Async!Next
  PROVE  History
<1>1. faults \in Nat
  BY DEF Inv
<1>2. faults' = faults \/ Async!Fault
  <2>1. ASSUME NEW r \in Requests, Async!Arrive(r) PROVE UNCHANGED faults
    BY <2>1 DEF Async!Arrive, Async!StartGet, Async!StartList, Async!StartSave, Async!StartNew,
                Async!StartChunk, Async!StartCopy, Async!StartDelete,
                Async!StartRename, Async!StartCheckpoint, Async!StartRestore,
                Async!StartUncheckpoint, Async!Refuses
  <2>2. ASSUME NEW r \in Requests, Async!Proceed(r) PROVE faults' = faults \/ Async!Fault
    BY <2>2 DEF Async!Proceed, Async!Read, Async!FinishGet, Async!Listed, Async!StatEntry,
                Async!GetEntry, Async!FinishList, Async!Mkdir, Async!Wrote,
                Async!AfterWrite, Async!FinishSave, Async!Appended, Async!ChooseCopy,
                Async!CopyTree, Async!CopyTreeFails, Async!LookedInside,
                Async!Remove, Async!ListCheckpoints, Async!DeleteCheckpoint, Async!Unlinked,
                Async!Move, Async!RenameCheckpoint,
                Async!MoveCheckpoint, Async!FinishRename, Async!Checkpointed,
                Async!FinishCheckpoint, Async!Restored, Async!CallFails
  <2>3. ASSUME NEW p, \/ Async!TrashFails(p) \/ \E op : Async!HookRefuses(op, p) PROVE Async!Fault
    BY <2>3 DEF Async!TrashFails, Async!HookRefuses
  <2> QED BY <2>1, <2>2, <2>3 DEF Async!Next
<1>3. faults' \in Nat
  BY <1>1, <1>2 DEF Async!Fault
<1> HIDE DEF Inv
<1> QED BY <1>3 DEF Async!Next, History

LEMMA Arrivals ==
  ASSUME ContentsAssumption, Inv, History, NEW r \in Requests, Async!Arrive(r)
  PROVE  Fine(r)
<1> HIDE DEF Inv
<1>1. \A op \in {"get", "list", "save", "new", "chunk", "copy", "delete", "rename", "checkpoint"} :
        Targets[op] \subseteq Places
  BY DEF Places, ContentsAssumption, Async!TargetsAssumption
<1>2. CASE \E p \in Targets["get"] : Async!StartGet(r, p)
  BY <1>1, <1>2, NewReads
<1>3. CASE \E p \in Targets["list"] : Async!StartList(r, p)
  BY <1>1, <1>3, NewReads
<1>4. CASE \E p \in Targets["save"], v \in Values :
             \E type \in SaveTypes[p] : Async!StartSave(r, type, p, v)
  BY <1>1, <1>4, NewSaves
<1>5. CASE \E dir \in Targets["new"], type \in DOMAIN Untitled, v \in Values :
             Async!StartNew(r, dir, type, v)
  BY <1>1, <1>5, NewUntitled
<1>6. CASE \E p \in Targets["chunk"], chunk \in 1 .. MaxChunks, v \in Values :
             Async!StartChunk(r, p, chunk, v)
  BY <1>1, <1>6, NewChunks
<1>7. CASE \E src, to \in Targets["copy"] : src # Async!Root /\ Async!StartCopy(r, src, to)
  BY <1>1, <1>7, NewCopies
<1>8. CASE \E p \in Targets["delete"] : Async!StartDelete(r, p)
  BY <1>1, <1>8, NewDeletes
<1>9. CASE \E p, to \in Targets["rename"] : Async!StartRename(r, p, to)
  BY <1>1, <1>9, NewRenames
<1>10. CASE \E p \in Targets["checkpoint"] :
              Async!StartCheckpoint(r, p) \/ Async!StartRestore(r, p) \/ Async!StartUncheckpoint(r, p)
  BY <1>1, <1>10, NewCheckpoints
<1> QED BY <1>2, <1>3, <1>4, <1>5, <1>6, <1>7, <1>8, <1>9, <1>10 DEF Async!Arrive

LEMMA Proceeds ==
  ASSUME ContentsAssumption, Inv, History, NEW r \in Requests, Async!Proceed(r)
  PROVE  Fine(r)
<1> HIDE DEF Inv
<1> QED BY ReadSteps, LoopSteps, WritingSteps, RemovingSteps, MovingSteps, CopySteps, FailingSteps
        DEF Async!Proceed

(* Only the request whose step it is can end by it.                        *)
LEMMA ContentsSteps ==
  ASSUME ContentsAssumption, Inv, [Async!Next]_Async!vars
  PROVE  Inv' /\ \A s \in Requests : Leaves(s)
<1>1. CASE UNCHANGED Async!vars
  <2>1. faults' \in Nat /\ UNCHANGED <<tree, cps, reqs>> /\ met' = met
    BY <1>1 DEF Async!vars, Inv
  <2>2. \A s \in Requests : ~Async!Ended(s)
    BY <2>1 DEF Async!Ended, Async!At
  <2> HIDE DEF Inv
  <2> QED BY <2>1, <2>2, Same DEF Leaves
<1>2. CASE Async!Next
  <2>1. History
    BY <1>2, Remembers
  <2>2. ASSUME NEW r \in Requests, Fine(r) PROVE Inv' /\ \A s \in Requests : Leaves(s)
    <3>1. \A s \in Requests \ {r} : ~Async!Ended(s)
      BY <2>2 DEF Fine, OthersStay, Async!Ended, Async!At
    <3> HIDE DEF Inv
    <3> QED BY <2>2, <3>1 DEF Fine, Leaves
  <2>3. ASSUME NEW p, \/ Async!TrashFails(p) \/ \E op : Async!HookRefuses(op, p)
        PROVE  Inv' /\ \A s \in Requests : Leaves(s)
    <3>1. UNCHANGED <<tree, cps, reqs>>
      BY <2>3 DEF Async!TrashFails, Async!HookRefuses, Async!disk
    <3>2. faults' \in Nat
      BY <2>1 DEF History
    <3>3. \A s \in Requests : ~Async!Ended(s)
      BY <3>1 DEF Async!Ended, Async!At
    <3> HIDE DEF Inv
    <3> QED BY <2>1, <3>1, <3>2, <3>3, Same DEF Leaves
  <2>4. ASSUME NEW r \in Requests, Async!Arrive(r) \/ Async!Proceed(r) PROVE Fine(r)
    <3> HIDE DEF Inv
    <3> QED BY <2>1, <2>4, Arrivals, Proceeds
  <2> HIDE DEF Inv
  <2> QED BY <1>2, <2>2, <2>3, <2>4 DEF Async!Next
<1> HIDE DEF Inv
<1> QED BY <1>1, <1>2

LEMMA ContentsStart ==
  ASSUME Async!Init
  PROVE  Inv
<1>1. Shape
  BY IdleRecord DEF Async!Init, Shape
<1>2. \A r \in Requests : reqs[r].at = "idle"
  BY IdleRecord DEF Async!Init
<1>3. faults \in Nat
  BY DEF Async!Init
<1> QED BY <1>1, <1>2, <1>3 DEF Inv, Sound

LEMMA NoneOrphaned ==
  ASSUME ContentsAssumption
  PROVE  Inv /\ [Async!Next]_Async!vars =>
    [\A r \in Requests :
       Async!Ended(r) /\ ~Async!Failed /\ r \notin met /\ Async!FoundBacked(r) =>
         \A p \in DOMAIN reqs[r].own.tree : cps'[p] # None => Async!file_exists(tree', p)]_Async!vars
<1> HIDE DEF Inv
<1> QED BY ContentsSteps DEF Leaves

(* LeavesNoOrphans, for every tree of paths, any number of requests, any   *)
(* settings, whichever kinds of requests overlap and whatever fails: a     *)
(* request that nothing overlapped leaves no checkpoint without its file,  *)
(* whatever others do elsewhere meanwhile or have done there before, for   *)
(* delete and rename remove and move it after the file before they answer  *)
(* (manager.py delete and rename, filecheckpoints.py).                     *)
THEOREM CheckpointsHaveFiles ==
  ASSUME ContentsAssumption
  PROVE  Async!Spec => Async!LeavesNoOrphans
<1>1. Async!Init => Inv
  BY ContentsStart
<1>2. Inv /\ [Async!Next]_Async!vars => Inv'
  BY ContentsSteps
<1> HIDE DEF Inv
<1> QED BY <1>1, <1>2, NoneOrphaned, PTL DEF Async!Spec, Async!LeavesNoOrphans
=============================================================================
