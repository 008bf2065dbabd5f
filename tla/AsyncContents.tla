----------------------------- MODULE AsyncContents ----------------------------
(***************************************************************************)
(* The contents service as it runs by default: the handlers of             *)
(* services/contents/handlers.py over AsyncLargeFileManager,               *)
(* AsyncFileContentsManager, AsyncContentsManager and AsyncFileCheckpoints.*)
(*                                                                         *)
(* A request runs on the event loop up to an await that suspends it, that  *)
(* is a call into a worker thread (run_sync) or a subprocess; the other    *)
(* requests run meanwhile.  An await of exists, dir_exists, is_hidden or   *)
(* of a get without content suspends nothing.  "at" names the call a       *)
(* request waits for; a name that ends in "ed" is a call that has returned.*)
(*                                                                         *)
(* Nothing locks a path.  A request claims the paths it is about, and      *)
(* another about a claimed path, or one above or below it, comes meanwhile *)
(* only if Overlap allows its kind: where none is allowed, the service     *)
(* must be as good as FileContents, whose operations are single steps.     *)
(***************************************************************************)
EXTENDS ContentsTree, FiniteSets

CONSTANTS
  Requests,  \* slots for requests being served
  Configs,   \* settings to run with
  Targets,   \* kind of request -> the paths such requests are about
  Kinds,     \* path -> the types saved there
  Overlap,   \* kinds that come in spite of a claim
  MaxFaults  \* bound: calls of the operating system, or hooks, that fail

ASSUME FaultsAssumption == MaxFaults \in Nat
ASSUME TargetsAssumption ==
  \A op \in {"get", "list", "save", "new", "chunk", "copy", "delete", "rename", "checkpoint"} :
    Targets[op] \subseteq Paths \cup {Root}

VARIABLES
  tree,   \* path -> entry
  cps,    \* path -> data of its checkpoint, or None
  conf,   \* the settings
  answer, \* the last answer
  req,    \* the requests
  faults, \* failures so far
  met     \* history: requests that another overlapped

disk == <<tree, cps>>
vars == <<tree, cps, conf, answer, req, faults, met>>

-----------------------------------------------------------------------------
(* A request: what it does, the call it waits for, the path it reads, the  *)
(* path it writes and the one its open file is at, the type and the data   *)
(* to write, the names still to list, and what its claim held at its start.*)
Own(claim) ==
  LET held == {q \in Paths : \E c \in claim : Within(c, q)}
  IN [claim |-> claim, tree |-> [q \in held |-> tree[q]], cps |-> [q \in held |-> cps[q]]]

Req(op, at, src, p, type, data, claim) ==
  [op |-> op, at |-> at, src |-> src, p |-> p, fd |-> p, type |-> type, data |-> data,
   left |-> {}, own |-> Own(claim)]

Idle == [op |-> "none", at |-> "idle", src |-> Root, p |-> Root, fd |-> Root, type |-> "file",
         data |-> <<>>, left |-> {}, own |-> [claim |-> {}, tree |-> <<>>, cps |-> <<>>]]

Ops == {"get", "save", "new", "chunk", "append", "copy", "delete", "rename",
        "checkpoint", "restore", "uncheckpoint"}

Active == {r \in Requests : req[r].at # "idle"}
At(r, at) == req[r].at = at
Goes(r, at) == req' = [req EXCEPT ![r].at = at]

(* All but the last answer, which no step looks at.                        *)
AllButAnswer == <<tree, cps, conf, req, faults, met>>

Answer(op, path, code, data) == [op |-> op, path |-> path, code |-> code, data |-> data]
Ends(r, code) ==
  /\ answer' = Answer(req[r].op, req[r].p, code, None)
  /\ req' = [req EXCEPT ![r] = Idle]
Refuses(op, p, code) ==
  /\ answer' = Answer(op, p, code, None)
  /\ UNCHANGED <<disk, conf, req, faults>>

Refused(p) == ~conf.hidden /\ is_hidden(p)

Conflicts(claim) ==
  \E s \in Active : \E p \in claim, q \in req[s].own.claim : Related(p, q)
Comes(r, op, claim) ==
  At(r, "idle") /\ (op \in Overlap \/ ~Conflicts(claim))

(* Another request is about one of its paths, or one above or below it.    *)
Overlapped(r) ==
  \E s \in Active \ {r} : \E p \in req[r].own.claim, q \in req[s].own.claim : Related(p, q)

(* A failing call or hook; says nothing of the disk.                       *)
Fault == faults < MaxFaults /\ faults' = faults + 1

-----------------------------------------------------------------------------
(* GET of a file: exists and isfile on the loop, the read in a thread.     *)
StartGet(r, p) ==
  /\ Comes(r, "get", {p})
  /\ IF Refused(p) \/ ~exists(tree, p) THEN Refuses("get", p, 404)
     ELSE /\ file_exists(tree, p)
          /\ req' = [req EXCEPT ![r] = Req("get", "reading", p, p, TypeOf(p), <<>>, {p})]
          /\ UNCHANGED <<disk, conf, answer, faults>>

Read(r) ==
  /\ At(r, "reading")
  /\ LET p == req[r].src
         now == IF file_exists(tree, p) THEN tree[p] ELSE req[r].own.tree[p] \* open, though unlinked
     IN req' = [req EXCEPT ![r].at = "read", ![r].data = now.data]
  /\ UNCHANGED <<disk, conf, answer, faults>>

FinishGet(r) ==
  /\ At(r, "read") /\ req[r].op = "get"
  /\ answer' = Answer("get", req[r].p, 200, {req[r].data})
  /\ req' = [req EXCEPT ![r] = Idle]
  /\ UNCHANGED <<disk, conf, faults>>

(* GET of a directory: listdir in a thread, then lstat in a thread and get *)
(* on the loop for one name after the other.  A name that is gone at the   *)
(* lstat is left out; one that goes between the two fails the whole list.  *)
StartList(r, p) ==
  /\ Comes(r, "list", {p})
  /\ dir_exists(tree, p) /\ ~Refused(p)
  /\ req' = [req EXCEPT ![r] = Req("get", "listdir", p, p, "directory", {}, {p})]
  /\ UNCHANGED <<disk, conf, answer, faults>>

Listed(r) ==
  /\ At(r, "listdir")
  /\ req' = [req EXCEPT ![r].at = "listing",
               ![r].left = {q \in Paths : Parent(q) = req[r].p /\ exists(tree, q)}]
  /\ UNCHANGED <<disk, conf, answer, faults>>

StatEntry(r) ==
  /\ At(r, "listing")
  /\ \E q \in req[r].left :
       /\ req' = [req EXCEPT ![r].left = @ \ {q},
                    ![r].at = IF exists(tree, q) /\ ~Refused(q) THEN "entry" ELSE "listing",
                    ![r].fd = q]
  /\ UNCHANGED <<disk, conf, answer, faults>>

GetEntry(r) ==
  /\ At(r, "entry")
  /\ IF exists(tree, req[r].fd)
     THEN /\ req' = [req EXCEPT ![r].at = "listing", ![r].data = @ \cup {req[r].fd}]
          /\ UNCHANGED answer
     ELSE Ends(r, 404)
  /\ UNCHANGED <<disk, conf, faults>>

FinishList(r) ==
  /\ At(r, "listing") /\ req[r].left = {}
  /\ answer' = Answer("get", req[r].p, 200, req[r].data)
  /\ req' = [req EXCEPT ![r] = Idle]
  /\ UNCHANGED <<disk, conf, faults>>

-----------------------------------------------------------------------------
(* save up to its first suspension: a file is opened, and with it          *)
(* truncated, before the thread that writes it starts; _save_directory     *)
(* leaves the test and the mkdir apart.                                    *)
Begin(r, q) ==
  \/ /\ q.type # "directory" /\ CanSave(tree, q.type, q.p)
     /\ tree' = [tree EXCEPT ![q.p] = File(<<>>)]
     /\ req' = [req EXCEPT ![r] = [q EXCEPT !.at = "writing"]]
     /\ UNCHANGED answer
  \/ /\ q.type = "directory" /\ ~exists(tree, q.p)
     /\ req' = [req EXCEPT ![r] = [q EXCEPT !.at = "mkdir"]]
     /\ UNCHANGED <<tree, answer>>
  \/ /\ q.type = "directory" /\ exists(tree, q.p)
     /\ answer' = Answer(q.op, q.p, IF dir_exists(tree, q.p) THEN 201 ELSE 400, None)
     /\ req' = [req EXCEPT ![r] = Idle]
     /\ UNCHANGED tree
  \/ /\ q.type # "directory" /\ ~CanSave(tree, q.type, q.p)
     /\ answer' = Answer(q.op, q.p, 500, None)
     /\ req' = [req EXCEPT ![r] = Idle]
     /\ UNCHANGED tree

(* PUT.                                                                    *)
StartSave(r, type, p, v) ==
  /\ Comes(r, "save", {p})
  /\ IF Refused(p) THEN Refuses("save", p, 400)
     ELSE /\ Begin(r, Req("save", "new", p, p, type, <<v>>, {p}))
          /\ UNCHANGED <<cps, conf, faults>>

(* A pre-save hook raises HTTPError, or the file cannot be opened.         *)
HookRefuses(op, p) ==
  /\ p \in Targets[op] /\ Fault
  /\ \E code \in {400} \cup (IF Refused(p) \/ ~CanSave(tree, "file", p) THEN {} ELSE OSErrors) :
       answer' = Answer(op, p, code, None)
  /\ UNCHANGED <<disk, conf, req>>

(* POST without a copy_from: the name is chosen and the file opened with   *)
(* nothing in between that suspends.                                       *)
increment_filename(dir, name) ==
  LET free == Free(tree, dir, name)
  IN Variant(dir, name, CHOOSE i \in free : \A j \in free : i <= j)

StartNew(r, dir, type, v) ==
  IF dir_exists(tree, dir)
  THEN /\ Free(tree, dir, Untitled[type]) # {}
       /\ LET p == increment_filename(dir, Untitled[type])
          IN /\ Comes(r, "new", {p})
             /\ Begin(r, Req("new", "new", p, p, type, <<v>>, {p}))
       /\ UNCHANGED <<cps, conf, faults>>
  ELSE /\ Comes(r, "new", {dir})
       /\ IF file_exists(tree, dir) THEN Refuses("new", dir, 400) ELSE Refuses("new", dir, 404)

Mkdir(r) ==
  /\ At(r, "mkdir")
  /\ IF dir_exists(tree, Parent(req[r].p)) /\ ~exists(tree, req[r].p)
     THEN /\ tree' = [tree EXCEPT ![req[r].p] = Dir]
          /\ Goes(r, "saved")
          /\ UNCHANGED answer
     ELSE Ends(r, 500) /\ UNCHANGED tree
  /\ UNCHANGED <<cps, conf, faults>>

(* The thread writes to the file it was given open, wherever that is now.  *)
Wrote(r) ==
  /\ At(r, "writing")
  /\ tree' = IF req[r].fd = Root THEN tree ELSE [tree EXCEPT ![req[r].fd] = File(req[r].data)]
  /\ Goes(r, "wrote")
  /\ UNCHANGED <<cps, conf, answer, faults>>

(* Back on the loop: a notebook without a checkpoint gets one.             *)
AfterWrite(r) ==
  /\ At(r, "wrote")
  /\ Goes(r, IF req[r].type # "notebook" THEN "saved"
             ELSE IF cps[req[r].p] = None THEN "checkpointing" ELSE "statting")
  /\ UNCHANGED <<disk, conf, answer, faults>>

(* The rest of save: get without content, and the post-save hooks.         *)
Code(r) ==
  LET q == req[r]
  IN IF q.op \in {"save", "chunk", "append"} /\ q.own.tree[q.p].kind = "file" THEN 200 ELSE 201

FinishSave(r) ==
  /\ At(r, "saved") \/ (At(r, "statting") /\ req[r].op # "checkpoint")
  /\ \/ Ends(r, IF exists(tree, req[r].p) THEN Code(r) ELSE 404) /\ UNCHANGED faults
     \/ Ends(r, 500) /\ Fault
  /\ UNCHANGED <<disk, conf>>

-----------------------------------------------------------------------------
(* A chunk of an upload: the first is saved as any file, the others are    *)
(* appended; "ab" creates the file where there is none.                    *)
StartChunk(r, p, chunk, v) ==
  /\ Comes(r, "chunk", {p})
  /\ IF Refused(p) THEN Refuses(Piece(chunk), p, 400)
     ELSE /\ \/ /\ chunk = 1 \/ ~CanSave(tree, "file", p)
                /\ Begin(r, Req(Piece(chunk), "new", p, p, "file", <<v>>, {p}))
             \/ /\ chunk # 1 /\ CanSave(tree, "file", p)
                /\ Len(tree[p].data) < MaxChunks
                /\ tree' = [tree EXCEPT ![p] = Unsaved(tree, p)]
                /\ req' = [req EXCEPT ![r] = Req("append", "appending", p, p, "file", <<v>>, {p})]
                /\ UNCHANGED answer
          /\ UNCHANGED <<cps, conf, faults>>

(* The write is buffered: the file's end is written when it is closed.     *)
Appended(r) ==
  /\ At(r, "appending")
  /\ tree' = IF req[r].fd = Root THEN tree
             ELSE [tree EXCEPT ![req[r].fd] = File(@.data \o req[r].data)]
  /\ Goes(r, "saved")
  /\ UNCHANGED <<cps, conf, answer, faults>>

-----------------------------------------------------------------------------
(* POST with a copy_from: the source is read first, in a thread; only then *)
(* is the name chosen, and the file opened at once.                        *)
CopyClaim(src, to) ==
  {src, to} \cup (Paths \cap {Variant(to, Name(src), i) : i \in DOMAIN Variants[Name(src)]})

StartCopy(r, src, to) ==
  /\ Comes(r, "copy", CopyClaim(src, to))
  /\ IF file_exists(tree, to) \/ Refused(to) \/ Refused(src) THEN Refuses("copy", to, 400)
     ELSE IF ~exists(tree, src) THEN Refuses("copy", to, 404)
     ELSE /\ req' = [req EXCEPT ![r] = Req("copy",
                 IF dir_exists(tree, src) THEN "measuring" ELSE "reading",
                 src, to, TypeOf(src), <<>>, CopyClaim(src, to))]
          /\ UNCHANGED <<disk, conf, answer, faults>>

ChooseCopy(r) ==
  LET q == req[r]
      p == IF dir_exists(tree, q.p) THEN increment_filename(q.p, Name(q.src)) ELSE q.p
  IN /\ At(r, "read") /\ q.op = "copy"
     /\ dir_exists(tree, q.p) => Free(tree, q.p, Name(q.src)) # {}
     /\ IF dir_exists(tree, q.p) \/ dir_exists(tree, Parent(q.p))
        THEN Begin(r, [q EXCEPT !.p = p, !.fd = p])
        ELSE Ends(r, 404) /\ UNCHANGED tree
     /\ UNCHANGED <<cps, conf, faults>>

(* A directory: its listing and "du" are awaited, copytree is not.         *)
CopyTree(r) ==
  LET q == req[r]
      p == IF dir_exists(tree, q.p) THEN increment_filename(q.p, Name(q.src))
           ELSE Join(q.p, Name(q.src))
  IN /\ At(r, "measuring")
     /\ dir_exists(tree, q.p) => Free(tree, q.p, Name(q.src)) # {}
     /\ IF Blocked(tree, p) \/ ~dir_exists(tree, q.src) THEN Ends(r, 400) /\ UNCHANGED disk
        ELSE /\ p \in Paths /\ Fits(tree, q.src, p) /\ ~Related(q.src, p)
             /\ tree' = Made(Copied(tree, q.src, p), p)
             /\ cps' = [Copied(cps, q.src, p) EXCEPT ![p] = cps[p]]
             /\ answer' = Answer("copy", p, 201, None)
             /\ req' = [req EXCEPT ![r] = Idle]
     /\ UNCHANGED <<conf, faults>>

(* check_folder_size refuses, or copytree cannot copy what is in it.       *)
CopyTreeFails(r) ==
  LET q == req[r]
      p == Join(q.p, Name(q.src))
  IN /\ At(r, "measuring") /\ Fault
     /\ \/ UNCHANGED tree
        \/ p \in Paths /\ ~exists(tree, p) /\ ~Blocked(tree, p) /\ tree' = Made(tree, p)
     /\ Ends(r, 400)
     /\ UNCHANGED <<cps, conf>>

-----------------------------------------------------------------------------
(* DELETE: delete_file, in a thread unless it goes to the trash, then      *)
(* delete_all_checkpoints.  What is below the path goes with it; its own   *)
(* checkpoint lies beside it.                                              *)
Removed(p) ==
  /\ tree' = Without(tree, Absent, p)
  /\ cps' = [Without(cps, None, p) EXCEPT ![p] = cps[p]]

Renewed(p) ==
  [s \in Requests |-> IF Within(p, req[s].fd) /\ p # Root THEN [req[s] EXCEPT !.fd = Root]
                      ELSE req[s]]

StartDelete(r, p) ==
  /\ Comes(r, "delete", {p})
  /\ IF Refused(p) \/ p = Root THEN Refuses("delete", p, 400)
     ELSE IF ~exists(tree, p) THEN Refuses("delete", p, 404)
     ELSE LET q == Req("delete", "removing", p, p,
                       IF dir_exists(tree, p) THEN "directory" ELSE "file", <<>>, {p})
          IN IF conf.trash
             THEN /\ Removed(p)
                  /\ req' = [Renewed(p) EXCEPT ![r] = [q EXCEPT !.at = "removed"]]
                  /\ UNCHANGED <<conf, answer, faults>>
             ELSE /\ req' = [req EXCEPT ![r] =
                       IF dir_exists(tree, p) /\ ~conf.force THEN [q EXCEPT !.at = "looking"] ELSE q]
                  /\ UNCHANGED <<disk, conf, answer, faults>>

(* listdir has returned: a directory that is not empty is not removed.     *)
LookedInside(r) ==
  /\ At(r, "looking")
  /\ IF is_non_empty_dir(tree, req[r].p) THEN Ends(r, 400) ELSE Goes(r, "removing") /\ UNCHANGED answer
  /\ UNCHANGED <<disk, conf, faults>>

(* rmtree or unlink, as the path was a directory or a file when it came.   *)
Remove(r) ==
  LET p == req[r].p
  IN /\ At(r, "removing")
     /\ IF exists(tree, p) /\ (dir_exists(tree, p) <=> req[r].type = "directory")
        THEN /\ Removed(p)
             /\ req' = [Renewed(p) EXCEPT ![r] = [req[r] EXCEPT !.at = "removed"]]
             /\ UNCHANGED answer
        ELSE Ends(r, 500) /\ UNCHANGED disk
     /\ UNCHANGED <<conf, faults>>

(* list_checkpoints of the deleted or renamed path; its stat is awaited.   *)
ListCheckpoints(r) ==
  LET q == req[r]
  IN /\ At(r, "removed") \/ At(r, "moved")
     /\ IF cps[q.src] # None THEN Goes(r, IF q.at = "removed" THEN "cp_removed" ELSE "cp_moved") /\ UNCHANGED answer
        ELSE Ends(r, IF q.op = "delete" THEN 204 ELSE IF exists(tree, q.p) THEN 200 ELSE 404)
     /\ UNCHANGED <<disk, conf, faults>>

(* Mutant: a deleted file's checkpoint stays.                              *)
DeleteCheckpoint_Kept(r) ==
  /\ At(r, "cp_removed")
  /\ Ends(r, 204)
  /\ UNCHANGED <<disk, conf, faults>>

(* The stat, which fails when the checkpoint is gone; delete_checkpoint:   *)
(* isfile, then unlink in a thread.                                        *)
DeleteCheckpoint(r) ==
  /\ At(r, "cp_removed")
  /\ IF cps[req[r].p] = None THEN \E code \in {404, 500} : Ends(r, code)
     ELSE Goes(r, "unlinking") /\ UNCHANGED answer
  /\ UNCHANGED <<disk, conf, faults>>

Unlinked(r) ==
  /\ At(r, "unlinking")
  /\ IF cps[req[r].p] = None THEN Ends(r, 500) ELSE Ends(r, 204)
  /\ cps' = [cps EXCEPT ![req[r].p] = None]
  /\ UNCHANGED <<tree, conf, faults>>

-----------------------------------------------------------------------------
(* PATCH: rename_file tests for the target on the loop and moves in a      *)
(* thread; then rename_all_checkpoints; then get.                          *)
RenameClaim(p, to) == {p, to} \cup {q \in Paths : Within(q, to) /\ ~exists(tree, q)}

StartRename(r, p, to) ==
  /\ p # to /\ ~Related(p, to) /\ Fits(tree, p, to)
  /\ Comes(r, "rename", RenameClaim(p, to))
  /\ IF Refused(p) \/ Refused(to) THEN Refuses("rename", to, 400)
     ELSE IF exists(tree, to)
     THEN Refuses("rename", to, IF exists(tree, p) THEN 409 ELSE 500)
     ELSE /\ req' = [req EXCEPT ![r] =
               Req("rename", "moving", p, to, "file", <<>>, RenameClaim(p, to))]
          /\ UNCHANGED <<disk, conf, answer, faults>>

(* The open files of a moved path move with it; those of a replaced one    *)
(* have no path any more.                                                  *)
Followed(p, to) ==
  [s \in Requests |->
     [req[s] EXCEPT !.fd = IF @ = Root THEN Root ELSE IF Within(p, @) THEN Rebased(@, p, to)
                           ELSE IF Within(to, @) THEN Root ELSE @]]

(* Mutant: the directory a path is moved into is not asked for.            *)
Move_NoParent(r) ==
  LET p == req[r].src
      to == req[r].p
  IN /\ At(r, "moving") /\ exists(tree, p) /\ Fits(tree, p, to)
     /\ tree' = Moved(tree, Absent, p, to)
     /\ req' = [Followed(p, to) EXCEPT ![r] = [req[r] EXCEPT !.at = "moved"]]
     /\ UNCHANGED <<cps, conf, answer, faults>>

(* A file may have come to the target meanwhile: a file replaces it.  A    *)
(* directory there takes the path in, at a place that is not among Paths.  *)
Move(r) ==
  LET p == req[r].src
      to == req[r].p
      onto == dir_exists(tree, p) /\ file_exists(tree, to)
  IN /\ At(r, "moving") /\ Fits(tree, p, to) /\ ~dir_exists(tree, to)
     /\ IF CanMove(tree, p, to) /\ ~onto
        THEN /\ tree' = Carried(tree, p, to)
             /\ cps' = [Moved(cps, None, p, to) EXCEPT ![p] = cps[p], ![to] = cps[to]]
             /\ req' = [Followed(p, to) EXCEPT ![r] = [req[r] EXCEPT !.at = "moved"]]
             /\ UNCHANGED answer
        ELSE /\ \E code \in IF onto THEN {500} ELSE MoveErrors(tree, p, to) : Ends(r, code)
             /\ UNCHANGED disk
     /\ UNCHANGED <<conf, faults>>

(* The stat; rename_checkpoint: isfile, then the move in a thread.         *)
RenameCheckpoint(r) ==
  /\ At(r, "cp_moved")
  /\ \/ Goes(r, IF cps[req[r].src] = None THEN "renamed" ELSE "cp_moving") /\ UNCHANGED answer
     \/ cps[req[r].src] = None /\ Ends(r, 500)
  /\ UNCHANGED <<disk, conf, faults>>

MoveCheckpoint(r) ==
  /\ At(r, "cp_moving")
  /\ IF cps[req[r].src] # None
     THEN /\ cps' = [cps EXCEPT ![req[r].p] = cps[req[r].src], ![req[r].src] = None]
          /\ Goes(r, "renamed")
          /\ UNCHANGED answer
     ELSE Ends(r, 500) /\ UNCHANGED cps
  /\ UNCHANGED <<tree, conf, faults>>

FinishRename(r) ==
  /\ At(r, "renamed")
  /\ Ends(r, IF exists(tree, req[r].p) THEN 200 ELSE 404)
  /\ UNCHANGED <<disk, conf, faults>>

-----------------------------------------------------------------------------
(* The checkpoints API.                                                    *)
StartCheckpoint(r, p) ==
  /\ Comes(r, "checkpoint", {p})
  /\ IF file_exists(tree, p)
     THEN /\ req' = [req EXCEPT ![r] = Req("checkpoint", "checkpointing", p, p, "file", <<>>, {p})]
          /\ UNCHANGED <<disk, conf, answer, faults>>
     ELSE Refuses("checkpoint", p, IF conf.generic /\ ~exists(tree, p) THEN 404 ELSE 500)

(* The copy of a request for a checkpoint, or of a notebook's first save.  *)
Checkpointed(r) ==
  LET p == req[r].p
  IN /\ At(r, "checkpointing")
     /\ IF file_exists(tree, p)
        THEN /\ cps' = [cps EXCEPT ![p] = tree[p].data]
             /\ Goes(r, "statting")
             /\ UNCHANGED answer
        ELSE Ends(r, 500) /\ UNCHANGED cps
     /\ UNCHANGED <<tree, conf, faults>>

FinishCheckpoint(r) ==
  /\ At(r, "statting") /\ req[r].op = "checkpoint"
  /\ Ends(r, IF cps[req[r].p] = None THEN 500 ELSE 201)
  /\ UNCHANGED <<disk, conf, faults>>

StartRestore(r, p) ==
  /\ Comes(r, "restore", {p})
  /\ IF /\ cps[p] # None /\ ~dir_exists(tree, p) /\ dir_exists(tree, Parent(p))
        /\ conf.generic => exists(tree, p)
     THEN /\ req' = [req EXCEPT ![r] = Req("restore", "restoring", p, p, "file", <<>>, {p})]
          /\ UNCHANGED <<disk, conf, answer, faults>>
     ELSE Refuses("restore", p,
            IF conf.generic /\ (cps[p] = None \/ ~exists(tree, p)) THEN 404 ELSE 500)

Restored(r) ==
  LET p == req[r].p
  IN /\ At(r, "restoring")
     /\ IF cps[p] # None /\ ~dir_exists(tree, p) /\ dir_exists(tree, Parent(p))
        THEN tree' = [tree EXCEPT ![p] = File(cps[p])] /\ Ends(r, 204)
        ELSE UNCHANGED tree /\ Ends(r, 500)
     /\ UNCHANGED <<cps, conf, faults>>

StartUncheckpoint(r, p) ==
  /\ Comes(r, "uncheckpoint", {p})
  /\ IF cps[p] = None THEN Refuses("uncheckpoint", p, 404)
     ELSE /\ req' = [req EXCEPT ![r] = Req("uncheckpoint", "unlinking", p, p, "file", <<>>, {p})]
          /\ UNCHANGED <<disk, conf, answer, faults>>

-----------------------------------------------------------------------------
Calls == {"reading", "writing", "mkdir", "appending", "checkpointing", "statting", "looking",
          "removing", "cp_removed", "unlinking", "moving", "cp_moved", "cp_moving", "restoring"}

(* Mutant: a write that fails leaves what it has written.                  *)
CallFails_NotPutBack(r) ==
  /\ req[r].at \in Calls /\ Fault
  /\ Ends(r, 500)
  /\ UNCHANGED <<disk, conf>>

(* A call fails: in a write, atomic_writing puts the old file back, if     *)
(* there was one; a copy of copy2_safe leaves its target truncated.        *)
CallFails(r) ==
  LET q == req[r]
      p == q.p
  IN /\ q.at \in Calls /\ Fault
     /\ tree' \in
          IF q.at = "writing" /\ q.own.tree[p].kind = "file" /\ CanSave(tree, "file", p)
          THEN {[tree EXCEPT ![p] = q.own.tree[p]]}
          ELSE IF q.at = "restoring" /\ ~conf.generic /\ CanSave(tree, "file", p)
          THEN {tree, [tree EXCEPT ![p] = File(<<>>)]}
          ELSE {tree}
     /\ cps' \in IF q.at = "checkpointing" /\ ~conf.generic /\ file_exists(tree, p)
                 THEN {cps, [cps EXCEPT ![p] = <<>>]} ELSE {cps}
     /\ \E code \in (IF q.at = "reading" THEN {400} ELSE OSErrors) : Ends(r, code)
     /\ UNCHANGED conf

TrashFails(p) ==
  /\ conf.trash /\ exists(tree, p) /\ ~Refused(p)
  /\ \A s \in Active : p \notin DOMAIN req[s].own.tree
  /\ Fault
  /\ \E code \in {400, 403} : answer' = Answer("delete", p, code, None)
  /\ UNCHANGED <<disk, conf, req>>

-----------------------------------------------------------------------------
Init ==
  /\ tree = [p \in Paths |-> Absent]
  /\ cps = [p \in Paths |-> None]
  /\ conf \in Configs
  /\ answer = Answer("none", Root, 200, None)
  /\ req = [r \in Requests |-> Idle]
  /\ faults = 0 /\ met = {}

Arrive(r) ==
  \/ \E p \in Targets["get"] : StartGet(r, p)
  \/ \E p \in Targets["list"] : StartList(r, p)
  \/ \E p \in Targets["save"], v \in Values : \E type \in Kinds[p] : StartSave(r, type, p, v)
  \/ \E dir \in Targets["new"], type \in DOMAIN Untitled, v \in Values :
       StartNew(r, dir, type, v)
  \/ \E p \in Targets["chunk"], chunk \in 1 .. MaxChunks, v \in Values : StartChunk(r, p, chunk, v)
  \/ \E src, to \in Targets["copy"] : src # Root /\ StartCopy(r, src, to)
  \/ \E p \in Targets["delete"] : StartDelete(r, p)
  \/ \E p, to \in Targets["rename"] : StartRename(r, p, to)
  \/ \E p \in Targets["checkpoint"] :
       StartCheckpoint(r, p) \/ StartRestore(r, p) \/ StartUncheckpoint(r, p)

Proceed(r) ==
  \/ Read(r) \/ FinishGet(r) \/ Listed(r) \/ StatEntry(r) \/ GetEntry(r) \/ FinishList(r)
  \/ Mkdir(r) \/ Wrote(r) \/ AfterWrite(r) \/ FinishSave(r) \/ Appended(r)
  \/ ChooseCopy(r) \/ CopyTree(r) \/ CopyTreeFails(r)
  \/ LookedInside(r) \/ Remove(r) \/ ListCheckpoints(r) \/ DeleteCheckpoint(r) \/ Unlinked(r)
  \/ Move(r) \/ RenameCheckpoint(r) \/ MoveCheckpoint(r) \/ FinishRename(r)
  \/ Checkpointed(r) \/ FinishCheckpoint(r) \/ Restored(r)
  \/ CallFails(r)

Next ==
  /\ \/ \E r \in Requests : Arrive(r) \/ Proceed(r)
     \/ \E p \in Paths, op \in {"save", "chunk"} : HookRefuses(op, p)
     \/ \E p \in Paths : TrashFails(p)
  /\ met' = {r \in Active' : r \in met \/ Overlapped(r)'}

Spec == Init /\ [][Next]_vars

-----------------------------------------------------------------------------
(* The tree without the requests being served: a claimed path is as it was *)
(* when the claim was made.                                                *)
Holders(p) == {r \in Active : p \in DOMAIN req[r].own.tree}
Settled(f, g(_)) ==
  [p \in Paths |-> IF Holders(p) = {} THEN f[p] ELSE g(CHOOSE r \in Holders(p) : TRUE)[p]]
TreeSettled == Settled(tree, LAMBDA r : req[r].own.tree)
CpsSettled == Settled(cps, LAMBDA r : req[r].own.cps)

Sync == INSTANCE FileContents WITH tree <- TreeSettled, cps <- CpsSettled

(* Requests about paths apart, and those about one path that come one      *)
(* after the other, are served as if each was one step of the synchronous  *)
(* manager taken when its answer is given: no half-done save, rename or    *)
(* delete is left by an answer, a name given to a new file or a copy is    *)
(* not in use, and a failure undoes or has done exactly what FileContents  *)
(* says (services/contents/filemanager.py, async against sync managers).   *)
Serializable == Sync!Init /\ [][UNCHANGED Sync!vars \/ Sync!Next]_vars

(* The disk and the requests are what the definitions say, and what exists *)
(* lies in a directory, whatever was moved or removed below or above it.   *)
TypeOK ==
  /\ \A p \in Paths : exists(tree, p) => dir_exists(tree, Parent(p))
  /\ tree \in [Paths -> Entries]
  /\ cps \in [Paths -> Data \cup {None}]
  /\ conf \in Configs
  /\ faults \in 0 .. MaxFaults
  /\ \A r \in Active : req[r].op \in Ops /\ req[r].own.claim \subseteq Paths \cup {Root}

(* A checkpoint without its file would be there for a later file of the    *)
(* name to find and restore from.  Rename and delete, which do the file    *)
(* first and then its checkpoints in steps of their own, leave none behind *)
(* (manager.py delete and rename), nor does any other request: where it    *)
(* found none, whatever others do elsewhere, have done there before, or    *)
(* still do in files that were moved here, there is none when it ends.     *)
(* Unless a call of it failed, and then its answer is an error; and unless *)
(* another request about its paths overlapped it.                          *)
Ended(r) == ~At(r, "idle") /\ At(r, "idle")'
Failed == faults' # faults /\ answer'.code >= 400

FoundBacked(r) ==
  \A p \in DOMAIN req[r].own.tree : req[r].own.cps[p] # None => req[r].own.tree[p].kind = "file"

LeavesNoOrphans ==
  [][\A r \in Requests :
       Ended(r) /\ ~Failed /\ r \notin met /\ FoundBacked(r) =>
         \A p \in DOMAIN req[r].own.tree : cps'[p] # None => file_exists(tree', p)]_vars

(* A rename never replaces a file: what tests/services/contents/test_api.py *)
(* expects of a target that exists, an answer 409.                         *)
RenameNeverReplaces ==
  [][\A r \in Requests :
       At(r, "moving") /\ req'[r].at = "moved" => ~exists(tree, req[r].p)]_vars
=============================================================================
