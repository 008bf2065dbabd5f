----------------------------- MODULE FileContents -----------------------------
(***************************************************************************)
(* The contents API as the synchronous managers provide it:                *)
(* FileContentsManager and LargeFileManager with ContentsManager, and      *)
(* FileCheckpoints or GenericFileCheckpoints.  Every operation holds the   *)
(* event loop from its start to its answer, so each is one step.  This is  *)
(* what a client expects of the service; AsyncContents shows how the       *)
(* asynchronous managers keep it.                                          *)
(*                                                                         *)
(* An operation answers with a status code.  Operating system errors,      *)
(* hooks that raise and "send2trash failed" may come at any time; a write  *)
(* that fails puts the old file back (module AtomicWriting).               *)
(***************************************************************************)
EXTENDS ContentsTree

CONSTANT Configs \* settings to run with

VARIABLES
  tree,  \* path -> entry
  cps,   \* path -> data of its checkpoint, or None
  conf,  \* allow_hidden, delete_to_trash, always_delete_dir, generic checkpoints
  answer \* the last answer

vars == <<tree, cps, conf, answer>>

Config(hidden, trash, force, generic) ==
  [hidden |-> hidden, trash |-> trash, force |-> force, generic |-> generic]

Answer(op, path, code, data) == [op |-> op, path |-> path, code |-> code, data |-> data]
Says(op, path, code) == answer' = Answer(op, path, code, None) /\ UNCHANGED conf

(* An answer that leaves everything as it was.                             *)
Refuses(op, path, codes) ==
  \E code \in codes : Says(op, path, code) /\ UNCHANGED <<tree, cps>>

Refused(p) == ~conf.hidden /\ is_hidden(p)

-----------------------------------------------------------------------------
(* get of a file; 400 when it is unreadable or not of the type asked for.  *)
GetErrors(p) == IF ~exists(tree, p) \/ Refused(p) THEN {404} ELSE {400}

Get(p) ==
  \/ /\ file_exists(tree, p) /\ ~Refused(p)
     /\ answer' = Answer("get", p, 200, {tree[p].data})
     /\ UNCHANGED <<tree, cps, conf>>
  \/ Refuses("get", p, GetErrors(p))

(* get of a directory: the listing leaves out what is hidden.              *)
Listing(p) == {q \in Paths : Parent(q) = p /\ exists(tree, q) /\ ~Refused(q)}

List(p) ==
  /\ dir_exists(tree, p) /\ ~Refused(p)
  /\ answer' = Answer("get", p, 200, Listing(p))
  /\ UNCHANGED <<tree, cps, conf>>

-----------------------------------------------------------------------------
(* save: pre-save hooks, which may refuse, the write, a first checkpoint   *)
(* for a notebook, and post-save hooks, which turn the answer of a save    *)
(* already made into 500.                                                  *)
SaveErrors(type, p) ==
  IF Refused(p) \/ (type = "directory" /\ file_exists(tree, p)) THEN {400} ELSE {400} \cup OSErrors

Created(op, p) == IF op \in {"save", "chunk", "append"} /\ file_exists(tree, p) THEN 200 ELSE 201

FirstCheckpoint(type, p, data) ==
  IF type = "notebook" /\ cps[p] = None THEN [cps EXCEPT ![p] = data] ELSE cps

SaveDone(op, type, p, data) ==
  /\ \E code \in {Created(op, p)} \cup OSErrors : Says(op, p, code)
  /\ ~Refused(p) /\ CanSave(tree, type, p)
  /\ tree' = IF dir_exists(tree, p) THEN tree ELSE [tree EXCEPT ![p] = Saved(type, data)]
  /\ cps' = FirstCheckpoint(type, p, data)

(* The write, or the checkpoint after it, fails.                           *)
SaveFails(op, type, p, data) ==
  /\ \E code \in OSErrors : Says(op, p, code)
  /\ ~Refused(p) /\ CanSave(tree, type, p) /\ type # "directory"
  /\ \/ tree' = [tree EXCEPT ![p] = Unsaved(tree, p)] /\ UNCHANGED cps
     \/ /\ tree' = [tree EXCEPT ![p] = Saved(type, data)]
        /\ cps' \in {cps, IF conf.generic THEN cps ELSE FirstCheckpoint(type, p, <<>>)}

Save(op, type, p, data) ==
  \/ SaveDone(op, type, p, data)
  \/ SaveFails(op, type, p, data)
  \/ Refuses(op, p, SaveErrors(type, p))

(* new_untitled: an unused variant of the name, then new and save.  The    *)
(* code takes the first; a client is promised one that is not in use.      *)
NewUntitled(dir, type, data) ==
  \/ /\ dir_exists(tree, dir)
     /\ \E p \in Unused(tree, dir, Untitled[type]) : Save("new", type, p, data)
  \/ /\ ~dir_exists(tree, dir)
     /\ Refuses("new", dir, {IF file_exists(tree, dir) THEN 400 ELSE 404})

(* save of one chunk: the first is saved as a file, the others are         *)
(* appended to what is there, which open(path, "ab") creates if need be.   *)
Chunked(p, chunk, v) ==
  IF chunk = 1 \/ ~file_exists(tree, p) THEN File(<<v>>) ELSE File(Append(tree[p].data, v))

SaveChunk(p, chunk, v) ==
  /\ chunk # 1 => ~file_exists(tree, p) \/ Len(tree[p].data) < MaxChunks
  /\ \/ /\ \E code \in {Created(Piece(chunk), p)} \cup OSErrors : Says(Piece(chunk), p, code)
        /\ CanSave(tree, "file", p)
        /\ tree' = [tree EXCEPT ![p] = Chunked(p, chunk, v)]
     \/ /\ \E code \in OSErrors : Says(Piece(chunk), p, code)
        /\ CanSave(tree, "file", p)
        /\ tree' = [tree EXCEPT ![p] = Unsaved(tree, p)]
     \/ Refuses(Piece(chunk), p, {400} \cup OSErrors)
  /\ UNCHANGED cps

-----------------------------------------------------------------------------
(* copy of a file: saved under an unused name in a directory, or at the    *)
(* path given.                                                             *)
CopyErrors(p, to) ==
  IF ~exists(tree, p) \/ Refused(p) THEN {404}
  ELSE IF dir_exists(tree, to) \/ dir_exists(tree, Parent(to))
  THEN {400} \cup OSErrors
  ELSE {400, 404}

CopyFile(p, to) ==
  \/ /\ file_exists(tree, p) /\ ~Refused(p)
     /\ \E q \in (IF dir_exists(tree, to) THEN Unused(tree, to, Name(p)) ELSE {to}) :
          Save("copy", TypeOf(p), q, tree[p].data)
  \/ Refuses("copy", to, CopyErrors(p, to))

(* copy of a directory: check_folder_size, then copytree, checkpoints and  *)
(* all, to an unused name in the target, which it creates if need be.      *)
(* Too large a folder is refused; shutil.Error, for a file that cannot be  *)
(* copied, comes after everything else was.                                *)
DirTargets(p, to) ==
  IF dir_exists(tree, to) THEN Unused(tree, to, Name(p)) ELSE {Join(to, Name(p))} \cap Paths

CopyDir(p, to) ==
  /\ dir_exists(tree, p) /\ p # Root /\ ~Refused(p)
  /\ \/ \E q \in DirTargets(p, to) :
          /\ Says("copy", q, 201)
          /\ ~Blocked(tree, q) /\ Fits(tree, p, q) /\ ~Related(p, q)
          /\ tree' = Made(Copied(tree, p, q), q)
          /\ cps' = [Copied(cps, p, q) EXCEPT ![q] = cps[q]]
     \/ \E q \in DirTargets(p, to) :
          /\ Says("copy", to, 400)
          /\ ~Blocked(tree, q)
          /\ tree' = Made(tree, q)
          /\ UNCHANGED cps
     \/ Refuses("copy", to, {400})

-----------------------------------------------------------------------------
(* delete: delete_file, then the checkpoints of the path; an error between *)
(* the two leaves the checkpoint without its file.                         *)
Deletable(p) == conf.trash \/ conf.force \/ ~is_non_empty_dir(tree, p)

DeleteErrors(p) ==
  IF p = Root \/ Refused(p) THEN {400}
  ELSE IF ~exists(tree, p) THEN {404}
  ELSE IF ~Deletable(p) THEN {400} \cup OSErrors
  ELSE IF conf.trash THEN {400, 403} ELSE OSErrors

Delete(p) ==
  \/ /\ p # Root /\ ~Refused(p) /\ exists(tree, p) /\ Deletable(p)
     /\ tree' = Without(tree, Absent, p)
     /\ \/ cps' = Without(cps, None, p) /\ Says("delete", p, 204)
        \/ /\ \E code \in OSErrors : Says("delete", p, code)
           /\ cps' = [Without(cps, None, p) EXCEPT ![p] = cps[p]]
  \/ Refuses("delete", p, DeleteErrors(p))

(* update: rename_file, then the checkpoints of the path, then get.        *)
RenameErrors(p, to) ==
  IF Refused(p) \/ Refused(to) THEN {400}
  ELSE IF exists(tree, to) THEN {IF exists(tree, p) THEN 409 ELSE 500}
  ELSE IF ~CanMove(tree, p, to) THEN MoveErrors(tree, p, to) \cup OSErrors
  ELSE OSErrors

(* A checkpoint that the target's name has left over stays unless one      *)
(* comes to replace it.                                                    *)
Renamed(p, to) ==
  [Moved(cps, None, p, to) EXCEPT ![to] = IF cps[p] = None THEN cps[to] ELSE cps[p]]

Rename(p, to) ==
  /\ p # to /\ answer'.path = to
  /\ \/ /\ ~Refused(p) /\ ~Refused(to)
        /\ CanMove(tree, p, to) /\ ~exists(tree, to)
        /\ ~Related(p, to) /\ Fits(tree, p, to)
        /\ tree' = Carried(tree, p, to)
        /\ \/ cps' = Renamed(p, to) /\ Says("rename", to, 200)
           \/ /\ cps' = [Moved(cps, None, p, to) EXCEPT ![p] = cps[p], ![to] = cps[to]]
              /\ \E code \in OSErrors : Says("rename", to, code)
     \/ Refuses("rename", to, RenameErrors(p, to))

-----------------------------------------------------------------------------
(* The one checkpoint of a file.  The file checkpoints copy, and a missing *)
(* file is an error of the server; a copy that fails half-way has already  *)
(* truncated its target.  The generic ones go through get and save.        *)
CreateCheckpoint(p) ==
  \/ /\ file_exists(tree, p)
     /\ cps' = [cps EXCEPT ![p] = tree[p].data]
     /\ \E code \in {201} \cup OSErrors : Says("checkpoint", p, code)
     /\ UNCHANGED tree
  \/ /\ file_exists(tree, p) /\ ~conf.generic
     /\ cps' = [cps EXCEPT ![p] = <<>>]
     /\ \E code \in OSErrors : Says("checkpoint", p, code)
     /\ UNCHANGED tree
  \/ Refuses("checkpoint", p, IF conf.generic /\ ~exists(tree, p) THEN {404} ELSE {400} \cup OSErrors)

RestoreCheckpoint(p) ==
  \/ /\ cps[p] # None /\ ~dir_exists(tree, p) /\ dir_exists(tree, Parent(p))
     /\ conf.generic => exists(tree, p)
     /\ tree' = [tree EXCEPT ![p] = File(cps[p])]
     /\ Says("restore", p, 204)
     /\ UNCHANGED cps
  \/ /\ cps[p] # None /\ ~dir_exists(tree, p) /\ dir_exists(tree, Parent(p))
     /\ ~conf.generic
     /\ tree' = [tree EXCEPT ![p] = File(<<>>)]
     /\ \E code \in OSErrors : Says("restore", p, code)
     /\ UNCHANGED cps
  \/ Refuses("restore", p,
       IF conf.generic /\ (cps[p] = None \/ ~exists(tree, p)) THEN {404} ELSE {400} \cup OSErrors)

DeleteCheckpoint(p) ==
  \/ /\ cps[p] # None
     /\ cps' = [cps EXCEPT ![p] = None]
     /\ Says("uncheckpoint", p, 204)
     /\ UNCHANGED tree
  \/ Refuses("uncheckpoint", p, IF cps[p] = None THEN {404} ELSE OSErrors)

-----------------------------------------------------------------------------
Init ==
  /\ tree = [p \in Paths |-> Absent]
  /\ cps = [p \in Paths |-> None]
  /\ conf \in Configs
  /\ answer = Answer("none", Root, 200, None)

Next ==
  \/ \E p \in Paths \cup {Root} : Get(p) \/ List(p) \/ Delete(p)
  \/ \E p \in Paths, type \in Types, v \in Values : Save("save", type, p, <<v>>)
  \/ \E dir \in Paths \cup {Root}, type \in DOMAIN Untitled, v \in Values : NewUntitled(dir, type, <<v>>)
  \/ \E p \in Paths, chunk \in 1 .. MaxChunks, v \in Values : SaveChunk(p, chunk, v)
  \/ \E p \in Paths, to \in Paths \cup {Root} : CopyFile(p, to) \/ CopyDir(p, to)
  \/ \E p, to \in Paths : Rename(p, to)
  \/ \E p \in Paths : CreateCheckpoint(p) \/ RestoreCheckpoint(p) \/ DeleteCheckpoint(p)

Spec == Init /\ [][Next]_vars
=============================================================================
