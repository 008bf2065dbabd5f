----------------------------- MODULE ContentsTree -----------------------------
(***************************************************************************)
(* The directory tree the contents service works on, and the tests the     *)
(* managers make on it: services/contents/filemanager.py and manager.py.   *)
(*                                                                         *)
(* A path is the sequence of its names below root_dir, which always        *)
(* exists.  A file's data is the sequence of pieces written to it: one for *)
(* a file saved whole, one for each chunk of an upload, none for a file    *)
(* that was opened and not yet, or never, written.                         *)
(***************************************************************************)
EXTENDS Naturals, Sequences

CONSTANTS
  Paths,       \* the paths that may come to exist, without root_dir
  HiddenNames, \* names that start with a dot
  Variants,    \* the names increment_filename tries for a name, in order
  Untitled,    \* type -> name of a new entity of the type
  Notebooks,   \* names that end in .ipynb
  Values,      \* pieces of content
  MaxChunks,   \* bound: pieces in one file
  None         \* no checkpoint, no data

Root == <<>>

ASSUME PathsAssumption == Root \notin Paths /\ Paths \subseteq Seq(DOMAIN Variants)
ASSUME NamesAssumption ==
  /\ \A name \in DOMAIN Variants : Variants[name] \in Seq(DOMAIN Variants)
  /\ \A type \in DOMAIN Untitled : Untitled[type] \in DOMAIN Variants
ASSUME ChunksAssumption == MaxChunks \in Nat \ {0}

Name(p) == p[Len(p)]
Parent(p) == SubSeq(p, 1, Len(p) - 1)
Join(dir, name) == Append(dir, name)
Within(p, q) == Len(p) <= Len(q) /\ SubSeq(q, 1, Len(p)) = p
Related(p, q) == Within(p, q) \/ Within(q, p)

(* Where q ends up when p becomes to.                                      *)
Rebased(q, p, to) == to \o SubSeq(q, Len(p) + 1, Len(q))

Data == UNION {[1 .. n -> Values] : n \in 0 .. MaxChunks}
Entry(kind, data) == [kind |-> kind, data |-> data]
Absent == Entry("absent", <<>>)
Dir == Entry("dir", <<>>)
File(data) == Entry("file", data)
Entries == {Absent, Dir} \cup {File(d) : d \in Data}

-----------------------------------------------------------------------------
Kind(tree, p) == IF p = Root THEN "dir" ELSE tree[p].kind
exists(tree, p) == Kind(tree, p) # "absent"
dir_exists(tree, p) == Kind(tree, p) = "dir"
file_exists(tree, p) == Kind(tree, p) = "file"
is_hidden(p) == \E i \in 1 .. Len(p) : p[i] \in HiddenNames

(* A directory that holds only the checkpoints' directory counts as empty. *)
is_non_empty_dir(tree, p) ==
  dir_exists(tree, p) /\ \E q \in Paths : q # p /\ Within(p, q) /\ exists(tree, q)

Types == {"notebook", "file", "directory"}
TypeOf(p) == IF Name(p) \in Notebooks THEN "notebook" ELSE "file"

(* The variants of a name that are free in a directory.                    *)
Free(tree, dir, name) ==
  {i \in DOMAIN Variants[name] :
     /\ Join(dir, Variants[name][i]) \in Paths
     /\ ~exists(tree, Join(dir, Variants[name][i]))}

Variant(dir, name, i) == Join(dir, Variants[name][i])
Unused(tree, dir, name) == {Variant(dir, name, i) : i \in Free(tree, dir, name)}

(* Whether a file, a notebook or a directory can be written at a path:     *)
(* open and mkdir fail without the parent, open fails on a directory, and  *)
(* _save_directory refuses a file.                                         *)
CanSave(tree, type, p) ==
  /\ dir_exists(tree, Parent(p))
  /\ IF type = "directory" THEN ~file_exists(tree, p) ELSE ~dir_exists(tree, p)

(* A chunk of an upload: the first, or one to append.                      *)
Piece(chunk) == IF chunk = 1 THEN "chunk" ELSE "append"

(* What the save leaves there.                                             *)
Saved(type, data) == IF type = "directory" THEN Dir ELSE File(data)

(* What a save that fails while it writes leaves there: the file as it was *)
(* or, where there was none, one without content.                          *)
Unsaved(tree, p) == IF exists(tree, p) THEN tree[p] ELSE File(<<>>)

(* An error of the operating system is 500, or 403 for want of permission. *)
OSErrors == {403, 500}

(* os.makedirs: the directory and those above it.                          *)
Made(tree, dir) == [x \in Paths |-> IF Within(x, dir) THEN Dir ELSE tree[x]]

(* What it fails on: a file where the directory, or one above it, would be. *)
Blocked(tree, dir) == \E x \in Paths : Within(x, dir) /\ file_exists(tree, x)

-----------------------------------------------------------------------------
(* A whole subtree removed, moved or copied, for the tree and for the      *)
(* checkpoints, which lie in a directory beside their files.               *)
Without(f, nothing, p) == [q \in Paths |-> IF Within(p, q) THEN nothing ELSE f[q]]

Moved(f, nothing, p, to) ==
  [q \in Paths |-> IF Within(to, q) THEN f[Rebased(q, to, p)]
                   ELSE IF Within(p, q) THEN nothing ELSE f[q]]

Copied(f, p, to) == [q \in Paths |-> IF Within(to, q) THEN f[Rebased(q, to, p)] ELSE f[q]]

(* shutil.move: a rename, for which the target's parent must be there; but *)
(* a directory that cannot be renamed is copied, which makes the parents.  *)
CanMove(tree, p, to) ==
  /\ exists(tree, p)
  /\ \/ dir_exists(tree, Parent(to))
     \/ dir_exists(tree, p) /\ ~Blocked(tree, Parent(to))

MoveErrors(tree, p, to) ==
  IF exists(tree, p) /\ Blocked(tree, Parent(to)) THEN {500} ELSE {404}

Carried(tree, p, to) ==
  IF dir_exists(tree, Parent(to)) THEN Moved(tree, Absent, p, to)
  ELSE Made(Moved(tree, Absent, p, to), Parent(to))

(* The bound on Paths: what lies below the one has a place below the other. *)
Fits(tree, p, to) ==
  \A q \in Paths : /\ Within(p, q) /\ exists(tree, q) => Rebased(q, p, to) \in Paths
                   /\ Within(to, q) => Rebased(q, to, p) \in Paths
=============================================================================
