---------------------------- MODULE MCAsyncContents ---------------------------
(***************************************************************************)
(* AsyncContents on a small tree: a notebook, two directories that can     *)
(* hold one, the second the copy of the first, and a hidden name.          *)
(***************************************************************************)
EXTENDS AsyncContents, TLC

MCPaths == {<<"d">>, <<"d", "n">>, <<"d1">>, <<"d1", "n">>, <<"h">>}
MCHidden == {"h"}
MCVariants == [x \in {"n", "d", "d1", "h"} |-> IF x = "d" THEN <<"d", "d1">> ELSE <<x>>]
MCUntitled == [t \in {"notebook", "directory"} |-> IF t = "directory" THEN "d" ELSE "n"]
MCNotebooks == {"n"}
MCKinds ==
  [p \in MCPaths |-> IF p = <<"d">> THEN {"file"} ELSE IF p = <<"d1">> THEN {"directory"} ELSE {"notebook"}]
MCTargets ==
  "get" :> {<<"d", "n">>} @@ "list" :> {<<"d">>}
  @@ "save" :> {<<"d">>, <<"d", "n">>, <<"d1", "n">>, <<"d1">>, <<"h">>}
  @@ "new" :> {Root, <<"d">>} @@ "chunk" :> {<<"d", "n">>}
  @@ "copy" :> {<<"d", "n">>, <<"d">>, <<"d1">>, Root}
  @@ "delete" :> {<<"d", "n">>, <<"d">>} @@ "rename" :> {<<"d1", "n">>, <<"d", "n">>, <<"d1">>}
  @@ "checkpoint" :> {<<"d", "n">>}
Config(hidden, trash, force, generic) ==
  [hidden |-> hidden, trash |-> trash, force |-> force, generic |-> generic]
MCConfigs == {Config(FALSE, TRUE, FALSE, FALSE), Config(FALSE, FALSE, FALSE, TRUE)}

(* A smaller one, where requests overlap: a directory, which a copy can go *)
(* to, a notebook in it and its place outside.                             *)
OverlapPaths == {<<"d">>, <<"d", "n">>, <<"n">>}
OverlapKinds == [p \in OverlapPaths |-> IF p = <<"d">> THEN {"directory"} ELSE {"notebook"}]
OverlapTargets ==
  "get" :> {} @@ "list" :> {} @@ "save" :> OverlapPaths @@ "new" :> {} @@ "chunk" :> {}
  @@ "copy" :> {} @@ "delete" :> {<<"d", "n">>, <<"d">>} @@ "rename" :> OverlapPaths
  @@ "checkpoint" :> {}
OverlapConfigs == {Config(FALSE, FALSE, TRUE, FALSE)}
MCSymmetry == Permutations(Requests)
=============================================================================
