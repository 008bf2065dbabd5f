---------------------------- MODULE MCConfigFiles ----------------------------
(***************************************************************************)
(* Two processes; a section of two keys, one with a default and the other  *)
(* set for the whole site; an extension with files in both directories and *)
(* one that jupyter_server_config.json also mentions.                      *)
(***************************************************************************)
EXTENDS ConfigFiles, TLC

CONSTANTS lab, hub, theme, font, v1, v2

MCInstalled == {<<User, lab>>, <<System, lab>>, <<System, hub>>}
MCShipped == theme :> v1
MCSite == font :> v2
MCSymmetry == Permutations(Processes)
=============================================================================
