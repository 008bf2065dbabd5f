------------------------------ MODULE MCIdentity ------------------------------
(* One browser with two requests under way; a name for each cookie that    *)
(* may be about, and one more.                                             *)
EXTENDS Identity

MCUsers == 1 .. 4
MCFields == {"color", "avatar_url"}
MCUpdatable == {"color"}
MCSettings == {"generated", "configured", "empty", "required", "kept"}
=============================================================================
