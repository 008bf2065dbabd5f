--------------------------- MODULE MCRunningServers ---------------------------
(***************************************************************************)
(* A server with a terminal and one without; a package of two points, the  *)
(* second of them an app whose command starts the first server, and a       *)
(* package with one app, which the configuration of that server enables.   *)
(***************************************************************************)
EXTENDS RunningServers, TLC

CONSTANTS s1, s2, lab, hub

MCSize == lab :> 2 @@ hub :> 1
MCFaulty == {<<"import", <<lab, 1>>>>,
             <<"start", <<lab, 1>>>>, <<"stop", <<hub, 1>>>>}
MCEnabled == s1 :> {hub} @@ s2 :> {}
MCStarter == s1 :> <<lab, 2>> @@ s2 :> Nobody
MCEnabledOne == s1 :> {}
MCStarterOne == s1 :> <<lab, 2>>
MCApps == {<<lab, 2>>, <<hub, 1>>}
=============================================================================
