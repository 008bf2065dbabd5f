--------------------------- MODULE ServerExtensions ---------------------------
(***************************************************************************)
(* The extensions of a server: extension/manager.py (ExtensionManager,     *)
(* ExtensionPackage, ExtensionPoint) and the hooks that an ExtensionApp    *)
(* (extension/application.py) or the functions of a module give it.        *)
(*                                                                         *)
(* A package has points, in order; each point is imported, linked, loaded, *)
(* started and, when it is an app, stopped, and each of these hooks may    *)
(* raise.  An exception ends what is being done for that package and is    *)
(* logged; the other packages go on.                                       *)
(***************************************************************************)
EXTENDS Naturals, FiniteSets

CONSTANTS
  Packages,   \* extension packages that are installed
  Size,       \* how many points each has
  Apps        \* the points that are an ExtensionApp: <<package, number>>

Hooks == {"import", "link", "load", "start", "stop"}
Points == UNION {{<<p, i>> : i \in 1 .. Size[p]} : p \in Packages}
PointsOf(p) == {x \in Points : x[1] = p}

ASSUME ExtensionsAssumption ==
  /\ Size \in [Packages -> Nat]
  /\ Apps \subseteq Points

Returns(hook, x, broken) == <<hook, x>> \notin broken

(* The points of a package for which a hook is called and returns: those   *)
(* before the first that raises.                                           *)
Done(hook, p, broken) ==
  {x \in PointsOf(p) : \A i \in 1 .. x[2] : Returns(hook, <<p, i>>, broken)}

(* add_extension: a package one of whose points cannot be imported is not  *)
(* there; one that is not enabled has no points.                           *)
add_extension(enabled, broken) ==
  {p \in enabled : \A x \in PointsOf(p) : Returns("import", x, broken)}

(* A package that failed to link is loaded all the same.                   *)
link_extension(p, broken) == Done("link", p, broken)
load_extension(p, broken) == Done("load", p, broken)
link_all_extensions(known, broken) == UNION {link_extension(p, broken) : p \in known}
load_all_extensions(known, broken) == UNION {load_extension(p, broken) : p \in known}

(* start_all_extensions starts the packages side by side, start_all_points *)
(* the points of a package one by one.                                     *)
start_all_extensions(known) == {p \in known : PointsOf(p) # {}}
start_point(p, started) == <<p, 1 + Cardinality({x \in started : x[1] = p})>>

(* stop_all_extensions: the apps of all packages, also of those that were  *)
(* never linked, loaded or started.                                        *)
extension_apps(known) == {x \in Apps : x[1] \in known}
=============================================================================
