------------------------------ MODULE ConfigFiles ------------------------------
(***************************************************************************)
(* The JSON files of the configuration and the processes that change them: *)
(* servers that store frontend settings (config_manager.py,                *)
(* services/config), "jupyter server extension enable" and "disable"       *)
(* (extension/serverextension.py, extension/config.py) and "jupyter server *)
(* password" (auth/security.py).                                           *)
(*                                                                         *)
(* A change is a read, a truncation and a write, with no lock: a server    *)
(* does one at a time, another process may come in between, and a crash    *)
(* leaves the file empty.  The content of a file is a function on the      *)
(* paths of its leaves: nested objects that become empty are pruned.  Not  *)
(* told apart is a scalar where another file, or the change, has an object *)
(* (recursive_update raises on the one order, and the other replaces the   *)
(* object); and one file of defaults stands for the sorted ones of a       *)
(* section, where the last that has a key counts.                          *)
(***************************************************************************)
EXTENDS Naturals, Sequences

CONSTANTS
  Processes,
  User, System,   \* the directories of the configuration, User first
  Keys, Values,   \* of the frontend section
  Null,           \* the JSON value that deletes
  Exts,           \* extensions
  Installed,      \* <<directory, extension>>: has a file in jupyter_server_config.d
  Pinned,         \* extensions enabled in jupyter_server_config.json of User
  shipped,        \* content of the section's defaults, in User
  site,           \* content of the section's file in System
  Passwords,
  Missing, Empty, \* a file that is not there, or has no content
  MaxOps, MaxCrashes  \* bounds: operations begun, crashes

ASSUME ConfigAssumption ==
  /\ DOMAIN shipped \subseteq Keys /\ DOMAIN site \subseteq Keys
  /\ Pinned \subseteq Exts /\ Installed \subseteq {User, System} \X Exts
  /\ MaxOps \in Nat /\ MaxCrashes \in Nat

(* What a file can hold: objects with these keys.  A default that is null  *)
(* is none: recursive_update, which collects the defaults, drops it.       *)
Objects(names, values) == UNION {[K -> values] : K \in SUBSET names}
Changes == Objects(Keys, Values \cup {Null})
Contents == Objects(Keys \cup Exts \cup {"password"}, Values \cup {Null} \cup BOOLEAN \cup Passwords)
ASSUME ContentAssumption ==
  /\ shipped \in Objects(Keys, Values) /\ site \in Changes
  /\ Null \notin Values /\ Null \notin BOOLEAN /\ Null \notin Passwords
  /\ Missing \notin Contents /\ Empty \notin Contents

(* The labels of the files and the subjects are no names of extensions: in *)
(* the code they are in different directories, or at different keys.       *)
ASSUME NamesAssumption ==
  /\ User # System
  /\ \A x \in Exts : x \notin {"config", "section", "shipped", "settings", "password"}

VARIABLES
  file,      \* content of each file
  op,        \* what each process is doing
  promised,  \* what the operations that succeeded said of each subject
  spoiled,   \* subjects of operations that overlapped or crashed
  begun, crashes
vars == <<file, op, promised, spoiled, begun, crashes>>

Path == <<User, System>>
Dirs == {User, System}
Config(d) == <<d, "config">>     \* jupyter_server_config.json
DropIn(d, x) == <<d, x>>         \* jupyter_server_config.d/x.json
Section(d) == <<d, "section">>   \* serverconfig/notebook.json
Shipped(d) == <<d, "shipped">>   \* serverconfig/notebook.d/package.json
Files == {Config(d) : d \in Dirs} \cup {DropIn(d, x) : d \in Dirs, x \in Exts}
           \cup {Section(d) : d \in Dirs} \cup {Shipped(d) : d \in Dirs}

NoKeys == [k \in {} |-> Null]
Only(k, v) == [j \in {k} |-> v]

-----------------------------------------------------------------------------
(* BaseJSONConfigManager                                                   *)
recursive_update(target, new) ==
  LET kept == {k \in DOMAIN target \cup DOMAIN new : k \notin DOMAIN new \/ new[k] # Null}
  IN [k \in kept |-> IF k \in DOMAIN new THEN new[k] ELSE target[k]]

(* Mutant: whatever has a default is removed.                              *)
remove_defaults_ByKey(data, defaults) ==
  [k \in DOMAIN data \ DOMAIN defaults |-> data[k]]

remove_defaults(data, defaults) ==
  [k \in {k \in DOMAIN data : k \notin DOMAIN defaults \/ data[k] # defaults[k]} |-> data[k]]

(* A file without content is passed over, as one that is not JSON.         *)
Data(f) == IF file[f] \in {Missing, Empty} THEN NoKeys ELSE file[f]

(* The files of {section}.d, each of which has keys of its own.            *)
directory(f) ==
  CASE f[2] = "config" -> {DropIn(f[1], x) : x \in Exts}
    [] f[2] = "section" -> {Shipped(f[1])}
    [] OTHER -> {}

defaults(f) ==
  [k \in UNION {DOMAIN Data(g) : g \in directory(f)} |->
     LET g == CHOOSE g \in directory(f) : k \in DOMAIN Data(g) IN Data(g)[k]]

get(f, include_root) ==
  IF include_root THEN recursive_update(defaults(f), Data(f)) ELSE defaults(f)

(* ConfigManager.get: the first directory of the path that has a key.      *)
merged(name) ==
  LET in(i) == get(<<Path[i], name>>, TRUE)
      has(k) == {i \in DOMAIN Path : k \in DOMAIN in(i)}
  IN [k \in UNION {DOMAIN in(i) : i \in DOMAIN Path} |->
        in(CHOOSE i \in has(k) : \A j \in has(k) : i <= j)[k]]

(* ExtensionConfigManager: of one directory for the commands, of the whole *)
(* path for a server that starts (find_server_extensions).                 *)
get_jpserver_extensions(d) == [x \in DOMAIN get(Config(d), TRUE) \cap Exts |-> get(Config(d), TRUE)[x]]
find_server_extensions == [x \in DOMAIN merged("config") \cap Exts |-> merged("config")[x]]

-----------------------------------------------------------------------------
(* An operation has a subject, which is what it is about for its user, and *)
(* works on a file.                                                        *)
Settings == <<User, "settings">>
Password == <<User, "password">>
Idle == [at |-> "idle"]
InFlight(subject) == \E p \in Processes : op[p].at # "idle" /\ op[p].subject = subject

Begin(p, kind, subject, f, new) ==
  /\ op[p].at = "idle" /\ begun < MaxOps
  /\ begun' = begun + 1
  /\ op' = [op EXCEPT ![p] = [at |-> "read", kind |-> kind, subject |-> subject, file |-> f,
                              new |-> new, data |-> NoKeys, answer |-> NoKeys]]
  /\ spoiled' = spoiled \cup (IF InFlight(subject) THEN {subject} ELSE {})
  /\ UNCHANGED <<file, promised, crashes>>

(* ConfigHandler.put and patch: ConfigManager writes to the user's own     *)
(* directory.                                                              *)
Put(p) == \E data \in Changes : Begin(p, "put", Settings, Section(User), data)
Patch(p) == \E new \in Changes : Begin(p, "update", Settings, Section(User), new)

(* Mutant: the switches of all extensions are kept in one file.            *)
toggle_Shared(p, d, x, on) == Begin(p, "update", <<d, x>>, Config(d), Only(x, on))

(* ExtensionConfigManager.enable and disable                               *)
toggle(p, d, x, on) == Begin(p, "update", <<d, x>>, DropIn(d, x), Only(x, on))

(* ToggleServerExtensionApp: an extension that the directory does not know *)
(* is refused.                                                             *)
toggle_server_extension(p) ==
  \E d \in Dirs, x \in Exts, on \in BOOLEAN :
    x \in DOMAIN get_jpserver_extensions(d) /\ toggle(p, d, x, on)

set_password(p) ==
  \E w \in Passwords : Begin(p, "persist", Password, Config(User), Only("password", w))

(* update reads the section with its defaults; persist_config reads only   *)
(* the file, and fails when it is not JSON.                                *)
update(f, new) == recursive_update(get(f, TRUE), new)
persist_config(f, new) == recursive_update(Data(f), new)

Read(p) ==
  LET o == op[p]
      data == CASE o.kind = "put" -> o.new
                [] o.kind = "update" -> update(o.file, o.new)
                [] o.kind = "persist" -> persist_config(o.file, o.new)
  IN /\ o.at = "read"
     /\ op' = IF o.kind = "persist" /\ file[o.file] = Empty THEN [op EXCEPT ![p] = Idle]
              ELSE [op EXCEPT ![p].at = "open", ![p].data = data, ![p].answer = data]
     /\ UNCHANGED <<file, promised, spoiled, begun, crashes>>

(* Mutant: the defaults are removed from the answer too.                   *)
Open_InPlace(p) ==
  LET o == op[p]
      left == IF o.kind = "persist" THEN o.data ELSE remove_defaults(o.data, get(o.file, FALSE))
  IN /\ o.at = "open"
     /\ op' = [op EXCEPT ![p].at = "write", ![p].data = left, ![p].answer = left]
     /\ file' = [file EXCEPT ![o.file] = Empty]
     /\ UNCHANGED <<promised, spoiled, begun, crashes>>

(* set reads the defaults again, then opens the file to write it.          *)
Open(p) ==
  LET o == op[p]
  IN /\ o.at = "open"
     /\ op' = [op EXCEPT ![p].at = "write",
                 ![p].data = IF o.kind = "persist" THEN @ ELSE remove_defaults(@, get(o.file, FALSE))]
     /\ file' = [file EXCEPT ![o.file] = Empty]
     /\ UNCHANGED <<promised, spoiled, begun, crashes>>

(* What the user of an operation that succeeded may expect to find: a put  *)
(* replaces the section, an update changes the keys it names and leaves    *)
(* the others, and what is deleted or not set has its default.             *)
Expected(o) ==
  CASE o.kind = "put" -> recursive_update(defaults(o.file), o.new)
    [] o.kind = "update" -> recursive_update(defaults(o.file), recursive_update(promised[o.subject], o.new))
    [] o.kind = "persist" -> o.new

Write(p) ==
  LET o == op[p]
  IN /\ o.at = "write"
     /\ file' = [file EXCEPT ![o.file] = o.data]
     /\ promised' = [promised EXCEPT ![o.subject] = Expected(o)]
     /\ op' = [op EXCEPT ![p] = Idle]
     /\ UNCHANGED <<spoiled, begun, crashes>>

(* A process dies.                                                         *)
Crash(p) ==
  /\ op[p].at # "idle" /\ crashes < MaxCrashes
  /\ crashes' = crashes + 1
  /\ op' = [op EXCEPT ![p] = Idle]
  /\ spoiled' = spoiled \cup {op[p].subject}
  /\ UNCHANGED <<file, promised, begun>>

-----------------------------------------------------------------------------
Subjects == {Settings, Password} \cup Dirs \X Exts

Init ==
  /\ file = [f \in Files |->
       CASE f = Config(User) -> [x \in Pinned |-> TRUE]
         [] f[2] \in Exts -> IF f \in Installed THEN Only(f[2], TRUE) ELSE Missing
         [] f = Shipped(User) -> shipped
         [] f = Section(System) -> site
         [] OTHER -> Missing]
  /\ op = [p \in Processes |-> Idle]
  /\ promised = [s \in Subjects |->
       CASE s = Settings -> shipped
         [] s \in Installed -> Only(s[2], TRUE)
         [] OTHER -> NoKeys]
  /\ spoiled = {} /\ begun = 0 /\ crashes = 0

Next ==
  \E p \in Processes :
    \/ Put(p) \/ Patch(p) \/ toggle_server_extension(p) \/ set_password(p)
    \/ Read(p) \/ Open(p) \/ Write(p) \/ Crash(p)
Spec == Init /\ [][Next]_vars

-----------------------------------------------------------------------------
TypeOK ==
  /\ DOMAIN file = Files /\ DOMAIN promised = Subjects /\ DOMAIN op = Processes
  /\ \A p \in Processes : op[p].at \in {"idle", "read", "open", "write"}
  /\ spoiled \subseteq Subjects /\ begun \in 0 .. MaxOps /\ crashes \in 0 .. MaxCrashes

Settled(subject) == subject \notin spoiled /\ ~InFlight(subject)
At(f, k) == IF k \in DOMAIN f THEN f[k] ELSE Null

(* What the last operation on a subject said holds as long as no other     *)
(* operation on that subject overlaps it and none crashes, whatever        *)
(* happens meanwhile to the others: settings read back as stored, with     *)
(* the defaults where nothing was stored (config_manager.py).              *)
SettingsHold ==
  Settled(Settings) => \A k \in Keys :
    At(merged("section"), k) = IF k \in DOMAIN promised[Settings] THEN promised[Settings][k] ELSE At(site, k)

(* The same for the switches of the extensions, for which a server that    *)
(* starts finds what was said last in the first directory that knows them, *)
(* unless jupyter_server_config.json speaks of them, and for the password, *)
(* which leaves the rest of that file as it was (extension/config.py,      *)
(* persist_config).                                                        *)
SwitchesHold ==
  /\ \A x \in Exts \ Pinned :
       (\A d \in Dirs : Settled(<<d, x>>)) =>
         At(find_server_extensions, x) =
           IF x \in DOMAIN promised[<<User, x>>] THEN promised[<<User, x>>][x]
           ELSE At(promised[<<System, x>>], x)
  /\ Settled(Password) =>
       \A k \in Pinned \cup {"password"} :
         At(Data(Config(User)), k) = IF k = "password" THEN At(promised[Password], k) ELSE TRUE

Updated(p) ==
  /\ op[p].at = "write" /\ op[p].kind = "update" /\ op[p].subject = Settings
  /\ op'[p].at = "idle" /\ Settled(Settings)'

Hidden(o, k) ==
  k \in DOMAIN shipped /\ k \notin DOMAIN recursive_update(promised[Settings], o.new)

(* The answer to a PATCH is what its user's own files say from then on,    *)
(* but for defaults that it, or a PUT before it, has deleted, which come   *)
(* back (BaseJSONConfigManager.update).                                    *)
AnswerHolds ==
  [][\A p \in Processes :
       Updated(p) =>
         \A k \in Keys : Hidden(op[p], k) \/ At(get(Section(User), TRUE)', k) = At(op[p].answer, k)]_vars

(* The answer to a PATCH is what its user's own files say from then on     *)
(* (the docstring of update: "Returns the modified config data").          *)
AnswerAlwaysHolds ==
  [][\A p \in Processes :
       Updated(p) =>
         \A k \in Keys : At(get(Section(User), TRUE)', k) = At(op[p].answer, k)]_vars
=============================================================================
