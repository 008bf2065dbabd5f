--------------------------- MODULE ConfigFiles_proofs ---------------------------
(***************************************************************************)
(* What is kept in the configuration files is what the last operation on   *)
(* each subject said, for any number of processes, keys, extensions,       *)
(* operations and crashes.                                                 *)
(*                                                                         *)
(* Types is inductive by itself: what each file can hold and what each     *)
(* operation carries, overlapping or not.  KInv, given Types, says of each *)
(* subject that no overlap or crash has spoiled: one operation at most is  *)
(* about it, its files show what was promised unless that operation has    *)
(* truncated them, and what an operation that has read is going to write   *)
(* is what it will promise.                                                *)
(*                                                                         *)
(* The last part, about Identity, has CookiesSound: what an answer under   *)
(* way may do to the cookie of its browser, by what its request carried.   *)
(***************************************************************************)
EXTENDS ConfigFiles, TLAPS

Switch(x) == [{x} -> BOOLEAN]
Roots == Objects(Pinned \cup {"password"}, {TRUE} \cup Passwords)
Nothing == {Missing, Empty}
Prefs == Objects(Keys, Values)

(* What the files hold and the operations carry, overlapping or not.       *)
Held ==
  /\ file \in [Files -> Contents \cup Nothing]
  /\ file[Shipped(User)] = shipped /\ file[Section(System)] = site
  /\ file[Shipped(System)] \in Nothing /\ file[Config(System)] \in Nothing
  /\ file[Section(User)] \in Changes \cup Nothing
  /\ file[Config(User)] \in Roots \cup Nothing
  /\ \A d \in Dirs, x \in Exts : file[DropIn(d, x)] \in Switch(x) \cup Nothing

Said ==
  /\ promised \in [Subjects -> Contents]
  /\ promised[Settings] \in Prefs
  /\ \A d \in Dirs, x \in Exts : promised[<<d, x>>] \in Switch(x) \cup {NoKeys}

Op == [at : {"read", "open", "write"}, kind : {"put", "update", "persist"}, subject : Subjects, file : Files,
       new : Contents, data : Contents, answer : Contents]
OnSettings(o) ==
  /\ o.kind \in {"put", "update"} /\ o.subject = Settings /\ o.file = Section(User)
  /\ o.new \in Changes /\ o.data \in Changes
OnSwitch(o, d, x) ==
  /\ o.kind = "update" /\ o.subject = <<d, x>> /\ o.file = DropIn(d, x)
  /\ o.new \in Switch(x) /\ (o.at # "read" => o.data = o.new)
OnPassword(o) ==
  /\ o.kind = "persist" /\ o.subject = Password /\ o.file = Config(User)
  /\ o.new \in [{"password"} -> Passwords] /\ o.data \in Roots
Ops == {o \in Op : OnSettings(o) \/ OnPassword(o) \/ \E d \in Dirs, x \in Exts : OnSwitch(o, d, x)}
Carried == op \in [Processes -> {Idle} \cup Ops]

Types == Held /\ Said /\ Carried

-----------------------------------------------------------------------------
Busy(p, s) == op[p].at # "idle" /\ op[p].subject = s
Lone(s) == \A p, q \in Processes : Busy(p, s) /\ Busy(q, s) => p = q
Written(s) == \E p \in Processes : Busy(p, s) /\ op[p].at = "write"

Complete(f) == f \in Roots /\ \A k \in Pinned : k \in DOMAIN f /\ f[k] = TRUE
Kept(s) ==
  CASE s = Settings -> get(Section(User), TRUE) = promised[s]
    [] s = Password -> Complete(file[Config(User)])
                       /\ At(file[Config(User)], "password") = At(promised[s], "password")
    [] OTHER -> Data(s) = promised[s]

(* What an operation that has read its file is going to write.             *)
Prepared(o) ==
  /\ o.kind = "put" => o.data = IF o.at = "open" THEN o.new ELSE remove_defaults(o.new, shipped)
  /\ o.kind = "update" /\ o.subject = Settings =>
       /\ o.answer = recursive_update(promised[Settings], o.new)
       /\ o.data = IF o.at = "open" THEN o.answer ELSE remove_defaults(o.answer, shipped)
  /\ o.kind = "persist" => Complete(o.data) /\ At(o.data, "password") = o.new["password"]

Clean(s) ==
  /\ Lone(s)
  /\ ~Written(s) => Kept(s)
  /\ \A p \in Processes : Busy(p, s) /\ op[p].at # "read" => Prepared(op[p])
KInv == \A s \in Subjects \ spoiled : Clean(s)

-----------------------------------------------------------------------------
(* Objects and the two operations on them.                                 *)
LEMMA Same ==
  ASSUME NEW A, NEW f, NEW g, f = [k \in A |-> f[k]], g = [k \in A |-> g[k]],
         \A k \in A : f[k] = g[k]
  PROVE f = g
<1>1. [k \in A |-> f[k]] = [k \in A |-> g[k]]
  OBVIOUS
<1>. QED BY <1>1

LEMMA InObjects ==
  ASSUME NEW names, NEW values, NEW f
  PROVE f \in Objects(names, values) <=> f \in [DOMAIN f -> values] /\ DOMAIN f \subseteq names
BY SMTT(30) DEF Objects

LEMMA WiderObjects ==
  ASSUME NEW names, NEW values, NEW names2, NEW values2, names \subseteq names2, values \subseteq values2
  PROVE Objects(names, values) \subseteq Objects(names2, values2)
<1> SUFFICES ASSUME NEW f \in Objects(names, values) PROVE f \in Objects(names2, values2)
  OBVIOUS
<1>1. f \in [DOMAIN f -> values] /\ DOMAIN f \subseteq names
  BY InObjects
<1>2. f \in [DOMAIN f -> values2] /\ DOMAIN f \subseteq names2
  BY <1>1
<1>. QED BY <1>2, InObjects

LEMMA UpdateMeans ==
  ASSUME NEW target, NEW new
  PROVE LET u == recursive_update(target, new)
        IN /\ u = [k \in DOMAIN u |-> u[k]]
           /\ \A k : k \in DOMAIN u <=> IF k \in DOMAIN new THEN new[k] # Null ELSE k \in DOMAIN target
           /\ \A k \in DOMAIN u : u[k] = IF k \in DOMAIN new THEN new[k] ELSE target[k]
BY DEF recursive_update

LEMMA RemovalMeans ==
  ASSUME NEW data, NEW given
  PROVE LET r == remove_defaults(data, given)
        IN /\ r = [k \in DOMAIN r |-> r[k]]
           /\ \A k : k \in DOMAIN r <=> k \in DOMAIN data /\ (k \notin DOMAIN given \/ data[k] # given[k])
           /\ \A k \in DOMAIN r : r[k] = data[k]
BY DEF remove_defaults

(* An update keeps the names and the values, and deletes what is null.     *)
LEMMA UpdateType ==
  ASSUME NEW names, NEW values, NEW target \in Objects(names, values),
         NEW new \in Objects(names, values \cup {Null})
  PROVE recursive_update(target, new) \in Objects(names, values)
<1> DEFINE u == recursive_update(target, new)
<1> HIDE DEF u
<1>1. u = [k \in DOMAIN u |-> u[k]]
      /\ \A k : k \in DOMAIN u <=> IF k \in DOMAIN new THEN new[k] # Null ELSE k \in DOMAIN target
  BY UpdateMeans DEF u
<1>2. \A k \in DOMAIN u : u[k] = IF k \in DOMAIN new THEN new[k] ELSE target[k]
  BY UpdateMeans DEF u
<1>3. target \in [DOMAIN target -> values] /\ DOMAIN target \subseteq names
  BY InObjects
<1>4. new \in [DOMAIN new -> values \cup {Null}] /\ DOMAIN new \subseteq names
  BY InObjects
<1>5. \A k \in DOMAIN u : u[k] \in values
  BY <1>1, <1>2, <1>3, <1>4
<1>6. u \in [DOMAIN u -> values] /\ DOMAIN u \subseteq names
  BY <1>1, <1>3, <1>4, <1>5
<1>. QED BY <1>6, InObjects DEF u

LEMMA RemovalType ==
  ASSUME NEW names, NEW values, NEW data \in Objects(names, values), NEW given
  PROVE remove_defaults(data, given) \in Objects(names, values)
<1> DEFINE r == remove_defaults(data, given)
<1> HIDE DEF r
<1>1. r = [k \in DOMAIN r |-> r[k]] /\ DOMAIN r \subseteq DOMAIN data /\ \A k \in DOMAIN r : r[k] = data[k]
  BY RemovalMeans DEF r
<1>2. data \in [DOMAIN data -> values] /\ DOMAIN data \subseteq names
  BY InObjects
<1>3. r \in [DOMAIN r -> values] /\ DOMAIN r \subseteq names
  BY <1>1, <1>2
<1>. QED BY <1>3, InObjects DEF r

(* Removing the defaults before they are put under again changes nothing.  *)
LEMMA RemovedDefaultsReturn ==
  ASSUME NEW data, NEW given, \A k \in DOMAIN given : given[k] # Null
  PROVE recursive_update(given, remove_defaults(data, given)) = recursive_update(given, data)
<1> DEFINE r == remove_defaults(data, given)
           u == recursive_update(given, r)
           v == recursive_update(given, data)
<1> HIDE DEF r, u, v
<1>1. (\A k : k \in DOMAIN r <=> k \in DOMAIN data /\ (k \notin DOMAIN given \/ data[k] # given[k]))
      /\ \A k \in DOMAIN r : r[k] = data[k]
  BY RemovalMeans DEF r
<1>2. u = [k \in DOMAIN u |-> u[k]]
      /\ \A k : k \in DOMAIN u <=> IF k \in DOMAIN r THEN r[k] # Null ELSE k \in DOMAIN given
  BY UpdateMeans DEF u
<1>3. \A k \in DOMAIN u : u[k] = IF k \in DOMAIN r THEN r[k] ELSE given[k]
  BY UpdateMeans DEF u
<1>4. v = [k \in DOMAIN v |-> v[k]]
      /\ \A k : k \in DOMAIN v <=> IF k \in DOMAIN data THEN data[k] # Null ELSE k \in DOMAIN given
  BY UpdateMeans DEF v
<1>5. \A k \in DOMAIN v : v[k] = IF k \in DOMAIN data THEN data[k] ELSE given[k]
  BY UpdateMeans DEF v
<1>6. \A k : k \in DOMAIN u <=> k \in DOMAIN v
  BY <1>1, <1>2, <1>4
<1>7. \A k \in DOMAIN v : u[k] = v[k]
  BY <1>1, <1>3, <1>5, <1>6
<1>8. DOMAIN u = DOMAIN v
  BY <1>6
<1>9. u = v
  BY <1>2, <1>4, <1>7, <1>8, Same
<1>. QED BY <1>9 DEF u, v, r

(* Nothing under an object without nulls, or over one, is that object.     *)
LEMMA UpdateNothing ==
  ASSUME NEW f, f = [k \in DOMAIN f |-> f[k]]
  PROVE /\ recursive_update(f, NoKeys) = f
        /\ (\A k \in DOMAIN f : f[k] # Null) => recursive_update(NoKeys, f) = f
BY DEF recursive_update, NoKeys

LEMMA RemoveNothing ==
  ASSUME NEW f, f = [k \in DOMAIN f |-> f[k]]
  PROVE remove_defaults(f, NoKeys) = f
BY DEF remove_defaults, NoKeys

LEMMA Nulls ==
  /\ \A f \in Objects(Keys, Values) : \A k \in DOMAIN f : f[k] # Null
  /\ \A x : \A f \in Switch(x) : f[x] # Null /\ DOMAIN f = {x} /\ f = [k \in {x} |-> f[k]]
  /\ \A k \in DOMAIN shipped : shipped[k] # Null
<1>1. \A f \in Objects(Keys, Values) : \A k \in DOMAIN f : f[k] # Null
  BY InObjects, ContentAssumption
<1>2. \A x : \A f \in Switch(x) : f[x] # Null /\ DOMAIN f = {x} /\ f = [k \in {x} |-> f[k]]
  BY ContentAssumption DEF Switch
<1>. QED BY <1>1, <1>2, ContentAssumption

(* Every kind of content is content, and so it is not that of a file that  *)
(* is missing or empty.                                                    *)
LEMMA AreContents ==
  /\ Changes \subseteq Contents /\ Roots \subseteq Contents /\ Prefs \subseteq Changes
  /\ Prefs \subseteq Contents
  /\ \A x \in Exts : Switch(x) \subseteq Contents
  /\ [{"password"} -> Passwords] \subseteq Contents
  /\ NoKeys \in Prefs /\ NoKeys \in Contents /\ NoKeys \in Roots
  /\ shipped \in Prefs /\ shipped \in Contents /\ site \in Contents
<1>1. Changes \subseteq Contents
  BY WiderObjects, SMTT(30) DEF Changes, Contents
<1>2. Roots \subseteq Contents
  <2> SUFFICES ASSUME NEW f \in Roots PROVE f \in Contents
    OBVIOUS
  <2>1. f \in [DOMAIN f -> {TRUE} \cup Passwords] /\ DOMAIN f \subseteq Pinned \cup {"password"}
    BY InObjects DEF Roots
  <2>2. f \in [DOMAIN f -> Values \cup {Null} \cup BOOLEAN \cup Passwords]
    BY <2>1
  <2>3. DOMAIN f \subseteq Keys \cup Exts \cup {"password"}
    BY <2>1, ConfigAssumption
  <2>. QED BY <2>2, <2>3, InObjects DEF Contents
<1>3. Prefs \subseteq Changes
  BY WiderObjects DEF Prefs, Changes
<1>4. ASSUME NEW x \in Exts, NEW f \in Switch(x) PROVE f \in Contents
  <2>1. f \in [DOMAIN f -> Values \cup {Null} \cup BOOLEAN \cup Passwords] /\ DOMAIN f \subseteq Keys \cup Exts \cup {"password"}
    BY DEF Switch
  <2>. QED BY <2>1, InObjects DEF Contents
<1>5. ASSUME NEW f \in [{"password"} -> Passwords] PROVE f \in Contents
  <2>1. f \in [DOMAIN f -> Values \cup {Null} \cup BOOLEAN \cup Passwords] /\ DOMAIN f \subseteq Keys \cup Exts \cup {"password"}
    OBVIOUS
  <2>. QED BY <2>1, InObjects DEF Contents
<1>6. NoKeys \in Prefs /\ NoKeys \in Roots
  <2>1. \A names, values : NoKeys \in [DOMAIN NoKeys -> values] /\ DOMAIN NoKeys \subseteq names
    BY DEF NoKeys
  <2>. QED BY <2>1, InObjects DEF Prefs, Roots
<1>7. shipped \in Prefs /\ site \in Changes
  BY ContentAssumption DEF Prefs
<1>. QED BY <1>1, <1>2, <1>3, <1>4, <1>5, <1>6, <1>7

(* The files and the subjects are different from one another.              *)
LEMMA Apart ==
  /\ \A d \in Dirs, x \in Exts :
       /\ DropIn(d, x) \in Files /\ <<d, x>> \in Subjects
       /\ <<d, x>> # Settings /\ <<d, x>> # Password
       /\ DropIn(d, x) \notin {Section(User), Section(System), Config(User), Config(System), Shipped(User), Shipped(System)}
  /\ {Settings, Password} \subseteq Subjects /\ Settings # Password
  /\ {Section(User), Section(System), Config(User), Config(System), Shipped(User), Shipped(System)} \subseteq Files
  /\ Section(User) \notin {Section(System), Config(User), Config(System), Shipped(User), Shipped(System)}
  /\ Config(User) \notin {Section(System), Config(System), Shipped(User), Shipped(System)}
BY NamesAssumption DEF Files, Subjects, Dirs, Settings, Password, DropIn, Section, Config, Shipped

LEMMA AllThereAre ==
  /\ \A f \in Files :
       \/ f \in {Section(User), Section(System), Config(User), Config(System), Shipped(User), Shipped(System)}
       \/ \E d \in Dirs, x \in Exts : f = DropIn(d, x)
  /\ \A s \in Subjects : s \in {Settings, Password} \/ \E d \in Dirs, x \in Exts : s = <<d, x>>
<1>1. ASSUME NEW f \in Files
      PROVE \/ f \in {Section(User), Section(System), Config(User), Config(System), Shipped(User), Shipped(System)}
            \/ \E d \in Dirs, x \in Exts : f = DropIn(d, x)
  BY DEF Files, Dirs
<1>2. ASSUME NEW s \in Subjects PROVE s \in {Settings, Password} \/ \E d \in Dirs, x \in Exts : s = <<d, x>>
  <2>1. CASE s \in Dirs \X Exts
    BY <2>1
  <2>. QED BY <2>1 DEF Subjects
<1>. QED BY <1>1, <1>2

LEMMA DirectoryOf ==
  /\ \A d : directory(Section(d)) = {Shipped(d)}
  /\ \A d : directory(Config(d)) = {DropIn(d, x) : x \in Exts}
  /\ \A d \in Dirs, x \in Exts : directory(DropIn(d, x)) = {}
BY NamesAssumption DEF directory, Section, Config, DropIn, Shipped

LEMMA DataIs ==
  ASSUME NEW f
  PROVE /\ file[f] \in Nothing => Data(f) = NoKeys
        /\ file[f] \in Contents => Data(f) = file[f]
BY ContentAssumption DEF Data, Nothing

LEMMA DefaultsMean ==
  ASSUME NEW f
  PROVE /\ defaults(f) = [k \in DOMAIN defaults(f) |-> defaults(f)[k]]
        /\ DOMAIN defaults(f) = UNION {DOMAIN Data(g) : g \in directory(f)}
        /\ \A k \in DOMAIN defaults(f) :
             defaults(f)[k] = Data(CHOOSE g \in directory(f) : k \in DOMAIN Data(g))[k]
BY DEF defaults

(* What reading the files gives, when they hold what they can.             *)
Views ==
  /\ defaults(Section(User)) = shipped
  /\ get(Section(User), FALSE) = shipped
  /\ get(Section(User), TRUE) = recursive_update(shipped, Data(Section(User)))
  /\ Data(Section(User)) \in Changes
  /\ \A k : At(get(Section(System), TRUE), k) = At(site, k)
  /\ \A k : k \in DOMAIN get(Section(System), TRUE) => k \in DOMAIN site /\ site[k] # Null
  /\ Data(Config(User)) \in Roots
  /\ \A d \in Dirs, x \in Exts :
       /\ get(DropIn(d, x), FALSE) = NoKeys
       /\ get(DropIn(d, x), TRUE) = Data(DropIn(d, x))
       /\ Data(DropIn(d, x)) \in Switch(x) \cup {NoKeys}
       /\ x \notin Pinned =>
            /\ x \in DOMAIN get(Config(d), TRUE) <=> x \in DOMAIN Data(DropIn(d, x))
            /\ At(get(Config(d), TRUE), x) = At(Data(DropIn(d, x)), x)

LEMMA SectionViews ==
  ASSUME Held
  PROVE /\ defaults(Section(User)) = shipped
        /\ get(Section(User), FALSE) = shipped
        /\ get(Section(User), TRUE) = recursive_update(shipped, Data(Section(User)))
        /\ Data(Section(User)) \in Changes
        /\ \A k : At(get(Section(System), TRUE), k) = At(site, k)
        /\ \A k : k \in DOMAIN get(Section(System), TRUE) => k \in DOMAIN site /\ site[k] # Null
<1>1. Data(Shipped(User)) = shipped /\ Data(Shipped(System)) = NoKeys /\ Data(Section(System)) = site
  BY DataIs, AreContents DEF Held
<1>2. \A d : /\ defaults(Section(d)) = [k \in DOMAIN defaults(Section(d)) |-> defaults(Section(d))[k]]
           /\ DOMAIN defaults(Section(d)) = DOMAIN Data(Shipped(d))
           /\ \A k \in DOMAIN Data(Shipped(d)) : defaults(Section(d))[k] = Data(Shipped(d))[k]
  <2> TAKE d
  <2>1. UNION {DOMAIN Data(g) : g \in directory(Section(d))} = DOMAIN Data(Shipped(d))
    BY DirectoryOf
  <2>2. \A k \in DOMAIN Data(Shipped(d)) :
          (CHOOSE g \in directory(Section(d)) : k \in DOMAIN Data(g)) = Shipped(d)
    BY DirectoryOf
  <2>. QED BY <2>1, <2>2, DefaultsMean
<1>3. shipped = [k \in DOMAIN shipped |-> shipped[k]] /\ NoKeys = [k \in DOMAIN NoKeys |-> NoKeys[k]]
  BY InObjects, ContentAssumption DEF NoKeys
<1>4. defaults(Section(User)) = shipped /\ defaults(Section(System)) = NoKeys
  <2>1. defaults(Section(User)) = shipped
    BY <1>1, <1>2, <1>3, Same
  <2>2. defaults(Section(System)) = NoKeys
    BY <1>1, <1>2, <1>3, Same
  <2>. QED BY <2>1, <2>2
<1>5. Data(Section(User)) \in Changes
  BY DataIs, AreContents DEF Held
<1>6. get(Section(System), TRUE) = recursive_update(NoKeys, site)
  BY <1>1, <1>4 DEF get
<1>7. DOMAIN NoKeys = {}
  BY DEF NoKeys
<1>8. \A k : At(recursive_update(NoKeys, site), k) = At(site, k)
  BY <1>7, UpdateMeans DEF At
<1>9. \A k : k \in DOMAIN recursive_update(NoKeys, site) => k \in DOMAIN site /\ site[k] # Null
  BY <1>7, UpdateMeans
<1>. QED BY <1>4, <1>5, <1>6, <1>8, <1>9 DEF get

LEMMA ConfigViews ==
  ASSUME Held
  PROVE /\ Data(Config(User)) \in Roots
        /\ \A d \in Dirs, x \in Exts :
             /\ get(DropIn(d, x), FALSE) = NoKeys
             /\ get(DropIn(d, x), TRUE) = Data(DropIn(d, x))
             /\ Data(DropIn(d, x)) \in Switch(x) \cup {NoKeys}
             /\ x \notin Pinned =>
                  /\ x \in DOMAIN get(Config(d), TRUE) <=> x \in DOMAIN Data(DropIn(d, x))
                  /\ At(get(Config(d), TRUE), x) = At(Data(DropIn(d, x)), x)
<1>1. Data(Config(User)) \in Roots /\ Data(Config(System)) = NoKeys
  BY DataIs, AreContents DEF Held
<1>2. ASSUME NEW d \in Dirs, NEW x \in Exts
      PROVE /\ Data(DropIn(d, x)) \in Switch(x) \cup {NoKeys}
            /\ DOMAIN Data(DropIn(d, x)) \subseteq {x}
            /\ Data(DropIn(d, x)) = [k \in DOMAIN Data(DropIn(d, x)) |-> Data(DropIn(d, x))[k]]
            /\ \A k \in DOMAIN Data(DropIn(d, x)) : Data(DropIn(d, x))[k] # Null
  <2>1. file[DropIn(d, x)] \in Switch(x) \cup Nothing
    BY DEF Held
  <2>2. Data(DropIn(d, x)) \in Switch(x) \cup {NoKeys}
    BY <2>1, DataIs, AreContents
  <2>3. DOMAIN NoKeys = {} /\ NoKeys = [k \in {} |-> NoKeys[k]]
    BY DEF NoKeys
  <2>4. CASE Data(DropIn(d, x)) = NoKeys
    BY <2>3, <2>4
  <2>5. CASE Data(DropIn(d, x)) \in Switch(x)
    <3> DEFINE f == Data(DropIn(d, x))
    <3> HIDE DEF f
    <3>1. f[x] # Null /\ DOMAIN f = {x} /\ f = [k \in {x} |-> f[k]]
      BY <2>5, Nulls DEF f
    <3>2. f \in Switch(x)
      BY <2>5 DEF f
    <3>3. f = [k \in DOMAIN f |-> f[k]]
      BY <3>1
    <3>. QED BY <3>1, <3>2, <3>3 DEF f
  <2>. QED BY <2>2, <2>4, <2>5
<1>3. ASSUME NEW d \in Dirs, NEW x \in Exts
      PROVE /\ get(DropIn(d, x), FALSE) = NoKeys
            /\ get(DropIn(d, x), TRUE) = Data(DropIn(d, x))
  <2>1. defaults(DropIn(d, x)) = NoKeys
    <3>1. DOMAIN defaults(DropIn(d, x)) = {}
      <4>1. directory(DropIn(d, x)) = {}
        BY DirectoryOf
      <4>2. UNION {DOMAIN Data(g) : g \in {}} = {}
        OBVIOUS
      <4>. QED BY <4>1, <4>2, DefaultsMean
    <3>2. NoKeys = [k \in {} |-> NoKeys[k]]
      BY DEF NoKeys
    <3>. QED BY <3>1, <3>2, DefaultsMean, Same
  <2>. QED BY <2>1, <1>2, UpdateNothing DEF get
<1>4. ASSUME NEW d \in Dirs, NEW x \in Exts
      PROVE /\ x \in DOMAIN defaults(Config(d)) <=> x \in DOMAIN Data(DropIn(d, x))
            /\ x \in DOMAIN defaults(Config(d)) => defaults(Config(d))[x] = Data(DropIn(d, x))[x]
  <2>1. x \in UNION {DOMAIN Data(g) : g \in directory(Config(d))} <=> x \in DOMAIN Data(DropIn(d, x))
    BY <1>2, DirectoryOf
  <2>2. ASSUME x \in DOMAIN Data(DropIn(d, x))
        PROVE (CHOOSE g \in directory(Config(d)) : x \in DOMAIN Data(g)) = DropIn(d, x)
    BY <1>2, <2>2, DirectoryOf
  <2>. QED BY <2>1, <2>2, DefaultsMean
<1>5. ASSUME NEW d \in Dirs, NEW x \in Exts \ Pinned
      PROVE /\ x \in DOMAIN get(Config(d), TRUE) <=> x \in DOMAIN Data(DropIn(d, x))
            /\ At(get(Config(d), TRUE), x) = At(Data(DropIn(d, x)), x)
  <2>1. x \notin DOMAIN Data(Config(d))
    <3>1. x \notin DOMAIN NoKeys
      BY DEF NoKeys
    <3>2. DOMAIN Data(Config(User)) \subseteq Pinned \cup {"password"}
      BY <1>1, InObjects DEF Roots
    <3>. QED BY <1>1, <3>1, <3>2, NamesAssumption DEF Dirs
  <2>2. get(Config(d), TRUE) = recursive_update(defaults(Config(d)), Data(Config(d)))
    BY DEF get
  <2>3. x \in DOMAIN get(Config(d), TRUE) <=> x \in DOMAIN defaults(Config(d))
    BY <2>1, <2>2, UpdateMeans
  <2>4. ASSUME x \in DOMAIN get(Config(d), TRUE) PROVE get(Config(d), TRUE)[x] = defaults(Config(d))[x]
    <3> DEFINE t == defaults(Config(d))
               n == Data(Config(d))
               u == recursive_update(t, n)
    <3> HIDE DEF t, n, u
    <3>1. \A k \in DOMAIN u : u[k] = IF k \in DOMAIN n THEN n[k] ELSE t[k]
      BY UpdateMeans DEF u
    <3>2. x \in DOMAIN u /\ x \notin DOMAIN n
      BY <2>1, <2>2, <2>4 DEF u, t, n
    <3>. QED BY <2>2, <3>1, <3>2 DEF u, t, n
  <2>. QED BY <2>3, <2>4, <1>4 DEF At
<1>. QED BY <1>1, <1>2, <1>3, <1>5

LEMMA HeldViews == Held => Views
BY SectionViews, ConfigViews DEF Views

-----------------------------------------------------------------------------
(* What operations carry, and what they are going to write.                *)
LEMMA OpTyped ==
  ASSUME Carried, NEW p \in Processes
  PROVE /\ op[p] \in {Idle} \cup Ops
        /\ op[p].at # "idle" => op[p] \in Ops
        /\ op[p] \in Ops => op[p].at # "idle"
BY DEF Carried, Idle, Ops, Op

LEMMA SwitchUpdate ==
  ASSUME NEW x, NEW target \in Switch(x) \cup {NoKeys}, NEW new \in Switch(x)
  PROVE recursive_update(target, new) = new
<1> DEFINE u == recursive_update(target, new)
<1> HIDE DEF u
<1>1. u = [k \in DOMAIN u |-> u[k]]
      /\ \A k : k \in DOMAIN u <=> IF k \in DOMAIN new THEN new[k] # Null ELSE k \in DOMAIN target
  BY UpdateMeans DEF u
<1>2. \A k \in DOMAIN u : u[k] = IF k \in DOMAIN new THEN new[k] ELSE target[k]
  BY UpdateMeans DEF u
<1>3. new[x] # Null /\ DOMAIN new = {x} /\ new = [k \in {x} |-> new[k]]
  BY Nulls
<1>4. DOMAIN target \subseteq {x}
  BY Nulls DEF NoKeys
<1>5. DOMAIN u = {x}
  BY <1>1, <1>3, <1>4
<1>6. u = new
  BY <1>1, <1>2, <1>3, <1>5, Same
<1>. QED BY <1>6 DEF u

Fetched(o) ==
  CASE o.kind = "put" -> o.new
    [] o.kind = "update" -> update(o.file, o.new)
    [] o.kind = "persist" -> persist_config(o.file, o.new)
Left(o) == IF o.kind = "persist" THEN o.data ELSE remove_defaults(o.data, get(o.file, FALSE))

LEMMA SettingsSteps ==
  ASSUME Held, Said, NEW o, OnSettings(o)
  PROVE /\ o.kind = "put" => Fetched(o) = o.new /\ Expected(o) = recursive_update(shipped, o.new)
        /\ o.kind = "update" =>
             /\ Fetched(o) = recursive_update(get(Section(User), TRUE), o.new)
             /\ Expected(o) = recursive_update(shipped, recursive_update(promised[Settings], o.new))
             /\ Fetched(o) \in Prefs
        /\ Fetched(o) \in Changes
        /\ Left(o) = remove_defaults(o.data, shipped) /\ Left(o) \in Changes
        /\ Expected(o) \in Prefs
<1>. USE DEF Prefs, Changes
<1>1. Views
  BY HeldViews
<1>2. o.kind \in {"put", "update"} /\ o.file = Section(User) /\ o.subject = Settings /\ o.new \in Changes /\ o.data \in Changes
  BY DEF OnSettings
<1>3. shipped \in Prefs /\ Data(Section(User)) \in Changes
  BY <1>1, AreContents DEF Views
<1>4. get(Section(User), TRUE) \in Prefs
  BY <1>1, <1>3, UpdateType DEF Views
<1>5. recursive_update(get(Section(User), TRUE), o.new) \in Prefs
  BY <1>2, <1>4, UpdateType
<1>6. promised[Settings] \in Prefs
  BY DEF Said
<1>7. recursive_update(promised[Settings], o.new) \in Changes
  BY <1>2, <1>6, UpdateType, AreContents
<1>8. recursive_update(shipped, o.new) \in Prefs /\ recursive_update(shipped, recursive_update(promised[Settings], o.new)) \in Prefs
  BY <1>2, <1>3, <1>7, UpdateType
<1>9. o.kind = "put" => Fetched(o) = o.new /\ Expected(o) = recursive_update(shipped, o.new)
  BY <1>1, <1>2 DEF Views, Fetched, Expected
<1>10. o.kind = "update" =>
         /\ Fetched(o) = recursive_update(get(Section(User), TRUE), o.new)
         /\ Expected(o) = recursive_update(shipped, recursive_update(promised[Settings], o.new))
  BY <1>1, <1>2 DEF Views, Fetched, Expected, update
<1>11. Left(o) = remove_defaults(o.data, shipped)
  BY <1>1, <1>2 DEF Views, Left
<1>12. Left(o) \in Changes
  BY <1>2, <1>11, RemovalType
<1>. QED BY <1>2, <1>5, <1>8, <1>9, <1>10, <1>11, <1>12, AreContents

LEMMA SwitchSteps ==
  ASSUME Held, Said, NEW o, NEW d \in Dirs, NEW x \in Exts, OnSwitch(o, d, x)
  PROVE /\ Fetched(o) = o.new /\ Expected(o) = o.new
        /\ o.at # "read" => Left(o) = o.new
<1>1. Views
  BY HeldViews
<1>2. o.kind = "update" /\ o.file = DropIn(d, x) /\ o.subject = <<d, x>> /\ o.new \in Switch(x)
  BY DEF OnSwitch
<1>3. Fetched(o) = o.new
  <2>1. Fetched(o) = recursive_update(Data(DropIn(d, x)), o.new)
    BY <1>1, <1>2 DEF Views, Fetched, update
  <2>. QED BY <1>1, <1>2, <2>1, SwitchUpdate DEF Views
<1>4. Expected(o) = o.new
  <2>1. defaults(DropIn(d, x)) = NoKeys
    BY <1>1 DEF Views, get
  <2>2. Expected(o) = recursive_update(NoKeys, recursive_update(promised[<<d, x>>], o.new))
    BY <1>2, <2>1 DEF Expected
  <2>3. promised[<<d, x>>] \in Switch(x) \cup {NoKeys}
    BY DEF Said
  <2>. QED BY <1>2, <2>2, <2>3, SwitchUpdate
<1>5. o.at # "read" => Left(o) = o.new
  <2>1. o.new = [k \in DOMAIN o.new |-> o.new[k]]
    BY <1>2, Nulls
  <2>2. o.at # "read" => Left(o) = remove_defaults(o.new, NoKeys)
    BY <1>1, <1>2 DEF Views, Left, OnSwitch
  <2>. QED BY <2>1, <2>2, RemoveNothing
<1>. QED BY <1>3, <1>4, <1>5

LEMMA PasswordSteps ==
  ASSUME Held, NEW o, OnPassword(o)
  PROVE /\ Fetched(o) = recursive_update(Data(Config(User)), o.new)
        /\ Fetched(o) \in Roots
        /\ Left(o) = o.data
        /\ Expected(o) = o.new
<1>1. o.kind = "persist" /\ o.file = Config(User) /\ o.new \in [{"password"} -> Passwords]
  BY DEF OnPassword
<1>2. Data(Config(User)) \in Roots
  BY HeldViews DEF Views
<1>3. o.new \in Objects(Pinned \cup {"password"}, {TRUE} \cup Passwords \cup {Null})
  <2>1. o.new \in [DOMAIN o.new -> {TRUE} \cup Passwords \cup {Null}] /\ DOMAIN o.new \subseteq Pinned \cup {"password"}
    BY <1>1
  <2>. QED BY <2>1, InObjects
<1>4. recursive_update(Data(Config(User)), o.new) \in Roots
  BY <1>2, <1>3, UpdateType DEF Roots
<1>5. Fetched(o) = recursive_update(Data(Config(User)), o.new)
  BY <1>1 DEF Fetched, persist_config
<1>6. Left(o) = o.data /\ Expected(o) = o.new
  BY <1>1 DEF Left, Expected
<1>. QED BY <1>4, <1>5, <1>6

-----------------------------------------------------------------------------
(* Types is inductive: one lemma for each kind of step.                    *)
LEMMA TypesInit == Init => Types
<1> SUFFICES ASSUME Init PROVE Types
  OBVIOUS
<1>. USE DEF Init
<1>1. Held
  <2>1. \A x \in Exts : Only(x, TRUE) \in Switch(x)
    BY DEF Only, Switch
  <2>2. [x \in Pinned |-> TRUE] \in Roots
    <3>1. [x \in Pinned |-> TRUE] \in [Pinned -> {TRUE} \cup Passwords]
      OBVIOUS
    <3>2. DOMAIN [x \in Pinned |-> TRUE] = Pinned
      OBVIOUS
    <3>. QED BY <3>1, <3>2, InObjects DEF Roots
  <2>3. /\ file[Config(User)] = [x \in Pinned |-> TRUE]
        /\ file[Shipped(User)] = shipped /\ file[Section(System)] = site
        /\ file[Shipped(System)] = Missing /\ file[Config(System)] = Missing
        /\ file[Section(User)] = Missing
    BY NamesAssumption, Apart DEF Config, Shipped, Section
  <2>4. \A d \in Dirs, x \in Exts : file[DropIn(d, x)] = IF <<d, x>> \in Installed THEN Only(x, TRUE) ELSE Missing
    BY NamesAssumption, Apart DEF DropIn, Config
  <2>5. \A d \in Dirs, x \in Exts : file[DropIn(d, x)] \in Switch(x) \cup Nothing
    BY <2>1, <2>4 DEF Nothing
  <2>6. \A f \in Files : file[f] \in Contents \cup Nothing
    <3> TAKE f \in Files
    <3>1. CASE f \in {Section(User), Section(System), Config(User), Config(System), Shipped(User), Shipped(System)}
      BY <2>2, <2>3, <3>1, AreContents DEF Nothing
    <3>2. ASSUME NEW d \in Dirs, NEW x \in Exts, f = DropIn(d, x) PROVE file[f] \in Contents \cup Nothing
      BY <2>5, <3>2, AreContents
    <3>. QED BY <3>1, <3>2, AllThereAre
  <2>7. file \in [Files -> Contents \cup Nothing]
    BY <2>6
  <2>. QED BY <2>2, <2>3, <2>5, <2>7 DEF Held, Nothing
<1>2. Said
  <2>1. promised[Settings] = shipped /\ promised[Password] = NoKeys
    BY Apart, ConfigAssumption, NamesAssumption DEF Password, Settings
  <2>2. \A d \in Dirs, x \in Exts : promised[<<d, x>>] = IF <<d, x>> \in Installed THEN Only(x, TRUE) ELSE NoKeys
    BY Apart
  <2>3. \A x \in Exts : Only(x, TRUE) \in Switch(x)
    BY DEF Only, Switch
  <2>4. \A d \in Dirs, x \in Exts : promised[<<d, x>>] \in Switch(x) \cup {NoKeys}
    BY <2>2, <2>3
  <2>5. \A s \in Subjects : promised[s] \in Contents
    <3> TAKE s \in Subjects
    <3>1. CASE s \in {Settings, Password}
      BY <2>1, <3>1, AreContents
    <3>2. ASSUME NEW d \in Dirs, NEW x \in Exts, s = <<d, x>> PROVE promised[s] \in Contents
      BY <2>4, <3>2, AreContents
    <3>. QED BY <3>1, <3>2, AllThereAre
  <2>6. promised \in [Subjects -> Contents]
    BY <2>5
  <2>. QED BY <2>1, <2>4, <2>6, AreContents DEF Said
<1>3. Carried
  BY DEF Carried
<1>. QED BY <1>1, <1>2, <1>3 DEF Types

LEMMA BeginTypes ==
  ASSUME Types, NEW p \in Processes, NEW kind, NEW subject, NEW f, NEW new,
         Begin(p, kind, subject, f, new),
         [at |-> "read", kind |-> kind, subject |-> subject, file |-> f, new |-> new,
          data |-> NoKeys, answer |-> NoKeys] \in Ops
  PROVE Types'
<1>1. Held' /\ Said'
  BY DEF Begin, Types, Held, Said, Data, get, defaults
<1>2. Carried'
  BY DEF Begin, Types, Carried
<1>. QED BY <1>1, <1>2 DEF Types

(* The record of an operation that begins is one of those there are.      *)
Started(kind, subject, f, new) ==
  [at |-> "read", kind |-> kind, subject |-> subject, file |-> f, new |-> new, data |-> NoKeys, answer |-> NoKeys]

LEMMA BeginCases ==
  ASSUME NEW p \in Processes, Put(p) \/ Patch(p) \/ toggle_server_extension(p) \/ set_password(p)
  PROVE \E kind, subject, f, new : Begin(p, kind, subject, f, new) /\ Started(kind, subject, f, new) \in Ops
<1>. USE AreContents, Apart
<1>1. CASE Put(p)
  <2>1. PICK data \in Changes : Begin(p, "put", Settings, Section(User), data)
    BY <1>1 DEF Put
  <2>2. Started("put", Settings, Section(User), data) \in Ops
    BY DEF Started, Ops, Op, OnSettings
  <2>. QED BY <2>1, <2>2
<1>2. CASE Patch(p)
  <2>1. PICK new \in Changes : Begin(p, "update", Settings, Section(User), new)
    BY <1>2 DEF Patch
  <2>2. Started("update", Settings, Section(User), new) \in Ops
    BY DEF Started, Ops, Op, OnSettings
  <2>. QED BY <2>1, <2>2
<1>3. CASE toggle_server_extension(p)
  <2>1. PICK d \in Dirs, x \in Exts, on \in BOOLEAN : Begin(p, "update", <<d, x>>, DropIn(d, x), Only(x, on))
    BY <1>3 DEF toggle_server_extension, toggle
  <2>2. Only(x, on) \in Switch(x) /\ Only(x, on) \in Contents
    BY DEF Only, Switch
  <2>3. Started("update", <<d, x>>, DropIn(d, x), Only(x, on)) \in Op
    BY <2>2 DEF Started, Op
  <2>4. OnSwitch(Started("update", <<d, x>>, DropIn(d, x), Only(x, on)), d, x)
    BY <2>2 DEF Started, OnSwitch
  <2>5. Started("update", <<d, x>>, DropIn(d, x), Only(x, on)) \in Ops
    BY <2>3, <2>4 DEF Ops
  <2>. QED BY <2>1, <2>5
<1>4. CASE set_password(p)
  <2>1. PICK w \in Passwords : Begin(p, "persist", Password, Config(User), Only("password", w))
    BY <1>4 DEF set_password
  <2>2. Only("password", w) \in [{"password"} -> Passwords] /\ Only("password", w) \in Contents
    BY DEF Only
  <2>3. Started("persist", Password, Config(User), Only("password", w)) \in Ops
    BY <2>2 DEF Started, Ops, Op, OnPassword
  <2>. QED BY <2>1, <2>3
<1>. QED BY <1>1, <1>2, <1>3, <1>4

LEMMA BeginsType ==
  ASSUME Types, NEW p \in Processes, Put(p) \/ Patch(p) \/ toggle_server_extension(p) \/ set_password(p)
  PROVE Types'
BY BeginCases, BeginTypes DEF Started

(* The records that reading and truncating make.                           *)
Fetching(o) == [o EXCEPT !.at = "open", !.data = Fetched(o), !.answer = Fetched(o)]
Writing(o) == [o EXCEPT !.at = "write", !.data = Left(o)]

LEMMA ReadStep ==
  ASSUME Carried, NEW p \in Processes, Read(p)
  PROVE /\ op[p] \in Ops /\ op[p].at = "read"
        /\ op' = [op EXCEPT ![p] = Idle] \/ op' = [op EXCEPT ![p] = Fetching(op[p])]
        /\ UNCHANGED <<file, promised, spoiled, begun, crashes>>
<1>1. op[p].at = "read" /\ op[p] \in Ops
  BY OpTyped DEF Read, Idle
<1>2. CASE op' = [op EXCEPT ![p] = Idle]
  BY <1>1, <1>2 DEF Read
<1>3. CASE op' = [op EXCEPT ![p].at = "open", ![p].data = Fetched(op[p]), ![p].answer = Fetched(op[p])]
  <2>1. op' = [op EXCEPT ![p] = Fetching(op[p])]
    BY <1>1, <1>3 DEF Fetching, Carried
  <2>. QED BY <1>1, <2>1 DEF Read
<1>. QED BY <1>2, <1>3 DEF Read, Fetched

LEMMA OpenStep ==
  ASSUME Carried, NEW p \in Processes, Open(p)
  PROVE /\ op[p] \in Ops /\ op[p].at = "open"
        /\ op' = [op EXCEPT ![p] = Writing(op[p])]
        /\ file' = [file EXCEPT ![op[p].file] = Empty]
        /\ UNCHANGED <<promised, spoiled, begun, crashes>>
<1>1. op[p].at = "open" /\ op[p] \in Ops
  BY OpTyped DEF Open, Idle
<1>2. op' = [op EXCEPT ![p].at = "write", ![p].data = Left(op[p])]
  BY <1>1 DEF Open, Left
<1>3. op' = [op EXCEPT ![p] = Writing(op[p])]
  BY <1>1, <1>2 DEF Writing, Carried
<1>. QED BY <1>1, <1>3 DEF Open

LEMMA WriteStep ==
  ASSUME Carried, NEW p \in Processes, Write(p)
  PROVE /\ op[p] \in Ops /\ op[p].at = "write"
        /\ op' = [op EXCEPT ![p] = Idle]
        /\ file' = [file EXCEPT ![op[p].file] = op[p].data]
        /\ promised' = [promised EXCEPT ![op[p].subject] = Expected(op[p])]
        /\ UNCHANGED <<spoiled, begun, crashes>>
BY OpTyped DEF Write, Idle

LEMMA Recorded ==
  ASSUME NEW o \in Op, NEW c \in Contents
  PROVE /\ LET n == [o EXCEPT !.at = "open", !.data = c, !.answer = c]
           IN n \in Op /\ n.at = "open" /\ n.kind = o.kind /\ n.subject = o.subject /\ n.file = o.file
              /\ n.new = o.new /\ n.data = c /\ n.answer = c
        /\ LET n == [o EXCEPT !.at = "write", !.data = c]
           IN n \in Op /\ n.at = "write" /\ n.kind = o.kind /\ n.subject = o.subject /\ n.file = o.file
              /\ n.new = o.new /\ n.data = c /\ n.answer = o.answer
BY DEF Op

LEMMA StepRecords ==
  ASSUME Held, Said, NEW o \in Ops
  PROVE /\ LET n == Fetching(o)
           IN /\ o.at = "read" => n \in Ops
              /\ n.at = "open" /\ n.kind = o.kind /\ n.subject = o.subject /\ n.file = o.file
              /\ n.new = o.new /\ n.data = Fetched(o) /\ n.answer = Fetched(o)
        /\ LET n == Writing(o)
           IN /\ o.at = "open" => n \in Ops
              /\ n.at = "write" /\ n.kind = o.kind /\ n.subject = o.subject /\ n.file = o.file
              /\ n.new = o.new /\ n.data = Left(o) /\ n.answer = o.answer
<1>1. o \in Op /\ (OnSettings(o) \/ OnPassword(o) \/ \E d \in Dirs, x \in Exts : OnSwitch(o, d, x))
  BY DEF Ops
<1>. DEFINE m == Fetching(o)
            n == Writing(o)
<1>2. /\ m.at = "open" /\ m.kind = o.kind /\ m.subject = o.subject /\ m.file = o.file
      /\ m.new = o.new /\ m.data = Fetched(o) /\ m.answer = Fetched(o)
  BY <1>1 DEF Fetching, Op
<1>3. /\ n.at = "write" /\ n.kind = o.kind /\ n.subject = o.subject /\ n.file = o.file
      /\ n.new = o.new /\ n.data = Left(o) /\ n.answer = o.answer
  BY <1>1 DEF Writing, Op
<1>4. Fetched(o) \in Contents => m \in Op
  BY <1>1, Recorded DEF Fetching
<1>5. Left(o) \in Contents => n \in Op
  BY <1>1, Recorded DEF Writing
<1>. HIDE DEF m, n
<1>6. CASE OnSettings(o)
  <2>1. Fetched(o) \in Changes /\ Left(o) \in Changes
    BY <1>6, SettingsSteps
  <2>2. m \in Op /\ n \in Op
    BY <2>1, <1>4, <1>5, AreContents
  <2>3. OnSettings(m) /\ OnSettings(n)
    BY <2>1, <1>2, <1>3, <1>6 DEF OnSettings
  <2>. QED BY <2>2, <2>3, <1>2, <1>3 DEF Ops, m, n
<1>7. CASE OnPassword(o)
  <2>1. Fetched(o) \in Roots /\ Left(o) \in Roots
    BY <1>7, PasswordSteps DEF OnPassword
  <2>2. m \in Op /\ n \in Op
    BY <2>1, <1>4, <1>5, AreContents
  <2>3. OnPassword(m) /\ OnPassword(n)
    BY <2>1, <1>2, <1>3, <1>7 DEF OnPassword
  <2>. QED BY <2>2, <2>3, <1>2, <1>3 DEF Ops, m, n
<1>8. ASSUME NEW d \in Dirs, NEW x \in Exts, OnSwitch(o, d, x)
      PROVE (o.at = "read" => m \in Ops) /\ (o.at = "open" => n \in Ops)
  <2>1. o.new \in Switch(x) /\ o.new \in Contents
    BY <1>8, AreContents DEF OnSwitch
  <2>2. Fetched(o) = o.new /\ (o.at # "read" => Left(o) = o.new)
    BY <1>8, SwitchSteps
  <2>3. OnSwitch(m, d, x) /\ (o.at = "open" => OnSwitch(n, d, x))
    BY <2>1, <2>2, <1>2, <1>3, <1>8 DEF OnSwitch
  <2>4. m \in Op /\ (o.at = "open" => n \in Op)
    BY <2>1, <2>2, <1>4, <1>5
  <2>. QED BY <2>3, <2>4 DEF Ops
<1>. QED BY <1>1, <1>2, <1>3, <1>6, <1>7, <1>8 DEF m, n

LEMMA ReadTypes ==
  ASSUME Types, NEW p \in Processes, Read(p)
  PROVE Types'
<1>1. Held' /\ Said'
  BY DEF Read, Types, Held, Said
<1>2. Carried'
  BY ReadStep, StepRecords DEF Types, Carried
<1>. QED BY <1>1, <1>2 DEF Types

LEMMA OpenTypes ==
  ASSUME Types, NEW p \in Processes, Open(p)
  PROVE Types'
<1>1. op[p] \in Ops /\ op[p].at = "open" /\ op' = [op EXCEPT ![p] = Writing(op[p])]
      /\ file' = [file EXCEPT ![op[p].file] = Empty] /\ promised' = promised
  BY OpenStep DEF Types
<1>2. Said'
  BY <1>1 DEF Types, Said
<1>3. Carried'
  BY <1>1, StepRecords DEF Types, Carried
<1>4. op[p].file \in Files /\ (op[p].file \in {Section(User), Config(User)} \/ \E d \in Dirs, x \in Exts : op[p].file = DropIn(d, x))
  BY <1>1 DEF Ops, Op, OnSettings, OnSwitch, OnPassword
<1>5. Held'
  <2>1. /\ file \in [Files -> Contents \cup Nothing]
        /\ file[Shipped(User)] = shipped /\ file[Section(System)] = site
        /\ file[Shipped(System)] \in Nothing /\ file[Config(System)] \in Nothing
        /\ file[Section(User)] \in Changes \cup Nothing
        /\ file[Config(User)] \in Roots \cup Nothing
        /\ \A d \in Dirs, x \in Exts : file[DropIn(d, x)] \in Switch(x) \cup Nothing
    BY DEF Types, Held
  <2>2. \A f \in Files : file'[f] = IF f = op[p].file THEN Empty ELSE file[f]
    BY <1>1, <1>4, <2>1
  <2>3. file' \in [Files -> Contents \cup Nothing]
    BY <1>1, <1>4, <2>1 DEF Nothing
  <2>4. Empty \in Nothing
    BY DEF Nothing
  <2>5. Shipped(User) # op[p].file /\ Section(System) # op[p].file
    BY <1>4, Apart
  <2>6. file'[Shipped(User)] = shipped /\ file'[Section(System)] = site
    BY <2>1, <2>2, <2>5, Apart
  <2>7. /\ file'[Shipped(System)] \in Nothing /\ file'[Config(System)] \in Nothing
        /\ file'[Section(User)] \in Changes \cup Nothing
        /\ file'[Config(User)] \in Roots \cup Nothing
    BY <2>1, <2>2, <2>4, Apart
  <2>8. \A d \in Dirs, x \in Exts : file'[DropIn(d, x)] \in Switch(x) \cup Nothing
    BY <2>1, <2>2, <2>4, Apart
  <2>. QED BY <2>3, <2>6, <2>7, <2>8 DEF Held
<1>. QED BY <1>2, <1>3, <1>5 DEF Types

LEMMA WriteTypes ==
  ASSUME Types, NEW p \in Processes, Write(p)
  PROVE Types'
<1>. DEFINE o == op[p]
<1>1. o \in Ops /\ o.at = "write" /\ op' = [op EXCEPT ![p] = Idle]
      /\ file' = [file EXCEPT ![o.file] = o.data] /\ promised' = [promised EXCEPT ![o.subject] = Expected(o)]
  BY WriteStep DEF Types
<1>2. o.file \in Files /\ o.subject \in Subjects /\ o.data \in Contents
  BY <1>1 DEF Ops, Op
<1>3. Held /\ Said
  BY DEF Types
<1>. HIDE DEF o
<1>4. /\ file \in [Files -> Contents \cup Nothing] /\ promised \in [Subjects -> Contents]
      /\ \A f \in Files : file'[f] = IF f = o.file THEN o.data ELSE file[f]
      /\ \A s \in Subjects : promised'[s] = IF s = o.subject THEN Expected(o) ELSE promised[s]
      /\ file' \in [Files -> Contents \cup Nothing]
  BY <1>1, <1>2, <1>3 DEF Held, Said
<1>5. ASSUME OnSettings(o) PROVE Held' /\ Said'
  <2>1. o.file = Section(User) /\ o.subject = Settings /\ o.data \in Changes /\ Expected(o) \in Prefs
    BY <1>3, <1>5, SettingsSteps DEF OnSettings
  <2>2. Held'
    BY <1>3, <1>4, <2>1, Apart DEF Held
  <2>3. promised' \in [Subjects -> Contents]
    BY <1>1, <1>4, <2>1, AreContents
  <2>4. Said'
    BY <1>3, <1>4, <2>1, <2>3, Apart DEF Said
  <2>. QED BY <2>2, <2>4
<1>6. ASSUME OnPassword(o) PROVE Held' /\ Said'
  <2>1. o.file = Config(User) /\ o.subject = Password /\ o.data \in Roots /\ Expected(o) \in Contents
    BY <1>3, <1>6, PasswordSteps, AreContents DEF OnPassword
  <2>2. Held'
    BY <1>3, <1>4, <2>1, Apart DEF Held
  <2>3. promised' \in [Subjects -> Contents]
    BY <1>1, <1>4, <2>1
  <2>4. Said'
    BY <1>3, <1>4, <2>1, <2>3, Apart DEF Said
  <2>. QED BY <2>2, <2>4
<1>7. ASSUME NEW d \in Dirs, NEW x \in Exts, OnSwitch(o, d, x)
      PROVE Held' /\ Said'
  <2>1. o.file = DropIn(d, x) /\ o.subject = <<d, x>> /\ o.data \in Switch(x) /\ Expected(o) \in Switch(x)
    BY <1>1, <1>3, <1>7, SwitchSteps DEF OnSwitch, o
  <2>2. \A e \in Dirs, y \in Exts : file'[DropIn(e, y)] \in Switch(y) \cup Nothing
    <3> TAKE e \in Dirs, y \in Exts
    <3>1. CASE DropIn(e, y) = DropIn(d, x)
      BY <1>4, <2>1, <3>1, Apart DEF DropIn
    <3>2. CASE DropIn(e, y) # DropIn(d, x)
      BY <1>3, <1>4, <2>1, <3>2, Apart DEF Held
    <3>. QED BY <3>1, <3>2
  <2>. DEFINE others == {Section(User), Section(System), Config(User), Config(System), Shipped(User), Shipped(System)}
  <2>a. \A f \in others : file'[f] = file[f]
    BY <1>4, <2>1, Apart
  <2>3. Held'
    BY <1>3, <1>4, <2>2, <2>a DEF Held
  <2>4. \A e \in Dirs, y \in Exts : promised'[<<e, y>>] \in Switch(y) \cup {NoKeys}
    <3> TAKE e \in Dirs, y \in Exts
    <3>1. CASE <<e, y>> = <<d, x>>
      <4>1. y = x
        BY <3>1
      <4>. QED BY <1>4, <2>1, <3>1, <4>1, Apart
    <3>2. CASE <<e, y>> # <<d, x>>
      <4>1. promised'[<<e, y>>] = promised[<<e, y>>]
        BY <1>4, <2>1, <3>2, Apart
      <4>. QED BY <1>3, <4>1 DEF Said
    <3>. QED BY <3>1, <3>2
  <2>5. promised' \in [Subjects -> Contents]
    BY <1>1, <1>4, <2>1, AreContents
  <2>b. promised'[Settings] = promised[Settings]
    BY <1>4, <2>1, Apart
  <2>6. Said'
    BY <1>3, <2>4, <2>5, <2>b DEF Said
  <2>. QED BY <2>3, <2>6
<1>8. Held' /\ Said'
  BY <1>1, <1>5, <1>6, <1>7 DEF Ops, o
<1>9. Carried'
  BY <1>1 DEF Types, Carried
<1>. QED BY <1>8, <1>9 DEF Types

LEMMA CrashTypes ==
  ASSUME Types, NEW p \in Processes, Crash(p)
  PROVE Types'
BY DEF Types, Held, Said, Carried, Crash

LEMMA StutterTypes ==
  ASSUME Types, UNCHANGED vars
  PROVE Types'
BY DEF Types, Held, Said, Carried, vars

LEMMA TypesStep == Types /\ [Next]_vars => Types'
<1> SUFFICES ASSUME Types, [Next]_vars PROVE Types'
  OBVIOUS
<1>1. ASSUME NEW p \in Processes, Put(p) \/ Patch(p) \/ toggle_server_extension(p) \/ set_password(p)
      PROVE Types'
  BY <1>1, BeginsType
<1>2. ASSUME NEW p \in Processes, Read(p) PROVE Types'
  BY <1>2, ReadTypes
<1>3. ASSUME NEW p \in Processes, Open(p) PROVE Types'
  BY <1>3, OpenTypes
<1>4. ASSUME NEW p \in Processes, Write(p) PROVE Types'
  BY <1>4, WriteTypes
<1>5. ASSUME NEW p \in Processes, Crash(p) PROVE Types'
  BY <1>5, CrashTypes
<1>6. CASE UNCHANGED vars
  BY <1>6, StutterTypes
<1>. QED BY <1>1, <1>2, <1>3, <1>4, <1>5, <1>6 DEF Next

(* Whatever overlaps or crashes, the files hold content of their kind,     *)
(* what ships is never changed, and an operation works on the file of its  *)
(* subject (config_manager.py, extension/config.py, auth/security.py).     *)
THEOREM TypesHold == Spec => []Types
BY TypesInit, TypesStep, PTL DEF Spec

-----------------------------------------------------------------------------
(* A subject has a file of its own, and what is said of it stays as it is  *)
(* when a step is about another one.                                       *)
Own(s) == CASE s = Settings -> Section(User) [] s = Password -> Config(User) [] OTHER -> s

LEMMA Owned ==
  /\ \A s \in Subjects : Own(s) \in Files
  /\ \A s, t \in Subjects : s # t => Own(s) # Own(t)
  /\ \A o \in Ops : o.subject \in Subjects /\ o.file = Own(o.subject)
<1>1. Own(Settings) = Section(User) /\ Own(Password) = Config(User)
  BY Apart DEF Own
<1>2. \A d \in Dirs, x \in Exts : Own(<<d, x>>) = DropIn(d, x) /\ DropIn(d, x) = <<d, x>>
  BY Apart DEF Own, DropIn
<1>3. \A s \in Subjects : Own(s) \in Files
  BY <1>1, <1>2, Apart, AllThereAre
<1>4. \A s, t \in Subjects : s # t => Own(s) # Own(t)
  <2> TAKE s, t \in Subjects
  <2>1. CASE s \in {Settings, Password} /\ t \in {Settings, Password}
    BY <1>1, <2>1, Apart
  <2>2. CASE s \in {Settings, Password} /\ t \notin {Settings, Password}
    BY <1>1, <1>2, <2>2, Apart, AllThereAre
  <2>3. CASE s \notin {Settings, Password} /\ t \in {Settings, Password}
    BY <1>1, <1>2, <2>3, Apart, AllThereAre
  <2>4. CASE s \notin {Settings, Password} /\ t \notin {Settings, Password}
    BY <2>4 DEF Own
  <2>. QED BY <2>1, <2>2, <2>3, <2>4
<1>5. \A o \in Ops : o.subject \in Subjects /\ o.file = Own(o.subject)
  <2> TAKE o \in Ops
  <2>1. o.subject \in Subjects
    BY DEF Ops, Op
  <2>2. CASE OnSettings(o)
    BY <1>1, <2>2, <2>1 DEF OnSettings
  <2>3. CASE OnPassword(o)
    BY <1>1, <2>3, <2>1 DEF OnPassword
  <2>4. ASSUME NEW d \in Dirs, NEW x \in Exts, OnSwitch(o, d, x) PROVE o.file = Own(o.subject)
    BY <1>2, <2>4 DEF OnSwitch
  <2>. QED BY <2>1, <2>2, <2>3, <2>4 DEF Ops
<1>. QED BY <1>3, <1>4, <1>5

LEMMA KeptFrame ==
  ASSUME Held, Held', NEW s \in Subjects, Kept(s),
         file'[Own(s)] = file[Own(s)], promised'[s] = promised[s]
  PROVE Kept(s)'
<1>1. Views /\ Views'
  BY HeldViews, PTL
<1>2. CASE s = Settings
  <2>1. Own(s) = Section(User)
    BY <1>2, Apart DEF Own
  <2>2. Data(Section(User))' = Data(Section(User))
    BY <2>1 DEF Data
  <2>3. get(Section(User), TRUE)' = get(Section(User), TRUE)
    BY <1>1, <2>2 DEF Views
  <2>. QED BY <1>2, <2>3, Apart DEF Kept
<1>3. CASE s = Password
  <2>1. Own(s) = Config(User)
    BY <1>3, Apart DEF Own
  <2>. QED BY <1>3, <2>1, Apart DEF Kept, Complete
<1>4. CASE s # Settings /\ s # Password
  <2>1. Own(s) = s
    BY <1>4 DEF Own
  <2>2. Data(s)' = Data(s)
    BY <2>1 DEF Data
  <2>. QED BY <1>4, <2>2 DEF Kept
<1>. QED BY <1>2, <1>3, <1>4

LEMMA CleanFrame ==
  ASSUME Held, Held', NEW s \in Subjects, Clean(s),
         \A q \in Processes : (Busy(q, s)' <=> Busy(q, s)) /\ (Busy(q, s) => op'[q] = op[q]),
         file'[Own(s)] = file[Own(s)], promised'[s] = promised[s]
  PROVE Clean(s)'
<1>1. Lone(s)'
  BY DEF Clean, Lone
<1>2. Written(s)' <=> Written(s)
  BY DEF Written
<1>3. ~Written(s)' => Kept(s)'
  BY <1>2, KeptFrame DEF Clean
<1>4. ASSUME NEW q \in Processes, Busy(q, s)', op'[q].at # "read" PROVE Prepared(op[q])'
  <2>1. Busy(q, s) /\ op'[q] = op[q] /\ Prepared(op[q])
    BY <1>4 DEF Clean
  <2>2. op[q].subject = s
    BY <2>1 DEF Busy
  <2>. QED BY <2>1, <2>2 DEF Prepared
<1>. QED BY <1>1, <1>3, <1>4 DEF Clean

(* A step of a process whose operation was, and is, not about a subject    *)
(* leaves what is said of the subject.                                     *)
LEMMA Elsewhere ==
  ASSUME Held, Held', Carried, NEW s \in Subjects, Clean(s), NEW p \in Processes, NEW o,
         op' = [op EXCEPT ![p] = o],
         op[p].at = "idle" \/ op[p].subject # s, o.at = "idle" \/ o.subject # s,
         file'[Own(s)] = file[Own(s)], promised'[s] = promised[s]
  PROVE Clean(s)'
<1>1. \A q \in Processes : op'[q] = IF q = p THEN o ELSE op[q]
  BY DEF Carried
<1>2. \A q \in Processes : (Busy(q, s)' <=> Busy(q, s)) /\ (Busy(q, s) => op'[q] = op[q])
  BY <1>1 DEF Busy
<1>. QED BY <1>2, CleanFrame

LEMMA KeptInit == Init => KInv
<1> SUFFICES ASSUME Init PROVE KInv
  OBVIOUS
<1>1. Types /\ Views
  BY TypesInit, HeldViews DEF Types
<1>2. \A s \in Subjects, p \in Processes : ~Busy(p, s)
  BY DEF Init, Busy, Idle
<1>3. Kept(Settings)
  <2>1. file[Section(User)] = Missing /\ promised[Settings] = shipped
    BY NamesAssumption, Apart, ConfigAssumption DEF Init, Settings, Section, Config, Shipped
  <2>2. Data(Section(User)) = NoKeys
    BY <2>1, DataIs DEF Nothing
  <2>3. shipped = [k \in DOMAIN shipped |-> shipped[k]]
    BY InObjects, ContentAssumption
  <2>4. recursive_update(shipped, NoKeys) = shipped
    BY <2>3, UpdateNothing
  <2>. QED BY <1>1, <2>1, <2>2, <2>4, Apart DEF Kept, Views
<1>4. Kept(Password)
  <2>1. file[Config(User)] = [x \in Pinned |-> TRUE] /\ promised[Password] = NoKeys
    BY NamesAssumption, Apart, ConfigAssumption DEF Init, Password, Settings, Config
  <2>2. file[Config(User)] \in Contents \cup Nothing /\ file[Config(User)] \in Roots \cup Nothing
    BY <1>1, Apart DEF Types, Held
  <2>3. [x \in Pinned |-> TRUE] \in Roots
    <3>1. [x \in Pinned |-> TRUE] \in [Pinned -> {TRUE} \cup Passwords]
      OBVIOUS
    <3>2. DOMAIN [x \in Pinned |-> TRUE] = Pinned
      OBVIOUS
    <3>. QED BY <3>1, <3>2, InObjects DEF Roots
  <2>4. Complete(file[Config(User)])
    BY <2>1, <2>3 DEF Complete
  <2>5. "password" \notin Pinned
    BY ConfigAssumption, NamesAssumption
  <2>6. At(file[Config(User)], "password") = Null /\ At(NoKeys, "password") = Null
    BY <2>1, <2>5 DEF At, NoKeys
  <2>. QED BY <2>1, <2>4, <2>6, Apart DEF Kept
<1>5. ASSUME NEW d \in Dirs, NEW x \in Exts PROVE Kept(<<d, x>>)
  <2>1. file[DropIn(d, x)] = IF <<d, x>> \in Installed THEN Only(x, TRUE) ELSE Missing
    BY NamesAssumption, Apart DEF Init, DropIn, Config
  <2>2. promised[<<d, x>>] = IF <<d, x>> \in Installed THEN Only(x, TRUE) ELSE NoKeys
    BY Apart DEF Init
  <2>3. Only(x, TRUE) \in Contents
    <3>1. Only(x, TRUE) \in Switch(x)
      BY DEF Only, Switch
    <3>. QED BY <3>1, AreContents
  <2>4. Data(DropIn(d, x)) = promised[<<d, x>>]
    BY <2>1, <2>2, <2>3, DataIs DEF Nothing
  <2>5. DropIn(d, x) = <<d, x>>
    BY DEF DropIn
  <2>. QED BY <2>4, <2>5, Apart DEF Kept
<1>6. \A s \in Subjects : Kept(s)
  BY <1>3, <1>4, <1>5, AllThereAre
<1>. QED BY <1>2, <1>6 DEF KInv, Clean, Lone, Written

(* KInv is inductive given Types: one lemma for each kind of step.         *)
LEMMA BeginKeeps ==
  ASSUME Types, Types', KInv, NEW p \in Processes, NEW kind, NEW subject, NEW f, NEW new,
         Begin(p, kind, subject, f, new)
  PROVE KInv'
<1> SUFFICES ASSUME NEW s \in Subjects, s \notin spoiled' PROVE Clean(s)'
  BY DEF KInv
<1>1. /\ op[p].at = "idle" /\ op' = [op EXCEPT ![p] = Started(kind, subject, f, new)]
      /\ file' = file /\ promised' = promised
      /\ s \notin spoiled /\ (s = subject => ~InFlight(s))
  BY DEF Begin, Started
<1>2. Clean(s) /\ Held /\ Held' /\ Carried
  BY <1>1 DEF KInv, Types
<1>3. Started(kind, subject, f, new).at = "read" /\ Started(kind, subject, f, new).subject = subject
  BY DEF Started
<1>4. CASE s # subject
  BY <1>1, <1>2, <1>3, <1>4, Elsewhere
<1>5. CASE s = subject
  <2>1. \A q \in Processes : ~Busy(q, s)
    BY <1>1, <1>5 DEF InFlight, Busy
  <2>2. \A q \in Processes : op'[q] = IF q = p THEN Started(kind, subject, f, new) ELSE op[q]
    BY <1>1, <1>2 DEF Carried
  <2>3. \A q \in Processes : Busy(q, s)' => q = p /\ op'[q].at = "read"
    BY <2>1, <2>2, <1>3 DEF Busy
  <2>4. Kept(s)
    BY <2>1, <1>2 DEF Clean, Written
  <2>5. Kept(s)'
    BY <1>1, <1>2, <2>4, KeptFrame
  <2>6. Lone(s)'
    BY <2>3 DEF Lone
  <2>. QED BY <2>3, <2>5, <2>6 DEF Clean
<1>. QED BY <1>4, <1>5

(* What is read of a subject that is clean is what was promised of it.     *)
LEMMA ReadPrepares ==
  ASSUME Types, NEW o \in Ops, o.at = "read", Kept(o.subject)
  PROVE Prepared(Fetching(o))
<1>. DEFINE m == Fetching(o)
<1>1. /\ m.at = "open" /\ m.kind = o.kind /\ m.subject = o.subject /\ m.new = o.new
      /\ m.data = Fetched(o) /\ m.answer = Fetched(o)
  BY StepRecords DEF Types
<1>. HIDE DEF m
<1>2. CASE OnSettings(o)
  <2>1. o.subject = Settings /\ o.kind \in {"put", "update"}
    BY <1>2 DEF OnSettings
  <2>2. get(Section(User), TRUE) = promised[Settings]
    BY <2>1, Apart DEF Kept
  <2>3. o.kind = "put" => Fetched(o) = o.new
    BY <1>2, SettingsSteps DEF Types
  <2>4. o.kind = "update" => Fetched(o) = recursive_update(promised[Settings], o.new)
    BY <1>2, <2>2, SettingsSteps DEF Types
  <2>5. Prepared(m)
    BY <1>1, <2>1, <2>3, <2>4 DEF Prepared
  <2>. QED BY <2>5 DEF m
<1>3. CASE OnPassword(o)
  <2>1. o.subject = Password /\ o.kind = "persist" /\ o.new \in [{"password"} -> Passwords]
    BY <1>3 DEF OnPassword
  <2>2. Complete(file[Config(User)])
    BY <2>1, Apart DEF Kept
  <2>3. Data(Config(User)) = file[Config(User)]
    BY <2>2, DataIs, AreContents DEF Complete
  <2>4. Fetched(o) = recursive_update(file[Config(User)], o.new) /\ Fetched(o) \in Roots
    BY <1>3, <2>3, PasswordSteps DEF Types
  <2>5. DOMAIN o.new = {"password"} /\ o.new["password"] # Null
    BY <2>1, ContentAssumption
  <2>6. \A k \in Pinned : k # "password"
    BY ConfigAssumption, NamesAssumption
  <2>7. Complete(Fetched(o))
    <3> DEFINE t == file[Config(User)]
               u == recursive_update(t, o.new)
    <3> HIDE DEF t, u
    <3>1. /\ \A k : k \in DOMAIN u <=> IF k \in DOMAIN o.new THEN o.new[k] # Null ELSE k \in DOMAIN t
          /\ \A k \in DOMAIN u : u[k] = IF k \in DOMAIN o.new THEN o.new[k] ELSE t[k]
      BY UpdateMeans DEF u
    <3>2. \A k \in Pinned : k \in DOMAIN t /\ t[k] = TRUE
      BY <2>2 DEF Complete, t
    <3>3. \A k \in Pinned : k \in DOMAIN u /\ u[k] = TRUE
      BY <2>5, <2>6, <3>1, <3>2
    <3>. QED BY <2>4, <3>3 DEF Complete, u, t
  <2>8. At(Fetched(o), "password") = o.new["password"]
    <3> DEFINE t == file[Config(User)]
               u == recursive_update(t, o.new)
    <3> HIDE DEF t, u
    <3>1. /\ \A k : k \in DOMAIN u <=> IF k \in DOMAIN o.new THEN o.new[k] # Null ELSE k \in DOMAIN t
          /\ \A k \in DOMAIN u : u[k] = IF k \in DOMAIN o.new THEN o.new[k] ELSE t[k]
      BY UpdateMeans DEF u
    <3>2. "password" \in DOMAIN u /\ u["password"] = o.new["password"]
      BY <2>5, <3>1
    <3>. QED BY <2>4, <3>2 DEF At, u, t
  <2>9. Prepared(m)
    BY <1>1, <2>1, <2>7, <2>8 DEF Prepared
  <2>. QED BY <2>9 DEF m
<1>4. ASSUME NEW d \in Dirs, NEW x \in Exts, OnSwitch(o, d, x) PROVE Prepared(m)
  <2>1. m.kind = "update" /\ m.subject # Settings
    BY <1>1, <1>4, Apart DEF OnSwitch
  <2>. QED BY <2>1 DEF Prepared
<1>. QED BY <1>2, <1>3, <1>4 DEF Ops, m

LEMMA ReadKeeps ==
  ASSUME Types, Types', KInv, NEW p \in Processes, Read(p)
  PROVE KInv'
<1> SUFFICES ASSUME NEW s \in Subjects, s \notin spoiled' PROVE Clean(s)'
  BY DEF KInv
<1>. DEFINE o == op[p]
<1>1. /\ o \in Ops /\ o.at = "read"
      /\ op' = [op EXCEPT ![p] = Idle] \/ op' = [op EXCEPT ![p] = Fetching(o)]
      /\ file' = file /\ promised' = promised /\ spoiled' = spoiled
  BY ReadStep DEF Types
<1>2. Clean(s) /\ Held /\ Held' /\ Carried
  BY <1>1 DEF KInv, Types
<1>3. Fetching(o).at = "open" /\ Fetching(o).subject = o.subject /\ Idle.at = "idle"
  BY <1>1, StepRecords DEF Types, Idle
<1>4. CASE s # o.subject
  BY <1>1, <1>2, <1>3, <1>4, Elsewhere
<1>5. CASE s = o.subject
  <2>1. Busy(p, s)
    BY <1>1, <1>5 DEF Busy
  <2>2. \A q \in Processes : Busy(q, s) => q = p
    BY <1>2, <2>1 DEF Clean, Lone
  <2>3. Kept(s)
    BY <1>1, <1>2, <2>2 DEF Clean, Written
  <2>4. Kept(s)'
    BY <1>1, <1>2, <2>3, KeptFrame
  <2>5. \A q \in Processes : q # p => op'[q] = op[q]
    BY <1>1, <1>2 DEF Carried
  <2>6. op'[p] = Idle \/ op'[p] = Fetching(o)
    BY <1>1, <1>2 DEF Carried
  <2>7. \A q \in Processes : Busy(q, s)' => q = p
    BY <2>2, <2>5 DEF Busy
  <2>8. Lone(s)'
    BY <2>7 DEF Lone
  <2>9. ASSUME NEW q \in Processes, Busy(q, s)' PROVE Prepared(op[q])'
    <3>1. op'[q] = Fetching(o)
      BY <1>3, <2>6, <2>7, <2>9 DEF Busy
    <3>2. Prepared(Fetching(o))
      BY <1>1, <1>5, <2>3, ReadPrepares
    <3>. QED BY <1>1, <3>1, <3>2 DEF Prepared
  <2>. QED BY <2>4, <2>8, <2>9 DEF Clean
<1>. QED BY <1>4, <1>5

LEMMA OpenKeeps ==
  ASSUME Types, Types', KInv, NEW p \in Processes, Open(p)
  PROVE KInv'
<1> SUFFICES ASSUME NEW s \in Subjects, s \notin spoiled' PROVE Clean(s)'
  BY DEF KInv
<1>. DEFINE o == op[p]
            n == Writing(o)
<1>1. /\ o \in Ops /\ o.at = "open" /\ op' = [op EXCEPT ![p] = n]
      /\ file' = [file EXCEPT ![o.file] = Empty] /\ promised' = promised /\ spoiled' = spoiled
  BY OpenStep DEF Types
<1>2. Clean(s) /\ Held /\ Held' /\ Said /\ Carried
  BY <1>1 DEF KInv, Types
<1>3. /\ n.at = "write" /\ n.kind = o.kind /\ n.subject = o.subject /\ n.new = o.new
      /\ n.data = Left(o) /\ n.answer = o.answer
  BY <1>1, <1>2, StepRecords
<1>. HIDE DEF n
<1>4. CASE s # o.subject
  <2>1. file'[Own(s)] = file[Own(s)]
    BY <1>1, <1>2, <1>4, Owned DEF Held
  <2>. QED BY <1>1, <1>2, <1>3, <1>4, <2>1, Elsewhere
<1>5. CASE s = o.subject
  <2>1. Busy(p, s)
    BY <1>1, <1>5 DEF Busy
  <2>2. \A q \in Processes : Busy(q, s) => q = p
    BY <1>2, <2>1 DEF Clean, Lone
  <2>3. Prepared(o)
    BY <1>1, <1>2, <2>1 DEF Clean
  <2>4. \A q \in Processes : op'[q] = IF q = p THEN n ELSE op[q]
    BY <1>1, <1>2 DEF Carried
  <2>5. \A q \in Processes : Busy(q, s)' => q = p
    BY <2>2, <2>4 DEF Busy
  <2>6. Lone(s)' /\ Written(s)'
    <3>1. Busy(p, s)' /\ op'[p].at = "write"
      BY <1>3, <1>5, <2>4 DEF Busy
    <3>. QED BY <2>5, <3>1 DEF Lone, Written
  <2>7. Prepared(n)
    <3>1. CASE OnSettings(o)
      <4>1. Left(o) = remove_defaults(o.data, shipped) /\ o.kind \in {"put", "update"} /\ o.subject = Settings
        BY <1>2, <3>1, SettingsSteps DEF OnSettings
      <4>. QED BY <1>1, <1>3, <2>3, <4>1 DEF Prepared
    <3>2. CASE OnPassword(o)
      <4>1. Left(o) = o.data /\ o.kind = "persist"
        BY <1>2, <3>2, PasswordSteps DEF OnPassword
      <4>. QED BY <1>1, <1>3, <2>3, <4>1 DEF Prepared
    <3>3. ASSUME NEW d \in Dirs, NEW x \in Exts, OnSwitch(o, d, x) PROVE Prepared(n)
      <4>1. n.kind = "update" /\ n.subject # Settings
        BY <1>3, <3>3, Apart DEF OnSwitch
      <4>. QED BY <4>1 DEF Prepared
    <3>. QED BY <1>1, <3>1, <3>2, <3>3 DEF Ops
  <2>8. ASSUME NEW q \in Processes, Busy(q, s)' PROVE Prepared(op[q])'
    <3>1. op'[q] = n
      BY <2>4, <2>5, <2>8
    <3>. QED BY <1>1, <2>7, <3>1 DEF Prepared
  <2>. QED BY <2>6, <2>8 DEF Clean
<1>. QED BY <1>4, <1>5

(* An operation that was prepared makes of its file what it promises.      *)
LEMMA WriteDelivers ==
  ASSUME Types, Types', NEW o \in Ops, o.at = "write", Prepared(o),
         file'[o.file] = o.data, promised'[o.subject] = Expected(o)
  PROVE Kept(o.subject)'
<1>1. Held /\ Said /\ Held'
  BY DEF Types
<1>2. (file'[o.file] \in Contents => Data(o.file)' = file'[o.file])
  BY ContentAssumption DEF Data
<1>3. o.data \in Contents
  BY DEF Ops, Op
<1>4. Data(o.file)' = o.data
  BY <1>2, <1>3
<1>5. CASE OnSettings(o)
  <2>1. o.subject = Settings /\ o.file = Section(User) /\ o.kind \in {"put", "update"}
    BY <1>5 DEF OnSettings
  <2>2. Views'
    BY <1>1, HeldViews, PTL
  <2>3. get(Section(User), TRUE)' = recursive_update(shipped, o.data)
    BY <1>4, <2>1, <2>2 DEF Views
  <2>4. \A data : recursive_update(shipped, remove_defaults(data, shipped)) = recursive_update(shipped, data)
    BY Nulls, RemovedDefaultsReturn
  <2>5. CASE o.kind = "put"
    <3>1. o.data = remove_defaults(o.new, shipped) /\ Expected(o) = recursive_update(shipped, o.new)
      BY <1>1, <1>5, <2>5, SettingsSteps DEF Prepared
    <3>. QED BY <2>1, <2>3, <2>4, <3>1, Apart DEF Kept
  <2>6. CASE o.kind = "update"
    <3>1. /\ o.data = remove_defaults(recursive_update(promised[Settings], o.new), shipped)
          /\ Expected(o) = recursive_update(shipped, recursive_update(promised[Settings], o.new))
      BY <1>1, <1>5, <2>1, <2>6, SettingsSteps DEF Prepared
    <3>. QED BY <2>1, <2>3, <2>4, <3>1, Apart DEF Kept
  <2>. QED BY <2>1, <2>5, <2>6
<1>6. CASE OnPassword(o)
  <2>1. o.subject = Password /\ o.file = Config(User) /\ o.kind = "persist" /\ o.new \in [{"password"} -> Passwords]
    BY <1>6 DEF OnPassword
  <2>2. Expected(o) = o.new /\ Complete(o.data) /\ At(o.data, "password") = o.new["password"]
    BY <1>1, <1>6, <2>1, PasswordSteps DEF Prepared
  <2>3. At(o.new, "password") = o.new["password"]
    BY <2>1 DEF At
  <2>4. Complete(file'[Config(User)]) /\ At(file'[Config(User)], "password") = At(promised'[Password], "password")
    BY <2>1, <2>2, <2>3
  <2>. QED BY <2>1, <2>4, Apart DEF Kept, Complete
<1>7. ASSUME NEW d \in Dirs, NEW x \in Exts, OnSwitch(o, d, x) PROVE Kept(o.subject)'
  <2>1. o.subject = <<d, x>> /\ o.file = DropIn(d, x) /\ o.data = o.new
    BY <1>7 DEF OnSwitch
  <2>2. Expected(o) = o.new
    BY <1>1, <1>7, SwitchSteps
  <2>3. DropIn(d, x) = <<d, x>>
    BY DEF DropIn
  <2>4. Data(o.subject)' = promised'[o.subject]
    BY <1>4, <2>1, <2>2, <2>3
  <2>5. o.subject # Settings /\ o.subject # Password
    BY <2>1, Apart
  <2>. QED BY <2>4, <2>5 DEF Kept
<1>. QED BY <1>5, <1>6, <1>7 DEF Ops

LEMMA WriteKeeps ==
  ASSUME Types, Types', KInv, NEW p \in Processes, Write(p)
  PROVE KInv'
<1> SUFFICES ASSUME NEW s \in Subjects, s \notin spoiled' PROVE Clean(s)'
  BY DEF KInv
<1>. DEFINE o == op[p]
<1>1. /\ o \in Ops /\ o.at = "write" /\ op' = [op EXCEPT ![p] = Idle]
      /\ file' = [file EXCEPT ![o.file] = o.data] /\ promised' = [promised EXCEPT ![o.subject] = Expected(o)]
      /\ spoiled' = spoiled
  BY WriteStep DEF Types
<1>2. Clean(s) /\ Held /\ Held' /\ Said /\ Carried
  BY <1>1 DEF KInv, Types
<1>3. Idle.at = "idle"
  BY DEF Idle
<1>4. CASE s # o.subject
  <2>1. file'[Own(s)] = file[Own(s)]
    BY <1>1, <1>2, <1>4, Owned DEF Held
  <2>2. promised'[s] = promised[s]
    BY <1>1, <1>2, <1>4 DEF Said
  <2>. QED BY <1>1, <1>2, <1>3, <1>4, <2>1, <2>2, Elsewhere
<1>5. CASE s = o.subject
  <2>1. Busy(p, s)
    BY <1>1, <1>5 DEF Busy
  <2>2. \A q \in Processes : Busy(q, s) => q = p
    BY <1>2, <2>1 DEF Clean, Lone
  <2>3. Prepared(o)
    BY <1>1, <1>2, <2>1 DEF Clean
  <2>4. \A q \in Processes : ~Busy(q, s)'
    BY <1>1, <1>2, <1>3, <2>2 DEF Busy, Carried
  <2>5. file'[o.file] = o.data /\ promised'[o.subject] = Expected(o)
    BY <1>1, <1>2, Owned DEF Held, Said
  <2>6. Kept(s)'
    <3>1. PICK c \in Ops : c = o
      BY <1>1
    <3>2. c.at = "write" /\ Prepared(c) /\ c.subject = s
          /\ file'[c.file] = c.data /\ promised'[c.subject] = Expected(c)
      BY <1>1, <1>5, <2>3, <2>5, <3>1
    <3>3. Kept(c.subject)'
      BY <3>2, WriteDelivers
    <3>. QED BY <3>2, <3>3
  <2>. QED BY <2>4, <2>6 DEF Clean, Lone
<1>. QED BY <1>4, <1>5

LEMMA CrashKeeps ==
  ASSUME Types, Types', KInv, NEW p \in Processes, Crash(p)
  PROVE KInv'
<1> SUFFICES ASSUME NEW s \in Subjects, s \notin spoiled' PROVE Clean(s)'
  BY DEF KInv
<1>1. /\ op' = [op EXCEPT ![p] = Idle] /\ op[p].subject # s
      /\ file' = file /\ promised' = promised /\ s \notin spoiled
  BY DEF Crash
<1>2. Clean(s) /\ Held /\ Held' /\ Carried
  BY <1>1 DEF KInv, Types
<1>. QED BY <1>1, <1>2, Elsewhere DEF Idle

LEMMA StutterKeeps ==
  ASSUME Types, Types', KInv, UNCHANGED vars
  PROVE KInv'
<1> SUFFICES ASSUME NEW s \in Subjects, s \notin spoiled' PROVE Clean(s)'
  BY DEF KInv
<1>1. op' = op /\ file' = file /\ promised' = promised /\ spoiled' = spoiled
  BY DEF vars
<1>2. Clean(s) /\ Held /\ Held'
  BY <1>1 DEF KInv, Types
<1>. QED BY <1>1, <1>2, CleanFrame DEF Busy

LEMMA KeptStep == Types /\ Types' /\ KInv /\ [Next]_vars => KInv'
<1> SUFFICES ASSUME Types, Types', KInv, [Next]_vars PROVE KInv'
  OBVIOUS
<1>1. ASSUME NEW p \in Processes, Put(p) \/ Patch(p) \/ toggle_server_extension(p) \/ set_password(p)
      PROVE KInv'
  BY <1>1, BeginCases, BeginKeeps
<1>2. ASSUME NEW p \in Processes, Read(p) PROVE KInv'
  BY <1>2, ReadKeeps
<1>3. ASSUME NEW p \in Processes, Open(p) PROVE KInv'
  BY <1>3, OpenKeeps
<1>4. ASSUME NEW p \in Processes, Write(p) PROVE KInv'
  BY <1>4, WriteKeeps
<1>5. ASSUME NEW p \in Processes, Crash(p) PROVE KInv'
  BY <1>5, CrashKeeps
<1>6. CASE UNCHANGED vars
  BY <1>6, StutterKeeps
<1>. QED BY <1>1, <1>2, <1>3, <1>4, <1>5, <1>6 DEF Next

(* Of a subject whose operations never overlapped or crashed the files     *)
(* show what was promised, unless its one operation has truncated them, in *)
(* which case what it is about to write is what it will promise.           *)
THEOREM PromisesHold == Spec => [](Types /\ KInv)
BY TypesInit, TypesStep, KeptInit, KeptStep, PTL DEF Spec

-----------------------------------------------------------------------------
(* What the runs check follows.                                            *)
LEMMA SettledMeans ==
  ASSUME KInv, NEW s \in Subjects, Settled(s)
  PROVE Kept(s)
BY DEF KInv, Settled, Clean, Written, Busy, InFlight

(* The first directory of the path that has a key decides.                 *)
LEMMA MergedMeans ==
  ASSUME NEW name
  PROVE LET mine == get(<<User, name>>, TRUE)
            other == get(<<System, name>>, TRUE)
        IN /\ \A k : k \in DOMAIN merged(name) <=> k \in DOMAIN mine \/ k \in DOMAIN other
           /\ \A k \in DOMAIN merged(name) : merged(name)[k] = IF k \in DOMAIN mine THEN mine[k] ELSE other[k]
<1>. DEFINE mine == get(<<User, name>>, TRUE)
            other == get(<<System, name>>, TRUE)
            in(i) == get(<<Path[i], name>>, TRUE)
            has(k) == {i \in DOMAIN Path : k \in DOMAIN in(i)}
            first(k) == CHOOSE i \in has(k) : \A j \in has(k) : i <= j
            all == UNION {DOMAIN in(i) : i \in DOMAIN Path}
<1>1. DOMAIN Path = {1, 2} /\ in(1) = mine /\ in(2) = other
  BY DEF Path
<1>2. merged(name) = [k \in all |-> in(first(k))[k]]
  BY DEF merged
<1>. HIDE DEF mine, other, in
<1>3. \A k : k \in all <=> k \in DOMAIN mine \/ k \in DOMAIN other
  BY <1>1
<1>4. ASSUME NEW k \in DOMAIN mine PROVE first(k) = 1
  <2>1. 1 \in has(k) /\ has(k) \subseteq {1, 2}
    BY <1>1
  <2>. HIDE DEF has
  <2>2. \A i \in has(k) : (\A j \in has(k) : i <= j) <=> i = 1
    BY <2>1
  <2>. QED BY <2>1, <2>2
<1>5. ASSUME NEW k \in DOMAIN other, k \notin DOMAIN mine PROVE first(k) = 2
  <2>1. has(k) = {2}
    BY <1>1, <1>5
  <2>. HIDE DEF has
  <2>. QED BY <2>1
<1>. HIDE DEF all, first
<1>6. DOMAIN merged(name) = all /\ \A k \in all : merged(name)[k] = in(first(k))[k]
  BY <1>2
<1>7. \A k \in all : merged(name)[k] = IF k \in DOMAIN mine THEN mine[k] ELSE other[k]
  <2> TAKE k \in all
  <2>1. CASE k \in DOMAIN mine
    BY <1>1, <1>4, <1>6, <2>1
  <2>2. CASE k \notin DOMAIN mine
    BY <1>1, <1>3, <1>5, <1>6, <2>2
  <2>. QED BY <2>1, <2>2
<1>. QED BY <1>3, <1>6, <1>7 DEF mine, other

LEMMA SettingsFollow == Types /\ KInv => SettingsHold
<1> SUFFICES ASSUME Types, KInv, Settled(Settings), NEW k \in Keys
             PROVE At(merged("section"), k) =
                     IF k \in DOMAIN promised[Settings] THEN promised[Settings][k] ELSE At(site, k)
  BY DEF SettingsHold
<1>1. Views
  BY HeldViews DEF Types
<1>2. get(Section(User), TRUE) = promised[Settings]
  BY Apart, SettledMeans DEF Kept
<1>. DEFINE mine == get(Section(User), TRUE)
            other == get(Section(System), TRUE)
            m == merged("section")
<1>3. /\ k \in DOMAIN m <=> k \in DOMAIN mine \/ k \in DOMAIN other
      /\ k \in DOMAIN m => m[k] = IF k \in DOMAIN mine THEN mine[k] ELSE other[k]
  BY MergedMeans DEF Section
<1>4. At(other, k) = At(site, k)
  BY <1>1 DEF Views
<1>. HIDE DEF mine, other, m
<1>5. At(m, k) = IF k \in DOMAIN mine THEN mine[k] ELSE At(other, k)
  BY <1>3 DEF At
<1>6. At(m, k) = IF k \in DOMAIN promised[Settings] THEN promised[Settings][k] ELSE At(site, k)
  BY <1>2, <1>4, <1>5 DEF mine
<1>. QED BY <1>6 DEF m

LEMMA SwitchesFollow == Types /\ KInv => SwitchesHold
<1> SUFFICES ASSUME Types, KInv PROVE SwitchesHold
  OBVIOUS
<1>1. Views
  BY HeldViews DEF Types
<1>2. ASSUME NEW x \in Exts \ Pinned, \A d \in Dirs : Settled(<<d, x>>)
      PROVE At(find_server_extensions, x) =
              IF x \in DOMAIN promised[<<User, x>>] THEN promised[<<User, x>>][x]
              ELSE At(promised[<<System, x>>], x)
  <2>1. \A d \in Dirs : Data(DropIn(d, x)) = promised[<<d, x>>]
    <3> TAKE d \in Dirs
    <3>1. <<d, x>> \in Subjects /\ <<d, x>> # Settings /\ <<d, x>> # Password
      BY Apart
    <3>2. Kept(<<d, x>>)
      BY <1>2, <3>1, SettledMeans
    <3>. QED BY <3>1, <3>2 DEF Kept, DropIn
  <2>. DEFINE mine == get(Config(User), TRUE)
              other == get(Config(System), TRUE)
              m == merged("config")
  <2>2. User \in Dirs /\ System \in Dirs
    BY DEF Dirs
  <2>3. /\ x \in DOMAIN mine <=> x \in DOMAIN promised[<<User, x>>]
        /\ At(mine, x) = At(promised[<<User, x>>], x)
        /\ At(other, x) = At(promised[<<System, x>>], x)
    BY <1>1, <2>1, <2>2 DEF Views
  <2>4. /\ x \in DOMAIN m <=> x \in DOMAIN mine \/ x \in DOMAIN other
        /\ x \in DOMAIN m => m[x] = IF x \in DOMAIN mine THEN mine[x] ELSE other[x]
    BY MergedMeans DEF Config
  <2>5. /\ x \in DOMAIN find_server_extensions <=> x \in DOMAIN m
        /\ x \in DOMAIN m => find_server_extensions[x] = m[x]
    BY DEF find_server_extensions
  <2>. HIDE DEF mine, other, m
  <2>6. At(find_server_extensions, x) = At(m, x)
    BY <2>5 DEF At
  <2>7. At(m, x) = IF x \in DOMAIN mine THEN At(mine, x) ELSE At(other, x)
    BY <2>4 DEF At
  <2>8. x \in DOMAIN promised[<<User, x>>] => At(promised[<<User, x>>], x) = promised[<<User, x>>][x]
    BY DEF At
  <2>. QED BY <2>3, <2>6, <2>7, <2>8
<1>3. ASSUME Settled(Password), NEW k \in Pinned \cup {"password"}
      PROVE At(Data(Config(User)), k) = IF k = "password" THEN At(promised[Password], k) ELSE TRUE
  <2>1. Complete(file[Config(User)]) /\ At(file[Config(User)], "password") = At(promised[Password], "password")
    BY <1>3, Apart, SettledMeans DEF Kept
  <2>2. Data(Config(User)) = file[Config(User)]
    BY <2>1, DataIs, AreContents DEF Complete
  <2>. QED BY <2>1, <2>2 DEF Complete, At
<1>. QED BY <1>2, <1>3 DEF SwitchesHold

(* Settings read back as they were stored, with the defaults where nothing *)
(* was stored, for any number of processes, keys and values, if no two     *)
(* operations on them overlap and none crashes (config_manager.py).        *)
THEOREM SettingsAreKept == Spec => []SettingsHold
BY PromisesHold, SettingsFollow, PTL

(* Under the same condition a server that starts finds each extension      *)
(* switched as was said last, in any number of extensions, and setting the *)
(* password leaves the rest of its file as it was (extension/config.py,    *)
(* auth/security.py).                                                      *)
THEOREM SwitchesAreKept == Spec => []SwitchesHold
BY PromisesHold, SwitchesFollow, PTL

LEMMA AnswersFollow ==
  ASSUME Types, Types', KInv, [Next]_vars, NEW p \in Processes, Updated(p), NEW k \in Keys, ~Hidden(op[p], k)
  PROVE At(get(Section(User), TRUE)', k) = At(op[p].answer, k)
<1>. DEFINE o == op[p]
<1>1. o.at = "write" /\ o.kind = "update" /\ o.subject = Settings /\ op'[p].at = "idle" /\ Settings \notin spoiled'
  BY DEF Updated, Settled
<1>2. op[p] # op'[p]
  BY <1>1
<1>3. ASSUME NEW q \in Processes, q # p,
             Put(q) \/ Patch(q) \/ toggle_server_extension(q) \/ set_password(q) \/ Read(q) \/ Open(q) \/ Write(q) \/ Crash(q)
      PROVE FALSE
  <2>1. PICK v : op' = [op EXCEPT ![q] = v]
    <3>1. CASE Put(q) \/ Patch(q) \/ toggle_server_extension(q) \/ set_password(q)
      BY <3>1, BeginCases DEF Begin
    <3>2. CASE Read(q)
      BY <3>2, ReadStep DEF Types
    <3>3. CASE Open(q)
      BY <3>3, OpenStep DEF Types
    <3>4. CASE Write(q) \/ Crash(q)
      BY <3>4 DEF Write, Crash
    <3>. QED BY <1>3, <3>1, <3>2, <3>3, <3>4
  <2>. QED BY <1>2, <1>3, <2>1 DEF Types, Carried
<1>4. Write(p)
  <2>1. ~Put(p) /\ ~Patch(p) /\ ~toggle_server_extension(p) /\ ~set_password(p)
    BY <1>1, BeginCases DEF Begin
  <2>2. ~Read(p) /\ ~Open(p)
    BY <1>1 DEF Read, Open
  <2>3. ~Crash(p)
    BY <1>1 DEF Crash
  <2>4. ~UNCHANGED vars
    BY <1>2 DEF vars
  <2>. QED BY <1>3, <2>1, <2>2, <2>3, <2>4 DEF Next
<1>5. o \in Ops /\ file' = [file EXCEPT ![o.file] = o.data] /\ spoiled' = spoiled
  BY <1>4, WriteStep DEF Types
<1>6. Prepared(o)
  <2>1. Settings \in Subjects /\ Settings \notin spoiled /\ Busy(p, Settings)
    BY <1>1, <1>5, Apart DEF Busy
  <2>. QED BY <1>1, <2>1 DEF KInv, Clean
<1>7. o.answer = recursive_update(promised[Settings], o.new) /\ o.data = remove_defaults(o.answer, shipped)
  BY <1>1, <1>6 DEF Prepared
<1>8. get(Section(User), TRUE)' = recursive_update(shipped, o.answer)
  <2>1. Views'
    BY HeldViews, PTL DEF Types
  <2>2. o.file = Section(User) /\ o.data \in Contents
    BY <1>1, <1>5, Owned, Apart DEF Own, Ops, Op
  <2>3. file'[Section(User)] = o.data
    BY <1>5, <2>2, Apart DEF Types, Held
  <2>4. Data(Section(User))' = o.data
    BY <2>2, <2>3, ContentAssumption DEF Data
  <2>5. get(Section(User), TRUE)' = recursive_update(shipped, o.data)
    BY <2>1, <2>4 DEF Views
  <2>. QED BY <1>7, <2>5, Nulls, RemovedDefaultsReturn
<1>9. o.answer \in Prefs
  <2>1. OnSettings(o)
    BY <1>1, <1>5, Apart DEF Ops, OnPassword, OnSwitch
  <2>. QED BY <1>7, <2>1, UpdateType, ZenonT(60) DEF OnSettings, Types, Said, Prefs, Changes
<1>10. k \in DOMAIN o.answer \/ k \notin DOMAIN shipped
  BY <1>7 DEF Hidden
<1>. DEFINE u == recursive_update(shipped, o.answer)
<1>11. /\ k \in DOMAIN u <=> IF k \in DOMAIN o.answer THEN o.answer[k] # Null ELSE k \in DOMAIN shipped
       /\ k \in DOMAIN u => u[k] = IF k \in DOMAIN o.answer THEN o.answer[k] ELSE shipped[k]
  BY UpdateMeans
<1>12. k \in DOMAIN o.answer => o.answer[k] # Null
  BY <1>9, Nulls DEF Prefs
<1>. HIDE DEF u
<1>13. At(u, k) = At(o.answer, k)
  BY <1>10, <1>11, <1>12 DEF At
<1>. QED BY <1>8, <1>13 DEF u

(* The answer to a PATCH is what its user's own files say from then on, if *)
(* no other change of the settings overlaps it, but for the defaults that  *)
(* it or a PUT before it has deleted (BaseJSONConfigManager.update).       *)
THEOREM AnswersAreKept == Spec => AnswerHolds
<1>1. Types /\ Types' /\ KInv /\ [Next]_vars =>
        [\A p \in Processes :
           Updated(p) =>
             \A k \in Keys : Hidden(op[p], k) \/ At(get(Section(User), TRUE)', k) = At(op[p].answer, k)]_vars
  BY AnswersFollow
<1>. QED BY <1>1, PromisesHold, PTL DEF AnswerHolds, Spec

-----------------------------------------------------------------------------
(***************************************************************************)
(* The password of the configuration also goes into the secret that signs  *)
(* the cookies.  Identity, for any browsers, requests, users and           *)
(* passwords: which answers may change the cookie of a browser.            *)
(***************************************************************************)
CONSTANTS Browsers, Slots, Users, Colors, Fields, updatable_fields, TokenSettings,
          MaxChanges, MaxStarts, None
VARIABLES setting, up, hashed_password, stored, token, key, cookie_secret, jar, request, changes, starts
Id == INSTANCE Identity WITH Settings <- TokenSettings

Secrets == [key : 1 .. MaxStarts, password : Id!Hashes \cup {None}]
Logins == [typed : Passwords \cup {"token"}, new : Passwords \cup {None}]

(* What an answer may do to the cookie of its browser.                     *)
Sets(x) == x = Id!Keep \/ x = Id!clear_login_cookie \/ (x.how = "set" /\ x.cookie \in Id!Cookies)

SentSound(r) ==
  /\ r.cookie \in Id!Cookies \cup {None} /\ r.kind \in {"page", "logout", "login", "me"}
  /\ r.kind = "login" => r.ask \in Logins
  /\ r.kind = "me" => \E f \in Fields : r.ask \in [{f} -> Colors]
AnsweredSound(r) ==
  /\ Sets(r.sets)
  /\ r.kind # "logout" /\ r.carried # "stale" => r.sets.how # "clear"
  /\ r.kind \notin {"login", "me"} /\ r.carried = "accepted" => r.sets.how # "set"
AskedSound(r) ==
  \/ r = Id!Idle
  \/ r.at = "sent" /\ SentSound(r)
  \/ r.at = "answered" /\ AnsweredSound(r)

ServerSound ==
  /\ stored \in Id!Hashes \cup {None} /\ hashed_password \in Id!Hashes \cup {None}
  /\ key \in 0 .. starts /\ starts \in 0 .. MaxStarts /\ changes \in 0 .. MaxChanges
  /\ ~up => starts < MaxStarts
  /\ up => cookie_secret \in Secrets
BrowsersSound ==
  /\ request = [b \in Browsers |-> [i \in Slots |-> request[b][i]]]
  /\ jar \in [Browsers -> Id!Cookies \cup {None}]
  /\ \A b \in Browsers, i \in Slots : AskedSound(request[b][i])
CookiesSound == ServerSound /\ BrowsersSound

-----------------------------------------------------------------------------
(* A new user, and one read from a cookie, is a user; a user has a cookie. *)
LEMMA NewUser ==
  ASSUME Id!IdentityAssumption
  PROVE  Id!generate_anonymous_user \in Id!UserType
<1>1. PICK x \in Users : (\E v \in Users : ~Id!Named(v)) => ~Id!Named(x)
  BY DEF Id!IdentityAssumption
<1>2. (CHOOSE u \in Users : (\E v \in Users : ~Id!Named(v)) => ~Id!Named(u)) \in Users
  BY <1>1
<1> QED BY <1>2 DEF Id!generate_anonymous_user, Id!UserType

LEMMA CookieUser ==
  ASSUME NEW c \in Id!Cookies
  PROVE  Id!user_from_cookie(c) \in Id!UserType
BY DEF Id!Cookies, Id!UserType, Id!user_from_cookie

LEMMA UserCookie ==
  ASSUME NEW u \in Id!UserType, cookie_secret \in Secrets
  PROVE  /\ Id!set_login_cookie(u).how = "set" /\ Id!set_login_cookie(u).cookie \in Id!Cookies
         /\ Sets(Id!set_login_cookie(u))
<1>1. Id!user_to_cookie(u).fields = [f \in Fields \ {"avatar_url"} |-> u.fields[f]]
  BY DEF Id!user_to_cookie, Id!UserType
<1>2. u.id \in Users /\ \A f \in Fields : u.fields[f] \in Colors \cup {None}
  BY DEF Id!UserType
<1>3. Id!user_to_cookie(u).fields \in [Fields \ {"avatar_url"} -> Colors \cup {None}]
  BY <1>1, <1>2
<1>4. Id!set_login_cookie(u).how = "set" /\ Id!set_login_cookie(u).cookie \in Id!Cookies
  BY <1>2, <1>3 DEF Id!set_login_cookie, Id!Cookies, Secrets
<1> QED BY <1>4 DEF Sets

(* Who is found out to ask, and what the answer may do to the cookie: it   *)
(* leaves one alone that is accepted, and clears only one that is not.     *)
LEMMA Found ==
  ASSUME Id!IdentityAssumption, cookie_secret \in Secrets, NEW r, r.cookie \in Id!Cookies \cup {None}
  PROVE  LET g == Id!get_user(r)
         IN /\ g.user \in Id!UserType \cup {None} /\ Sets(g.sets)
            /\ Id!Accepted(r.cookie) => g.sets = Id!Keep
            /\ g.sets.how = "clear" => r.cookie # None /\ ~Id!Accepted(r.cookie)
            /\ g.sets.how = "set" => g.user \in Id!UserType
<1> DEFINE tu == Id!get_user_token(r)
           cu == Id!get_user_cookie(r.cookie)
           new == Id!generate_anonymous_user
           g == Id!get_user(r)
<1>1. new \in Id!UserType /\ None \notin Id!UserType
  BY NewUser DEF Id!IdentityAssumption
<1>2. /\ Id!Accepted(r.cookie) => cu \in Id!UserType
      /\ ~Id!Accepted(r.cookie) => cu = None
  BY CookieUser DEF Id!get_user_cookie, Id!Accepted
<1>3. /\ tu \in {None, new, cu}
      /\ Id!Accepted(r.cookie) => tu \in {None, cu}
  BY DEF Id!get_user_token
<1>4. \/ g = [user |-> tu, sets |-> Id!set_login_cookie(tu)] /\ tu # None /\ tu # cu
      \/ \E u \in {tu, cu} : g = [user |-> u, sets |-> Id!Keep]
      \/ g = [user |-> new, sets |-> Id!set_login_cookie(new)] /\ tu = None /\ cu = None
      \/ g = [user |-> None, sets |-> IF r.cookie # None THEN Id!clear_login_cookie ELSE Id!Keep] /\ cu = None
  BY DEF Id!get_user
<1> HIDE DEF g, tu, cu, new
<1>5. tu \in Id!UserType \cup {None} /\ cu \in Id!UserType \cup {None}
  BY <1>1, <1>2, <1>3
<1>6. CASE g = [user |-> tu, sets |-> Id!set_login_cookie(tu)] /\ tu # None /\ tu # cu
  <2>1. g.user \in Id!UserType /\ Sets(g.sets) /\ g.sets.how = "set" /\ ~Id!Accepted(r.cookie)
    BY <1>1, <1>2, <1>3, <1>5, <1>6, UserCookie
  <2> QED BY <2>1 DEF g
<1>7. CASE \E u \in {tu, cu} : g = [user |-> u, sets |-> Id!Keep]
  <2>1. g.user \in Id!UserType \cup {None} /\ g.sets = Id!Keep /\ g.sets.how = "keep"
    BY <1>5, <1>7 DEF Id!Keep
  <2> QED BY <2>1 DEF g, Sets
<1>8. CASE g = [user |-> new, sets |-> Id!set_login_cookie(new)] /\ tu = None /\ cu = None
  <2>1. g.user \in Id!UserType /\ Sets(g.sets) /\ g.sets.how = "set" /\ ~Id!Accepted(r.cookie)
    BY <1>1, <1>2, <1>8, UserCookie
  <2> QED BY <2>1 DEF g
<1>9. CASE g = [user |-> None, sets |-> IF r.cookie # None THEN Id!clear_login_cookie ELSE Id!Keep] /\ cu = None
  <2>1. g.user = None /\ ~Id!Accepted(r.cookie)
    BY <1>1, <1>2, <1>9
  <2>2. CASE r.cookie # None
    BY <1>9, <2>1, <2>2 DEF g, Sets, Id!clear_login_cookie
  <2>3. CASE r.cookie = None
    BY <1>9, <2>1, <2>3 DEF g, Sets, Id!Keep
  <2> QED BY <2>2, <2>3
<1> QED BY <1>4, <1>6, <1>7, <1>8, <1>9

-----------------------------------------------------------------------------
(* What is put in the place of a request; an answer.                       *)
LEMMA PutRequest ==
  ASSUME BrowsersSound, NEW b \in Browsers, NEW i \in Slots, NEW q, AskedSound(q),
         request' = [request EXCEPT ![b][i] = q], jar' \in [Browsers -> Id!Cookies \cup {None}]
  PROVE  BrowsersSound'
<1>1. /\ request' = [c \in Browsers |-> [j \in Slots |-> request'[c][j]]]
      /\ \A c \in Browsers, j \in Slots : request'[c][j] \in {q, request[c][j]}
  BY DEF BrowsersSound
<1>2. \A c \in Browsers, j \in Slots : AskedSound(request'[c][j])
  BY <1>1 DEF BrowsersSound
<1> QED BY <1>1, <1>2 DEF BrowsersSound, AskedSound, SentSound, AnsweredSound, Sets

(* The browsers' half of the invariant reads only what the browsers hold.   *)
LEMMA BrowsersUnchanged ==
  ASSUME BrowsersSound, UNCHANGED <<jar, request>>
  PROVE  BrowsersSound'
<1>1. jar' = jar /\ request' = request
  OBVIOUS
<1>2. \A b \in Browsers, i \in Slots : AskedSound(request'[b][i])
  BY <1>1 DEF BrowsersSound
<1>3. /\ request' = [b \in Browsers |-> [i \in Slots |-> request'[b][i]]]
      /\ jar' \in [Browsers -> Id!Cookies \cup {None}]
  BY <1>1 DEF BrowsersSound
<1> QED BY <1>2, <1>3 DEF BrowsersSound, AskedSound, SentSound, AnsweredSound, Sets

LEMMA AnswersSound ==
  ASSUME BrowsersSound, NEW b \in Browsers, NEW i \in Slots, NEW status, NEW sets,
         Id!Answer(b, i, status, sets), UNCHANGED jar, Sets(sets),
         request[b][i].kind # "logout" /\ sets.how = "clear" =>
           request[b][i].cookie # None /\ ~Id!Accepted(request[b][i].cookie),
         request[b][i].kind \notin {"login", "me"} /\ Id!Accepted(request[b][i].cookie) => sets.how # "set"
  PROVE  BrowsersSound'
<1> DEFINE r == request[b][i]
           q == [at |-> "answered", kind |-> r.kind, carried |-> Id!Carried(r.cookie),
                 status |-> status, sets |-> sets]
<1>1. request' = [request EXCEPT ![b][i] = q]
  BY DEF Id!Answer, BrowsersSound
<1>2. /\ q.at = "answered" /\ q.kind = r.kind /\ q.carried = Id!Carried(r.cookie) /\ q.sets = sets
  OBVIOUS
<1> HIDE DEF r, q
<1>3. AnsweredSound(q)
  <2>1. q.carried \in {"nothing", "accepted", "stale"}
    BY <1>2 DEF Id!Carried
  <2>2. r.cookie # None /\ ~Id!Accepted(r.cookie) => q.carried = "stale"
    BY <1>2 DEF Id!Carried
  <2>3. q.carried = "accepted" => Id!Accepted(r.cookie)
    BY <1>2 DEF Id!Carried
  <2> QED BY <1>2, <2>1, <2>2, <2>3 DEF AnsweredSound, r
<1>4. AskedSound(q)
  BY <1>2, <1>3 DEF AskedSound
<1>5. jar' \in [Browsers -> Id!Cookies \cup {None}]
  BY DEF BrowsersSound
<1> QED BY <1>1, <1>4, <1>5, PutRequest

(* What a request under way carries.                                       *)
LEMMA CarriesTyped ==
  ASSUME CookiesSound, NEW b \in Browsers, NEW i \in Slots, NEW kinds, Id!Handling(b, i, kinds)
  PROVE  /\ cookie_secret \in Secrets /\ request[b][i].kind \in kinds /\ SentSound(request[b][i])
         /\ request[b][i].cookie \in Id!Cookies \cup {None}
<1>1. request[b][i].at = "sent" /\ request[b][i].kind \in kinds /\ up
  BY DEF Id!Handling
<1>2. AskedSound(request[b][i]) /\ cookie_secret \in Secrets
  BY <1>1 DEF CookiesSound, BrowsersSound, ServerSound
<1> QED BY <1>1, <1>2 DEF AskedSound, SentSound, Id!Idle

(* The secret and the passwords of the server after a request.             *)
LEMMA PasswordSet ==
  ASSUME Id!IdentityAssumption, CookiesSound, NEW w \in Passwords, Id!set_password(w)
  PROVE  stored' \in Id!Hashes \cup {None} /\ changes' \in 0 .. MaxChanges
<1>1. changes \in 0 .. MaxChanges /\ changes < MaxChanges /\ stored' = Id!passwd(w) /\ changes' = changes + 1
  BY DEF CookiesSound, ServerSound, Id!set_password
<1>2. Id!passwd(w) \in Id!Hashes
  BY <1>1 DEF Id!passwd, Id!Hashes
<1>3. MaxChanges \in Nat
  BY DEF Id!IdentityAssumption
<1> QED BY <1>1, <1>2, <1>3

LEMMA SameServer ==
  ASSUME CookiesSound, UNCHANGED <<up, key, cookie_secret, starts>>,
         stored' \in Id!Hashes \cup {None}, hashed_password' \in Id!Hashes \cup {None},
         changes' \in 0 .. MaxChanges
  PROVE  ServerSound'
BY DEF CookiesSound, ServerSound, Secrets

LEMMA KeptServer ==
  ASSUME CookiesSound, UNCHANGED <<up, key, cookie_secret, starts>>, Id!KeepsPasswords
  PROVE  ServerSound'
BY DEF CookiesSound, ServerSound, Secrets, Id!KeepsPasswords

LEMMA AskSound ==
  ASSUME CookiesSound, NEW b \in Browsers, NEW i \in Slots, Id!Ask(b, i)
  PROVE  CookiesSound'
<1> DEFINE Sends(kind, withtoken, ask) ==
             /\ Id!Send(b, i, kind, withtoken, ask)
             /\ kind = "login" => ask \in Logins
             /\ kind = "me" => \E f \in Fields : ask \in [{f} -> Colors]
<1>1. \E kind \in {"page", "logout", "login", "me"} : \E withtoken, ask : Sends(kind, withtoken, ask)
  <2>1. ASSUME NEW withtoken \in BOOLEAN, NEW kind \in {"page", "logout"}, Id!Send(b, i, kind, withtoken, None)
        PROVE  Sends(kind, withtoken, None)
    BY <2>1
  <2>2. ASSUME NEW typed \in Passwords \cup {"token"}, NEW new \in Passwords \cup {None},
               Id!Send(b, i, "login", FALSE, [typed |-> typed, new |-> new])
        PROVE  \E ask : Sends("login", FALSE, ask)
    <3> DEFINE ask == [typed |-> typed, new |-> new]
    <3>1. ask \in Logins
      BY DEF Logins
    <3>2. Id!Send(b, i, "login", FALSE, ask)
      BY <2>2
    <3> HIDE DEF ask
    <3> QED BY <3>1, <3>2
  <2>3. ASSUME NEW f \in Fields, NEW c \in Colors, NEW withtoken \in BOOLEAN,
               Id!Send(b, i, "me", withtoken, [h \in {f} |-> c])
        PROVE  \E ask : Sends("me", withtoken, ask)
    <3> DEFINE ask == [h \in {f} |-> c]
    <3>1. ask \in [{f} -> Colors]
      OBVIOUS
    <3>2. Id!Send(b, i, "me", withtoken, ask)
      BY <2>3
    <3> HIDE DEF ask
    <3> QED BY <3>1, <3>2
  <2> HIDE DEF Sends
  <2> QED BY <2>1, <2>2, <2>3 DEF Id!Ask
<1>2. PICK kind \in {"page", "logout", "login", "me"} : \E withtoken, ask : Sends(kind, withtoken, ask)
  BY <1>1
<1>3. PICK withtoken, ask : Sends(kind, withtoken, ask)
  BY <1>2
<1> DEFINE q == [at |-> "sent", kind |-> kind, cookie |-> jar[b], token |-> withtoken, ask |-> ask]
<1>4. request' = [request EXCEPT ![b][i] = q] /\ UNCHANGED <<Id!server, stored, jar, changes, starts>>
  BY <1>3 DEF Id!Send
<1>5. q.at = "sent" /\ q.kind = kind /\ q.cookie = jar[b] /\ q.ask = ask
  OBVIOUS
<1> HIDE DEF q
<1>6. jar[b] \in Id!Cookies \cup {None} /\ jar' \in [Browsers -> Id!Cookies \cup {None}]
  BY <1>4 DEF CookiesSound, BrowsersSound
<1>7. AskedSound(q)
  BY <1>3, <1>5, <1>6 DEF AskedSound, SentSound
<1>8. BrowsersSound'
  BY <1>4, <1>6, <1>7, PutRequest DEF CookiesSound
<1>9. ServerSound'
  BY <1>4, KeptServer DEF Id!server, Id!KeepsPasswords
<1> QED BY <1>8, <1>9 DEF CookiesSound

LEMMA PageSound ==
  ASSUME Id!IdentityAssumption, CookiesSound, NEW b \in Browsers, NEW i \in Slots, Id!Page(b, i), UNCHANGED jar
  PROVE  BrowsersSound' /\ Id!KeepsPasswords
<1> DEFINE r == request[b][i]
           g == Id!get_user(r)
<1>1. /\ Id!Handling(b, i, {"page"}) /\ Id!KeepsPasswords
      /\ \E status : Id!Answer(b, i, status, g.sets)
  BY DEF Id!Page
<1>2. r.kind = "page" /\ r.cookie \in Id!Cookies \cup {None} /\ cookie_secret \in Secrets
  BY <1>1, CarriesTyped
<1>3. /\ Sets(g.sets) /\ (Id!Accepted(r.cookie) => g.sets = Id!Keep)
      /\ g.sets.how = "clear" => r.cookie # None /\ ~Id!Accepted(r.cookie)
  BY <1>2, Found
<1> HIDE DEF g
<1>4. Id!Accepted(r.cookie) => g.sets.how # "set"
  BY <1>3 DEF Id!Keep
<1> QED BY <1>1, <1>2, <1>3, <1>4, AnswersSound DEF CookiesSound

LEMMA LogoutSound ==
  ASSUME CookiesSound, NEW b \in Browsers, NEW i \in Slots, Id!Logout(b, i), UNCHANGED jar
  PROVE  BrowsersSound' /\ Id!KeepsPasswords
<1>1. /\ Id!Handling(b, i, {"logout"}) /\ Id!KeepsPasswords
      /\ Id!Answer(b, i, "ok", Id!clear_login_cookie)
  BY DEF Id!Logout
<1>2. request[b][i].kind = "logout"
  BY <1>1, CarriesTyped
<1>3. Sets(Id!clear_login_cookie) /\ Id!clear_login_cookie.how = "clear"
  BY DEF Sets, Id!clear_login_cookie
<1> QED BY <1>1, <1>2, <1>3, AnswersSound DEF CookiesSound

(* A change of a user gives a user.                                        *)
LEMMA UserUpdated ==
  ASSUME NEW u \in Id!UserType, NEW f \in Fields, NEW data \in [{f} -> Colors]
  PROVE  Id!update_user_model(u, data) \in Id!UserType
<1>1. \A h \in Fields : (IF h \in DOMAIN data THEN data[h] ELSE u.fields[h]) \in Colors \cup {None}
  BY DEF Id!UserType
<1>2. [h \in Fields |-> IF h \in DOMAIN data THEN data[h] ELSE u.fields[h]] \in [Fields -> Colors \cup {None}]
  BY <1>1
<1> QED BY <1>2 DEF Id!update_user_model, Id!UserType

LEMMA UpdateUserSound ==
  ASSUME Id!IdentityAssumption, CookiesSound, NEW b \in Browsers, NEW i \in Slots, Id!UpdateUser(b, i), UNCHANGED jar
  PROVE  BrowsersSound' /\ Id!KeepsPasswords
<1> DEFINE r == request[b][i]
           g == Id!get_user(r)
           new == Id!set_login_cookie(Id!update_user_model(g.user, r.ask))
<1>1. /\ Id!Handling(b, i, {"me"}) /\ Id!KeepsPasswords
      /\ \/ \E status : Id!Answer(b, i, status, g.sets)
         \/ g.user # None /\ Id!Answer(b, i, "ok", new)
  BY DEF Id!UpdateUser
<1>2. /\ r.kind = "me" /\ SentSound(r) /\ r.cookie \in Id!Cookies \cup {None} /\ cookie_secret \in Secrets
  BY <1>1, CarriesTyped
<1>3. PICK f \in Fields : r.ask \in [{f} -> Colors]
  BY <1>2 DEF SentSound
<1>4. /\ g.user \in Id!UserType \cup {None} /\ Sets(g.sets)
      /\ g.sets.how = "clear" => r.cookie # None /\ ~Id!Accepted(r.cookie)
  BY <1>2, Found
<1>5. g.user # None => Sets(new) /\ new.how = "set"
  BY <1>2, <1>3, <1>4, UserUpdated, UserCookie
<1> HIDE DEF g, new
<1>6. CASE \E status : Id!Answer(b, i, status, g.sets)
  BY <1>1, <1>2, <1>4, <1>6, AnswersSound DEF CookiesSound
<1>7. CASE g.user # None /\ Id!Answer(b, i, "ok", new)
  BY <1>1, <1>2, <1>5, <1>7, AnswersSound DEF CookiesSound
<1> QED BY <1>1, <1>6, <1>7

LEMMA LoginSound ==
  ASSUME Id!IdentityAssumption, CookiesSound, NEW b \in Browsers, NEW i \in Slots, Id!Login(b, i), UNCHANGED jar
  PROVE  /\ BrowsersSound' /\ stored' \in Id!Hashes \cup {None} /\ changes' \in 0 .. MaxChanges
         /\ hashed_password' \in Id!Hashes \cup {None}
<1> DEFINE r == request[b][i]
           g == Id!get_user(r)
           user == IF g.sets.how # "set" THEN Id!generate_anonymous_user ELSE g.user
           new == Id!set_login_cookie(user)
<1>1. /\ Id!Handling(b, i, {"login"})
      /\ \E sets \in {new, g.sets} : \E status : Id!Answer(b, i, status, sets)
      /\ \/ Id!KeepsPasswords
         \/ r.ask.new # None /\ Id!set_password(r.ask.new) /\ hashed_password' = stored'
  BY DEF Id!Login
<1>2. /\ r.kind = "login" /\ SentSound(r) /\ r.cookie \in Id!Cookies \cup {None} /\ cookie_secret \in Secrets
  BY <1>1, CarriesTyped
<1>3. r.ask.new \in Passwords \cup {None}
  BY <1>2 DEF SentSound, Logins
<1>4. /\ g.user \in Id!UserType \cup {None} /\ Sets(g.sets)
      /\ g.sets.how = "clear" => r.cookie # None /\ ~Id!Accepted(r.cookie)
      /\ g.sets.how = "set" => g.user \in Id!UserType
  BY <1>2, Found
<1>5. user \in Id!UserType
  BY <1>4, NewUser
<1>6. Sets(new) /\ new.how = "set"
  BY <1>2, <1>5, UserCookie
<1> HIDE DEF g, new, user
<1>7. BrowsersSound'
  <2>1. PICK sets \in {new, g.sets} : \E status : Id!Answer(b, i, status, sets)
    BY <1>1
  <2>2. Sets(sets) /\ (sets.how = "clear" => r.cookie # None /\ ~Id!Accepted(r.cookie))
    BY <1>4, <1>6
  <2> QED BY <1>2, <2>1, <2>2, AnswersSound DEF CookiesSound
<1>8. CASE Id!KeepsPasswords
  BY <1>7, <1>8 DEF Id!KeepsPasswords, CookiesSound, ServerSound
<1>9. CASE r.ask.new # None /\ Id!set_password(r.ask.new) /\ hashed_password' = stored'
  BY <1>3, <1>7, <1>9, PasswordSet
<1> QED BY <1>1, <1>8, <1>9

LEMMA HandleSound ==
  ASSUME Id!IdentityAssumption, CookiesSound, NEW b \in Browsers, NEW i \in Slots, Id!Handle(b, i)
  PROVE  CookiesSound'
<1>1. UNCHANGED <<up, key, cookie_secret, jar, starts>>
  BY DEF Id!Handle
<1>2. CASE Id!Page(b, i)
  BY <1>1, <1>2, PageSound, KeptServer DEF CookiesSound
<1>3. CASE Id!Logout(b, i)
  BY <1>1, <1>3, LogoutSound, KeptServer DEF CookiesSound
<1>4. CASE Id!UpdateUser(b, i)
  BY <1>1, <1>4, UpdateUserSound, KeptServer DEF CookiesSound
<1>5. CASE Id!Login(b, i)
  BY <1>1, <1>5, LoginSound, SameServer DEF CookiesSound
<1> QED BY <1>2, <1>3, <1>4, <1>5 DEF Id!Handle

LEMMA ReceiveSound ==
  ASSUME CookiesSound, NEW b \in Browsers, NEW i \in Slots, Id!Receive(b, i)
  PROVE  CookiesSound'
<1> DEFINE r == request[b][i]
           c == CASE r.sets.how = "keep" -> jar[b] [] r.sets.how = "clear" -> None [] OTHER -> r.sets.cookie
<1>1. /\ r.at = "answered" /\ jar' = [jar EXCEPT ![b] = c]
      /\ request' = [request EXCEPT ![b][i] = Id!Idle] /\ UNCHANGED <<Id!server, stored, changes, starts>>
  BY DEF Id!Receive
<1>2. Sets(r.sets) /\ jar \in [Browsers -> Id!Cookies \cup {None}]
  <2>1. AskedSound(r) /\ jar \in [Browsers -> Id!Cookies \cup {None}]
    BY DEF CookiesSound, BrowsersSound
  <2> QED BY <1>1, <2>1 DEF AskedSound, AnsweredSound, Id!Idle
<1>3. c \in Id!Cookies \cup {None}
  BY <1>2 DEF Sets, Id!Keep, Id!clear_login_cookie
<1> HIDE DEF c, r
<1>4. jar' \in [Browsers -> Id!Cookies \cup {None}]
  BY <1>1, <1>2, <1>3
<1>5. AskedSound(Id!Idle)
  BY DEF AskedSound
<1>6. BrowsersSound'
  BY <1>1, <1>4, <1>5, PutRequest DEF CookiesSound
<1>7. ServerSound'
  BY <1>1, KeptServer DEF Id!server, Id!KeepsPasswords
<1> QED BY <1>6, <1>7 DEF CookiesSound

LEMMA PasswordCommandSound ==
  ASSUME Id!IdentityAssumption, CookiesSound, Id!PasswordCommand
  PROVE  CookiesSound'
<1>1. stored' \in Id!Hashes \cup {None} /\ changes' \in 0 .. MaxChanges
  BY PasswordSet DEF Id!PasswordCommand
<1>2. UNCHANGED <<up, key, cookie_secret, starts, hashed_password, jar, request>>
  BY DEF Id!PasswordCommand, Id!server
<1>3. ServerSound'
  BY <1>1, <1>2, SameServer DEF CookiesSound, ServerSound
<1>4. BrowsersSound'
  BY <1>2, BrowsersUnchanged DEF CookiesSound
<1> QED BY <1>3, <1>4 DEF CookiesSound

LEMMA StopSound ==
  ASSUME CookiesSound, Id!Stop
  PROVE  CookiesSound'
<1>1. /\ UNCHANGED <<hashed_password, stored, key, cookie_secret, jar, changes, starts>>
      /\ up' = FALSE /\ starts < MaxStarts
      /\ request' = [b \in Browsers |-> [i \in Slots |->
                        IF request[b][i].at = "sent" THEN Id!Idle ELSE request[b][i]]]
  BY DEF Id!Stop
<1>2. ServerSound'
  BY <1>1 DEF CookiesSound, ServerSound, Secrets
<1>3. \A b \in Browsers, i \in Slots : AskedSound(request[b][i])
  BY DEF CookiesSound, BrowsersSound
<1>4. AskedSound(Id!Idle)
  BY DEF AskedSound
<1>5. \A b \in Browsers, i \in Slots : AskedSound(request'[b][i])
  BY <1>1, <1>3, <1>4
<1>6. request' = [b \in Browsers |-> [i \in Slots |-> request'[b][i]]]
  BY <1>1
<1>7. BrowsersSound'
  BY <1>1, <1>5, <1>6 DEF CookiesSound, BrowsersSound, AskedSound, SentSound, AnsweredSound, Sets
<1> QED BY <1>2, <1>7 DEF CookiesSound

LEMMA StartSound ==
  ASSUME Id!IdentityAssumption, CookiesSound, NEW written \in BOOLEAN, Id!Start(written)
  PROVE  CookiesSound'
<1>1. /\ UNCHANGED <<stored, jar, request, changes>> /\ ~up /\ up' /\ starts' = starts + 1
      /\ hashed_password' = stored
      /\ key' = IF key # 0 \/ ~written THEN key ELSE starts + 1
      /\ cookie_secret' = [key |-> IF key # 0 THEN key ELSE starts + 1, password |-> stored]
  BY DEF Id!Start
<1>2. MaxStarts \in Nat /\ starts \in Nat /\ starts + 1 \in 1 .. MaxStarts /\ key \in 0 .. starts
  BY <1>1 DEF CookiesSound, ServerSound, Id!IdentityAssumption
<1>3. starts' \in 0 .. MaxStarts /\ key' \in 0 .. starts'
  BY <1>1, <1>2
<1>4. (IF key # 0 THEN key ELSE starts + 1) \in 1 .. MaxStarts
  BY <1>2
<1>5. cookie_secret' \in Secrets
  BY <1>1, <1>4 DEF Secrets, CookiesSound, ServerSound
<1>6. ServerSound'
  BY <1>1, <1>3, <1>5 DEF CookiesSound, ServerSound, Secrets
<1>7. BrowsersSound'
  BY <1>1, BrowsersUnchanged DEF CookiesSound
<1> QED BY <1>6, <1>7 DEF CookiesSound

(* Cookies, the secret that signs them and the passwords have their types, *)
(* and an answer under way clears a cookie only after a logout or if the   *)
(* request carried one that was not accepted, and sets none for a page     *)
(* that was asked for with an accepted one, whatever happens in between.   *)
THEOREM AnswersAreSound ==
  ASSUME Id!IdentityAssumption
  PROVE  Id!Spec => []CookiesSound
<1>1. Id!Init => CookiesSound
  <2> SUFFICES ASSUME Id!Init PROVE CookiesSound
    OBVIOUS
  <2>1. ServerSound
    BY DEF Id!Init, ServerSound, Id!IdentityAssumption
  <2>2. BrowsersSound
    BY DEF Id!Init, BrowsersSound, AskedSound
  <2> QED BY <2>1, <2>2 DEF CookiesSound
<1>2. CookiesSound /\ [Id!Next]_Id!vars => CookiesSound'
  <2>1. ASSUME CookiesSound, UNCHANGED Id!vars PROVE CookiesSound'
    <3>1. UNCHANGED <<up, hashed_password, stored, key, cookie_secret, jar, request, changes, starts>>
      BY <2>1 DEF Id!vars, Id!server
    <3>2. BrowsersSound'
      BY <2>1, <3>1, BrowsersUnchanged DEF CookiesSound
    <3>3. ServerSound'
      BY <2>1, <3>1 DEF CookiesSound, ServerSound, Secrets
    <3> QED BY <3>2, <3>3 DEF CookiesSound
  <2>2. ASSUME CookiesSound, Id!Next PROVE CookiesSound'
    BY <2>2, AskSound, HandleSound, ReceiveSound, PasswordCommandSound, StopSound, StartSound DEF Id!Next
  <2> QED BY <2>1, <2>2
<1> QED BY <1>1, <1>2, PTL DEF Id!Spec

(* The answer that a browser receives, and what it does to its cookie.     *)
LEMMA OneReceived ==
  ASSUME CookiesSound, [Id!Next]_Id!vars, NEW b \in Browsers, NEW i \in Slots, Id!Received(b, i)
  PROVE  /\ AnsweredSound(request[b][i])
         /\ jar'[b] = CASE request[b][i].sets.how = "keep" -> jar[b]
                         [] request[b][i].sets.how = "clear" -> None
                         [] OTHER -> request[b][i].sets.cookie
<1>1. request[b][i].at = "answered" /\ request'[b][i] = Id!Idle /\ Id!Idle.at = "idle"
  BY DEF Id!Received, Id!Idle
<1>2. AnsweredSound(request[b][i])
  BY <1>1 DEF CookiesSound, BrowsersSound, AskedSound
<1>3. DOMAIN request = Browsers /\ \A c \in Browsers : DOMAIN request[c] = Slots
  BY DEF CookiesSound, BrowsersSound
<1>4. ~UNCHANGED request
  BY <1>1
<1>5. ASSUME NEW c \in Browsers, NEW j \in Slots, Id!Ask(c, j) PROVE FALSE
  <2>1. request[c][j] = Id!Idle /\ \E q : request' = [request EXCEPT ![c][j] = q]
    BY <1>5 DEF Id!Ask, Id!Send
  <2> QED BY <1>1, <1>3, <2>1
<1>6. ASSUME NEW c \in Browsers, NEW j \in Slots, Id!Handle(c, j) PROVE FALSE
  <2>1. request[c][j].at = "sent" /\ \E status, sets : Id!Answer(c, j, status, sets)
    BY <1>6 DEF Id!Handle, Id!Page, Id!Logout, Id!UpdateUser, Id!Login, Id!Handling
  <2> QED BY <1>1, <1>3, <2>1 DEF Id!Answer
<1>7. ~Id!Stop
  <2>1. Id!Stop => request'[b][i] = request[b][i]
    BY <1>1 DEF Id!Stop
  <2> QED BY <1>1, <2>1
<1>8. Id!Next
  BY <1>4 DEF Id!vars
<1>9. PICK c \in Browsers, j \in Slots : Id!Receive(c, j)
  BY <1>4, <1>5, <1>6, <1>7, <1>8 DEF Id!Next, Id!PasswordCommand, Id!Start
<1>10. c = b /\ j = i
  BY <1>1, <1>3, <1>9 DEF Id!Receive
<1>11. jar \in [Browsers -> Id!Cookies \cup {None}]
  BY DEF CookiesSound, BrowsersSound
<1> QED BY <1>2, <1>9, <1>10, <1>11 DEF Id!Receive

(* A browser whose cookie the server accepts loses it only by a logout, or *)
(* by the answer to a request that carried a cookie which it did not       *)
(* accept, for any browsers, requests and answers (_get_user, gh-3365).    *)
THEOREM BrowsersStayLoggedIn ==
  ASSUME Id!IdentityAssumption
  PROVE  Id!Spec => Id!StaysLoggedIn
<1> DEFINE Step == \A b \in Browsers, i \in Slots :
             Id!Received(b, i) /\ Id!Accepted(jar[b]) /\ jar'[b] = None =>
               request[b][i].kind = "logout" \/ request[b][i].carried = "stale"
<1>1. CookiesSound /\ [Id!Next]_Id!vars => Step
  <2> SUFFICES ASSUME CookiesSound, [Id!Next]_Id!vars, NEW b \in Browsers, NEW i \in Slots,
                      Id!Received(b, i), Id!Accepted(jar[b]), jar'[b] = None
               PROVE  request[b][i].kind = "logout" \/ request[b][i].carried = "stale"
    OBVIOUS
  <2> DEFINE r == request[b][i]
  <2>1. /\ Sets(r.sets) /\ (r.kind # "logout" /\ r.carried # "stale" => r.sets.how # "clear")
        /\ jar'[b] = CASE r.sets.how = "keep" -> jar[b] [] r.sets.how = "clear" -> None [] OTHER -> r.sets.cookie
    BY OneReceived DEF AnsweredSound
  <2>2. jar[b] # None /\ None \notin Id!Cookies
    BY DEF Id!Accepted, Id!IdentityAssumption
  <2> HIDE DEF r
  <2>3. r.sets.how = "clear"
    BY <2>1, <2>2 DEF Sets, Id!Keep, Id!clear_login_cookie
  <2> QED BY <2>1, <2>3 DEF r
<1>2. Id!Spec => [][Id!Next]_Id!vars
  BY DEF Id!Spec
<1> QED BY <1>1, <1>2, AnswersAreSound, PTL DEF Id!StaysLoggedIn

(* A browser that the server knows stays the user that it is, with the     *)
(* changes it made, unless the answer is that of a login or a change, or   *)
(* of a request sent before the server knew it, for any browsers, requests *)
(* and answers (get_user_token, set_login_cookie).                         *)
THEOREM UsersAreKept ==
  ASSUME Id!IdentityAssumption
  PROVE  Id!Spec => Id!UserKept
<1> DEFINE Step == \A b \in Browsers, i \in Slots :
             Id!Received(b, i) /\ Id!Accepted(jar[b]) /\ jar'[b] # None /\ jar'[b] # jar[b] =>
               request[b][i].kind \in {"login", "me"} \/ request[b][i].carried # "accepted"
<1>1. CookiesSound /\ [Id!Next]_Id!vars => Step
  <2> SUFFICES ASSUME CookiesSound, [Id!Next]_Id!vars, NEW b \in Browsers, NEW i \in Slots,
                      Id!Received(b, i), jar'[b] # None, jar'[b] # jar[b]
               PROVE  request[b][i].kind \in {"login", "me"} \/ request[b][i].carried # "accepted"
    OBVIOUS
  <2> DEFINE r == request[b][i]
  <2>1. /\ Sets(r.sets) /\ (r.kind \notin {"login", "me"} /\ r.carried = "accepted" => r.sets.how # "set")
        /\ jar'[b] = CASE r.sets.how = "keep" -> jar[b] [] r.sets.how = "clear" -> None [] OTHER -> r.sets.cookie
    BY OneReceived DEF AnsweredSound
  <2> HIDE DEF r
  <2>2. r.sets.how = "set"
    BY <2>1 DEF Sets, Id!Keep, Id!clear_login_cookie
  <2> QED BY <2>1, <2>2 DEF r
<1>2. Id!Spec => [][Id!Next]_Id!vars
  BY DEF Id!Spec
<1> QED BY <1>1, <1>2, AnswersAreSound, PTL DEF Id!UserKept

=============================================================================
