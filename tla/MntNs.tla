-------------------------------- MODULE MntNs --------------------------------
(***************************************************************************)
(* From do_main to the program in the jail: Config::make_mnt_ns, exec,     *)
(* fix_proc and pid2 (jai.cc), one action per group of system calls that   *)
(* run with the same ids in the same mount namespace.  Any call may fail,  *)
(* and an exception unwinds through the Defers that are live.              *)
(*                                                                         *)
(* A path is a sequence of names.  A mount [at, fs, root, attr] shows the  *)
(* directory root of the file system fs at the path at; in a sequence of   *)
(* mounts a later one covers what an earlier one shows there.  Directories *)
(* have one path each in the old namespace: there are no bind mounts in    *)
(* it, and no symbolic links.                                              *)
(***************************************************************************)
EXTENDS IdMap, Privileges, SequencesExt

CONSTANTS
  Worlds,      \* what the machine and the configuration of a run may be
  Name,        \* the file names
  FileSystem   \* the file systems

\* mode_, as in Config.
CONSTANTS kCasual, kBare, kStrict

Paths == Seq(Name)
Flags == {"ro", "nosuid", "nodev", "idmap"}
Mounts(paths) == [at : paths, fs : FileSystem, root : Paths, attr : SUBSET Flags]
ASSUME NameAssumption ==
  /\ "" \notin Name
  /\ {"run", "jai", "u", "user", "proc", "tmp", "var", "etc", "passwd",
      "default.home", "default.changes"} \subseteq Name
  /\ {"none", "host", "overlay", "tmp", "passwd", "rundir", "jailproc"} \subseteq FileSystem
ASSUME WorldsAssumption ==
  \A w \in Worlds :
    /\ {w.homepath_, w.homejaipath_, w.storagedir_, w.cwd_} \subseteq Paths
    /\ w.grant_directories_ \cup w.mask_files_ \cup {x.path : x \in w.dirs} \subseteq Paths
    /\ w.mounts \in Seq(Mounts(Paths))

VARIABLES
  pc,     \* the next group of calls
  conf,   \* the machine and the Config of this run, an element of Worlds
  ns,     \* the mounts of the old and of the new mount namespace
  cur,    \* the namespace of the process
  peers,  \* mounts made in one of the two namespaces propagate to the other
  dirs,   \* the directories that exist, on all file systems
  tree,   \* the detached mounts that make_mnt_ns holds
  todo,   \* the elements of grant_directories_ that the loop has not reached
  d,      \* the element that it is at
  block   \* the arguments of the calls of blockdir that are left

where == << ns, cur, peers >>
files == << dirs, tree >>
loops == << todo, d, block >>
vars == << pc, conf, where, files, loops, idVars, privVars >>

-----------------------------------------------------------------------------
(* Paths, mounts and access *)

contains(dir, subpath) == IsPrefix(dir, subpath)

kRunRoot == <<"run", "jai">>
RunHome == <<"run", "jai", "u", "default.home">>
SandboxHome == conf.storagedir_ \o <<"default.home">>
Changes == conf.storagedir_ \o <<"default.changes">>

Rest(p, prefix) == SubSeq(p, Len(prefix) + 1, Len(p))
Under(x, fs, path) == x.fs = fs /\ contains(path, x.path)

Mount(fs, root) == [fs |-> fs, root |-> root, attr |-> {}]
NoMount == [fs |-> "none", root |-> << >>, attr |-> {}]
At(p, m) == [at |-> p, fs |-> m.fs, root |-> m.root, attr |-> m.attr]
AddAttr(m, attr) == [m EXCEPT !.attr = @ \cup attr]

\* The mount that shows p: the last one at p or above it.
MountOf(mounts, p) == SelectLastInSeq(mounts, LAMBDA m : contains(m.at, p))
Resolve(mounts, p) ==
  LET m == mounts[MountOf(mounts, p)]
  IN  [fs |-> m.fs, path |-> m.root \o Rest(p, m.at)]
AttrOf(mounts, p) == mounts[MountOf(mounts, p)].attr

Entry(mounts, p) ==
  {x \in dirs : Resolve(mounts, p) = [fs |-> x.fs, path |-> x.path]}
Exists(mounts, p) == Entry(mounts, p) # {}

\* Who owns a directory, as a mount shows it: the map of make_idmap_ns has
\* the untrusted account stand in for the user, and nobody for the former.
Seen(owner, attr) ==
  IF "idmap" \notin attr THEN owner
  ELSE IF owner = "user" THEN "untrusted"
  ELSE IF owner = "untrusted" THEN "nobody"
  ELSE owner
Is(uid, role) ==
  \/ role = "user" /\ uid = user_cred_.uid
  \/ role = "untrusted" /\ uid = untrusted_cred_.uid
  \/ role = "root" /\ uid = 0
OwnedBy(mounts, p, roles) ==
  \A x \in Entry(mounts, p) : Seen(x.owner, AttrOf(mounts, p)) \in roles

Open(mounts, uid, p) ==
  \A x \in Entry(mounts, p) :
     x.mode # "private" \/ uid = 0 \/ Is(uid, Seen(x.owner, AttrOf(mounts, p)))
Above(p) == {SubSeq(p, 1, n) : n \in 0 .. Len(p) - 1}

\* open with O_PATH, which needs no permission on p itself, and for reading.
CanFind(mounts, uid, p) ==
  /\ \A q \in Above(p) : Exists(mounts, q) /\ Open(mounts, uid, q)
  /\ Exists(mounts, p)
CanRead(mounts, uid, p) == CanFind(mounts, uid, p) /\ Open(mounts, uid, p)

euid == ids.uid.e
Root == euid = 0
sbcred == IF conf.mode_ = kStrict THEN untrusted_cred_ ELSE user_cred_

\* A mount that is taken off keeps its place in the sequence, at no path: an
\* empty name is the name of nothing.
Nowhere == << "" >>
TakeOff(mounts, p, first) ==
  [i \in DOMAIN mounts |->
     IF i >= first /\ contains(p, mounts[i].at) THEN [mounts[i] EXCEPT !.at = Nowhere]
     ELSE mounts[i]]

\* A change of the mounts of the namespace of the process.
Change(f(_)) ==
  ns' = IF peers THEN [n \in DOMAIN ns |-> f(ns[n])] ELSE [ns EXCEPT ![cur] = f(@)]

-----------------------------------------------------------------------------
(* The shape of the steps *)

Goto(from, to) == pc = from /\ pc' = to
Step(from, to) == Goto(from, to) /\ UNCHANGED << conf, idVars, privVars >>
Same == UNCHANGED << where, files, loops >>

\* restore = asuser(c).
Lower(from, to, c) ==
  /\ pc = from
  /\ \/ asuser(c) /\ pc' = to
     \/ asuserThrows(c) /\ pc' = "unwind"
  /\ UNCHANGED << conf, where, files, loops, idVars >>

\* restore.reset(), whose exception is caught by main.
Reset(from, to) ==
  /\ pc = from
  /\ \/ Restore(TRUE) /\ pc' = to
     \/ Restore(FALSE) /\ pc' = "unwind"
  /\ UNCHANGED << conf, where, loops, idVars >>

\* setns, by root.
SetNs(n) == Root /\ cur' = n /\ UNCHANGED << ns, peers >>

-----------------------------------------------------------------------------
(* do_main *)

\* Set-user-id root, or started by root for a user.
LaunchIds ==
  IF conf.launch = "setuid"
    THEN [uid |-> [r |-> user_cred_.uid, e |-> 0, s |-> 0],
          gid |-> Three(user_cred_.gid), groups |-> user_cred_.uid]
    ELSE [uid |-> Three(0), gid |-> Three(0), groups |-> 0]

\* The mounts that jai finds.
StartMounts == << At(<< >>, Mount("host", << >>)) >> \o conf.mounts

Init ==
  /\ conf \in Worlds
  /\ IdInit
  /\ << user_cred_, untrusted_cred_ >> \in conf.creds
  /\ ids = LaunchIds /\ defers = << >>
  /\ pc = "start"
  /\ ns = [old |-> StartMounts, new |-> << >>]
  /\ cur = "old" /\ peers = FALSE
  /\ dirs = conf.dirs
  /\ tree = [t \in {"tmp", "passwd", "rundir", "home", "src"} |-> NoMount]
  /\ todo = {} /\ d = << >> /\ block = << >>

MainAsUser == Lower("start", "config", user_cred_)
MainReset == Reset("config", "oldns") /\ UNCHANGED files

-----------------------------------------------------------------------------
(* make_mnt_ns: what the jail will see, before there is a jail *)

OpenOldNs ==
  /\ pc = "oldns"
  /\ pc' = IF conf.mode_ = kStrict /\ untrusted_cred_ = user_cred_
             THEN "unwind" ELSE "tmp"
  /\ Arm(RestoreNs)
  /\ todo' = conf.grant_directories_
  /\ UNCHANGED << conf, where, files, d, block, idVars, ids >>

Hold(t, m) == tree' = [tree EXCEPT ![t] = m]

MakePrivateTmp ==
  /\ Step("tmp", "passwd") /\ Root
  /\ Hold("tmp", Mount("tmp", << >>))
  /\ UNCHANGED << where, dirs, loops >>

NoPasswd ==
  /\ Step("passwd", "rundir")
  /\ conf.mode_ # kStrict
  /\ Same

ReadPasswd == conf.mode_ = kStrict /\ Lower("passwd", "link_passwd", user_cred_)

ResetPasswd == Reset("link_passwd", "clone_passwd") /\ UNCHANGED files

ClonePasswd ==
  /\ Step("clone_passwd", "rundir") /\ Root
  /\ Hold("passwd", Mount("passwd", << >>))
  /\ UNCHANGED << where, dirs, loops >>

xdgrun == <<"run", "user", "u">>

MakePrivateRun ==
  /\ Step("rundir", "home")
  /\ IF xdgrun \in todo \/ ~Exists(ns.old, xdgrun)
       THEN UNCHANGED tree
       ELSE /\ Root
            /\ OwnedBy(ns.old, xdgrun, {"user"})
            /\ Hold("rundir", Mount("rundir", << >>))
  /\ UNCHANGED << where, dirs, loops >>

\* make_home_overlay, when the overlay is mounted and when it is not.
OverlayMounted == \E i \in DOMAIN ns.old : ns.old[i].at = RunHome
ReuseOverlay ==
  /\ Step("home", "clone_home")
  /\ conf.mode_ = kCasual /\ OverlayMounted
  /\ Same

MakeOverlay ==
  /\ conf.mode_ = kCasual /\ ~OverlayMounted
  /\ Lower("home", "changes", user_cred_)

Made(fs, path, mode) ==
  [fs |-> fs, path |-> path, mode |-> mode,
   owner |-> IF euid = user_cred_.uid THEN "user"
             ELSE IF euid = untrusted_cred_.uid THEN "untrusted" ELSE "root"]

\* make_whiteout, by root, which it becomes for the one call.
Whiteout(p) == [fs |-> "host", path |-> Changes \o p, mode |-> "whiteout", owner |-> "root"]

\* make_blacklist only warns of a name in mask_files_ that it cannot hide.
MakeBlacklist ==
  /\ Step("changes", "work")
  /\ CanRead(ns.old, euid, conf.storagedir_)
  /\ \E hidden \in SUBSET conf.mask_files_ :
       dirs' = dirs \cup {Made("host", Changes, "private")} \cup {Whiteout(p) : p \in hidden}
  /\ UNCHANGED << where, tree, loops >>

MakeWork == Reset("work", "overlay") /\ UNCHANGED files

\* The overlay shows the home directory, without what Changes hides.
Hidden(x) ==
  \E w \in dirs : w.mode = "whiteout" /\ contains(conf.homepath_ \o Rest(w.path, Changes), x.path)
OverlayOf(some) ==
  {[fs |-> "overlay", path |-> Rest(x.path, conf.homepath_), owner |-> x.owner, mode |-> x.mode] :
     x \in {y \in some : Under(y, "host", conf.homepath_)}}

MountOverlay ==
  /\ Step("overlay", "reopen") /\ Root
  /\ dirs' = dirs \cup OverlayOf({x \in dirs : ~Hidden(x)})
  /\ Change(LAMBDA mounts : Append(mounts, At(RunHome, Mount("overlay", << >>))))
  /\ UNCHANGED << cur, peers, tree, loops >>

ReopenOverlay == Lower("reopen", "reopened", user_cred_)

\* Defers of a scope that is left: an exception in one of them is the end.
Leave(from, to) ==
  /\ pc = from
  /\ \/ Restore(TRUE) /\ pc' = to
     \/ Restore(FALSE) /\ pc' = "terminated"
  /\ UNCHANGED << conf, where, loops, idVars >>

ReturnOverlay == Leave("reopened", "clone_home") /\ UNCHANGED files

\* make_idmap_ns, of which IdMap tells the rest.
MakeIdMapNs ==
  /\ pc = "home" /\ conf.mode_ = kStrict /\ idpc # "done"
  /\ IdNext
  /\ pc' = IF idpc' = "failed" THEN "unwind" ELSE "home"
  /\ UNCHANGED << conf, where, files, loops, privVars >>

EnsureSandboxHome ==
  /\ conf.mode_ = kBare \/ (conf.mode_ = kStrict /\ idpc = "done")
  /\ Lower("home", "sandbox_home", user_cred_)

MakeSandboxHome ==
  /\ Step("sandbox_home", "sandbox_made")
  /\ CanRead(ns.old, euid, conf.storagedir_)
  /\ dirs' = IF Exists(ns.old, SandboxHome) THEN dirs
             ELSE dirs \cup {Made("host", SandboxHome, "private")}
  /\ OwnedBy(ns.old, SandboxHome, {"user"})
  /\ UNCHANGED << where, tree, loops >>

ReturnSandboxHome == Leave("sandbox_made", "clone_home") /\ UNCHANGED files

HomeMount ==
  IF conf.mode_ = kCasual THEN Mount("overlay", << >>) ELSE Mount("host", SandboxHome)

CloneHome ==
  /\ Step("clone_home", "setattr") /\ Root
  /\ Hold("home", HomeMount)
  /\ UNCHANGED << where, dirs, loops >>

attr == {"nosuid", "nodev"} \cup (IF conf.mode_ = kStrict THEN {"idmap"} ELSE {})

SetAttr ==
  /\ Step("setattr", "unshare") /\ Root
  /\ tree' = [t \in DOMAIN tree |-> IF tree[t] = NoMount THEN NoMount ELSE AddAttr(tree[t], attr)]
  /\ UNCHANGED << where, dirs, loops >>

-----------------------------------------------------------------------------
(* make_mnt_ns: the new namespace *)

\* The copy of a namespace whose mounts are shared is a peer of it.
Unshare ==
  /\ Step("unshare", "private") /\ Root
  /\ ns' = [ns EXCEPT !.new = ns.old]
  /\ cur' = "new" /\ peers' = TRUE
  /\ UNCHANGED << files, loops >>

\* No propagation given to mount_setattr.
MakeReadOnly_Shared ==
  /\ Step("private", "detach") /\ Root
  /\ ns' = [ns EXCEPT !.new = [i \in DOMAIN @ |-> AddAttr(@[i], {"ro", "nosuid"})]]
  /\ UNCHANGED << cur, peers, files, loops >>

MakeReadOnly ==
  /\ Step("private", "detach") /\ Root
  /\ ns' = [ns EXCEPT !.new = [i \in DOMAIN @ |-> AddAttr(@[i], {"ro", "nosuid"})]]
  /\ peers' = FALSE
  /\ UNCHANGED << cur, files, loops >>

\* MNT_DETACH takes the top mount at a path, and the mounts below it, away.
Detached(mounts, p) ==
  LET top == SelectLastInSeq(mounts, LAMBDA m : m.at = p)
  IN  IF top = 0 THEN mounts ELSE TakeOff(mounts, p, top)

DetachShared ==
  /\ Step("detach", "place_tmp") /\ Root
  /\ Change(LAMBDA mounts :
       Detached(Detached(Detached(mounts, kRunRoot), <<"tmp">>), <<"var", "tmp">>))
  /\ UNCHANGED << cur, peers, files, loops >>

\* xmnt_move.
Attach(m, p) ==
  /\ Root
  /\ Exists(ns[cur], p)
  /\ Change(LAMBDA mounts : Append(mounts, At(p, m)))

Place(from, to, m, p) ==
  /\ Goto(from, to)
  /\ IF m = NoMount THEN UNCHANGED ns ELSE Attach(m, p)
  /\ UNCHANGED << conf, cur, peers, files, loops, idVars, privVars >>

PlaceTmp == Place("place_tmp", "place_vartmp", tree.tmp, <<"tmp">>)
PlaceVarTmp ==
  LET tmp == ns[cur][MountOf(ns[cur], <<"tmp">>)]
  IN  Place("place_vartmp", "place_home",
            [fs |-> tmp.fs, root |-> tmp.root, attr |-> tmp.attr], <<"var", "tmp">>)
PlaceHome == Place("place_home", "place_passwd", tree.home, conf.homepath_)
PlacePasswd == Place("place_passwd", "place_run", tree.passwd, <<"etc", "passwd">>)
PlaceRun == Place("place_run", "cwd", tree.rundir, xdgrun)

-----------------------------------------------------------------------------
(* make_mnt_ns: the granted directories *)

\* exit, which leaves no scope.
RefuseHome ==
  /\ Step("cwd", "exited")
  /\ conf.grant_cwd_ /\ conf.cwd_ \notin todo
  /\ conf.cwd_ = conf.homepath_
  /\ Same

GrantCwd ==
  /\ Step("cwd", "grants")
  /\ conf.grant_cwd_ => conf.cwd_ \in todo \/ conf.cwd_ # conf.homepath_
  /\ todo' = todo \cup (IF conf.grant_cwd_ THEN {conf.cwd_} ELSE {})
  /\ UNCHANGED << where, files, d, block >>

\* grant_directories_ is sorted by PathLess, so that a directory comes before
\* those below it.
NextGrant_Unsorted(g) == g \in todo
NextGrant(g) == g \in todo /\ \A h \in todo : contains(h, g) => h = g

GrantNext ==
  /\ pc = "grants"
  /\ \E g \in todo :
       /\ NextGrant(g)
       /\ d' = g
       /\ todo' = todo \ {g}
       /\ pc' = IF contains(conf.homejaipath_, g) \/ contains(conf.storagedir_, g)
                  THEN "unwind" ELSE "to_old"
  /\ UNCHANGED << conf, where, files, block, idVars, privVars >>

ToOld ==
  /\ Step("to_old", "lower_src")
  /\ SetNs("old")
  /\ UNCHANGED << files, loops >>

LowerForSource == Lower("lower_src", "open_src", user_cred_)

OpenSource ==
  /\ Step("open_src", "reset_src")
  /\ CanFind(ns[cur], euid, d)
  /\ OwnedBy(ns[cur], d, {"user"})
  /\ LET i == Resolve(ns[cur], d) IN Hold("src", Mount(i.fs, i.path))
  /\ UNCHANGED << where, dirs, loops >>

ResetSource == Reset("reset_src", "clone_src") /\ UNCHANGED files

\* The mount of a granted directory keeps the attributes it had.
CloneSource_NoSetAttr ==
  /\ Step("clone_src", "to_new") /\ Root
  /\ Same

CloneSource ==
  /\ Step("clone_src", "to_new") /\ Root
  /\ Hold("src", AddAttr(tree.src, attr))
  /\ UNCHANGED << where, dirs, loops >>

ToNew ==
  /\ Step("to_new", "lower_dst")
  /\ SetNs("new")
  /\ UNCHANGED << files, loops >>

LowerForTarget == Lower("lower_dst", "open_dst", user_cred_)

OpenTarget ==
  /\ pc = "open_dst"
  /\ pc' = IF CanFind(ns[cur], euid, d) THEN "check_dst" ELSE "no_dst"
  /\ Same /\ UNCHANGED << conf, idVars, privVars >>

\* restore_root = asuser(sbcred) without the reset: the new Defer is made
\* before the assignment runs the old one.
ResetBeforeMake_Dropped ==
  /\ Goto("no_dst", "make_dst")
  /\ euid = sbcred.uid
  /\ \E o \in make_effective(ids, Innermost.old) : o.ok /\ ids' = o.ids
  /\ defers' = [defers EXCEPT ![Len(defers)] = Nothing]
  /\ UNCHANGED << conf, where, files, loops, idVars >>

ResetBeforeMake == Reset("no_dst", "lower_sb") /\ UNCHANGED files
LowerForMake == Lower("lower_sb", "make_dst", sbcred)

\* mkdir of what is missing of p: on a mount that is not read-only, by who may
\* write to the directory that the first missing one is in.
Missing(mounts, p) == {q \in Above(p) \cup {p} : ~Exists(mounts, q)}
CanCreate(mounts, q) ==
  LET parent == Front(q)
  IN  /\ "ro" \notin AttrOf(mounts, parent)
      /\ \A x \in Entry(mounts, parent) :
           x.mode = "open" \/ Root \/ Is(euid, Seen(x.owner, AttrOf(mounts, parent)))
      /\ "idmap" \in AttrOf(mounts, parent) => Root \/ euid # user_cred_.uid
\* Through the id map, a directory that the untrusted account makes is the
\* user's, and the user, for whom nobody stands in, cannot make any.
NewDir(mounts, q) ==
  LET i == Resolve(mounts, q)
      x == Made(i.fs, i.path, "shared")
  IN  IF "idmap" \in AttrOf(mounts, Front(q)) /\ x.owner = "untrusted"
        THEN [x EXCEPT !.owner = "user"] ELSE x

MakeTarget ==
  /\ Step("make_dst", "check_dst")
  /\ LET mounts == ns[cur]
         missing == Missing(mounts, d)
     IN  /\ \A q \in (Above(d) \cup {d}) \ missing : Open(mounts, euid, q)
         /\ \A q \in missing : CanCreate(mounts, q)
         /\ dirs' = dirs \cup {NewDir(mounts, q) : q \in missing}
  /\ UNCHANGED << where, tree, loops >>

CheckTarget ==
  /\ pc = "check_dst"
  /\ pc' = IF OwnedBy(ns[cur], d, {"user", "untrusted"}) THEN "reset_dst" ELSE "unwind"
  /\ Same /\ UNCHANGED << conf, idVars, privVars >>

ResetTarget == Reset("reset_dst", "attach") /\ UNCHANGED files

AttachGrant ==
  /\ Step("attach", "grants")
  /\ Attach(tree.src, d)
  /\ UNCHANGED << cur, peers, files, loops >>

\* The directories that the jail must not see come after all grants.
GrantsDone_BlockOne ==
  /\ Step("grants", "block")
  /\ todo = {}
  /\ SetNs("new")
  /\ block' = << conf.storagedir_ >>
  /\ UNCHANGED << files, todo, d >>

GrantsDone ==
  /\ Step("grants", "block")
  /\ todo = {}
  /\ SetNs("new")
  /\ block' = IF conf.homejaipath_ = conf.storagedir_ THEN << conf.storagedir_ >>
              ELSE << conf.storagedir_, conf.homejaipath_ >>
  /\ UNCHANGED << files, todo, d >>

-----------------------------------------------------------------------------
(* make_mnt_ns: blockdir *)

LowerForBlock == block # << >> /\ Lower("block", "open_block", sbcred)

\* What sbcred cannot open in the jail needs no hiding.
OpenBlocked ==
  /\ pc = "open_block"
  /\ pc' = IF CanRead(ns[cur], euid, Head(block)) THEN "reset_block" ELSE "skip_block"
  /\ Same /\ UNCHANGED << conf, idVars, privVars >>

SkipBlocked ==
  /\ Leave("skip_block", "next_block")
  /\ UNCHANGED files

ResetBlocked == Reset("reset_block", "compare") /\ UNCHANGED files

\* In a jail with a home directory of its own, another directory may be there.
Compare ==
  /\ pc = "compare"
  /\ Root
  /\ LET same == Resolve(ns.old, Head(block)) = Resolve(ns.new, Head(block))
     IN  pc' = IF conf.mode_ = kCasual \/ same THEN "cover" ELSE "next_block"
  /\ Same /\ UNCHANGED << conf, idVars, privVars >>

Cover ==
  /\ Step("cover", "next_block")
  /\ OwnedBy(ns[cur], Head(block), {"user", "untrusted"})
  /\ ~ \E x \in dirs : LET i == Resolve(ns[cur], kRunRoot)
                       IN  Under(x, i.fs, i.path) /\ x.path # i.path
  /\ LET i == Resolve(ns[cur], kRunRoot)
     IN  Attach(AddAttr(Mount(i.fs, i.path), {"ro", "nosuid", "nodev"}), Head(block))
  /\ UNCHANGED << cur, peers, files, loops >>

NextBlocked ==
  /\ Step("next_block", "block")
  /\ block' = Tail(block)
  /\ UNCHANGED << where, files, todo, d >>

\* The return from make_mnt_ns runs _restore_ns.
ReturnNs ==
  /\ Goto("block", "exec")
  /\ block = << >>
  /\ Innermost = RestoreNs
  /\ SetNs("old")
  /\ Disarm
  /\ UNCHANGED << conf, files, loops, idVars, ids >>

-----------------------------------------------------------------------------
(* exec, fix_proc and pid2, in the child *)

\* The child leaves its copy of the old namespace at once.
ChildSetNs ==
  /\ Step("exec", "proc")
  /\ SetNs("new")
  /\ UNCHANGED << files, loops >>

FixProc ==
  /\ Step("proc", "make_real") /\ Root
  /\ ns' = [ns EXCEPT ![cur] =
       Append(TakeOff(@, <<"proc">>, 1),
              At(<<"proc">>, AddAttr(Mount("jailproc", << >>), {"nosuid", "nodev"})))]
  /\ UNCHANGED << cur, peers, files, loops >>

MakeReal ==
  /\ pc = "make_real"
  /\ \E o \in make_real(ids, Target(sbcred)) :
       /\ ids' = o.ids
       /\ pc' = IF o.ok THEN "chdir" ELSE "exited"
  /\ UNCHANGED << conf, where, files, loops, idVars, defers >>

\* chdir to cwd_, or home when a jail that was not granted it has no such
\* directory.
Chdir ==
  /\ pc = "chdir"
  /\ LET Can(p) == CanRead(ns[cur], euid, p)
         fallback == conf.mode_ # kCasual /\ ~conf.grant_cwd_
                     /\ ~Exists(ns[cur], conf.cwd_) /\ Can(conf.homepath_)
     IN  pc' = IF Can(conf.cwd_) \/ fallback THEN "program" ELSE "exited"
  /\ Same /\ UNCHANGED << conf, idVars, privVars >>

-----------------------------------------------------------------------------
(* Failure *)

Final == {"program", "failed", "exited", "terminated"}
Child == {"proc", "make_real", "chdir"}

\* syserr or err.  In the child, fix_proc and pid2 catch it and exit.
Throw ==
  /\ pc \notin Final \cup Child \cup
       {"start", "unwind", "grants", "block", "next_block", "exec"}
  /\ pc' = "unwind"
  /\ Same /\ UNCHANGED << conf, idVars, privVars >>

\* xsetns exits when setns fails, and so does the child.
ExitNow ==
  /\ \/ pc \in Child \cup {"to_old", "to_new", "compare", "exec"}
     \/ pc = "grants" /\ todo = {}
     \/ pc = "block" /\ block = << >>
  /\ pc' = "exited"
  /\ Same /\ UNCHANGED << conf, idVars, privVars >>

\* The exception passes the scopes that are open.
Unwind ==
  /\ pc = "unwind" /\ defers # << >> /\ Innermost # RestoreNs
  /\ \/ Restore(TRUE) /\ UNCHANGED pc
     \/ Restore(FALSE) /\ pc' = "terminated"
  /\ UNCHANGED << conf, where, files, loops, idVars >>

UnwindNs ==
  /\ pc = "unwind" /\ defers # << >> /\ Innermost = RestoreNs
  /\ \/ SetNs("old") /\ Disarm /\ UNCHANGED pc
     \/ pc' = "exited" /\ UNCHANGED << cur, ns, peers, defers >>
  /\ UNCHANGED << conf, files, loops, idVars, ids >>

\* main catches it, and jai returns 1.
Caught ==
  /\ Step("unwind", "failed")
  /\ defers = << >>
  /\ Same

Next ==
  \/ MainAsUser \/ MainReset \/ OpenOldNs
  \/ MakePrivateTmp \/ NoPasswd \/ ReadPasswd \/ ResetPasswd \/ ClonePasswd \/ MakePrivateRun
  \/ ReuseOverlay \/ MakeOverlay \/ MakeBlacklist \/ MakeWork \/ MountOverlay
  \/ ReopenOverlay \/ ReturnOverlay
  \/ MakeIdMapNs \/ EnsureSandboxHome \/ MakeSandboxHome \/ ReturnSandboxHome
  \/ CloneHome
  \/ SetAttr \/ Unshare \/ MakeReadOnly \/ DetachShared
  \/ PlaceTmp \/ PlaceVarTmp \/ PlaceHome \/ PlacePasswd \/ PlaceRun
  \/ RefuseHome \/ GrantCwd \/ GrantNext \/ ToOld \/ LowerForSource
  \/ OpenSource \/ ResetSource \/ CloneSource \/ ToNew \/ LowerForTarget \/ OpenTarget
  \/ ResetBeforeMake \/ LowerForMake \/ MakeTarget \/ CheckTarget \/ ResetTarget
  \/ AttachGrant \/ GrantsDone
  \/ LowerForBlock \/ OpenBlocked \/ SkipBlocked \/ ResetBlocked \/ Compare \/ Cover
  \/ NextBlocked \/ ReturnNs
  \/ ChildSetNs \/ FixProc \/ MakeReal \/ Chdir
  \/ Throw \/ ExitNow \/ Unwind \/ UnwindNs \/ Caught

Spec == Init /\ [][Next]_vars

-----------------------------------------------------------------------------
(* Properties *)

\* Whoever is not root is one of the two accounts, with all that is its own.
IdsOf(c) == get_effective = Target(c)
OfTheProgram ==
  ids = [uid |-> Three(sbcred.uid), gid |-> Three(sbcred.gid), groups |-> sbcred.uid]

(***************************************************************************)
(* Whenever the effective user is not root, the effective group and the    *)
(* supplementary groups are those of the same account, whichever call of   *)
(* asuser or of a Defer failed half way (make_effective, cred.cc); and the *)
(* program has that account's in all places, so that nothing is left to it *)
(* of the ids that jai was started with (make_real).                       *)
(***************************************************************************)
IdsBelongTogether ==
  /\ euid # 0 => IdsOf(user_cred_) \/ IdsOf(untrusted_cred_)
  /\ pc \in {"chdir", "program"} => OfTheProgram

(***************************************************************************)
(* Between two granted or hidden directories make_mnt_ns is root, with no  *)
(* Defer but that of the namespace.  When it has returned the process is   *)
(* back in the old mount namespace with the ids it was started with, so    *)
(* that parent_loop does not run in the jail; and an exception, however    *)
(* deep in asuser and setns it was thrown, leaves the jail as well (asuser *)
(* and _restore_ns).                                                       *)
(***************************************************************************)
EverythingRestored ==
  /\ pc \in {"grants", "block", "next_block"} => Root /\ defers = << RestoreNs >>
  /\ pc = "exec" => cur = "old" /\ ids = LaunchIds /\ defers = << >>
  /\ pc = "failed" => cur = "old" /\ Root

(***************************************************************************)
(* From unshare on no step changes a mount outside the jail (the private   *)
(* propagation of the new namespace, and the setns calls of make_mnt_ns).  *)
(***************************************************************************)
OldNamespaceKept == [][ns.new # << >> => ns'.old = ns.old]_vars

Granted == conf.grant_directories_ \cup (IF conf.grant_cwd_ THEN {conf.cwd_} ELSE {})
Program == pc = "program"

(***************************************************************************)
(* The program finds each granted directory at its own path, writable, the *)
(* very directory that is there outside: no mount that came later covers   *)
(* it (the order of grant_directories_ and of the mounts of make_mnt_ns).  *)
(* And it was the user's to grant: outside the jail he owns it and can get *)
(* at it himself (asuser and check_user).  What is granted below /proc is  *)
(* behind the jail's own /proc (fix_proc).                                 *)
(***************************************************************************)
GrantsAsGiven ==
  Program => \A g \in {g \in Granted : ~contains(<<"proc">>, g)} :
    /\ Resolve(ns.new, g) = Resolve(ns.old, g)
    /\ "ro" \notin AttrOf(ns.new, g)
    /\ CanFind(ns.old, user_cred_.uid, g) /\ OwnedBy(ns.old, g, {"user"})

\* The directories below the storage and configuration directories.
Secret(i) ==
  /\ i.fs = "host"
  /\ contains(conf.storagedir_, i.path) \/ contains(conf.homejaipath_, i.path)
  /\ conf.mode_ # kCasual => ~contains(SandboxHome, i.path)

\* What shows one of them: the overlay shows what is below home.
Reveals(i) ==
  \/ Secret(i)
  \/ i.fs = "overlay" /\ Secret([fs |-> "host", path |-> conf.homepath_ \o i.path])
Names == {x.path : x \in dirs} \cup {conf.homepath_ \o x.path : x \in dirs}

(***************************************************************************)
(* No path leads the program to the configuration of jai or to what is in  *)
(* its storage, except to its own home directory: neither through a        *)
(* granted directory above them nor through the overlay on home            *)
(* (blockdir).                                                             *)
(***************************************************************************)
SecretsHidden ==
  Program => \A p \in Names :
    CanRead(ns.new, sbcred.uid, p) => ~Reveals(Resolve(ns.new, p))

(***************************************************************************)
(* The jail's own directories are where a program looks for them, unless   *)
(* a granted directory is in their place, and /run/jai is what the machine *)
(* has under jai's mounts.  No mount in the jail, covered or not, honours  *)
(* set-user-id bits; only what jai made for it and what was granted is     *)
(* writable, and in a strict jail the untrusted account stands in for the  *)
(* user there (make_mnt_ns, fix_proc).                                     *)
(***************************************************************************)
Shows(p, m) ==
  p \notin Granted => Resolve(ns.new, p) = [fs |-> m.fs, path |-> m.root]
FoundAtStart(m) ==
  \E i \in DOMAIN StartMounts :
    LET s == StartMounts[i] IN s.at = m.at /\ s.fs = m.fs /\ s.root = m.root
RunRootBare(mounts) ==
  \A i \in DOMAIN mounts :
    contains(mounts[i].at, kRunRoot) => mounts[i].at # kRunRoot /\ FoundAtStart(mounts[i])
HasRunDir ==
  \E x \in conf.dirs : Resolve(StartMounts, xdgrun) = [fs |-> x.fs, path |-> x.path]
ForTheUser(m) ==
  /\ m.fs = "host" => m.root = SandboxHome \/ m.at \in Granted
  /\ conf.mode_ = kStrict => "idmap" \in m.attr
Confined(m) == "nosuid" \in m.attr /\ ("ro" \in m.attr \/ ForTheUser(m))
MountsConfined ==
  \A i \in DOMAIN ns.new :
    LET m == ns.new[i]
    IN  m.at = Nowhere \/ Confined(m) \/ (m.fs = "jailproc" /\ "nosuid" \in m.attr)
JailInPlace ==
  Program =>
    /\ Shows(<<"proc">>, Mount("jailproc", << >>))
    /\ Shows(<<"tmp">>, Mount("tmp", << >>))
    /\ Shows(<<"var", "tmp">>, Mount("tmp", << >>))
    /\ HasRunDir => Shows(xdgrun, Mount("rundir", << >>))
    /\ Shows(conf.homepath_, HomeMount)
    /\ RunRootBare(ns.new)
    /\ MountsConfined

\* The storage and configuration directories and the granted directories are
\* not above any of these places, home is none of the others nor inside one
\* that is mounted after it, and run_jai has mounted /run/jai once.
FixedPlaces == {<<"proc">>, <<"tmp">>, <<"var", "tmp">>, xdgrun, kRunRoot}
PlacesApart ==
  /\ \A p \in FixedPlaces \cup {conf.homepath_} :
       /\ ~contains(conf.storagedir_, p) /\ ~contains(conf.homejaipath_, p)
       /\ \A g \in Granted : contains(g, p) => g = p
  /\ \A p \in FixedPlaces : ~contains(conf.homepath_, p)
  /\ \A p \in {<<"proc">>, xdgrun, <<"etc", "passwd">>} : ~contains(p, conf.homepath_)
  /\ kRunRoot \notin Granted
  /\ \A i, j \in DOMAIN StartMounts :
       StartMounts[i].at = kRunRoot /\ StartMounts[j].at = kRunRoot => i = j

(***************************************************************************)
(* Every directory that make_mnt_ns makes belongs to the user, whether he  *)
(* or the untrusted account makes it through the id map: nothing of root's *)
(* is left in the user's storage (the calls of asuser around ensure_dir),  *)
(* except in the overlay, which shows what is there.                       *)
(***************************************************************************)
MadeForTheUser ==
  \A x \in dirs \ (conf.dirs \cup OverlayOf(conf.dirs)) :
    x.mode # "whiteout" => x.owner = "user"

-----------------------------------------------------------------------------
(***************************************************************************)
(* The inductive invariant behind IdsBelongTogether and EverythingRestored *)
(* tells for each place in the code which Defers are live, outermost       *)
(* first, and which ids are in effect.                                     *)
(***************************************************************************)
AsRoot(outer) == ids = LaunchIds /\ defers = outer

\* In the scope of an asuser: for root it has nothing to restore.
LaunchEffective == [uid |-> 0, gid |-> LaunchIds.gid.r, groups |-> LaunchIds.groups]
LoweredTo(c) ==
  [uid |-> [r |-> LaunchIds.uid.r, e |-> c.uid, s |-> 0],
   gid |-> [r |-> LaunchIds.gid.r, e |-> c.gid, s |-> LaunchIds.gid.r], groups |-> c.uid]
AsUser(outer) ==
  \/ ids = LaunchIds /\ defers = Append(outer, Nothing)
  \/ /\ \E c \in {user_cred_, untrusted_cred_} : ids = LoweredTo(c)
     /\ defers = Append(outer, RestoreIds(LaunchEffective))

Outside == {"start", "oldns", "exec", "proc", "make_real"}
InMakeMntNs ==
  {"tmp", "passwd", "clone_passwd", "rundir", "home", "overlay", "reopen", "clone_home",
   "setattr", "unshare", "private", "detach", "place_tmp", "place_vartmp", "place_home",
   "place_passwd", "place_run", "cwd", "grants", "to_old", "lower_src", "clone_src",
   "to_new", "lower_dst", "lower_sb", "attach", "block", "compare", "cover", "next_block"}
LoweredThere ==
  {"link_passwd", "changes", "work", "reopened", "sandbox_home", "sandbox_made",
   "open_src", "reset_src", "open_dst", "no_dst", "make_dst", "check_dst", "reset_dst",
   "open_block", "skip_block", "reset_block"}
Programs == {"chdir", "program"}

RootLeft(outer) == Root /\ defers = outer

PrivInv ==
  \/ pc \in Outside /\ AsRoot(<< >>) /\ (pc \notin Child => cur = "old")
  \/ pc = "config" /\ AsUser(<< >>) /\ cur = "old"
  \/ pc \in InMakeMntNs /\ AsRoot(<< RestoreNs >>)
  \/ pc \in LoweredThere /\ AsUser(<< RestoreNs >>)
  \/ pc \in Programs /\ OfTheProgram
  \/ pc = "unwind" /\ (AsUser(<< >>) \/ RootLeft(<< >>)) /\ cur = "old"
  \/ pc = "unwind" /\ (AsUser(<< RestoreNs >>) \/ RootLeft(<< RestoreNs >>))
  \/ pc = "failed" /\ Root /\ cur = "old"
  \/ pc \in {"exited", "terminated"} /\ (Root \/ OfTheProgram)

(***************************************************************************)
(* The inductive invariant behind OldNamespaceKept: up to unshare there is *)
(* one namespace, with one process in it, and after the remount the two    *)
(* are no longer peers.  Where a mount is made or taken away, the process  *)
(* is in the new one.                                                      *)
(***************************************************************************)
Early ==
  {"start", "config", "oldns", "tmp", "passwd", "link_passwd", "clone_passwd", "rundir",
   "home", "changes", "work", "overlay", "reopen", "reopened", "sandbox_home",
   "sandbox_made", "clone_home", "setattr", "unshare"}
InNewNs ==
  {"detach", "place_tmp", "place_vartmp", "place_home", "place_passwd", "place_run",
   "lower_dst", "open_dst", "no_dst", "lower_sb", "make_dst", "check_dst", "reset_dst",
   "attach", "block", "open_block", "skip_block", "reset_block", "compare", "cover",
   "next_block", "proc"}
Ending == {"unwind", "failed", "exited", "terminated"}

NsInv ==
  /\ ns = [old |-> ns.old, new |-> ns.new]
  /\ pc \in Early => cur = "old" /\ ns.new = << >>
  /\ pc \notin Ending \cup {"private"} => peers = FALSE
  /\ pc \in InNewNs \cup {"private"} => cur = "new"

(***************************************************************************)
(* The inductive invariant behind GrantsAsGiven, MountsConfined and        *)
(* MadeForTheUser: the mounts that make_mnt_ns holds and has made, as whom *)
(* it makes and opens directories, and what the loop over                  *)
(* grant_directories_ has done for each of them.                           *)
(***************************************************************************)
Placing ==
  {"detach", "place_tmp", "place_vartmp", "place_home", "place_passwd", "place_run"}
Collecting ==
  (Early \ {"start", "config", "oldns"}) \cup Placing \cup {"private", "cwd"}
Cloned ==
  {"to_new", "lower_dst", "open_dst", "no_dst", "lower_sb", "make_dst", "check_dst",
   "reset_dst", "attach"}
Opened == {"reset_src", "clone_src"} \cup Cloned
Body == {"to_old", "lower_src", "open_src"} \cup Opened
AfterGrants ==
  {"block", "open_block", "skip_block", "reset_block", "compare", "cover", "next_block",
   "exec", "proc", "make_real", "chdir", "program"}
Late == {"grants"} \cup Body \cup AfterGrants
Blocking == {"open_block", "skip_block", "reset_block", "compare", "cover", "next_block"}
ProcFixed == {"make_real", "chdir", "program"}

Attached == Mounts(Paths \cup {Nowhere})
MountsOK(mounts) ==
  mounts \in Seq(Attached) /\ mounts # << >> /\ mounts[1].at = << >>

JailTypeOK ==
  /\ conf \in Worlds
  /\ MountsOK(ns.old)
  /\ pc \notin Early \cup Ending => MountsOK(ns.new)
  /\ tree \in [{"tmp", "passwd", "rundir", "home", "src"} ->
                [fs : FileSystem, root : Paths, attr : SUBSET Flags]]
  /\ todo \subseteq Paths /\ d \in Paths
  /\ block \in Seq({conf.storagedir_, conf.homejaipath_})
  /\ pc \in Blocking => block # << >>

\* Where the ids of an account matter.
ActsAs ==
  /\ pc \in {"changes", "sandbox_home", "open_src"} => euid = user_cred_.uid
  /\ pc = "make_dst" => euid = sbcred.uid
  /\ pc \in {"lower_src", "open_src"} => cur = "old"

NoneElse == \A i \in DOMAIN ns.new : ns.new[i].at = Nowhere \/ Confined(ns.new[i])
OwnMount(m) == m.fs = "host" => m.root = SandboxHome
TreesConfined ==
  /\ \A t \in {"tmp", "passwd", "rundir", "home"} :
       /\ OwnMount(tree[t])
       /\ pc \in {"unshare", "private"} \cup Placing =>
            tree[t] = NoMount \/ attr \subseteq tree[t].attr
  /\ pc \in Collecting \ {"tmp"} => tree.tmp.fs = "tmp"
  /\ pc = "place_vartmp" => ns.new[Len(ns.new)] = At(<<"tmp">>, tree.tmp)
  /\ pc \in Cloned => tree.src.attr = attr
  /\ pc \in Placing \cup {"cwd"} \cup (Late \ ProcFixed) => NoneElse
  /\ pc \in ProcFixed => MountsConfined

\* What has been found out about a granted directory, and what has been done.
Allowed(g) == ~contains(conf.homejaipath_, g) /\ ~contains(conf.storagedir_, g)
TheUsersOwn(g) == CanFind(ns.old, user_cred_.uid, g) /\ OwnedBy(ns.old, g, {"user"})
NoneAbove(some, g) == \A h \in some : ~contains(h, g)
InPlace(g) ==
  \E n \in DOMAIN ns.new :
    /\ ns.new[n].at = g
    /\ [fs |-> ns.new[n].fs, path |-> ns.new[n].root] = Resolve(ns.old, g)
    /\ "ro" \notin ns.new[n].attr
    /\ \A i \in DOMAIN ns.new : i > n => ~contains(ns.new[i].at, g)

Ahead == IF pc \in Body THEN todo \cup {d} ELSE todo
GrantsInTime ==
  /\ pc \in Collecting => todo = conf.grant_directories_
  /\ pc \in Late => Ahead \subseteq Granted
  /\ pc \in AfterGrants => todo = {}
  /\ pc \in Body => Allowed(d) /\ NoneAbove(todo, d)
  /\ pc \in Opened =>
       /\ [fs |-> tree.src.fs, path |-> tree.src.root] = Resolve(ns.old, d)
       /\ TheUsersOwn(d)
  /\ pc \in {"reset_src", "clone_src"} => tree.src.attr = {}
  /\ pc \in Late => \A g \in Granted \ Ahead :
       /\ Allowed(g) /\ TheUsersOwn(g) /\ NoneAbove(Ahead, g)
       /\ InPlace(g) \/ (pc \in ProcFixed /\ contains(<<"proc">>, g))

JailInv == JailTypeOK /\ ActsAs /\ TreesConfined /\ GrantsInTime /\ MadeForTheUser

(***************************************************************************)
(* The inductive invariant behind JailInPlace, where PlacesApart holds:    *)
(* what the detached mounts show, and from which call on each of the       *)
(* places is taken, with no later mount on top of it.                      *)
(***************************************************************************)
OnTop(mounts, p, m) ==
  \E n \in DOMAIN mounts :
    /\ mounts[n].at = p /\ mounts[n].fs = m.fs /\ mounts[n].root = m.root
    /\ \A i \in DOMAIN mounts : i > n => ~contains(mounts[i].at, p)
Taken(p, m) == p \notin Granted => OnTop(ns.new, p, m)

BeforeRunDir ==
  {"start", "config", "oldns", "tmp", "passwd", "link_passwd", "clone_passwd", "rundir"}
RunTaken == {"cwd"} \cup Late
HomeTaken == {"place_passwd", "place_run"} \cup RunTaken
VarTmpTaken == {"place_home"} \cup HomeTaken
TmpTaken == {"place_vartmp"} \cup VarTmpTaken
AfterDetach == {"place_tmp"} \cup TmpTaken

RunRootOnce(mounts) ==
  /\ \A i, j \in DOMAIN mounts :
       mounts[i].at = kRunRoot /\ mounts[j].at = kRunRoot => i = j
  /\ \A i \in DOMAIN mounts : contains(mounts[i].at, kRunRoot) => FoundAtStart(mounts[i])
RunRootInv ==
  /\ pc \in Early => RunRootOnce(ns.old)
  /\ pc \in {"private", "detach"} => RunRootOnce(ns.new)
  /\ pc \in AfterDetach => RunRootBare(ns.new)

Holds(t, m) == tree[t].fs = m.fs /\ tree[t].root = m.root
TreesHeld ==
  /\ conf.dirs \subseteq dirs
  /\ pc \in BeforeRunDir => ns.old = StartMounts
  /\ pc \in Collecting \ {"tmp"} => Holds("tmp", Mount("tmp", << >>))
  /\ pc \in Collecting \ BeforeRunDir /\ HasRunDir /\ xdgrun \notin Granted =>
       Holds("rundir", Mount("rundir", << >>))
  /\ pc \in {"setattr", "unshare", "private"} \cup Placing => Holds("home", HomeMount)
PlacesTaken ==
  /\ pc \in TmpTaken => Taken(<<"tmp">>, Mount("tmp", << >>))
  /\ pc \in VarTmpTaken => Taken(<<"var", "tmp">>, Mount("tmp", << >>))
  /\ pc \in HomeTaken => Taken(conf.homepath_, HomeMount)
  /\ pc \in RunTaken /\ HasRunDir => Taken(xdgrun, Mount("rundir", << >>))
  /\ pc \in ProcFixed => Taken(<<"proc">>, Mount("jailproc", << >>))

PlacesInv == PlacesApart => RunRootInv /\ TreesHeld /\ PlacesTaken

(***************************************************************************)
(* The inductive invariant behind SecretsHidden, where SecretsOnHost       *)
(* holds: which mounts show anything of the host or of the overlay, and    *)
(* what blockdir has found out about, and done with, each of the two       *)
(* directories.                                                            *)
(***************************************************************************)
Blocked == {conf.storagedir_, conf.homejaipath_}

\* The root of the host is mounted once, and the overlay under /run/jai.
HostOnce(mounts) ==
  \A i \in DOMAIN mounts :
    mounts[i].fs = "host" => mounts[i].at = << >> /\ mounts[i].root = << >>
OverlayBelow(mounts) ==
  /\ \E i \in DOMAIN mounts : mounts[i].at = kRunRoot
  /\ \A i, j \in DOMAIN mounts :
       mounts[i].at = kRunRoot /\ mounts[j].fs = "overlay" =>
         i < j /\ contains(kRunRoot, mounts[j].at)
OneHost(mounts) == HostOnce(mounts) /\ OverlayBelow(mounts)

\* No mount of the machine shows the host a second time or hides the two
\* directories, which are not above /run/jai; and nothing in there is granted.
SecretsOnHost ==
  /\ OneHost(StartMounts)
  /\ \A b \in Blocked :
       Resolve(StartMounts, b) = [fs |-> "host", path |-> b] /\ ~contains(b, kRunRoot)
  /\ \A g \in Granted : ~contains(kRunRoot, g)

\* A mount that shows each directory of the host at its own path, or those of
\* a home directory of the jail's own; and one that shows an empty directory.
InOwnPlace(m) ==
  /\ m.fs = "host" =>
       \/ m.root = m.at /\ m.at \in Granted \cup {<< >>}
       \/ conf.mode_ # kCasual /\ contains(SandboxHome, m.root)
  /\ m.fs = "overlay" => conf.mode_ = kCasual /\ m.at = conf.homepath_ /\ m.root = << >>
Empty(m) ==
  /\ m.at \in Blocked /\ ~Reveals([fs |-> m.fs, path |-> m.root])
  /\ \A x \in dirs : Under(x, m.fs, m.root) => x.path = m.root
MakingOverlay == {"changes", "work", "overlay"}
HostShown(m) == m.at = Nowhere \/ InOwnPlace(m) \/ (pc \in AfterGrants /\ Empty(m))
HostMounts ==
  /\ OneHost(ns.old)
  /\ conf.mode_ # kCasual => ns.old = StartMounts
  /\ pc \in MakingOverlay => conf.mode_ = kCasual
  /\ pc \in {"private", "detach"} => OneHost(ns.new)
  /\ pc \in AfterDetach => \A i \in DOMAIN ns.new : HostShown(ns.new[i])
  /\ \A t \in {"tmp", "passwd", "rundir"} : tree[t].fs \notin {"host", "overlay"}
  /\ pc \in {"setattr", "unshare", "private"} \cup Placing => Holds("home", HomeMount)

Closed(b) ==
  \A p \in Paths :
    contains(b, p) /\ CanRead(ns.new, sbcred.uid, p) => ~Reveals(Resolve(ns.new, p))
Pending(b) ==
  /\ pc \in {"block"} \cup Blocking
  /\ \E k \in DOMAIN block : block[k] = b /\ (pc = "next_block" => k > 1)
BlockedInTime ==
  /\ pc = "open_block" => euid = sbcred.uid
  /\ pc = "skip_block" => ~CanRead(ns.new, sbcred.uid, Head(block))
  /\ pc \in AfterGrants => \A b \in Blocked : Pending(b) \/ Closed(b)

SecretsInv ==
  SecretsOnHost => HostMounts /\ {x.path : x \in dirs} \subseteq Paths /\ BlockedInTime
=============================================================================
