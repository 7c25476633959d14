------------------------------- MODULE MCMntNs -------------------------------
EXTENDS MntNs

\* The directories of a machine with one user.
HostDir(path, owner, mode) == [fs |-> "host", path |-> path, owner |-> owner, mode |-> mode]
HomePath == <<"home", "u">>
HomeJai == <<"home", "u", ".jai">>
Proj == <<"home", "u", "proj">>
Sub == <<"home", "u", "proj", "sub">>
Data == <<"srv", "data">>
Disk == <<"srv", "data", "disk">>
Theirs == <<"srv", "theirs">>
InTmp == <<"tmp", "x">>
Store == <<"srv", "data", "store">>
Pid == <<"proc", "1">>

Machine(home) ==
  {HostDir(p, "root", "shared") : p \in
     {<< >>, <<"run">>, kRunRoot, <<"run", "user">>, <<"proc">>, <<"var">>,
      <<"etc">>, <<"etc", "passwd">>, <<"home">>, <<"srv">>}}
  \cup {HostDir(p, "root", "open") : p \in {<<"tmp">>, <<"var", "tmp">>}}
  \cup {HostDir(xdgrun, "user", "private"), HostDir(HomePath, "user", home),
        HostDir(HomeJai, "user", "private"), HostDir(Proj, "user", "shared"),
        HostDir(Sub, "user", "shared"), HostDir(Data, "user", "shared"),
        HostDir(Disk, "user", "shared"), HostDir(Store, "user", "private"),
        HostDir(HomeJai \o <<"store">>, "user", "private"),
        HostDir(<<"tmp", "root">>, "root", "private"),
        HostDir(<<"tmp", "root", "u">>, "user", "shared"),
        HostDir(Theirs, "other", "shared"), HostDir(InTmp, "user", "shared"),
        HostDir(Pid, "user", "shared")}
  \cup {[fs |-> fs, path |-> << >>, owner |-> "root", mode |-> "open"] :
          fs \in {"tmp", "jailproc"}}
  \cup {[fs |-> "rundir", path |-> << >>, owner |-> "user", mode |-> "private"],
        [fs |-> "passwd", path |-> << >>, owner |-> "root", mode |-> "shared"],
        [fs |-> "run", path |-> << >>, owner |-> "root", mode |-> "shared"],
        [fs |-> "run", path |-> <<"u">>, owner |-> "root", mode |-> "shared"],
        [fs |-> "run", path |-> <<"u", "default.home">>, owner |-> "root", mode |-> "shared"],
        [fs |-> "disk", path |-> << >>, owner |-> "user", mode |-> "shared"]}

OldMounts == << At(kRunRoot, Mount("run", << >>)), At(Disk, Mount("disk", << >>)) >>

OneCreds == {<< [uid |-> 1, gid |-> 1], [uid |-> 3, gid |-> 3] >>}
NoUntrusted == {<< [uid |-> 1, gid |-> 1], [uid |-> 1, gid |-> 1] >>}
\* Every pair of user ids and of group ids; the user may be root, but not the
\* untrusted account.
AllCreds ==
  {<< [uid |-> u, gid |-> g], [uid |-> v, gid |-> h] >> :
     << u, v, g, h >> \in {<< u, v, g, h >> \in Ids \X Ids \X Ids \X Ids :
       v # 0 /\ u # v /\ << g, h >> \in {<< u, v >>, << v, u >>, << v, v >>}}}

World(mode, grants, jai, storage) ==
  [mode_ |-> mode, launch |-> "setuid", creds |-> OneCreds,
   dirs |-> Machine("shared"), mounts |-> OldMounts,
   homepath_ |-> HomePath, homejaipath_ |-> jai, storagedir_ |-> storage,
   cwd_ |-> Proj, grant_cwd_ |-> FALSE, grant_directories_ |-> grants,
   mask_files_ |-> {}]

Modes == {kCasual, kBare, kStrict}

\* What is granted: next to the secrets, above them, inside them; one inside
\* the other; on another file system; missing in the jail, or outside; under
\* the jail's own /proc; and
\* what the user does not own, or cannot get at.
Grants ==
  {{}, {Proj, Sub}, {Data}, {Data, Disk}, {HomePath}, {HomePath, Proj}, {xdgrun},
   {InTmp}, {Pid}, {Theirs}, {<<"tmp", "root", "u">>}, {HomeJai}, {Store},
   {HomePath \o <<"missing">>}}
Layouts == {<< HomeJai, HomeJai >>, << HomeJai, Store >>, << HomeJai, HomePath >>,
            << HomeJai, HomeJai \o <<"store">> >>}

GrantWorlds ==
  {World(mode, grants, layout[1], layout[2]) :
     mode \in Modes, grants \in Grants, layout \in Layouts}
CwdWorlds ==
  {[World(mode, grants, HomeJai, HomeJai) EXCEPT
      !.cwd_ = cwd, !.grant_cwd_ = grant, !.dirs = Machine("private")] :
     mode \in Modes, grants \in {{}, {Sub}, {HomePath}}, grant \in BOOLEAN,
     cwd \in {Proj, HomePath, Data, HomeJai}}
IdWorlds ==
  {[World(kStrict, {}, HomeJai, HomeJai) EXCEPT !.creds = AllCreds]}
  \cup {[World(mode, {Proj}, HomeJai, HomeJai) EXCEPT !.launch = "sudo"] : mode \in Modes}
  \cup {[World(mode, {Proj}, HomeJai, HomeJai) EXCEPT !.creds = NoUntrusted] : mode \in Modes}
MaskWorlds ==
  {[World(kCasual, grants, HomeJai, HomeJai) EXCEPT
      !.mask_files_ = {<<"proj">>, <<"other">>}] : grants \in {{}, {Proj}}}
\* The overlay of an earlier run.
OverlayWorlds ==
  {[World(kCasual, grants, HomeJai, HomeJai) EXCEPT
      !.dirs = @ \cup {[x EXCEPT !.fs = "overlay", !.path = Rest(@, HomePath)] :
                         x \in {y \in @ : Under(y, "host", HomePath)}},
      !.mounts = Append(@, At(RunHome, Mount("overlay", << >>)))] :
     grants \in {{}, {Proj}}}

FileNames ==
  {"run", "jai", "u", "user", "proc", "tmp", "var", "etc", "passwd", "default.home",
   "default.changes", "home", ".jai", "proj", "sub", "srv", "data", "disk", "theirs",
   "x", "store", "1", "root", "missing", "other"}
FileSystems ==
  {"none", "host", "overlay", "tmp", "passwd", "rundir", "jailproc", "run", "disk"}

AllWorlds == GrantWorlds \cup CwdWorlds \cup IdWorlds \cup MaskWorlds \cup OverlayWorlds
=============================================================================
