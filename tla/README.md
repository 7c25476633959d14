# A TLA+ model of jai

jai runs a program in a jail: with a home directory of its own (an overlay of
the real one, or an empty one), a private `/tmp`, a PID namespace and only the
directories that the user grants.  It is a setuid-root program without a
daemon.  Everything that several jails share is kept in the file system: the
tmpfs on `/run/jai`, the user's directory in it with its lock file, and the
mounts on that directory's entries.  What coordination there is, is done with
`flock`, `linkat`, `unlinkat` and `move_mount` by processes that may be killed
at any point.

This directory holds the TLA+ modules, their TLC configurations and the TLAPS
proofs.  `tlc -config X.cfg M` checks a configuration, `tlapm M.tla` a proof
module; `PROJECT.json` says which configuration belongs to which module, and
which lines of the source each definition stands for.

## The parts of the system

| Part | State | Operations | What is hard | What makes it correct |
|---|---|---|---|---|
| Lock files (`fs.cc`, `fs.h`) | the inode a name refers to, open descriptors, flocks | `open_lockfile`, `lock_or_validate`, its `Defer` | the file is unlinked and made anew all the time; holders are killed | at most one holder; a waiter does not wait forever |
| Run root (`Config::run_jai`) | the mounts on `/run/jai`, the mode of the tmpfs | look, lock, take down, mount, open, make private, `fchmod` | a process killed half way | one root, finished, in place for as long as somebody uses it |
| User directory (`run_jai_user`, `make_private_tmp`, `make_home_overlay`, `unmountall`) | the entries, what is mounted on them, who keeps a mount busy | start a jail; `jai -u` | start races with tear-down; the directory is removed under a process | one overlay per changes directory; a jail's mounts stay |
| Job control (`exec`, `parent_loop`, `pid1`, `pid2`) | three processes, the stop pipe, pending signals | stop, continue, end, kill | a signal between any two steps | status and stop signal reach the shell; no orphaned jail |
| Id maps (`make_id_map`, `make_idmap_ns`) | the maps of a new user namespace | write one after the other | boundaries of the id ranges | the map its comment describes, accepted by the kernel |
| Configuration (`do_main`, `opt_parser`, `parse_config_*`, `storage`, `make_env`) | the fields of `Config`, the files being parsed | parse the command line, a file, the `.jail` file | three passes over the command line; includes; a cached directory | precedence; no include loop; the `.jail` file belongs to the jail |
| Mount namespace (`make_mnt_ns`, `blockdir`, `fix_proc`) | the mounts of the old and the new namespace, the detached trees it holds | clone, unshare, detach, move, grant, block | the order of mounts; which namespace and which ids a path is opened in; an exception anywhere | the program sees what was granted, nothing of jai's storage, and no mount outside changes |
| Privileges (`asuser`, `make_effective`, `make_real`) | three user ids, three group ids, the groups; the live Defers | lower, restore, give up | a failure between two calls; exceptions through nested Defers | never one account's user id with another's groups; root again afterwards |
| Directories and files (`ensure_dir`, `ensure_file`, `make_private_passwd`) | path components; a file, its temporary names and what has reached the disk | make or open | other processes and the user change things meanwhile; kills and power loss | no half-written file has a name; the race is harmless; the walk ends |
| Option parser (`scan_arg`, `scan_args`, `parse_argspan`, `parse_file`, `var_expand`) | the position in the text, the option being read | scan words, read a file | escapes, continued lines, `\r`, the end of the text | options are acted on as they were written |
| Completion (`complete_args`, `Config::complete`) | none | complete the last word | it repeats the parser's rules for one word | it agrees with the parser |
| Messages, wrappers | none | print, throw | – | only the unwinding of exceptions is modelled |

The parts meet as follows.  `do_main` computes the configuration, with the
option parser on the command line and on files that `ensure_file` makes, then
`make_mnt_ns` calls `make_private_tmp` and `make_home_overlay`, both through
`run_jai_user` and `run_jai`; all three set things up under
`lock_or_validate`.  `make_mnt_ns` goes back and forth between two mount
namespaces and, through `asuser`, between root and the user, and makes
directories with `ensure_dir` as one or the other.  `exec` then forks the jail's PID 1, which forks the
program.  `jai -u` ends in `unmountall`, which takes the same lock file by
calling `open_lockfile` directly.

## The modules

`LockFile` is the protocol on one lock file.  `RunRoot` and `UserRun` extend
it and compose its actions with theirs, so that one action is still one system
call on shared state.

* **`LockFile`** — `open_lockfile` from `openat` to its return, `WaitInterrupted`
  for an `EINTR`, and the release.  `path` is the inode that the name refers to,
  `fd[p]` the inode of the descriptor p has open, `ex` and `sh` the flocks on
  each inode.  `LinkWins` and `LinkLoses` are the two outcomes of `linkat`,
  `CheckSame` and `CheckMoved` those of `is_fd_at_path`.  An inode is used again
  once it has neither a name nor a descriptor.  `Die` is what the kernel does to
  a process's descriptor.
* **`SetupOnce`** — what `lock_or_validate` promises, without any lock: somebody
  publishes, everybody obtains what was published.
* **`RunRoot`** — `Config::run_jai`, once per process.  `top` and `under` are the
  tmpfs instances mounted on `/run/jai`; an instance is named by its maker.
  `opened` are those with mode 0755, which is the commit record.  `Fail` is any
  error in the setup, `Crash` a SIGKILL anywhere.  The code does not look at the
  results of `recursive_umount` and `fchmod` (jai.cc:220 and 227); root is taken to
  succeed with both on what it mounted itself.
* **`UserRun`** — the runners (a jail that starts) and the unmounters (`jai -u`)
  on one user's directory and one jail name.  `mnt[r]` is the stack of mounts on
  an entry, `hold` what descriptors and jails keep busy, `gone` the processes
  whose directory has been removed, `dead` the runners whose target was removed
  before the move.  `unmountall` is modelled to the end: the retry loop, the
  mount table that `recursive_umount` reads once, each `umount2`, each entry of
  the readdir loop in any order, the cleaning, the unlink, and the final rmdir.
* **`JobControl`** — J (jai), I (PID 1) and C (the program), with the signal rules
  they rely on: SIGCONT and stop signals cancel each other, a SIGSTOP sent by
  another process takes effect later, an orphaned process group ignores SIGTSTP,
  a blocked SIGCHLD stays pending, PID 1 does not notice a signal it raises
  itself.  `orphaned` and `same` are the topologies of process groups.  PID 1 may
  give up before there is a program (`StartFails`: `xsetns`, `fix_proc`).
* **`IdMap`** — `make_id_map` as a set of extents, the kernel's reading of a map
  (`Lookup`) and its conditions (`Accepted`), and `make_idmap_ns`, whose actions
  `MntNs` uses as they are.
* **`Privileges`** — `make_effective` and `make_real` as the outcomes they can have,
  one for each call that can fail; `asuser`, which arms a Defer; and `Restore`,
  which runs the innermost one.  `ids` are the three user and group ids and the
  groups, named by the account whose groups they are.
* **`MntNs`** — `do_main` from the launch, `make_mnt_ns` and the child in `exec`,
  `fix_proc` and `pid2`; it extends `IdMap` and `Privileges`.  One action is a group
  of calls that run with the same ids in the same namespace, so that each call of
  `asuser`, each `reset` and each `xsetns` is an action of its own, and `Throw` can
  happen between any two.  A path is a sequence of names; `ns` holds the mounts of
  both namespaces, the later ones on top; a mount that is taken off keeps its place
  in the sequence, at a path that no name leads to (`Nowhere`); `Resolve` is path
  lookup, `dirs` the directories of all file systems with their owners and
  permissions.  `Unwind` and
  `UnwindNs` run the Defers of an exception, innermost first; an exception in a
  destructor ends the process (`terminated`).
* **`Files`** — `ensure_file` and `make_private_passwd`, one system call at a time.
  `len` is what has been written to an inode and `synced` what of it has reached
  the disk; `PowerFails` takes any unsynced content back.
* **`EnsureDir`** — `ensure_dir` on one path, component by component, by several
  processes, with and without following links, and for callers that mind whose the
  directory is and callers that do not (`okay_if_other_owner`).  `entry[i]` is what
  the next component's name refers to in directory i.  The group, which root sets to
  0, is left out.
* **`Options`**, **`ParseFile`** — the option parser and the completion on characters.
  `scan_args` is a fold over words, as the loop is; `parse_argspan` is a state
  machine, since an action may refuse its argument in the middle; `parse_file`
  has one action per branch of its loops.  `Written` is the reference: how an
  author who knows the escapes writes a given argument down.  A search that finds
  nothing returns `npos`, as in the code, and each `clamp` and `substr` is where the code has
  it: the position is behind the end of the text, or `npos`, when the loops end and
  when an exception is thrown.
* **`Config`** — `do_main` up to `make_mnt_ns`.  A line is a record; a file is a
  sequence of lines; `stack` holds the calls of `parse_file`, with the flag that
  each one's `Defer` will restore.  `Effect` is the list of options in
  `opt_parser`.  The command line is a frame like a file, entered three times.
  `Join` is what `operator/` of `std::filesystem` does, including to an empty
  name; paths have no symbolic links, so that the canonical form of a path is
  the path.
* **`LockFileProofs`**, and on top of it **`RunRootProofs`** and **`UserRunProofs`**;
  **`JobControlProofs`**, **`ConfigProofs`**, **`ParseFileProofs`**, **`FilesProofs`** (about
  `Files` and `EnsureDir`) and **`MntNsProofs`** (about `IdMap`, `Privileges` and `MntNs`) —
  the theorems.
* **`MCRunRoot`**, **`MCUserRun`**, **`MCConfig`**, **`MCMntNs`**, **`MCOptions`**,
  **`MCLibrary`** — symmetry sets, machines, texts and command lines.  `MCLibrary` puts
  the functions of `fs.cc` and `options.cc`, which have nothing to do with each other, side
  by side in one run; a variable `call` says which of them a behaviour is about.

Definitions whose names have a suffix (`CheckSame_NoTest`, `Umount_Lazy`, ...)
are plausible mistakes.  No specification uses them; each one put in the place
of the definition it is named after makes a property fail, which shows that the
property depends on that code.

## The runs

### Setup and tear-down

| Run | Instance | Shows |
|---|---|---|
| `RunRoot` | 3 processes, 3 inodes, 1 kill | `MutualExclusion`, `RootInUse`, `NoMountUnder`, `UnlinksOwn`, `TypeOK`; `SetupOnceSpec` (refinement), `RunJaiReturns` |
| `UserRunSafety` | 2 runners, 1 unmounter, 4 inodes, 1 kill | `OneOverlay`, `HeldStaysMounted`, `RunsOnMounts`, `UnmountComplete` |
| `UserRunLive` | 1 runner, 1 unmounter, 1 kill | `EveryoneReturns`: a runner and an unmounter come to an end |
| `UserRunExclusive` | 2 runners, 1 unmounter | **fails**: `MutualExclusion` |

Every process has at most one descriptor on a lock file, and at most one inode
has the name, so that one inode more than processes is as good as any number; in
`RunRoot`, with as many inodes as processes, a process that finds none free
waits for one.  Three processes are a holder, one that has the old file open and one that makes
a new file, which is what it takes to get two holders past a missing check.
One kill leaves a stale lock file or a half-built root; a second one can hit
the process that is cleaning up after the first.  Symmetry is used in `UserRunSafety`
only, which has no liveness.

The lock is exclusive among processes that start jails (`OneOverlay` says so as
long as no unmounter has begun, `NoTeardown`), and not as soon as `jai -u` runs.  The readdir loop of `unmountall` removes every
entry of the directory, its own lock file too; after that another process makes
a new lock file and has the lock at the same time.  When `unmountall` comes to
`unlinkat(..., ".lock")` it removes that process's file, and a third one gets
in.  `UserRunExclusive` shows two holders.  What follows from it can be seen by
checking more properties with an unmounter: the work directory of an overlay is
cleaned (jai.cc:647) while the overlay is in use, and with two runners
there are two overlays over one changes directory,
and with two unmounters a jail that runs on the bare directory under a mount
that the second one took down, and a tear-down that reports success while a mount
that somebody has made under another lock file is there.  `RunsOnMounts` and
`UnmountComplete` therefore say that at most one process tears down (`OneTeardown`).
What holds in any case is `HeldStaysMounted`: the descriptors in `mp_holder_` and the
running jail make `umount2` fail with EBUSY, so a jail's own mounts stay.

**Fairness.**  `FairSpec` says that a process which is not killed and whose next
system call does not block takes it some time: the scheduler's promise.  A
running jail need not end, `Crash`, `Fail` and an interrupted wait need not
happen.  When a holder
is killed before it has unlinked the lock file, two waiters can keep each other
out: one holds LOCK_SH for the moment between the wait and the close, just as
the other tries LOCK_EX|LOCK_NB, fails, and waits with LOCK_SH in turn.  TLC
finds this cycle with three processes under the same fairness; it is unlikely in
practice and nothing in the code excludes it.  `RunJaiReturns` therefore says that
a call returns unless, from some point on, it and others keep contending for a
lock file that nobody owns (`Contended`); `UserRunLive` has one process of each
kind, with which it cannot happen.

### Job control

| Run | Instance | Shows |
|---|---|---|
| `JobControl` | up to 3 stops | `ExitStatusKept`, `JaiEnds`, `NoJailWithoutJai`, `FirstStopFollows` |
| `JobControlTerm` | no stop | **fails**: `TermSignalKept` |
| `JobControlTstp` | 2 stops | **fails**: `StopSignalKept` |

All four topologies are initial states.  Two stops are enough to come back to
the state after a first one with the signalfd left readable; three are checked.
`JaiEnds` also covers a PID 1 that could not start the program.
Fairness is on J's and I's steps (processes that run unless they are stopped,
in which case no step of theirs is enabled) and on the delivery of a SIGSTOP.
The program, the terminal and the shell may do nothing.

The failing runs are disagreements between what the code or a test says and
what the code does.
A program that dies on a signal makes PID 1 raise that signal, which the kernel
ignores, and `_exit(-1)`: jai exits with 255.  After the first SIGCHLD, `poll`
returns at once for ever, because nobody reads the signalfd; from then on
`drain_pipe` is called again before PID 1 has stopped, and the stop signal that
the program used is forgotten, so that the shell sees SIGSTOP where the test
`job-control-sigtstp-preserve.sh` (which stops once) wants SIGTSTP.
`FirstStopFollows` is restricted to the first stop for a reason: without the
conjunct `stops = 1` it fails, because the SIGCONT handler (jai.cc:847) discards
the request of a program that stops as soon as it is continued, and jai goes on
while the program is stopped.

### The mount namespace, ids and id maps

`MntNs` starts in 298 worlds (`AllWorlds` in `MCMntNs`): the three modes, 14 sets of
granted directories (none, one inside another, one above jai's storage, one on
another file system, the home directory, `/run/user/u`, one in `/tmp`, one in `/proc`,
one the user does not own, one he cannot reach, one that is missing) times four places for the
configuration and the storage directory; the current directory granted or not; a
private and a readable home; masks; an overlay that is mounted already; started by
sudo; without an untrusted account; and, in strict mode, every pair of user ids and
of group ids among 0..4.  In each, any call may fail.

| Property | Says |
|---|---|
| `IdsBelongTogether` | the effective user is root, or group and groups are that user's; the program has one account's ids in all places |
| `EverythingRestored` | after `make_mnt_ns`, old namespace and first ids; after an exception, old namespace and root |
| `OldNamespaceKept` | no step after `unshare` changes a mount outside |
| `GrantsAsGiven` | each grant is where it was, writable, uncovered, unless it is below `/proc`; and was the user's to give |
| `SecretsHidden` | no path in the jail leads to jai's configuration or storage |
| `JailInPlace` | every mount is nosuid and read-only but the jail's own and the grants; `/proc`, `/tmp`, `/var/tmp`, `/run/user` and home are the jail's, and nothing of jai's is on `/run/jai` |
| `MadeForTheUser` | what jai makes in the user's storage is the user's |
| `MapsAsIntended` | the id maps are those of the comment in `cred.cc` |

The worlds have no bind mounts and no symbolic links, and the storage directory in
use is `storagedir_`.  `mkdir` on a read-only mount is refused whoever calls it,
and through an id map the user, for whom nobody stands in there, can make nothing.
A directory that was granted below `/proc` is gone in the jail, since `fix_proc` detaches
what is on `/proc` and puts a new one there.  `seteuid(0)`, whose result the code does not look at, is
taken to succeed when it is permitted.  `max_mapped` 4 has ids that are equal,
adjacent, at zero, at the top, and apart with a gap on either side; the proofs
cover every value.

### The library functions: files and directories

The run `Library` checks `Files` with two processes, five inodes, two units of content, one
kill or loss of power and one edit by the user; and `EnsureDir` with two processes,
two components, four directories and two changes by the user.  Two units are a
file that is half written.  Two processes that are alive and share a home directory
have different process ids; one that is killed may be started again with the same
id.  Four directories are two that processes make and two of the user's.

`NamedFilesWhole` is about every instant, also after a power loss, and `NoLitter` about
every way a call can end: changes of names
are taken to be on disk at once, content only after `fsync`.  `RaceHarmless` and
`WalkRaceHarmless` say that processes alone never make each other's calls fail,
`PasswdKept` that none takes away the passwd file of another, and `ReturnsOwnDir`
that a call of `ensure_dir` never returns a directory that is not its caller's,
unless the caller does not mind, or that lets in more than it asked for.
`WalksEnd` is liveness: under fairness of each process, a call of `ensure_dir` ends,
whatever the user has put in the way (a dangling link makes `openat` say ENOENT
and `mkdirat` EEXIST, and `fstatat` ends the loop).  What the user writes between
the first `openat` of `ensure_file` and its `renameat` is replaced.

### The library functions: options

The run `Library` also checks `parse_file` on 1,500 options written in all layouts (separators,
continuation, trailing blanks, line endings) with every argument of two tokens, and
on two entries of all kinds; `parse_argv` on two options in every spelling and what
follows them; and `complete_args` on every last word of three characters after up
to two others.  Two tokens are a character and what may change its meaning; two
entries are a mistake and what comes before it.  One of the entries is a line without a
name, which begins with `=`.  Files end with a newline, with a carriage return before
it, or with no newline at all, so that each search of `parse_file` also finds nothing; `npos` is
any number that is larger than a text may be long (`DocsAssumption`).  Of the three calls of
`clamp` in `options.cc`, the one in line 70 is what `ReadsAsMeant` depends on: without
it, the error in a last line that has no newline would be counted in what lies behind
the text.  Those in lines 20 and 56 change nothing that can be seen, since `substr` and the
loop's condition stop at the end of the text as well.

| Property | Says |
|---|---|
| `ReadsAsMeant` | `parse_file` acts on the options that the author wrote, in order, up to the first mistake, whose line the error names, and `var_expand` on the references |
| `ArgsAsMeant` | `parse_argspan` does so for the command line, and leaves the positional arguments |
| `ParseProgresses` | every step of `parse_file` goes forward in the text or comes nearer to doing so: no endless loop |
| `CompletionAgrees` | completion and parser agree |

An author may also go by the manual page, which says that a backslash quotes a `$` or
a `\` (jai.1.md:171).  `OptionsQuoted`, with `QuotedByOne`, **fails**: `parse_file` takes that backslash
away itself (options.cc:36), and `var_expand` sees a plain `$`, or a backslash that quotes what comes after it.  In a
file the quoting has to be done for both, `\\$` for a dollar sign and four backslashes
for one, which is what `Token` writes in the other files.

`CompletionAgrees` has three parts.
`PositionalAgrees`, `CompletionsParse` and `NothingHidden` compare two pieces of code
that have to agree, the parser and the completion: the same word is where the
jailed command begins, no completion makes the line wrong, and nothing is withheld
that could become right.

### Configuration

| Run | Shows |
|---|---|
| `Config` | `CliWins`, `LoopCheck`, `FlagTellsConfig`, `JailOfRun`, `RecordsCliMode` |
| `ConfigSetenv` | **fails**: `SetenvWins` |

The instances are two suites of texts, one about files, inclusions and what files
and the command line both set, the other about the environment: up to two lines
in `default.conf`, a file `x` that may include another or the one that includes
it, a `.jail` file in one of two directories for one of two names, or none, and
up to two options on the command line.  Two lines are enough for an option and
the one that reverses it, and for a file that is included twice; two files are
enough for a loop through another file.  There is no fairness here: parsing is
sequential.

What is in force (`InForce`, in `CliWins`) is said of the last mode, jail, command and
storage of the command line, of every `nocwd`, of the last of `dir` and `xdir` and of `mask`
and `unmask` for a path, of the last assignment to a variable that no later option
mentions, and of what is unset and not set again; `setenv` without a value is left to
`ConfigSetenv`.  A line is refused if it has an unknown mode, a bad jail name,
an absolute path to mask, a variable with a space in its name, or is `jail` in a `.jail`
file; and `canonical` throws for a directory that does not exist (`CanonicalThrows`).
The check of the command's name, the fallback from a missing `.conf` file of its name
and names of configuration files with a slash (jai.cc:44 and 1218) are left out.

`ConfigSetenv` shows that `--setenv` on the command line, which the manual page
says overrides everything, can lose against a `.jail` file: with a pattern from
the `.conf` file in the filter, `--setenv=VAR` sets the variable in the second
pass, the `.jail` file's `unsetenv VAR` takes it away, and the third pass finds
VAR in the filter and only removes it there.

Other places where the model does what the code does and a document says
something else, seen in the same way but without a run of their own:

* `${VAR}` in a file sees earlier `setenv` lines (jai.h:162); the comment in
  `.defaults` (default_conf.cc:133) says it does not.
* `storage=` in a file selects the home directory (jai.cc:1100) and not the
  default storage location (jai.1.md:139).
* `jail default` in a `.conf` file still gives a casual jail (jai.cc:1230);
  default_conf.cc:50 says strict.
* `storage` in a `.jail` file changes the directory that is blocked in the jail
  but not the one that is used, which is cached (jai.cc:186; jai.1.md:482).
* `jai -u` does not know of a `storage` line in `default.conf` (jai.cc:1211;
  jai.1.md:502).
* Directly after a `--`, `complete_args` completes options (options.cc:178-191)
  where options.h:202 promises the position after it; `PositionalAgrees` leaves this
  case out.
* An argument that ends in an escaped blank loses it when plain blanks follow
  (options.cc:63-65); `Writable` leaves it out.
* `opt = value` keeps the blank after the `=` (options.cc:28-41).

## What is proved

TLAPS checks the following for every value of the constants.

**The lock and the run root** (`LockFileProofs`, `RunRootProofs`).  `MutualExclusion` is not
inductive: a process about to become a holder must already have a lock that
nobody else can have.  `LockInv` adds two facts.  `LockedLabels` says which
labels own a descriptor and an exclusive flock.  `HolderOwnsName` says that a
holder's flock is on the inode that the name refers to; two holders therefore
have it on one inode.  It is preserved because the name only changes when it is
free (`LinkWins`) or by its holder (`Unlink`), and an inode that has a name or a
descriptor is not used again.  `LockExclusive` is the result, for `LockSpec`, in
which any process that follows the protocol may be killed at any point.
`RunRootUnlinksOwn` is about the release in `run_jai`: the Defer of `lock_or_validate` unlinks
by name, and the name is always that of the file its process has locked, so that no step
takes away another process's lock file (`UnlinksOwn`).  It follows from `HolderOwnsName`
through the steps of `run_jai`.

`RootInUse` needs to know what a process in its setup has done so far and what
the others cannot have done meanwhile.  `RootInv` adds that a process in its
setup has the lock (`SetupHasLock`), that there is no finished root while it is
(`SetupNotValid`), what it has mounted and opened at each label
(`SetupProgress`), and that a process which has not yet mounted has no tmpfs
anywhere (`NotYetMounted`).  The step that matters is `Chmod`, which publishes:
its root is on top and private by `SetupProgress`, and nobody has been given
another one, since that one would be finished and on top.  `RootInvariant` is
the inductive invariant; `RootTypeCorrect`, `RootStaysInUse`, `NothingUnder`,
`OneSetup` follow, and `RunRootRefines` shows that every step is a step of
`SetupOnce` or changes nothing there.  The assumptions are `NoneAssumption` (no
process and no inode is the value `None`) and `MaxDeadAssumption`.

**The user's directory** (`UserRunProofs`).  What a jail starts on is right because
whoever mounts or unmounts has the lock (`SetupHasLock`) and nobody else has it
(`LockGood`).  The second is true only until an unmounter comes to its readdir loop,
which unlinks the lock file; `Unbroken` says that none has.  When there is one
unmounter (`OneTeardown`) this is enough for `AlwaysOnMounts` and `AlwaysComplete`: while it
still unmounts, nothing is broken, so that no jail is in its setup (`AloneWithUmount`);
and once the lock is broken, nobody unmounts any more.  `PinsInTime` says what a runner
has pinned at each place on the way to its jail, and `NoMoreThanCounted` that while
the unmounter is at work no mount is added to those it counted when it read the
mount table, of which each `umount2` that succeeds takes one away.  `AlwaysHeld` is
inductive without the lock and without `OneTeardown`.  `AlwaysOneOverlay` is about the
processes that start jails alone, with `OverlayOnce` for what lies between the check
that nothing is mounted and the mount.  `UserInv` is the conjunction, and
`UserInvariant` holds for any number of jails, unmounters, inodes and kills
(`ProcsAssumption`: an unmounter is not a runner).

**Job control** (`JobControlProofs`).  `EndsPassedOn` says in which order the three
processes end, unless jai is killed, and with whose status: PID 1 after the
program, jai after PID 1.  `DeathSignalAsked` says that PID 1 has asked for its death
signal when it forks, so that a jai which is killed after that takes PID 1, and PID 1
the program, along: `NeverWithoutJai`.  It is the safety half of `NoJailWithoutJai`; that
a PID 1 which has not forked yet comes to an end as well stays with TLC.  `StatusKept`
is `ExitStatusKept`.  They hold for any number of stops.

**Id maps** (`MntNsProofs`).  `MakeIdMapCorrect` and `MakeIdMapAccepted` hold for
every natural `max_mapped`, by cases on the order of the two ids and on the
extent that contains an id.  In the code `max_mapped` is 2^32 - 2, and
`MakeIdMapAccepted` also says that no sum in the code goes beyond 2^32 - 1, so
that its 32-bit additions do not wrap.  `NamespaceMapsAsIntended` and
`NamespaceMapsAccepted` carry both over to `make_idmap_ns`.

**Files** (`FilesProofs`).  The files that have a name are whole because a process
writes where nobody else can.  `FilesInv` says that (`MakesOwnFile`: the inode that a
process still makes is open in no other process and is neither `file` nor `passwd`),
how much of it has been written and has reached the disk at each place
(`WholeInTime`), and what it takes to get where a call fails (`Excused`: an edit by
the user, a kill).  A power loss only touches what is not synced, which no name but a
temporary one refers to; for `passwd`, on a tmpfs, it is the end of the file itself.
`NamesWholeFiles`, `FileRaceHarmless`, `LeavesNoLitter` and
`PasswdStays` follow for any number of processes, inodes, kills, edits and units of
content (`FilesAssumption`: `None` is no inode, at least one unit).

**`ensure_dir`** (`FilesProofs`).  The argument for `WalksDoNotInterfere` is
`OnePath`: as long as the user changes nothing there is one path from the top, which
`mkdirat` makes longer at its end and nobody changes elsewhere, and a process that
has opened k components is at its k-th directory.  `mkdirat` by one process is
therefore EEXIST for another and the same directory for its next `openat`.
`OnlyMade` keeps the end of the path free of loops: a directory that has not been
made is in no entry and has none.  `OwnDirReturned` says of every caller, however
the user meddles, that the last component has been checked.  Both hold for paths of
any length and any number of processes (`EnsureDirAssumption`: the directories are
not the four values that stand for something else).

**Ids and Defers** (`MntNsProofs`).  `IdsBelongTogether` needs to know which Defer is
live when an exception comes, and what that one puts back.  `PrivInv` says for each
place in `do_main`, `make_mnt_ns` and the child which Defers are live, outermost first,
and which ids are in effect: root's own as at the launch, one account's inside an
`asuser`, the program's after `make_real`.  Under `unwind` it says that what is
left of the Defers ends as root in the old namespace.  Each action of `MntNs` goes from
one such place to another, or unwinds; `MakeEffective` and `MakeRealStep` are lemmas about
what the three calls leave behind at each failure, the failed ones included.
`OneAccountAtATime` and `ScopesRestore` follow for all accounts, paths, mounts,
grants and directories, and whichever call fails.  They need no assumption of
their own.

**The old namespace** (`MntNsProofs`).  `OldNamespaceKept` is about steps that come
before and after `unshare`, in either namespace.  `NsInv` says that there is one
namespace, with the process in it, as long as mounts are made for the jail's parts;
that the two are peers between `unshare` and the remount only; and that
wherever a mount is made or taken away after that, the process is in the new one.
`OutsideIsLeftAlone` follows for all worlds.  A remount that leaves the mounts
shared makes the proof fail, as it makes the run fail.

**The mounts of the jail** (`MntNsProofs`).  `GrantsAsGiven` is about the end of
`make_mnt_ns`, and a grant is opened, cloned, moved and then left to the mounts that come
after it.  `JailInv` follows it there.  `TreesConfined` says which attributes the mounts
have that `make_mnt_ns` holds and those it has made, and `GrantsInTime` what the loop over
`grant_directories_` has found out about an element and done for it: what is left
to do does not lie above what is done (`NoneAbove`, which is why the order of `PathLess`
matters); `tree.src` shows what `d` shows outside, and the user can get there himself
(`TheUsersOwn`, for which `ActsAs` says as whom and in which namespace `d` is opened);
a mount that is done is at its path, writable, with no later one at or above it
(`InPlace`).  `blockdir` covers nothing of this, because a grant above which the storage
or the configuration directory lies has been refused (`Allowed`), and `fix_proc` only what
is below `/proc`.  A directory that is made for a mount point is one that did not exist,
so that it changes nothing about what the user can find outside (`OwnKept`).
`AlwaysAsGiven`, `AlwaysTheUsers` (`MadeForTheUser`) and `AlwaysConfined` (the part of
`JailInPlace` that is about attributes) follow from `JailInvariant` for all worlds, accounts
and failures.  The assumptions are that the directories, grants and masks of a world are
paths and its mounts are mounts (`WorldsAssumption`), and that the names and file systems
of the code are some (`NameAssumption`).  The lemmas below it are about sequences of mounts: `Shown`
and `MountOfIs` say which mount shows a path, `AppendOK` and `TakeOffOK` what a mount and a
umount leave as it was.

**The jail's own directories** (`MntNsProofs`).  That `/proc`, `/tmp`, `/var/tmp`,
`/run/user`, home and `/run/jai` are the jail's (`JailInPlace`) is not true in every world:
`blockdir` covers the jail's home directory when the storage directory is the home
directory, a granted `/` covers everything, and a second mount on `/run/jai` comes to light
when the first is detached.  `PlacesApart` names what such worlds have in common, and
`AlwaysInPlace` proves `JailInPlace` in all others; of the 298 worlds of the run, which
checks `JailInPlace` in each, 256 are such.  It does not exclude grants below those places, or
grants of the places themselves, or mounts of any kind outside.  `PlacesInv` is the invariant: the
detached mounts show what they were made for (`TreesHeld`); from the `xmnt_move` of each
on, no mount at or above its path comes after it (`PlacesTaken`, `OnTop`), which is why
`/run/user` has to be placed after home and `fix_proc` last; and of the mounts at or above
`/run/jai` only those are left that jai found there, under its own (`RunRootInv`).
`OnTopAfter` is the lemma that the steps share.

**What blockdir hides** (`MntNsProofs`).  `SecretsHidden` is about every path of the jail, and
a directory of jai's may be reached through the host's root, through a granted directory
above it, and through the overlay.  `SecretsInv` is the inductive invariant; TLC has found
it to hold in the worlds of the run, for the paths `Names`.  `HostMounts` says which mounts show the
host at all: once `/run/jai` is detached, each is the root or a grant at its own path, the
jail's own home directory, the overlay on home, or an empty directory that `blockdir` put
there (`InOwnPlace`, `Empty`).  Through a mount of the first kinds a path outside the two
directories shows nothing of them (`OwnPlaceShows`), so that only paths in them remain.
`BlockedInTime` says of each of the two that `blockdir` is still to come to it (`Pending`) or
that no path in it can be read and leads to them (`Closed`): because it is
covered; or because the program could not open it, and then nothing below it either, as
every path below goes through it (`asuser` makes jai the program's account when it tries,
so that what is refused to jai at `open_block` is refused to the program).  A later
`blockdir` or `fix_proc` keeps what is closed closed, also where one of the
directories lies in the other.  `AlwaysHidden` follows for all worlds with `SecretsOnHost`: no
mount of the machine shows the host's root a second time or lies above one of the two,
the overlay of another run is under `/run/jai`, neither directory is above `/run/jai`, and
nothing below `/run/jai` is granted.  The code does not look for any of these: `blockdir`
covers one path, and a bind mount of the storage elsewhere stays in sight.  All 298 worlds
of the run are such worlds.

**Configuration files** (`ConfigProofs`).  `LoopCheck` is nearly inductive; what it
lacks is that the frames are frames and that the command line's is alone when
it is entered.  `ConfigInv` adds what `saved` holds in each frame: whether the frame
below is of a file, which is what the `Defer` puts back into
`parsing_config_file_`.  `NoFileInItself` and `FlagIsRight` follow for all files, command
lines and depths of inclusion (`SuitesAssumption`: no file has the name `argv`, which
stands for the command line, and `--conf` on the command line is `-C`, not an include).

**The command line wins** (`ConfigProofs`).  Which of several lines wins looks like an
induction over files that include each other, and is none: whatever the files have done, a
pass over the command line starts with no line read, and each line that it reads extends
what is in force by one.  `CliInv` says that the first `LinesRead` lines are in force
(`InForce`) in each of the three passes; `EffectApplied` and `LineInForce` are the step, for
every option of `opt_parser`.  The clause about the environment is inductive because
only a line that matches a variable can bring it back.  The passes end where
`OpenJail` and the program need them.  After `OpenJail` the storage directory is the open
one; the jail's name cannot be set while the `.jail` file is read (`opt_parser(true)`, also
for what it includes), and the third pass may set it but ends with the name that the
second ended with.  `CliAlwaysWins`, `JailIsOfRun` and the action property
`NewJailRecordsCli` follow for all command lines, files and environments.

**`parse_file`** (`ParseFileProofs`).  `FileProgresses` is termination without fairness:
the pair of what is left of the text and `Distance` gets smaller with every step.
The lemmas say what the searches return.  A line that begins with `=` is why
`Distance` looks at the text: the name that is read there is empty, so that the
position does not move.  An option is acted on at the end of its line only
(`ProgressInv`), so that this does not happen twice at one position.  It holds for all
texts that end and are shorter than `npos` (`DocsAssumption`) and all options.

**Only model-checked**:

* All liveness properties: TLAPS does not prove liveness under fairness.
* `SecretsHidden` in worlds without `SecretsOnHost`, of which the run has none.
* `JailInPlace` in the worlds that `PlacesApart` excludes.
* `ReadsAsMeant`, `ArgsAsMeant` and `CompletionAgrees`: they compare a whole text with what a
  recursive function or a fold makes of it, which takes an induction that the installed
  provers cannot do.

## Not modelled, and the plan

* ACLs (`set_fd_acl`), the lines that `putpwent` writes, terminal attributes, the
  help text, `option_convert`'s numbers, messages: data that no property here is
  about, or library calls.
* `complete_path`, `complete_config` and `complete_env`, which list what there is;
  the model is given the list.
* `glob` and `subtree`: relations of names, which the modules that use them state
  directly.
* Several users and several jail names in `UserRun`; bind mounts and symbolic links
  outside the jail in `MntNs`, and mounts below a granted directory, which
  `clone_tree` leaves out (`AT_RECURSIVE` is not set).
* A storage directory that changes after it is opened (jai.cc:186 and 574): `Config`
  models which one is used, `MntNs` takes it to be the one that is covered.

Next would be bind mounts outside the jail in `MntNs`, so that TLC shows what `SecretsOnHost`
excludes, and several users in `UserRun`.
