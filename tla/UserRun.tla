------------------------------- MODULE UserRun -------------------------------
(***************************************************************************)
(* The user's directory under /run/jai: the jails that are started for one *)
(* user and one jail name (make_private_tmp, make_home_overlay) and the    *)
(* processes that tear everything down (unmountall, jai -u).               *)
(*                                                                         *)
(* All of them use the one lock file ".lock" in the user's directory.  The *)
(* directory is an entry of /run/jai that ends with the last rmdir and may *)
(* be made anew, while somebody still has the old one open.  A mount is    *)
(* named by the process that made it; what is mounted on an entry is a     *)
(* stack, since nothing but the lock stops two processes from mounting.    *)
(***************************************************************************)
EXTENDS LockFile, SequencesExt

CONSTANTS
  Runners,     \* the processes that start a jail
  Unmounters,  \* the processes that run jai -u
  MaxDead      \* bound: how many processes may be killed

ASSUME ProcsAssumption ==
  /\ Procs = Runners \cup Unmounters
  /\ Runners \cap Unmounters = {}
  /\ MaxDead \in Nat

Res == {"tmp", "home"}      \* the directory entries that are mounted on
Names == Res \cup {"lock"}  \* all entries of the user's directory

VARIABLES
  pc,      \* pc[p]: where p is
  linked,  \* the user's directory exists
  gone,    \* the processes whose run_jai_user_fd_ is a removed directory
  ent,     \* the entries that exist
  mnt,     \* mnt[r]: the mounts on entry r, the visible one last
  res,     \* res[p]: the entry that runner p is working on
  dead,    \* the runners whose target descriptor is a removed directory
  hold,    \* hold[p][r]: the mount that p's descriptors keep busy, or None
  err,     \* the runners that are unwinding an exception
  snap,    \* snap[u][r]: how many mounts recursive_umount has yet to umount
  ok,      \* ok[u]: unmount_ok
  todo     \* todo[u]: the names that the readdir loop has yet to visit

dirVars == << linked, gone, ent, mnt >>
runVars == << res, dead, hold, err >>
unVars  == << snap, ok, todo >>
vars == << lockVars, pc, dirVars, runVars, unVars >>

Setup == {"ensure", "create", "move", "reopen"}
Final == {"done", "failed", "killed"}
Init ==
  /\ LockInit
  /\ pc = [p \in Procs |-> "start"]
  /\ linked = FALSE
  /\ gone = {}
  /\ ent = {}
  /\ mnt = [r \in Res |-> << >>]
  /\ res = [p \in Procs |-> "tmp"]
  /\ dead = {}
  /\ hold = [p \in Procs |-> [r \in Res |-> None]]
  /\ err = {}
  /\ snap = [p \in Procs |-> [r \in Res |-> 0]]
  /\ ok = [p \in Procs |-> TRUE]
  /\ todo = [p \in Procs |-> {}]

Goto(p, from, to) ==
  /\ pc[p] = from
  /\ pc' = [pc EXCEPT ![p] = to]

Mounted(r) == mnt[r] # << >>
Top(r) == IF Mounted(r) THEN Last(mnt[r]) ELSE None
Pin(p, m) == hold' = [hold EXCEPT ![p][res[p]] = m]
NoPins(p) == hold' = [hold EXCEPT ![p] = [r \in Res |-> None]]
Busy(m) == \E p \in Procs : m \in {hold[p][r] : r \in Res}

\* The overlays that somebody can write through: visible ones, one about to be
\* moved into place, and the home directories of running jails.
LiveOverlays ==
  ToSet(mnt["home"])
    \cup {p \in Runners : pc[p] = "move" /\ res[p] = "home"}
    \cup ({hold[p]["home"] : p \in Procs} \ {None})

-----------------------------------------------------------------------------
(* Both kinds of process *)

\* run_jai_user: ensure_dir makes the directory or opens it.
OpenUserDir(p) ==
  /\ Goto(p, "start", IF p \in Runners THEN "get" ELSE "lock")
  /\ linked' = TRUE
  /\ UNCHANGED << lockVars, gone, ent, mnt, runVars, unVars >>

\* One call of open_lockfile.  In a removed directory openat and linkat find
\* nothing, but the calls on a descriptor go on.
LockCall(p) ==
  /\ LockStep(p)
  /\ p \in gone => lpc[p] \notin {"open", "tmpfile", "link"}
  /\ UNCHANGED << pc, dirVars, runVars, unVars >>

\* flock(LOCK_SH) is interrupted, which counts as the end of the wait.
LockInterrupted(p) ==
  /\ WaitInterrupted(p)
  /\ UNCHANGED << pc, dirVars, runVars, unVars >>

\* open_lockfile throws in a removed directory.
LockGone(p) ==
  /\ p \in gone
  /\ lpc[p] \in {"open", "tmpfile", "link"}
  /\ pc' = [pc EXCEPT ![p] = "failed"]
  /\ Die(p)
  /\ NoPins(p)
  /\ UNCHANGED << dirVars, res, dead, err, unVars >>

\* unlinkat(run_jai_user(), ".lock"): whatever file has that name now.
UnlinkName(p) == path' = IF p \in gone THEN path ELSE None

UnlinkLock(p) ==
  /\ Goto(p, "unlink", "close")
  /\ LGoto(p, "held", "unlinked")
  /\ UnlinkName(p)
  /\ UNCHANGED << fd, ex, sh, dirVars, runVars, unVars >>

\* SIGKILL
Crash(p) ==
  /\ pc[p] \notin {"start"} \cup Final
  /\ Cardinality({q \in Procs : pc[q] = "killed"}) < MaxDead
  /\ pc' = [pc EXCEPT ![p] = "killed"]
  /\ Die(p)
  /\ NoPins(p)
  /\ UNCHANGED << dirVars, res, dead, err, unVars >>

-----------------------------------------------------------------------------
(* make_private_tmp, then (in a casual jail) make_home_overlay *)

\* The runner has what it asked for: on to the next entry, or to the jail.
Proceed(p) ==
  \/ /\ res[p] = "tmp"
     /\ res' = [res EXCEPT ![p] = "home"]
     /\ pc' = [pc EXCEPT ![p] = "get"]
  \/ /\ pc' = [pc EXCEPT ![p] = "run"]
     /\ UNCHANGED res

Valid(p) == p \notin gone /\ Mounted(res[p])

\* lock_or_validate finds the mount; a lock it has is closed, not unlinked.
GetValid(p) ==
  /\ pc[p] = "get"
  /\ lpc[p] \in {"none", "held"}
  /\ Valid(p)
  /\ Pin(p, Top(res[p]))
  /\ IF lpc[p] = "held"
       THEN pc' = [pc EXCEPT ![p] = "close"] /\ UNCHANGED res
       ELSE Proceed(p)
  /\ UNCHANGED << lockVars, dirVars, dead, err, unVars >>

GetInvalid(p) ==
  /\ pc[p] = "get"
  /\ ~Valid(p)
  /\ Acquire(p)
  /\ UNCHANGED << pc, dirVars, runVars, unVars >>

GetLocked(p) ==
  /\ lpc[p] = "held"
  /\ ~Valid(p)
  /\ Goto(p, "get", "ensure")
  /\ UNCHANGED << lockVars, dirVars, runVars, unVars >>

\* ensure_dir and is_mountpoint on the descriptor it returned.
Ensure(p) ==
  /\ p \notin gone
  /\ ent' = ent \cup {res[p]}
  /\ IF Mounted(res[p])
       THEN /\ Goto(p, "ensure", IF res[p] = "tmp" THEN "reopen" ELSE "unlink")
            /\ Pin(p, Top(res[p]))
            /\ UNCHANGED dead
       ELSE /\ Goto(p, "ensure", "create")
            /\ dead' = dead \ {p}
            /\ UNCHANGED hold
  /\ UNCHANGED << lockVars, linked, gone, mnt, res, err, unVars >>

\* make_tmpfs, or make_mount of the overlay: live, but not yet visible.
Create(p) ==
  /\ Goto(p, "create", "move")
  /\ UNCHANGED << lockVars, dirVars, runVars, unVars >>

\* xmnt_move onto the target descriptor, on top of whatever is mounted there.
\* The descriptor of the overlay stays open until make_home_overlay returns.
Move(p) ==
  /\ p \notin dead
  /\ Goto(p, "move", "reopen")
  /\ mnt' = [mnt EXCEPT ![res[p]] = Append(@, p)]
  /\ IF res[p] = "home" THEN Pin(p, p) ELSE UNCHANGED hold
  /\ UNCHANGED << lockVars, linked, gone, ent, res, dead, err, unVars >>

\* ensure_dir("tmp/<name>") makes "tmp" again if need be; xopenat does not.
Reopen(p) ==
  /\ p \notin gone
  /\ Goto(p, "reopen", "unlink")
  /\ res[p] = "home" => "home" \in ent
  /\ ent' = ent \cup {res[p]}
  /\ Pin(p, Top(res[p]))
  /\ UNCHANGED << lockVars, linked, gone, mnt, res, dead, err, unVars >>

\* A system call of the setup fails, as it must in a removed directory.
Fail(p) ==
  /\ pc[p] \in Setup
  /\ pc' = [pc EXCEPT ![p] = "unlink"]
  /\ err' = err \cup {p}
  /\ UNCHANGED << lockVars, dirVars, res, dead, hold, unVars >>

\* A lock descriptor that is kept open while the jail runs.
CloseLock_Leaks(p) ==
  /\ pc[p] = "close"
  /\ p \notin err
  /\ Proceed(p)
  /\ UNCHANGED << lockVars, dirVars, dead, hold, err, unVars >>

CloseLock(p) ==
  /\ pc[p] = "close"
  /\ Close(p)
  /\ IF p \in err
       THEN /\ pc' = [pc EXCEPT ![p] = "failed"]
            /\ NoPins(p)
            /\ UNCHANGED res
       ELSE Proceed(p) /\ UNCHANGED hold
  /\ UNCHANGED << dirVars, dead, err, unVars >>

\* The jailed program ends, and jai with it.
Exit(p) ==
  /\ Goto(p, "run", "done")
  /\ NoPins(p)
  /\ UNCHANGED << lockVars, dirVars, res, dead, err, unVars >>

-----------------------------------------------------------------------------
(* unmountall *)

LockAgain(u) ==
  /\ pc[u] = "lock"
  /\ Acquire(u)
  /\ UNCHANGED << pc, dirVars, runVars, unVars >>

\* unmountall that goes on when open_lockfile returned nothing.
Locked_Once(u) ==
  /\ lpc[u] \in {"none", "held"}
  /\ Goto(u, "lock", "umount")
  /\ snap' = [snap EXCEPT ![u] = [r \in Res |-> Len(mnt[r])]]
  /\ UNCHANGED << lockVars, dirVars, runVars, ok, todo >>

\* recursive_umount reads the mount table.
Locked(u) ==
  /\ lpc[u] = "held"
  /\ Goto(u, "lock", "umount")
  /\ snap' = [snap EXCEPT ![u] = [r \in Res |-> Len(mnt[r])]]
  /\ UNCHANGED << lockVars, dirVars, runVars, ok, todo >>

\* A lazy umount2.
Umount_Lazy(u, r) ==
  /\ pc[u] = "umount"
  /\ snap[u][r] > 0
  /\ snap' = [snap EXCEPT ![u][r] = @ - 1]
  /\ IF Mounted(r)
       THEN mnt' = [mnt EXCEPT ![r] = Front(@)] /\ UNCHANGED ok
       ELSE ok' = [ok EXCEPT ![u] = FALSE] /\ UNCHANGED mnt
  /\ UNCHANGED << lockVars, pc, linked, gone, ent, runVars, todo >>

\* A umount2 whose failure is not recorded.
Umount_Unchecked(u, r) ==
  /\ pc[u] = "umount"
  /\ snap[u][r] > 0
  /\ snap' = [snap EXCEPT ![u][r] = @ - 1]
  /\ IF Mounted(r) /\ ~Busy(Top(r))
       THEN mnt' = [mnt EXCEPT ![r] = Front(@)]
       ELSE UNCHANGED mnt
  /\ UNCHANGED << lockVars, pc, linked, gone, ent, runVars, ok, todo >>

\* umount2 of one path, which fails where a descriptor keeps the mount busy.
Umount(u, r) ==
  /\ pc[u] = "umount"
  /\ snap[u][r] > 0
  /\ snap' = [snap EXCEPT ![u][r] = @ - 1]
  /\ IF Mounted(r) /\ ~Busy(Top(r))
       THEN mnt' = [mnt EXCEPT ![r] = Front(@)] /\ UNCHANGED ok
       ELSE ok' = [ok EXCEPT ![u] = FALSE] /\ UNCHANGED mnt
  /\ UNCHANGED << lockVars, pc, linked, gone, ent, runVars, todo >>

OpenDir(u) ==
  /\ \A r \in Res : snap[u][r] = 0
  /\ Goto(u, "umount", "readdir")
  /\ todo' = [todo EXCEPT ![u] = IF u \in gone THEN {} ELSE Names]
  /\ UNCHANGED << lockVars, dirVars, runVars, snap, ok >>

\* The readdir loop: rmdir of a directory, which fails on a mount point, and
\* unlink of anything else.  A name that is visited early stands for one that
\* is created too late to be listed.
VisitDir(u, r) ==
  /\ pc[u] = "readdir"
  /\ r \in todo[u]
  /\ todo' = [todo EXCEPT ![u] = @ \ {r}]
  /\ IF r \in ent /\ ~Mounted(r) /\ u \notin gone
       THEN /\ ent' = ent \ {r}
            /\ dead' = dead \cup {p \in Runners : /\ res[p] = r
                                                   /\ pc[p] \in {"create", "move"}}
       ELSE UNCHANGED << ent, dead >>
  /\ UNCHANGED << lockVars, pc, linked, gone, mnt, res, hold, err, snap, ok >>

VisitLock(u) ==
  /\ pc[u] = "readdir"
  /\ "lock" \in todo[u]
  /\ todo' = [todo EXCEPT ![u] = @ \ {"lock"}]
  /\ UnlinkName(u)
  /\ UNCHANGED << fd, ex, sh, lpc, pc, dirVars, runVars, snap, ok >>

CloseDir(u) ==
  /\ todo[u] = {}
  /\ Goto(u, "readdir", IF ok[u] THEN "clean" ELSE "unlink")
  /\ UNCHANGED << lockVars, dirVars, runVars, unVars >>

\* clean_root_owned_dir in the work directories of the overlays.
Clean(u) ==
  /\ Goto(u, "clean", "unlink")
  /\ UNCHANGED << lockVars, dirVars, runVars, unVars >>

CloseUnmounted(u) ==
  /\ Goto(u, "close", "rmdir")
  /\ Close(u)
  /\ UNCHANGED << dirVars, runVars, unVars >>

\* unlinkat(run_jai(), user_, AT_REMOVEDIR): the directory of that name now.
Rmdir(u) ==
  /\ Goto(u, "rmdir", "done")
  /\ IF linked /\ ent = {} /\ path = None
       THEN /\ linked' = FALSE
            /\ gone' = gone \cup {p \in Procs : pc[p] \notin {"start"} \cup Final}
       ELSE UNCHANGED << linked, gone >>
  /\ UNCHANGED << lockVars, ent, mnt, runVars, unVars >>

-----------------------------------------------------------------------------
RunnerStep(p) ==
  \/ GetValid(p)
  \/ GetInvalid(p)
  \/ GetLocked(p)
  \/ Ensure(p)
  \/ Create(p)
  \/ Move(p)
  \/ Reopen(p)
  \/ Fail(p)
  \/ UnlinkLock(p)
  \/ CloseLock(p)
  \/ LockCall(p)
  \/ LockGone(p)

UnmounterStep(u) ==
  \/ LockAgain(u)
  \/ Locked(u)
  \/ \E r \in Res : Umount(u, r)
  \/ OpenDir(u)
  \/ \E r \in Res : VisitDir(u, r)
  \/ VisitLock(u)
  \/ CloseDir(u)
  \/ Clean(u)
  \/ UnlinkLock(u)
  \/ CloseUnmounted(u)
  \/ Rmdir(u)
  \/ LockCall(u)
  \/ LockGone(u)

Next ==
  \/ \E p \in Procs : OpenUserDir(p) \/ LockInterrupted(p) \/ Crash(p)
  \/ \E p \in Runners : RunnerStep(p) \/ Exit(p)
  \/ \E u \in Unmounters : UnmounterStep(u)

Spec == Init /\ [][Next]_vars

\* A jail may run for as long as it likes; everybody else keeps going.
FairSpec ==
  /\ Spec
  /\ \A p \in Runners : WF_vars(RunnerStep(p))
  /\ \A u \in Unmounters : WF_vars(UnmounterStep(u))

-----------------------------------------------------------------------------
(***************************************************************************)
(* No two overlays are ever live over the same changes and work            *)
(* directories, whichever runners start, fail, are killed and start again, *)
(* as long as nobody tears down: unmountall breaks the lock of the others. *)
(***************************************************************************)
NoTeardown == \A u \in Unmounters : pc[u] = "start"
OneOverlay == NoTeardown => \A m, n \in LiveOverlays : m = n

(***************************************************************************)
(* What a jail runs on stays mounted (mp_holder_): a tear-down that races  *)
(* with it finds the mount busy.                                           *)
(***************************************************************************)
HeldStaysMounted ==
  \A p \in Procs, r \in Res :
    hold[p][r] # None => hold[p][r] \in ToSet(mnt[r])

(***************************************************************************)
(* A jail never starts on the bare directory that is under a mount which   *)
(* was taken down between mounting and opening it, as long as at most one  *)
(* process tears down: the second of two takes the lock while somebody     *)
(* works under the lock file that the first one has unlinked.              *)
(***************************************************************************)
OneTeardown == \A u, v \in Unmounters : pc[u] # "start" /\ pc[v] # "start" => u = v
RunsOnMounts ==
  OneTeardown => \A p \in Runners : pc[p] = "run" =>
    /\ hold[p]["tmp"] # None
    /\ res[p] = "home" => hold[p]["home"] # None

(***************************************************************************)
(* When recursive_umount reports success to unmountall, nothing of the     *)
(* user's is mounted, as long as at most one process tears down.           *)
(***************************************************************************)
UnmountComplete ==
  [][OneTeardown =>
       \A u \in Unmounters :
         pc[u] = "umount" /\ pc'[u] = "readdir" /\ ok[u]
           => \A r \in Res : ~Mounted(r)]_vars

(***************************************************************************)
(* Starting a jail and tearing down both come to an end, also when the     *)
(* directory is removed under them or a lock's holder is killed.           *)
(***************************************************************************)
EveryoneReturns ==
  /\ \A p \in Runners : pc[p] = "get" ~> pc[p] \in {"run"} \cup Final
  /\ \A u \in Unmounters : pc[u] = "lock" ~> pc[u] \in Final

-----------------------------------------------------------------------------
(***************************************************************************)
(* The inductive invariant behind the safety properties.  The lock is good *)
(* until the first unmounter gets to its readdir loop (Unbroken); whoever  *)
(* mounts or unmounts has it.                                              *)
(***************************************************************************)
RunnerLabels == {"start", "get", "unlink", "close", "run"} \cup Setup \cup Final
UnmounterLabels ==
  {"start", "lock", "umount", "readdir", "clean", "unlink", "close", "rmdir"} \cup Final
LabelsOf(p) == IF p \in Runners THEN RunnerLabels ELSE UnmounterLabels

UserTypeOK ==
  /\ LockTypeOK
  /\ pc \in [Procs -> RunnerLabels \cup UnmounterLabels]
  /\ \A p \in Procs : pc[p] \in LabelsOf(p)
  /\ mnt \in [Res -> Seq(Procs)]
  /\ res \in [Procs -> Res]
  /\ hold \in [Procs -> [Res -> Procs \cup {None}]]
  /\ snap \in [Procs -> [Res -> Nat]]
  /\ ok \in [Procs -> BOOLEAN]

SetupHasLock ==
  \A p \in Procs :
    pc[p] \in Setup \cup {"umount", "readdir", "clean", "unlink"} => lpc[p] = "held"

Unbroken == \A u \in Unmounters : pc[u] \in {"start", "lock", "umount"}
LockGood == Unbroken => LockInv /\ gone = {}

OverlayOnce ==
  NoTeardown =>
    /\ Len(mnt["home"]) <= 1
    /\ \A p \in Runners :
         pc[p] \in {"create", "move"} /\ res[p] = "home" => ~Mounted("home")

\* A runner that failed never gets to its jail.
FailedUnwinds == \A p \in Runners \cap err : pc[p] \in {"unlink", "close"} \cup Final

\* What a runner has pinned at each place, unless it unwinds an exception.
PinsInTime ==
  \A p \in Runners \ err :
    /\ res[p] = "home" => /\ pc[p] # "start"
                          /\ pc[p] \in Final \/ hold[p]["tmp"] # None
    /\ pc[p] \in {"unlink", "close"} => hold[p][res[p]] # None
    /\ pc[p] = "run" => hold[p][res[p]] # None
    /\ pc[p] = "reopen" =>
         IF res[p] = "home" THEN hold[p]["home"] # None ELSE Mounted("tmp")

\* A umount that succeeded takes one of the mounts that were counted away.
NoMoreThanCounted ==
  \A u \in Unmounters :
    pc[u] = "umount" /\ ok[u] => \A r \in Res : Len(mnt[r]) <= snap[u][r]

UserInv ==
  /\ UserTypeOK
  /\ SetupHasLock
  /\ LockGood
  /\ HeldStaysMounted
  /\ OverlayOnce
  /\ FailedUnwinds
  /\ OneTeardown => PinsInTime /\ NoMoreThanCounted
=============================================================================
