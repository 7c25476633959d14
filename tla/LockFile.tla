------------------------------ MODULE LockFile ------------------------------
(***************************************************************************)
(* The lock-file protocol of jai: open_lockfile (fs.cc) and the release    *)
(* done by the Defer that lock_or_validate returns (fs.h).                 *)
(*                                                                         *)
(* The lock is a flock on whatever inode the lock file's name refers to.   *)
(* The file is created already locked (O_TMPFILE, flock, linkat), is       *)
(* unlinked by its holder when setup is over, and can therefore be gone or *)
(* replaced by the time somebody who opened it gets the lock.  One action  *)
(* is one system call on state that another process can see.              *)
(*                                                                         *)
(* A client composes these actions with its own: it calls Acquire, waits   *)
(* until lpc is "held" (the lock was returned) or "none" (open_lockfile    *)
(* returned no descriptor: look again at what the lock guards), and        *)
(* releases with Unlink and Close.                                         *)
(***************************************************************************)
EXTENDS FiniteSets, Naturals

CONSTANTS
  Procs,   \* the jai processes
  Inodes,  \* the inodes that lock files are made of
  None     \* no inode, no process

ASSUME NoneAssumption == None \notin Procs \cup Inodes

VARIABLES
  path,    \* the inode the lock file's name refers to, or None
  fd,      \* fd[p]: the inode of the descriptor open_lockfile is using
  ex,      \* ex[i]: the process whose descriptor holds LOCK_EX on i, or None
  sh,      \* sh[i]: the processes whose descriptors hold LOCK_SH on i
  lpc      \* lpc[p]: where p is in open_lockfile, or what it returned

lockVars == << path, fd, ex, sh, lpc >>

LockLabels == {"none", "open", "tmpfile", "link", "flock", "check", "wait",
               "drop", "held", "unlinked"}

LockTypeOK ==
  /\ path \in Inodes \cup {None}
  /\ fd  \in [Procs -> Inodes \cup {None}]
  /\ ex  \in [Inodes -> Procs \cup {None}]
  /\ sh  \in [Inodes -> SUBSET Procs]
  /\ lpc \in [Procs -> LockLabels]

LockInit ==
  /\ path = None
  /\ fd  = [p \in Procs |-> None]
  /\ ex  = [i \in Inodes |-> None]
  /\ sh  = [i \in Inodes |-> {}]
  /\ lpc = [p \in Procs |-> "none"]

LGoto(p, from, to) ==
  /\ lpc[p] = from
  /\ lpc' = [lpc EXCEPT ![p] = to]

\* An inode that has neither a name nor an open descriptor; the file system
\* may hand out its number again.
Free(i) == i # path /\ \A p \in Procs : fd[p] # i

\* close(2): the open file description goes away, and its flock with it.
CloseFd(p) ==
  /\ fd' = [fd EXCEPT ![p] = None]
  /\ ex' = [i \in Inodes |-> IF ex[i] = p THEN None ELSE ex[i]]
  /\ sh' = [i \in Inodes |-> sh[i] \ {p}]

-----------------------------------------------------------------------------
(* open_lockfile *)

Acquire(p) == LGoto(p, "none", "open") /\ UNCHANGED << path, fd, ex, sh >>

\* openat succeeds: the file exists.
OpenExisting(p) ==
  /\ path # None
  /\ LGoto(p, "open", "flock")
  /\ fd' = [fd EXCEPT ![p] = path]
  /\ UNCHANGED << path, ex, sh >>

\* openat fails with ENOENT.
OpenMissing(p) ==
  /\ path = None
  /\ LGoto(p, "open", "tmpfile")
  /\ UNCHANGED << path, fd, ex, sh >>

\* O_TMPFILE and flock(LOCK_EX) on the new inode, which has no name yet, so
\* that no other process can come between the two calls.
CreateTmp(p) ==
  /\ LGoto(p, "tmpfile", "link")
  /\ \E i \in Inodes :
       /\ Free(i)
       /\ fd' = [fd EXCEPT ![p] = i]
       /\ ex' = [ex EXCEPT ![i] = p]
  /\ UNCHANGED << path, sh >>

\* linkat gives the new file its name.
LinkWins(p) ==
  /\ path = None
  /\ LGoto(p, "link", "held")
  /\ path' = fd[p]
  /\ UNCHANGED << fd, ex, sh >>

\* linkat whose EEXIST is ignored: the lock on the nameless file is returned.
LinkLoses_Ignored(p) ==
  /\ path # None
  /\ LGoto(p, "link", "held")
  /\ UNCHANGED << path, fd, ex, sh >>

\* linkat fails with EEXIST.
LinkLoses(p) ==
  /\ path # None
  /\ LGoto(p, "link", "none")
  /\ CloseFd(p)
  /\ UNCHANGED path

\* flock(LOCK_EX|LOCK_NB) on the descriptor of an existing file.
TryLockGranted(p) ==
  /\ LGoto(p, "flock", "check")
  /\ ex[fd[p]] = None
  /\ sh[fd[p]] = {}
  /\ ex' = [ex EXCEPT ![fd[p]] = p]
  /\ UNCHANGED << path, fd, sh >>

\* ... fails with EWOULDBLOCK.
TryLockBusy(p) ==
  /\ LGoto(p, "flock", "wait")
  /\ ex[fd[p]] # None \/ sh[fd[p]] # {}
  /\ UNCHANGED << path, fd, ex, sh >>

\* open_lockfile without the is_fd_at_path test.
CheckSame_NoTest(p) ==
  /\ LGoto(p, "check", "held")
  /\ UNCHANGED << path, fd, ex, sh >>

\* is_fd_at_path: the name still refers to the inode that was locked.
CheckSame(p) ==
  /\ path = fd[p]
  /\ LGoto(p, "check", "held")
  /\ UNCHANGED << path, fd, ex, sh >>

\* Somebody unlinked the file after completing setup.
CheckMoved(p) ==
  /\ path # fd[p]
  /\ LGoto(p, "check", "none")
  /\ CloseFd(p)
  /\ UNCHANGED path

\* flock(LOCK_SH) blocks until the exclusive lock is released.
WaitShared(p) ==
  /\ LGoto(p, "wait", "drop")
  /\ ex[fd[p]] = None
  /\ sh' = [sh EXCEPT ![fd[p]] = @ \cup {p}]
  /\ UNCHANGED << path, fd, ex >>

\* flock(LOCK_SH) returns EINTR, which counts as the end of the wait.
WaitInterrupted(p) ==
  /\ LGoto(p, "wait", "none")
  /\ CloseFd(p)
  /\ UNCHANGED path

\* fd.reset() after the wait: no lock is returned.
DropShared(p) ==
  /\ LGoto(p, "drop", "none")
  /\ CloseFd(p)
  /\ UNCHANGED path

-----------------------------------------------------------------------------
(* Release *)

\* The Defer of lock_or_validate: unlinkat removes whatever file has the name.
Unlink(p) ==
  /\ LGoto(p, "held", "unlinked")
  /\ path' = None
  /\ UNCHANGED << fd, ex, sh >>

\* The descriptor is closed: after Unlink, or alone when the lock turned out
\* not to be needed (lock_or_validate returns a value while it has the lock).
Close(p) ==
  /\ lpc[p] \in {"held", "unlinked"}
  /\ lpc' = [lpc EXCEPT ![p] = "none"]
  /\ CloseFd(p)
  /\ UNCHANGED path

\* SIGKILL, or an error before the lock was returned: the kernel closes the
\* descriptor, and nobody unlinks the file.
Die(p) ==
  /\ lpc' = [lpc EXCEPT ![p] = "none"]
  /\ CloseFd(p)
  /\ UNCHANGED path

-----------------------------------------------------------------------------
\* The calls of open_lockfile whose outcome the caller does not choose.
LockStep(p) ==
  \/ OpenExisting(p)
  \/ OpenMissing(p)
  \/ CreateTmp(p)
  \/ LinkWins(p)
  \/ LinkLoses(p)
  \/ TryLockGranted(p)
  \/ TryLockBusy(p)
  \/ CheckSame(p)
  \/ CheckMoved(p)
  \/ WaitShared(p)
  \/ DropShared(p)

\* Everything a process that follows the protocol may do to the lock.
LockNext ==
  \E p \in Procs :
    \/ Acquire(p)
    \/ LockStep(p)
    \/ WaitInterrupted(p)
    \/ Unlink(p)
    \/ Close(p)
    \/ Die(p)

LockSpec == LockInit /\ [][LockNext]_lockVars

(***************************************************************************)
(* "Open an exclusive lockfile to guard one-time setup" (fs.h): no two     *)
(* processes are told at the same time that they have the lock.            *)
(***************************************************************************)
MutualExclusion ==
  \A p, q \in Procs : lpc[p] = "held" /\ lpc[q] = "held" => p = q

(***************************************************************************)
(* The Defer unlinks the lock file by its name (fs.h:203): it never takes  *)
(* away a file that another process has locked or made in the meantime,    *)
(* and nothing else takes a lock file away.                                *)
(***************************************************************************)
UnlinksOwn ==
  [][path' # path /\ path # None =>
       \E p \in Procs : /\ lpc[p] = "held" /\ lpc'[p] = "unlinked"
                        /\ fd[p] = path /\ ex[path] = p]_lockVars

(***************************************************************************)
(* Why the protocol is exclusive although the file may be unlinked and     *)
(* recreated at any time: whoever has the lock has it on the inode that    *)
(* the name refers to, and that inode's lock is its own.                   *)
(***************************************************************************)
HolderOwnsName ==
  \A p \in Procs :
    lpc[p] = "held" => path = fd[p] /\ path # None /\ ex[path] = p

LockedLabels ==
  \A p \in Procs :
    /\ lpc[p] \in {"link", "check", "held", "unlinked"}
         => fd[p] # None /\ ex[fd[p]] = p
    /\ lpc[p] \in {"flock", "wait", "drop"} => fd[p] # None
    /\ lpc[p] \in {"none", "open", "tmpfile"} => fd[p] = None

LockInv ==
  /\ LockTypeOK
  /\ LockedLabels
  /\ HolderOwnsName
=============================================================================
