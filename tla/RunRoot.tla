------------------------------- MODULE RunRoot -------------------------------
(***************************************************************************)
(* Config::run_jai: the processes that start jai on a freshly booted       *)
(* machine race to mount the tmpfs on /run/jai.                            *)
(*                                                                         *)
(* The tmpfs is moved into place with mode 0, made private, and only then  *)
(* given mode 0755: the mode is the commit record.  A mount whose mode is  *)
(* still 0 belongs to somebody who was killed half way, and the next       *)
(* holder of the lock takes it down and starts again.                      *)
(*                                                                         *)
(* Each process calls run_jai once (afterwards run_jai_fd_ is cached), so  *)
(* it creates at most one tmpfs and the tmpfs is named by its creator.     *)
(***************************************************************************)
EXTENDS LockFile

CONSTANT MaxDead  \* bound: how many processes may be killed

ASSUME MaxDeadAssumption == MaxDead \in Nat

VARIABLES
  pc,      \* pc[p]: where p is in run_jai
  top,     \* the tmpfs that /run/jai shows, or None (no mount there)
  under,   \* the tmpfs instances mounted beneath top
  private, \* the instances whose propagation is MS_PRIVATE
  opened,  \* the instances whose mode is 0755
  dirfd,   \* dirfd[p]: the instance that p's dirfd refers to
  runfd    \* runfd[p]: run_jai_fd_, what run_jai returned to p

rootVars == << top, under, private, opened, dirfd, runfd >>
vars == << lockVars, pc, rootVars >>

Setup == {"umount", "mount", "open", "propagate", "chmod"}
Final == {"done", "failed", "dead"}
Labels == {"idle", "get", "return", "unlink", "close"} \cup Setup \cup Final

TypeOK ==
  /\ LockTypeOK
  /\ pc \in [Procs -> Labels]
  /\ top \in Procs \cup {None}
  /\ under \subseteq Procs
  /\ private \subseteq Procs
  /\ opened \subseteq Procs
  /\ dirfd \in [Procs -> Procs \cup {None}]
  /\ runfd \in [Procs -> Procs \cup {None}]

Init ==
  /\ LockInit
  /\ pc = [p \in Procs |-> "idle"]
  /\ top = None
  /\ under = {}
  /\ private = {}
  /\ opened = {}
  /\ dirfd = [p \in Procs |-> None]
  /\ runfd = [p \in Procs |-> None]

Goto(p, from, to) ==
  /\ pc[p] = from
  /\ pc' = [pc EXCEPT ![p] = to]

\* The validator of run_jai: a mount point whose mode is not 0.
Valid == top \in opened

-----------------------------------------------------------------------------
(* lock_or_validate *)

Start(p) == Goto(p, "idle", "get") /\ UNCHANGED << lockVars, rootVars >>

\* get() opens /run/jai and validate() accepts it, with or without the lock.
GetValid(p) ==
  /\ lpc[p] \in {"none", "held"}
  /\ Valid
  /\ Goto(p, "get", "return")
  /\ runfd' = [runfd EXCEPT ![p] = top]
  /\ UNCHANGED << lockVars, top, under, private, opened, dirfd >>

\* Not valid and no lock: call open_lockfile.
GetInvalid(p) ==
  /\ pc[p] = "get"
  /\ ~Valid
  /\ Acquire(p)
  /\ UNCHANGED << pc, rootVars >>

\* lock_or_validate without the second look, once it has the lock.
GetLocked_NoRecheck(p) ==
  /\ lpc[p] = "held"
  /\ Goto(p, "get", "umount")
  /\ UNCHANGED << lockVars, rootVars >>

\* Not valid, looked at again with the lock: set it up.
GetLocked(p) ==
  /\ lpc[p] = "held"
  /\ ~Valid
  /\ Goto(p, "get", "umount")
  /\ UNCHANGED << lockVars, rootVars >>

\* lock_or_validate returns a value; a lock it has is closed, not unlinked.
Return(p) ==
  /\ Goto(p, "return", "done")
  /\ \/ Close(p)
     \/ lpc[p] = "none" /\ UNCHANGED lockVars
  /\ UNCHANGED rootVars

-----------------------------------------------------------------------------
(* The setup that follows in run_jai, with the lock held *)

\* recursive_umount left out.
Umount_Skipped(p) ==
  /\ Goto(p, "umount", "mount")
  /\ UNCHANGED << lockVars, rootVars >>

\* recursive_umount(kRunRoot), lazily where a mount is busy.  The code does
\* not look at its result: that root can detach what it mounted is assumed.
Umount(p) ==
  /\ Goto(p, "umount", "mount")
  /\ top' = None
  /\ under' = {}
  /\ UNCHANGED << lockVars, private, opened, dirfd, runfd >>

\* make_tmpfs and ensure_dir, which nobody sees, then xmnt_move onto /run/jai.
Mount(p) ==
  /\ Goto(p, "mount", "open")
  /\ top' = p
  /\ under' = under \cup ({top} \ {None})
  /\ UNCHANGED << lockVars, private, opened, dirfd, runfd >>

\* A tmpfs that is mounted with mode 0755 rather than 0.
OpenRoot_OpenMode(p) ==
  /\ Goto(p, "open", "propagate")
  /\ dirfd' = [dirfd EXCEPT ![p] = top]
  /\ opened' = opened \cup {top}
  /\ UNCHANGED << lockVars, top, under, private, runfd >>

\* openat instead of xopenat: nobody notices that it failed.
OpenRoot_Unchecked(p) ==
  /\ Goto(p, "open", "propagate")
  /\ \E d \in {top, None} : dirfd' = [dirfd EXCEPT ![p] = d]
  /\ UNCHANGED << lockVars, top, under, private, opened, runfd >>

OpenRoot(p) ==
  /\ Goto(p, "open", "propagate")
  /\ dirfd' = [dirfd EXCEPT ![p] = top]
  /\ UNCHANGED << lockVars, top, under, private, opened, runfd >>

\* xmnt_propagate(*dirfd, MS_PRIVATE)
Propagate(p) ==
  /\ Goto(p, "propagate", "chmod")
  /\ private' = private \cup {dirfd[p]}
  /\ UNCHANGED << lockVars, top, under, opened, dirfd, runfd >>

\* fchmod(*dirfd, 0755) commits; run_jai_fd_ is set.  The code does not look
\* at its result: that root can change the mode of its own tmpfs is assumed.
Chmod(p) ==
  /\ Goto(p, "chmod", "unlink")
  /\ opened' = opened \cup {dirfd[p]}
  /\ runfd' = [runfd EXCEPT ![p] = dirfd[p]]
  /\ UNCHANGED << lockVars, top, under, private, dirfd >>

\* A system call of the setup fails, except for the fchmod: syserr throws,
\* and unwinding releases.
Fail(p) ==
  /\ pc[p] \in Setup \ {"chmod"}
  /\ pc' = [pc EXCEPT ![p] = "unlink"]
  /\ UNCHANGED << lockVars, rootVars >>

\* The Defer of lock_or_validate, on return and on unwinding.
ReleaseUnlink(p) ==
  /\ Goto(p, "unlink", "close")
  /\ Unlink(p)
  /\ UNCHANGED rootVars

\* A lock descriptor that outlives the Defer.
ReleaseClose_Leaks(p) ==
  /\ Goto(p, "close", IF runfd[p] = None THEN "failed" ELSE "done")
  /\ UNCHANGED << lockVars, rootVars >>

ReleaseClose(p) ==
  /\ Goto(p, "close", IF runfd[p] = None THEN "failed" ELSE "done")
  /\ Close(p)
  /\ UNCHANGED rootVars

\* SIGKILL anywhere in run_jai, or an error of open_lockfile itself.  The
\* mount table stays as it is; a tmpfs not moved into place disappears.
Crash(p) ==
  /\ pc[p] \notin {"idle"} \cup Final
  /\ Cardinality({q \in Procs : pc[q] = "dead"}) < MaxDead
  /\ pc' = [pc EXCEPT ![p] = "dead"]
  /\ Die(p)
  /\ UNCHANGED rootVars

-----------------------------------------------------------------------------
\* The steps that a process takes of its own accord.
ProcStep(p) ==
  \/ GetValid(p)
  \/ GetInvalid(p)
  \/ GetLocked(p)
  \/ Return(p)
  \/ Umount(p)
  \/ Mount(p)
  \/ OpenRoot(p)
  \/ Propagate(p)
  \/ Chmod(p)
  \/ ReleaseUnlink(p)
  \/ ReleaseClose(p)
  \/ LockStep(p) /\ UNCHANGED << pc, rootVars >>

Next ==
  \E p \in Procs :
    \/ Start(p)
    \/ ProcStep(p)
    \/ Fail(p)
    \/ Crash(p)
    \/ WaitInterrupted(p) /\ UNCHANGED << pc, rootVars >>

Spec == Init /\ [][Next]_vars

\* Every process that is neither killed nor blocked keeps running.
FairSpec == Spec /\ \A p \in Procs : WF_vars(ProcStep(p))

-----------------------------------------------------------------------------
(***************************************************************************)
(* A process is only ever given a /run/jai that is completely set up and   *)
(* still in place: whatever was killed half way, no half-built root is     *)
(* taken for a finished one, and none is mounted over or taken down after  *)
(* somebody got it (so any two processes have the same one).               *)
(***************************************************************************)
RootInUse ==
  \A p \in Procs : runfd[p] # None
    => /\ runfd[p] = top
       /\ top \in opened \cap private

(***************************************************************************)
(* The mounts of failed attempts never pile up under /run/jai.             *)
(***************************************************************************)
NoMountUnder == under = {}

(***************************************************************************)
(* run_jai implements the one-time setup of SetupOnce: a root is published *)
(* by the fchmod, and by nothing else.                                     *)
(***************************************************************************)
Abstract == INSTANCE SetupOnce
              WITH built  <- IF Valid THEN top ELSE None,
                   result <- runfd
SetupOnceSpec == Abstract!Spec

(***************************************************************************)
(* A process that enters run_jai comes out of it: it is given the root,    *)
(* fails, or is killed, but does not wait forever for a lock whose holder  *)
(* is gone.  There is one way not to come out, which the code leaves open: *)
(* two processes that take turns with LOCK_SH and LOCK_EX|LOCK_NB on the   *)
(* lock file that a killed process left behind, from some point on for     *)
(* ever.  Left alone, either of them returns.                              *)
(***************************************************************************)
Contended ==
  /\ \E p \in Procs : pc[p] = "dead"
  /\ \E p, q \in Procs : p # q /\ pc[p] = "get" /\ pc[q] = "get"
RunJaiReturns ==
  \A p \in Procs : pc[p] = "get" ~> (pc[p] \in Final \/ []Contended)

-----------------------------------------------------------------------------
(***************************************************************************)
(* The inductive invariant behind RootInUse.  A process in its setup has   *)
(* the lock and found no finished root; what it has mounted is not         *)
(* finished either until its own fchmod, so nobody else can have got it.   *)
(***************************************************************************)
SetupHasLock ==
  \A p \in Procs : pc[p] \in Setup \cup {"unlink"} => lpc[p] = "held"

SetupNotValid ==
  \A p \in Procs : pc[p] \in Setup => top \notin opened

SetupProgress ==
  \A p \in Procs :
    /\ pc[p] = "mount" => top = None
    /\ pc[p] \in {"open", "propagate", "chmod"} => top = p
    /\ pc[p] \in {"propagate", "chmod"} => dirfd[p] = top
    /\ pc[p] = "chmod" => top \in private

NotYetMounted ==
  \A p \in Procs :
    pc[p] \in {"idle", "get", "umount", "mount"} => p \notin opened /\ p # top

RootInv ==
  /\ TypeOK
  /\ LockInv
  /\ SetupHasLock
  /\ SetupNotValid
  /\ SetupProgress
  /\ NotYetMounted
  /\ opened \subseteq private
  /\ NoMountUnder
  /\ RootInUse
=============================================================================
