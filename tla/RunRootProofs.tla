---------------------------- MODULE RunRootProofs ----------------------------
(***************************************************************************)
(* Theorems about RunRoot, for any number of processes, inodes and deaths. *)
(***************************************************************************)
EXTENDS RunRoot, LockFileProofs

\* The steps of run_jai, each with what it does to the lock.
StepOf(p) ==
  Start(p) \/ ProcStep(p) \/ Fail(p) \/ Crash(p)
  \/ (WaitInterrupted(p) /\ UNCHANGED << pc, rootVars >>)

LEMMA StepLockAct ==
  ASSUME NEW p \in Procs, StepOf(p)
  PROVE  LockAct(p)
  BY DEF StepOf, ProcStep, LockAct, lockVars, Start, GetValid, GetInvalid,
         GetLocked, Return, Umount, Mount, OpenRoot, Propagate, Chmod, Fail,
         ReleaseUnlink, ReleaseClose, Crash

LEMMA NextLockNext == [Next]_vars => [LockNext]_lockVars
<1> SUFFICES ASSUME [Next]_vars
             PROVE  [LockNext]_lockVars
  OBVIOUS
<1>1. CASE UNCHANGED vars
  BY <1>1 DEF vars, lockVars
<1>2. ASSUME NEW p \in Procs, StepOf(p)
      PROVE  [LockNext]_lockVars
  BY <1>2, StepLockAct DEF LockAct, LockNext
<1>3. QED
  BY <1>1, <1>2 DEF Next, StepOf

LEMMA InitRootInv == Init => RootInv
<1> SUFFICES ASSUME Init
             PROVE  RootInv
  OBVIOUS
<1>1. LockInv
  BY LockInitInv DEF Init
<1>2. QED
  BY <1>1, NoneAssumption
     DEF Init, RootInv, LockInv, TypeOK, Labels, Setup, Final, SetupHasLock,
         SetupNotValid, SetupProgress, NotYetMounted, NoMountUnder, RootInUse

\* All but the lock part, for the step of one process.
LEMMA StepRootInv ==
  ASSUME RootInv, LockInv', NEW p \in Procs, StepOf(p)
  PROVE  RootInv'
<1> USE NoneAssumption DEF Setup, Final
<1>1. LockTypeOK /\ LockTypeOK' /\ TypeOK
  BY DEF RootInv, LockInv
<1>2. \A q \in Procs \ {p} : lpc'[q] = lpc[q]
  BY <1>1, StepLockAct, LockActOwn
<1>3. \A q, r \in Procs : lpc[q] = "held" /\ lpc[r] = "held" => q = r
  BY LockInvExclusive DEF RootInv, MutualExclusion
<1>4. CASE Start(p)
  BY <1>1, <1>4
     DEF Start, Goto, rootVars, lockVars, RootInv, TypeOK, Labels, SetupHasLock,
         SetupNotValid, SetupProgress, NotYetMounted, NoMountUnder, RootInUse
<1>5. CASE GetValid(p)
  BY <1>1, <1>5
     DEF GetValid, Goto, Valid, lockVars, RootInv, TypeOK, Labels, SetupHasLock,
         SetupNotValid, SetupProgress, NotYetMounted, NoMountUnder, RootInUse
<1>6. CASE GetInvalid(p)
  BY <1>1, <1>2, <1>6
     DEF GetInvalid, Acquire, LGoto, rootVars, RootInv, TypeOK, SetupHasLock,
         SetupNotValid, SetupProgress, NotYetMounted, NoMountUnder, RootInUse
<1>7. CASE GetLocked(p)
  BY <1>1, <1>7
     DEF GetLocked, Goto, Valid, rootVars, lockVars, RootInv, TypeOK, Labels,
         SetupHasLock, SetupNotValid, SetupProgress, NotYetMounted,
         NoMountUnder, RootInUse
<1>8. CASE Return(p)
  BY <1>1, <1>2, <1>8
     DEF Return, Goto, rootVars, RootInv, TypeOK, Labels, SetupHasLock,
         SetupNotValid, SetupProgress, NotYetMounted, NoMountUnder, RootInUse
<1>9. CASE Umount(p)
  BY <1>1, <1>3, <1>9
     DEF Umount, Goto, lockVars, RootInv, TypeOK, Labels, SetupHasLock,
         SetupNotValid, SetupProgress, NotYetMounted, NoMountUnder, RootInUse
<1>10. CASE Mount(p)
  BY <1>1, <1>3, <1>10
     DEF Mount, Goto, lockVars, RootInv, TypeOK, Labels, SetupHasLock,
         SetupNotValid, SetupProgress, NotYetMounted, NoMountUnder, RootInUse
<1>11. CASE OpenRoot(p)
  BY <1>1, <1>3, <1>11
     DEF OpenRoot, Goto, lockVars, RootInv, TypeOK, Labels, SetupHasLock,
         SetupNotValid, SetupProgress, NotYetMounted, NoMountUnder, RootInUse
<1>12. CASE Propagate(p)
  BY <1>1, <1>3, <1>12
     DEF Propagate, Goto, lockVars, RootInv, TypeOK, Labels, SetupHasLock,
         SetupNotValid, SetupProgress, NotYetMounted, NoMountUnder, RootInUse
<1>13. CASE Chmod(p)
  BY <1>1, <1>3, <1>13
     DEF Chmod, Goto, lockVars, RootInv, TypeOK, Labels, SetupHasLock,
         SetupNotValid, SetupProgress, NotYetMounted, NoMountUnder, RootInUse
<1>14. CASE Fail(p)
  BY <1>1, <1>14
     DEF Fail, rootVars, lockVars, RootInv, TypeOK, Labels, SetupHasLock,
         SetupNotValid, SetupProgress, NotYetMounted, NoMountUnder, RootInUse
<1>15. CASE ReleaseUnlink(p)
  BY <1>1, <1>2, <1>15
     DEF ReleaseUnlink, Goto, rootVars, RootInv, TypeOK, Labels, SetupHasLock,
         SetupNotValid, SetupProgress, NotYetMounted, NoMountUnder, RootInUse
<1>16. CASE ReleaseClose(p)
  BY <1>1, <1>2, <1>16
     DEF ReleaseClose, Goto, rootVars, RootInv, TypeOK, Labels, SetupHasLock,
         SetupNotValid, SetupProgress, NotYetMounted, NoMountUnder, RootInUse
<1>17. CASE Crash(p)
  BY <1>1, <1>2, <1>17
     DEF Crash, rootVars, RootInv, TypeOK, Labels, SetupHasLock,
         SetupNotValid, SetupProgress, NotYetMounted, NoMountUnder, RootInUse
<1>18. CASE (LockStep(p) \/ WaitInterrupted(p)) /\ UNCHANGED << pc, rootVars >>
  BY <1>1, <1>2, <1>18, LockStepNotHeld
     DEF rootVars, RootInv, TypeOK, SetupHasLock, SetupNotValid,
         SetupProgress, NotYetMounted, NoMountUnder, RootInUse
<1>19. QED
  BY <1>4, <1>5, <1>6, <1>7, <1>8, <1>9, <1>10, <1>11, <1>12, <1>13, <1>14,
     <1>15, <1>16, <1>17, <1>18 DEF StepOf, ProcStep

LEMMA NextRootInv == RootInv /\ [Next]_vars => RootInv'
<1> SUFFICES ASSUME RootInv, [Next]_vars
             PROVE  RootInv'
  OBVIOUS
<1>1. LockInv'
  BY NextLockNext, LockNextInv DEF RootInv
<1>2. CASE UNCHANGED vars
  BY <1>1, <1>2
     DEF vars, rootVars, lockVars, RootInv, TypeOK, LockTypeOK, SetupHasLock,
         SetupNotValid, SetupProgress, NotYetMounted, NoMountUnder, RootInUse
<1>3. QED
  BY <1>1, <1>2, StepRootInv DEF Next, StepOf

(***************************************************************************)
(* The inductive invariant of run_jai holds in every state: a process in   *)
(* its setup has the lock, and there is no finished root until its fchmod. *)
(***************************************************************************)
THEOREM RootInvariant == Spec => []RootInv
  BY InitRootInv, NextRootInv, PTL DEF Spec

(***************************************************************************)
(* Every variable of run_jai keeps its type.                               *)
(***************************************************************************)
THEOREM RootTypeCorrect == Spec => []TypeOK
<1>1. RootInv => TypeOK
  BY DEF RootInv
<1>2. QED
  BY <1>1, RootInvariant, PTL

(***************************************************************************)
(* Whoever run_jai gave a root has the finished root that /run/jai shows,  *)
(* whichever processes were killed or failed in whichever system call      *)
(* (run_jai, jai.cc).                                                      *)
(***************************************************************************)
THEOREM RootStaysInUse == Spec => []RootInUse
<1>1. RootInv => RootInUse
  BY DEF RootInv
<1>2. QED
  BY <1>1, RootInvariant, PTL

(***************************************************************************)
(* No tmpfs is ever mounted over the leftovers of a failed attempt.        *)
(***************************************************************************)
THEOREM NothingUnder == Spec => []NoMountUnder
<1>1. RootInv => NoMountUnder
  BY DEF RootInv
<1>2. QED
  BY <1>1, RootInvariant, PTL

(***************************************************************************)
(* At most one process at a time sets /run/jai up.                         *)
(***************************************************************************)
THEOREM OneSetup == Spec => []MutualExclusion
<1>1. RootInv => MutualExclusion
  BY LockInvExclusive DEF RootInv
<1>2. QED
  BY <1>1, RootInvariant, PTL

(***************************************************************************)
(* run_jai unlinks no lock file but the one that it has locked itself,     *)
(* however often the file was unlinked and made anew since it was opened   *)
(* (fs.h:203, fs.cc:291-318).                                              *)
(***************************************************************************)
THEOREM RunRootUnlinksOwn == Spec => UnlinksOwn
<1>1. RootInv /\ [Next]_vars => LockInv /\ [LockNext]_lockVars
  BY NextLockNext DEF RootInv
<1>2. QED
  BY <1>1, NextUnlinksOwn, RootInvariant, PTL DEF Spec, UnlinksOwn

-----------------------------------------------------------------------------
(* Refinement *)

\* Before its fchmod a process has published nothing, and the fchmod
\* publishes what the process mounted.
LEMMA ChmodPublishes ==
  ASSUME RootInv, NEW p \in Procs, Chmod(p)
  PROVE  Abstract!Publish(p, p)
<1>1. top = p /\ dirfd[p] = p /\ top \notin opened
  BY DEF Chmod, Goto, Setup, RootInv, SetupNotValid, SetupProgress
<1>2. QED
  BY <1>1 DEF Chmod, Valid, Abstract!Publish

\* The steps of the setup that change the mount on /run/jai are invisible.
LEMMA SetupInvisible ==
  ASSUME RootInv, NEW p \in Procs, Umount(p) \/ Mount(p)
  PROVE  UNCHANGED Abstract!vars
<1>1. top \notin opened
  BY DEF Umount, Mount, Goto, Setup, RootInv, SetupNotValid
<1>2. top' \notin opened'
  BY NoneAssumption
     DEF Umount, Mount, Goto, RootInv, TypeOK, NotYetMounted
<1>3. UNCHANGED runfd
  BY DEF Umount, Mount
<1>4. QED
  BY <1>1, <1>2, <1>3 DEF Valid, Abstract!vars

LEMMA StepRefines ==
  ASSUME RootInv, NEW p \in Procs, StepOf(p)
  PROVE  [Abstract!Next]_(Abstract!vars)
<1>1. CASE Chmod(p)
  BY <1>1, ChmodPublishes DEF Abstract!Next
<1>2. CASE Umount(p) \/ Mount(p)
  BY <1>2, SetupInvisible
<1>3. CASE GetValid(p)
  <2>1. top \in Procs /\ Valid
    BY <1>3 DEF GetValid, Valid, RootInv, TypeOK
  <2>2. Abstract!Obtain(p)
    BY <1>3, <2>1, NoneAssumption DEF GetValid, Valid, Abstract!Obtain
  <2>3. QED
    BY <2>2 DEF Abstract!Next
<1>4. CASE \/ Start(p) \/ GetInvalid(p) \/ GetLocked(p) \/ Return(p)
           \/ OpenRoot(p) \/ Propagate(p) \/ Fail(p) \/ ReleaseUnlink(p)
           \/ ReleaseClose(p) \/ Crash(p) \/ UNCHANGED rootVars
  <2>1. UNCHANGED << top, opened, runfd >>
    BY <1>4 DEF Start, GetInvalid, GetLocked, Return, OpenRoot, Propagate,
                Fail, ReleaseUnlink, ReleaseClose, Crash, rootVars
  <2>2. QED
    BY <2>1 DEF Valid, Abstract!vars
<1>5. QED
  BY <1>1, <1>2, <1>3, <1>4 DEF StepOf, ProcStep

(***************************************************************************)
(* run_jai implements SetupOnce: the fchmod of one process publishes the   *)
(* root once and for good, and everybody else obtains that one.            *)
(***************************************************************************)
THEOREM RunRootRefines == Spec => SetupOnceSpec
<1>1. Init => Abstract!Init
  BY NoneAssumption DEF Init, Valid, Abstract!Init
<1>2. RootInv /\ [Next]_vars => [Abstract!Next]_(Abstract!vars)
  <2> SUFFICES ASSUME RootInv, [Next]_vars
               PROVE  [Abstract!Next]_(Abstract!vars)
    OBVIOUS
  <2>1. CASE UNCHANGED vars
    BY <2>1 DEF vars, rootVars, Valid, Abstract!vars
  <2>2. QED
    BY <2>1, StepRefines DEF Next, StepOf
<1>3. QED
  BY <1>1, <1>2, RootInvariant, PTL DEF Spec, SetupOnceSpec, Abstract!Spec
=============================================================================
