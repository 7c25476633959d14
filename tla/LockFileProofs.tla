--------------------------- MODULE LockFileProofs ---------------------------
(***************************************************************************)
(* Theorems about LockFile, for any number of processes and inodes, and    *)
(* the lemmas about its steps that the proofs about its clients need.      *)
(***************************************************************************)
EXTENDS LockFile, TLAPS

\* Closing a descriptor leaves every other process's locks as they were.
LEMMA CloseFdKeeps ==
  ASSUME LockTypeOK, NEW p \in Procs, CloseFd(p)
  PROVE  /\ fd' \in [Procs -> Inodes \cup {None}]
         /\ ex' \in [Inodes -> Procs \cup {None}]
         /\ sh' \in [Inodes -> SUBSET Procs]
         /\ fd'[p] = None
         /\ \A q \in Procs \ {p} : fd'[q] = fd[q]
         /\ \A i \in Inodes : \A q \in Procs \ {p} : ex[i] = q => ex'[i] = q
  BY NoneAssumption DEF CloseFd, LockTypeOK

LEMMA LockInitInv == LockInit => LockInv
  BY DEF LockInit, LockInv, LockTypeOK, LockLabels, LockedLabels, HolderOwnsName

\* Every step that follows the protocol preserves LockInv.
LEMMA LockNextInv == LockInv /\ [LockNext]_lockVars => LockInv'
<1> SUFFICES ASSUME LockInv, [LockNext]_lockVars
             PROVE  LockInv'
  OBVIOUS
<1> USE NoneAssumption
<1>1. CASE UNCHANGED lockVars
  BY <1>1 DEF LockInv, LockTypeOK, LockedLabels, HolderOwnsName, lockVars
<1>2. ASSUME NEW p \in Procs, Acquire(p)
      PROVE  LockInv'
  BY <1>2 DEF LockInv, LockTypeOK, LockedLabels, HolderOwnsName, LockLabels,
              Acquire, LGoto
<1>3. ASSUME NEW p \in Procs, OpenExisting(p)
      PROVE  LockInv'
  BY <1>3 DEF LockInv, LockTypeOK, LockedLabels, HolderOwnsName, LockLabels,
              OpenExisting, LGoto
<1>4. ASSUME NEW p \in Procs, OpenMissing(p)
      PROVE  LockInv'
  BY <1>4 DEF LockInv, LockTypeOK, LockedLabels, HolderOwnsName, LockLabels,
              OpenMissing, LGoto
<1>5. ASSUME NEW p \in Procs, CreateTmp(p)
      PROVE  LockInv'
  <2>1. PICK i \in Inodes : /\ Free(i)
                            /\ fd' = [fd EXCEPT ![p] = i]
                            /\ ex' = [ex EXCEPT ![i] = p]
    BY <1>5 DEF CreateTmp
  <2>2. \A q \in Procs : fd[q] # i
    BY <2>1 DEF Free
  <2>3. LockTypeOK'
    BY <1>5, <2>1 DEF CreateTmp, LGoto, LockInv, LockTypeOK, LockLabels
  <2>4. LockedLabels'
    BY <1>5, <2>1, <2>2
       DEF CreateTmp, LGoto, LockInv, LockTypeOK, LockedLabels
  <2>5. HolderOwnsName'
    BY <1>5, <2>1, <2>2
       DEF CreateTmp, LGoto, LockInv, LockTypeOK, HolderOwnsName
  <2>6. QED
    BY <2>3, <2>4, <2>5 DEF LockInv
<1>6. ASSUME NEW p \in Procs, LinkWins(p)
      PROVE  LockInv'
  BY <1>6 DEF LockInv, LockTypeOK, LockedLabels, HolderOwnsName, LockLabels,
              LinkWins, LGoto
<1>7. ASSUME NEW p \in Procs, CloseFd(p), UNCHANGED path,
             lpc' = [lpc EXCEPT ![p] = "none"]
      PROVE  LockInv'
  <2>1. LockTypeOK'
    BY <1>7, CloseFdKeeps DEF LockInv, LockTypeOK, LockLabels
  <2>2. LockedLabels'
    BY <1>7, CloseFdKeeps DEF LockInv, LockTypeOK, LockedLabels
  <2>3. HolderOwnsName'
    BY <1>7, CloseFdKeeps DEF LockInv, LockTypeOK, HolderOwnsName
  <2>4. QED
    BY <2>1, <2>2, <2>3 DEF LockInv
<1>8. ASSUME NEW p \in Procs, TryLockGranted(p)
      PROVE  LockInv'
  <2>1. fd[p] \in Inodes /\ ex[fd[p]] = None
    BY <1>8 DEF TryLockGranted, LGoto, LockInv, LockTypeOK, LockedLabels
  <2>2. LockTypeOK'
    BY <1>8, <2>1 DEF TryLockGranted, LGoto, LockInv, LockTypeOK, LockLabels
  <2>3. LockedLabels'
    BY <1>8, <2>1 DEF TryLockGranted, LGoto, LockInv, LockTypeOK, LockedLabels
  <2>4. HolderOwnsName'
    BY <1>8, <2>1 DEF TryLockGranted, LGoto, LockInv, LockTypeOK, HolderOwnsName
  <2>5. QED
    BY <2>2, <2>3, <2>4 DEF LockInv
<1>9. ASSUME NEW p \in Procs, TryLockBusy(p)
      PROVE  LockInv'
  BY <1>9 DEF LockInv, LockTypeOK, LockedLabels, HolderOwnsName, LockLabels,
              TryLockBusy, LGoto
<1>10. ASSUME NEW p \in Procs, CheckSame(p)
       PROVE  LockInv'
  BY <1>10 DEF LockInv, LockTypeOK, LockedLabels, HolderOwnsName, LockLabels,
               CheckSame, LGoto
<1>11. ASSUME NEW p \in Procs, WaitShared(p)
       PROVE  LockInv'
  BY <1>11 DEF LockInv, LockTypeOK, LockedLabels, HolderOwnsName, LockLabels,
               WaitShared, LGoto
<1>12. ASSUME NEW p \in Procs, Unlink(p)
       PROVE  LockInv'
  <2>1. \A q \in Procs \ {p} : lpc[q] # "held"
    BY <1>12 DEF Unlink, LGoto, LockInv, LockTypeOK, HolderOwnsName
  <2>2. QED
    BY <1>12, <2>1 DEF LockInv, LockTypeOK, LockedLabels, HolderOwnsName,
                       LockLabels, Unlink, LGoto
<1>13. QED
  <2>1. SUFFICES ASSUME LockNext PROVE LockInv'
    BY <1>1
  <2>2. PICK p \in Procs : \/ Acquire(p)
                           \/ LockStep(p)
                           \/ WaitInterrupted(p)
                           \/ Unlink(p)
                           \/ Close(p)
                           \/ Die(p)
    BY <2>1 DEF LockNext
  <2>3. CASE \/ LinkLoses(p) \/ CheckMoved(p) \/ WaitInterrupted(p)
             \/ DropShared(p) \/ Close(p) \/ Die(p)
    BY <1>7, <2>3 DEF LinkLoses, CheckMoved, WaitInterrupted, DropShared,
                      Close, Die, LGoto
  <2>4. QED
    BY <1>2, <1>3, <1>4, <1>5, <1>6, <1>8, <1>9, <1>10, <1>11, <1>12,
       <2>2, <2>3 DEF LockStep

(***************************************************************************)
(* Whatever the clients of the lock do, as long as they follow the         *)
(* protocol of open_lockfile and of the Defer (fs.cc, fs.h), LockInv holds *)
(* throughout.                                                             *)
(***************************************************************************)
THEOREM LockSafe == LockSpec => []LockInv
<1>1. LockInit => LockInv
  BY LockInitInv
<1>2. LockInv /\ [LockNext]_lockVars => LockInv'
  BY LockNextInv
<1>3. QED
  BY <1>1, <1>2, PTL DEF LockSpec

\* Two holders would both own the lock of the one inode that has the name.
LEMMA LockInvExclusive == LockInv => MutualExclusion
  BY DEF LockInv, HolderOwnsName, MutualExclusion

(***************************************************************************)
(* The lock file is exclusive although it may be unlinked and made anew at *)
(* any time (open_lockfile, fs.cc).                                        *)
(***************************************************************************)
THEOREM LockExclusive == LockSpec => []MutualExclusion
  BY LockSafe, LockInvExclusive, PTL

(***************************************************************************)
(* Only Unlink takes the name away from a file, and HolderOwnsName says    *)
(* whose file it is then.                                                  *)
(***************************************************************************)
LEMMA NextUnlinksOwn ==
  LockInv /\ [LockNext]_lockVars
    => [path' # path /\ path # None =>
          \E p \in Procs : /\ lpc[p] = "held" /\ lpc'[p] = "unlinked"
                           /\ fd[p] = path /\ ex[path] = p]_lockVars
<1> SUFFICES ASSUME LockInv, LockNext, path' # path, path # None
             PROVE  \E p \in Procs : /\ lpc[p] = "held" /\ lpc'[p] = "unlinked"
                                     /\ fd[p] = path /\ ex[path] = p
  BY DEF lockVars
<1>1. PICK p \in Procs : Unlink(p)
  BY DEF LockNext, LockStep, Acquire, OpenExisting, OpenMissing, CreateTmp, LinkWins,
         LinkLoses, TryLockGranted, TryLockBusy, CheckSame, CheckMoved, WaitShared,
         DropShared, WaitInterrupted, Close, Die
<1>2. lpc[p] = "held" /\ lpc'[p] = "unlinked"
  BY <1>1 DEF Unlink, LGoto, LockInv, LockTypeOK
<1>3. fd[p] = path /\ ex[path] = p
  BY <1>2 DEF LockInv, HolderOwnsName
<1> QED
  BY <1>2, <1>3

-----------------------------------------------------------------------------
(* The steps of a client *)

\* What one process may do to the lock.
LockAct(p) ==
  \/ Acquire(p)
  \/ LockStep(p)
  \/ WaitInterrupted(p)
  \/ Unlink(p)
  \/ Close(p)
  \/ Die(p)
  \/ UNCHANGED lockVars

\* A process moves nobody's lock label but its own.
LEMMA LockActOwn ==
  ASSUME LockTypeOK, NEW p \in Procs, LockAct(p)
  PROVE  \A q \in Procs \ {p} : lpc'[q] = lpc[q]
<1>1. CASE UNCHANGED lockVars
  BY <1>1 DEF lockVars
<1>2. CASE LockStep(p)
  BY <1>2 DEF LockTypeOK, LockStep, OpenExisting, OpenMissing, CreateTmp,
              LinkWins, LinkLoses, TryLockGranted, TryLockBusy, CheckSame,
              CheckMoved, WaitShared, DropShared, LGoto
<1>3. CASE Acquire(p) \/ WaitInterrupted(p) \/ Unlink(p) \/ Close(p) \/ Die(p)
  BY <1>3 DEF LockTypeOK, Acquire, WaitInterrupted, Unlink, Close, Die, LGoto
<1>4. QED
  BY <1>1, <1>2, <1>3 DEF LockAct

\* A process that has the lock is not inside open_lockfile.
LEMMA LockStepNotHeld ==
  ASSUME NEW p \in Procs, LockStep(p) \/ WaitInterrupted(p)
  PROVE  lpc[p] # "held"
  BY DEF LockStep, WaitInterrupted, OpenExisting, OpenMissing, CreateTmp,
         LinkWins, LinkLoses, TryLockGranted, TryLockBusy, CheckSame,
         CheckMoved, WaitShared, DropShared, LGoto
=============================================================================
