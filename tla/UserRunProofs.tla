---------------------------- MODULE UserRunProofs ----------------------------
(***************************************************************************)
(* Theorems about UserRun, for any number of jails and tear-downs, of      *)
(* inodes and of deaths.                                                   *)
(***************************************************************************)
EXTENDS UserRun, LockFileProofs

-----------------------------------------------------------------------------
(* The mounts on an entry *)

LEMMA TopOfStack ==
  ASSUME NEW s \in Seq(Procs), s # << >>
  PROVE  /\ Last(s) \in Procs /\ Last(s) \in ToSet(s)
         /\ Front(s) \in Seq(Procs) /\ Len(Front(s)) = Len(s) - 1
         /\ ToSet(s) \subseteq ToSet(Front(s)) \cup {Last(s)}
<1>1. Len(s) \in Nat \ {0} /\ DOMAIN s = 1 .. Len(s) /\ \A i \in 1 .. Len(s) : s[i] \in Procs
  OBVIOUS
<1>2. Front(s) \in Seq(Procs) /\ Len(Front(s)) = Len(s) - 1
      /\ DOMAIN Front(s) = 1 .. Len(s) - 1 /\ \A i \in 1 .. Len(s) - 1 : Front(s)[i] = s[i]
  BY <1>1 DEF Front
<1>3. Last(s) = s[Len(s)]
  BY DEF Last
<1>4. ASSUME NEW i \in 1 .. Len(s)
      PROVE  s[i] \in ToSet(Front(s)) \cup {Last(s)}
  <2>1. CASE i = Len(s)
    BY <1>3, <2>1
  <2>2. CASE i # Len(s)
    <3>1. Len(s) \in Nat
      BY <1>1
    <3>2. i \in 1 .. Len(s) - 1
      BY <2>2, <3>1
    <3> QED
      BY <1>2, <3>2 DEF ToSet
  <2> QED
    BY <2>1, <2>2
<1> QED
  BY <1>1, <1>2, <1>3, <1>4 DEF ToSet

LEMMA OnTop ==
  ASSUME NEW s \in Seq(Procs), NEW p \in Procs
  PROVE  /\ Append(s, p) \in Seq(Procs) /\ Len(Append(s, p)) = Len(s) + 1
         /\ ToSet(Append(s, p)) = ToSet(s) \cup {p}
<1>1. /\ Append(s, p) \in Seq(Procs) /\ Len(Append(s, p)) = Len(s) + 1
      /\ Append(s, p)[Len(s) + 1] = p
      /\ \A i \in 1 .. Len(s) : Append(s, p)[i] = s[i]
      /\ Len(s) \in Nat /\ DOMAIN s = 1 .. Len(s)
      /\ DOMAIN Append(s, p) = 1 .. Len(s) + 1
  OBVIOUS
<1>2. ToSet(Append(s, p)) \subseteq ToSet(s) \cup {p}
  BY <1>1 DEF ToSet
<1>3. ToSet(s) \cup {p} \subseteq ToSet(Append(s, p))
  BY <1>1 DEF ToSet
<1> QED
  BY <1>1, <1>2, <1>3

-----------------------------------------------------------------------------
(* The steps *)

\* The steps of one process.
StepOf(p) ==
  \/ OpenUserDir(p) \/ LockInterrupted(p) \/ Crash(p)
  \/ p \in Runners /\ (RunnerStep(p) \/ Exit(p))
  \/ p \in Unmounters /\ UnmounterStep(p)

LEMMA NextIsAStep ==
  ASSUME Next
  PROVE  \E p \in Procs : StepOf(p)
  BY ProcsAssumption DEF Next, StepOf

\* What a step may do to the lock: one of the calls of LockFile, or the
\* removal of a name that may be another's.
Unlinks(p) ==
  /\ path' \in {path, None}
  /\ UNCHANGED << fd, ex, sh >>
  /\ lpc' = lpc \/ LGoto(p, "held", "unlinked")

LEMMA LockActTyped ==
  ASSUME LockTypeOK, NEW p \in Procs, LockAct(p) \/ Unlinks(p)
  PROVE  LockTypeOK' /\ \A q \in Procs \ {p} : lpc'[q] = lpc[q]
<1> USE NoneAssumption
<1>1. CASE Unlinks(p)
  BY <1>1 DEF Unlinks, LockTypeOK, LockLabels, LGoto
<1>2. CASE LockAct(p)
  <2>1. \A q \in Procs \ {p} : lpc'[q] = lpc[q]
    BY <1>2, LockActOwn
  <2>2. CASE UNCHANGED lockVars
    BY <2>2, <2>1 DEF lockVars, LockTypeOK
  <2>3. ASSUME CloseFd(p), UNCHANGED path, lpc' = [lpc EXCEPT ![p] = "none"]
        PROVE  LockTypeOK'
    BY <2>3, CloseFdKeeps DEF LockTypeOK, LockLabels
  <2>4. CASE LinkLoses(p) \/ CheckMoved(p) \/ WaitInterrupted(p) \/ DropShared(p)
             \/ Close(p) \/ Die(p)
    BY <2>1, <2>3, <2>4
       DEF LinkLoses, CheckMoved, WaitInterrupted, DropShared, Close, Die, LGoto
  <2>5. CASE Acquire(p) \/ OpenExisting(p) \/ OpenMissing(p) \/ CreateTmp(p) \/ LinkWins(p)
             \/ TryLockGranted(p) \/ TryLockBusy(p) \/ CheckSame(p) \/ WaitShared(p) \/ Unlink(p)
    BY <2>1, <2>5 DEF Acquire, OpenExisting, OpenMissing, CreateTmp, LinkWins, TryLockGranted,
          TryLockBusy, CheckSame, WaitShared, Unlink, LGoto, LockTypeOK, LockLabels
  <2> QED
    BY <1>2, <2>1, <2>2, <2>4, <2>5 DEF LockAct, LockStep
<1> QED
  BY <1>1, <1>2

LEMMA StepOnLock ==
  ASSUME NEW p \in Procs, StepOf(p)
  PROVE  LockAct(p) \/ Unlinks(p)
<1>1. CASE UNCHANGED lockVars
  BY <1>1 DEF LockAct
<1>2. CASE UnlinkLock(p) \/ VisitLock(p)
  BY <1>2 DEF UnlinkLock, VisitLock, UnlinkName, Unlinks, LGoto
<1>3. CASE \/ LockInterrupted(p) \/ Crash(p) \/ LockCall(p) \/ LockGone(p) \/ GetInvalid(p)
           \/ CloseLock(p) \/ LockAgain(p) \/ CloseUnmounted(p)
  BY <1>3 DEF LockInterrupted, Crash, LockCall, LockGone, GetInvalid, CloseLock, LockAgain,
              CloseUnmounted, LockAct
<1>4. CASE OpenUserDir(p) \/ GetValid(p) \/ GetLocked(p) \/ Ensure(p) \/ Create(p) \/ Move(p)
           \/ Reopen(p) \/ Fail(p) \/ Exit(p)
  BY <1>1, <1>4 DEF OpenUserDir, GetValid, GetLocked, Ensure, Create, Move, Reopen, Fail, Exit
<1>5. CASE Locked(p) \/ (\E r \in Res : Umount(p, r)) \/ OpenDir(p) \/ (\E r \in Res : VisitDir(p, r))
           \/ CloseDir(p) \/ Clean(p) \/ Rmdir(p)
  BY <1>1, <1>5 DEF Locked, Umount, OpenDir, VisitDir, CloseDir, Clean, Rmdir
<1> QED
  BY <1>2, <1>3, <1>4, <1>5 DEF StepOf, RunnerStep, UnmounterStep

\* A process gets to a label of its kind, and nobody else moves.
Moves(p) == \E to \in LabelsOf(p) : pc' = [pc EXCEPT ![p] = to]

LEMMA MovesTyped ==
  ASSUME UserTypeOK, NEW p \in Procs, Moves(p) \/ pc' = pc
  PROVE  /\ pc' \in [Procs -> RunnerLabels \cup UnmounterLabels]
         /\ \A q \in Procs : pc'[q] \in LabelsOf(q)
         /\ \A q \in Procs \ {p} : pc'[q] = pc[q]
<1>1. LabelsOf(p) \subseteq RunnerLabels \cup UnmounterLabels
  BY DEF LabelsOf
<1>2. CASE pc' = pc
  BY <1>2 DEF UserTypeOK
<1>3. ASSUME NEW to \in LabelsOf(p), pc' = [pc EXCEPT ![p] = to]
      PROVE  /\ pc' \in [Procs -> RunnerLabels \cup UnmounterLabels]
             /\ \A q \in Procs : pc'[q] \in LabelsOf(q)
             /\ \A q \in Procs \ {p} : pc'[q] = pc[q]
  BY <1>1, <1>3 DEF UserTypeOK
<1> QED
  BY <1>2, <1>3 DEF Moves

LEMMA StepMoves ==
  ASSUME NEW p \in Procs, StepOf(p)
  PROVE  Moves(p) \/ pc' = pc
<1> USE DEF Moves, LabelsOf, RunnerLabels, UnmounterLabels, Setup, Final
<1>1. CASE OpenUserDir(p)
  BY <1>1, ProcsAssumption DEF OpenUserDir, Goto
<1>2. CASE LockInterrupted(p) \/ LockCall(p) \/ GetInvalid(p) \/ LockAgain(p) \/ VisitLock(p)
           \/ (\E r \in Res : Umount(p, r) \/ VisitDir(p, r))
  BY <1>2 DEF LockInterrupted, LockCall, GetInvalid, LockAgain, VisitLock, Umount, VisitDir
<1>3. CASE Crash(p) \/ LockGone(p)
  BY <1>3 DEF Crash, LockGone
<1>4. CASE p \in Runners /\ (\/ Exit(p) \/ GetLocked(p) \/ Ensure(p) \/ Create(p) \/ Move(p)
                            \/ Reopen(p) \/ Fail(p))
  BY <1>4 DEF Exit, GetLocked, Ensure, Create, Move, Reopen, Fail, Goto
<1>5. CASE p \in Runners /\ (GetValid(p) \/ CloseLock(p))
  BY <1>5 DEF GetValid, CloseLock, Proceed
<1>6. CASE UnlinkLock(p)
  BY <1>6 DEF UnlinkLock, Goto
<1>7. CASE p \in Unmounters /\ (\/ Locked(p) \/ OpenDir(p) \/ CloseDir(p) \/ Clean(p)
                               \/ CloseUnmounted(p) \/ Rmdir(p))
  <2>1. p \notin Runners
    BY <1>7, ProcsAssumption
  <2> QED
    BY <1>7, <2>1 DEF Locked, OpenDir, CloseDir, Clean, CloseUnmounted, Rmdir, Goto
<1> QED
  BY <1>1, <1>2, <1>3, <1>4, <1>5, <1>6, <1>7 DEF StepOf, RunnerStep, UnmounterStep

LEMMA NotBackToStart ==
  ASSUME UserTypeOK, NEW p \in Procs, StepOf(p)
  PROVE  pc' = pc \/ pc'[p] # "start"
<1> USE DEF Goto, Setup, Final
<1>1. pc \in [Procs -> RunnerLabels \cup UnmounterLabels]
  BY DEF UserTypeOK
<1>2. CASE \/ OpenUserDir(p) \/ LockInterrupted(p) \/ Crash(p) \/ LockCall(p) \/ LockGone(p) \/ UnlinkLock(p)
           \/ Exit(p)
  BY <1>1, <1>2 DEF OpenUserDir, LockInterrupted, Crash, LockCall, LockGone, UnlinkLock, Exit
<1>3. CASE \/ GetValid(p) \/ GetInvalid(p) \/ GetLocked(p) \/ Ensure(p) \/ Create(p) \/ Move(p) \/ Reopen(p)
           \/ Fail(p) \/ CloseLock(p)
  BY <1>1, <1>3 DEF GetValid, GetInvalid, GetLocked, Ensure, Create, Move, Reopen, Fail, CloseLock, Proceed
<1>4. CASE \/ LockAgain(p) \/ Locked(p) \/ OpenDir(p) \/ VisitLock(p) \/ CloseDir(p) \/ Clean(p)
           \/ CloseUnmounted(p) \/ Rmdir(p) \/ (\E r \in Res : Umount(p, r) \/ VisitDir(p, r))
  BY <1>1, <1>4 DEF LockAgain, Locked, Umount, OpenDir, VisitDir, VisitLock, CloseDir, Clean,
                    CloseUnmounted, Rmdir
<1> QED
  BY <1>2, <1>3, <1>4 DEF StepOf, RunnerStep, UnmounterStep

\* A change of one field of one process.
LEMMA OneField ==
  ASSUME NEW V, NEW f \in [Procs -> [Res -> V]], NEW p \in Procs, NEW r \in Res, NEW m \in V,
         NEW g, g = [f EXCEPT ![p][r] = m]
  PROVE  /\ g \in [Procs -> [Res -> V]]
         /\ \A q \in Procs \ {p} : g[q] = f[q]
         /\ g[p][r] = m
         /\ \A s \in Res \ {r} : g[p][s] = f[p][s]
<1>1. f[p] \in [Res -> V]
  OBVIOUS
<1>2. PICK h : h = [f[p] EXCEPT ![r] = m]
  OBVIOUS
<1>3. h \in [Res -> V] /\ h[r] = m /\ \A s \in Res \ {r} : h[s] = f[p][s]
  BY <1>1, <1>2
<1>4. g = [f EXCEPT ![p] = h]
  BY <1>2
<1> QED
  BY <1>3, <1>4

LEMMA PinTyped ==
  ASSUME UserTypeOK, NEW p \in Procs, NEW m \in Procs \cup {None}, Pin(p, m)
  PROVE  /\ hold' \in [Procs -> [Res -> Procs \cup {None}]]
         /\ \A q \in Procs \ {p} : hold'[q] = hold[q]
         /\ hold'[p][res[p]] = m
         /\ \A r \in Res \ {res[p]} : hold'[p][r] = hold[p][r]
<1>1. hold \in [Procs -> [Res -> Procs \cup {None}]] /\ res[p] \in Res
  BY DEF UserTypeOK
<1> QED
  BY <1>1, OneField DEF Pin

LEMMA NoPinsTyped ==
  ASSUME UserTypeOK, NEW p \in Procs, NoPins(p)
  PROVE  /\ hold' \in [Procs -> [Res -> Procs \cup {None}]]
         /\ \A q \in Procs \ {p} : hold'[q] = hold[q]
         /\ \A r \in Res : hold'[p][r] = None
<1>1. hold \in [Procs -> [Res -> Procs \cup {None}]]
  BY DEF UserTypeOK
<1>2. [r \in Res |-> None] \in [Res -> Procs \cup {None}]
  OBVIOUS
<1> QED
  BY <1>1, <1>2 DEF NoPins

LEMMA TopTyped ==
  ASSUME UserTypeOK, NEW r \in Res
  PROVE  /\ Top(r) \in Procs \cup {None}
         /\ Top(r) # None => Top(r) \in ToSet(mnt[r])
         /\ Mounted(r) => Top(r) # None
<1>1. mnt[r] \in Seq(Procs)
  BY DEF UserTypeOK
<1> QED
  BY <1>1, TopOfStack, NoneAssumption DEF Top, Mounted

LEMMA TypeStep ==
  ASSUME UserTypeOK, NEW p \in Procs, StepOf(p)
  PROVE  UserTypeOK'
<1>1. /\ LockTypeOK'
      /\ pc' \in [Procs -> RunnerLabels \cup UnmounterLabels]
      /\ \A q \in Procs : pc'[q] \in LabelsOf(q)
  BY StepOnLock, LockActTyped, StepMoves, MovesTyped DEF UserTypeOK
<1>2. \A q \in Procs, r \in Res : hold[q][r] \in Procs \cup {None} /\ mnt[r] \in Seq(Procs)
  BY DEF UserTypeOK
<1>3. \A r \in Res : Top(r) \in Procs \cup {None}
  BY TopTyped
<1>4. CASE UNCHANGED << mnt, res, hold, snap, ok >>
  BY <1>1, <1>4 DEF UserTypeOK
<1>5. CASE \/ OpenUserDir(p) \/ LockInterrupted(p) \/ LockCall(p) \/ GetLocked(p) \/ GetInvalid(p)
           \/ Create(p) \/ Fail(p) \/ UnlinkLock(p)
  BY <1>4, <1>5 DEF OpenUserDir, LockInterrupted, LockCall, GetLocked, GetInvalid, Create, Fail,
                    UnlinkLock, dirVars, runVars, unVars
<1>6. CASE \/ LockAgain(p) \/ VisitLock(p) \/ CloseDir(p) \/ Clean(p) \/ CloseUnmounted(p) \/ Rmdir(p)
           \/ (\E r \in Res : VisitDir(p, r))
  BY <1>4, <1>6 DEF LockAgain, VisitLock, VisitDir, CloseDir, Clean, CloseUnmounted, Rmdir,
                    dirVars, runVars, unVars
<1>7. CASE Crash(p) \/ LockGone(p) \/ Exit(p)
  BY <1>1, <1>7, NoPinsTyped DEF Crash, LockGone, Exit, dirVars, unVars, UserTypeOK
<1>8. CASE GetValid(p)
  <2>1. hold' \in [Procs -> [Res -> Procs \cup {None}]]
    BY <1>3, <1>8, PinTyped DEF GetValid, UserTypeOK
  <2> QED
    BY <1>1, <1>8, <2>1 DEF GetValid, Proceed, dirVars, unVars, UserTypeOK, Res
<1>9. CASE Ensure(p) \/ Reopen(p)
  <2>1. hold' \in [Procs -> [Res -> Procs \cup {None}]]
    BY <1>3, <1>9, PinTyped DEF Ensure, Reopen, UserTypeOK
  <2> QED
    BY <1>1, <1>9, <2>1 DEF Ensure, Reopen, unVars, UserTypeOK
<1>10. CASE Move(p)
  <2>1. hold' \in [Procs -> [Res -> Procs \cup {None}]]
    BY <1>10, PinTyped DEF Move, UserTypeOK
  <2>2. res[p] \in Res /\ Append(mnt[res[p]], p) \in Seq(Procs)
    BY <1>2, OnTop DEF UserTypeOK
  <2> QED
    BY <1>1, <1>10, <2>1, <2>2 DEF Move, unVars, UserTypeOK
<1>11. CASE CloseLock(p)
  <2>1. hold' \in [Procs -> [Res -> Procs \cup {None}]]
    BY <1>11, NoPinsTyped DEF CloseLock, UserTypeOK
  <2> QED
    BY <1>1, <1>11, <2>1 DEF CloseLock, Proceed, dirVars, unVars, UserTypeOK, Res
<1>12. CASE Locked(p)
  <2>1. \A r \in Res : Len(mnt[r]) \in Nat
    BY <1>2
  <2> QED
    BY <1>1, <1>12, <2>1 DEF Locked, dirVars, runVars, UserTypeOK
<1>13. ASSUME NEW r \in Res, Umount(p, r)
       PROVE  UserTypeOK'
  <2>1. mnt' \in [Res -> Seq(Procs)]
    <3>1. mnt \in [Res -> Seq(Procs)] /\ (mnt[r] # << >> => Front(mnt[r]) \in Seq(Procs))
      BY TopOfStack DEF UserTypeOK
    <3> QED
      BY <1>13, <3>1 DEF Umount, Mounted
  <2>2. snap' \in [Procs -> [Res -> Nat]]
    <3>1. snap \in [Procs -> [Res -> Nat]]
      BY DEF UserTypeOK
    <3>2. snap[p][r] - 1 \in Nat
      BY <1>13, <3>1 DEF Umount
    <3> QED
      BY <1>13, <3>1, <3>2, OneField DEF Umount
  <2>3. ok' \in [Procs -> BOOLEAN]
    BY <1>13 DEF Umount, UserTypeOK
  <2> QED
    BY <1>1, <1>13, <2>1, <2>2, <2>3 DEF Umount, runVars, UserTypeOK
<1>14. CASE OpenDir(p)
  BY <1>4, <1>14 DEF OpenDir, dirVars, runVars
<1> QED
  BY <1>5, <1>6, <1>7, <1>8, <1>9, <1>10, <1>11, <1>12, <1>13, <1>14
     DEF StepOf, RunnerStep, UnmounterStep

\* What a step of p leaves of the others.
LEMMA OthersStay ==
  ASSUME UserTypeOK, NEW p \in Procs, StepOf(p), NEW q \in Procs \ {p}
  PROVE  pc'[q] = pc[q] /\ lpc'[q] = lpc[q]
  BY StepMoves, MovesTyped, StepOnLock, LockActTyped DEF UserTypeOK

-----------------------------------------------------------------------------
(* The lock *)

LEMMA HasLockStep ==
  ASSUME UserTypeOK, SetupHasLock, NEW p \in Procs, StepOf(p)
  PROVE  SetupHasLock'
<1> DEFINE Has(q) == pc[q] \in Setup \cup {"umount", "readdir", "clean", "unlink"}
<1> SUFFICES Has(p)' => lpc'[p] = "held"
  BY OthersStay DEF SetupHasLock
<1> USE DEF Setup, Final
<1>1. Has(p) => lpc[p] = "held"
  BY DEF SetupHasLock
<1>2. pc \in [Procs -> RunnerLabels \cup UnmounterLabels] /\ lpc \in [Procs -> LockLabels]
  BY DEF UserTypeOK, LockTypeOK
<1>3. CASE OpenUserDir(p) \/ Crash(p) \/ LockGone(p) \/ Exit(p)
  BY <1>2, <1>3 DEF OpenUserDir, Crash, LockGone, Exit, Goto
<1>4. CASE LockInterrupted(p) \/ LockCall(p)
  BY <1>1, <1>4, LockStepNotHeld DEF LockInterrupted, LockCall
<1>5. CASE GetInvalid(p) \/ LockAgain(p)
  BY <1>1, <1>2, <1>5 DEF GetInvalid, LockAgain, Acquire, LGoto
<1>6. CASE GetValid(p) \/ CloseLock(p)
  BY <1>2, <1>6 DEF GetValid, CloseLock, Proceed
<1>7. CASE GetLocked(p) \/ Ensure(p) \/ Create(p) \/ Move(p) \/ Reopen(p) \/ Fail(p)
  BY <1>1, <1>2, <1>7 DEF GetLocked, Ensure, Create, Move, Reopen, Fail, Goto, lockVars
<1>8. CASE UnlinkLock(p) \/ CloseUnmounted(p) \/ Rmdir(p)
  BY <1>2, <1>8 DEF UnlinkLock, CloseUnmounted, Rmdir, Goto
<1>9. CASE Locked(p) \/ OpenDir(p) \/ CloseDir(p) \/ Clean(p)
  BY <1>1, <1>2, <1>9 DEF Locked, OpenDir, CloseDir, Clean, Goto, lockVars
<1>10. CASE VisitLock(p) \/ (\E r \in Res : Umount(p, r) \/ VisitDir(p, r))
  BY <1>1, <1>10 DEF VisitLock, Umount, VisitDir, lockVars
<1> QED
  BY <1>3, <1>4, <1>5, <1>6, <1>7, <1>8, <1>9, <1>10 DEF StepOf, RunnerStep, UnmounterStep

\* Nobody gets back to where an unmounter has not broken the lock yet, and
\* until then all follow the protocol.
LEMMA UnbrokenStep ==
  ASSUME UserTypeOK, NEW p \in Procs, StepOf(p), Unbroken'
  PROVE  Unbroken /\ gone' = gone /\ (gone = {} => LockAct(p))
<1> USE ProcsAssumption DEF Final
<1>1. pc \in [Procs -> RunnerLabels \cup UnmounterLabels]
  BY DEF UserTypeOK
<1>2. \A u \in Unmounters : pc'[u] \in {"start", "lock", "umount"}
  BY DEF Unbroken
<1>3. ASSUME UNCHANGED pc, UNCHANGED gone
      PROVE  Unbroken /\ gone' = gone
  BY <1>2, <1>3 DEF Unbroken
<1>4. ASSUME p \in Runners, UNCHANGED gone
      PROVE  Unbroken /\ gone' = gone
  <2>1. \A u \in Unmounters : pc'[u] = pc[u]
    BY <1>4, OthersStay
  <2> QED
    BY <1>2, <1>4, <2>1 DEF Unbroken
<1>5. CASE LockInterrupted(p) \/ LockCall(p) \/ LockAgain(p) \/ (\E r \in Res : Umount(p, r))
  BY <1>3, <1>5 DEF LockInterrupted, LockCall, LockAgain, Umount, dirVars, LockAct
<1>6. CASE p \in Runners /\ (\/ OpenUserDir(p) \/ GetValid(p) \/ GetInvalid(p) \/ GetLocked(p)
                            \/ Ensure(p) \/ Create(p) \/ Move(p) \/ Reopen(p) \/ Fail(p))
  BY <1>4, <1>6 DEF OpenUserDir, GetValid, GetInvalid, GetLocked, Ensure, Create, Move, Reopen, Fail,
                    dirVars, LockAct
<1>7. CASE p \in Runners /\ (Crash(p) \/ CloseLock(p) \/ Exit(p))
  BY <1>4, <1>7 DEF Crash, CloseLock, Exit, dirVars, LockAct
<1>8. CASE p \in Runners /\ UnlinkLock(p)
  <2>1. p \notin gone => Unlink(p)
    BY <1>8 DEF UnlinkLock, UnlinkName, Unlink, LGoto
  <2> QED
    BY <1>4, <1>8, <2>1 DEF UnlinkLock, dirVars, LockAct
<1>9. CASE LockGone(p)
  <2>1. p \in Runners
    BY <1>1, <1>2, <1>9 DEF LockGone
  <2> QED
    BY <1>4, <1>9, <2>1 DEF LockGone, dirVars
<1>10. CASE p \in Unmounters /\ (OpenUserDir(p) \/ Locked(p))
  <2>1. pc[p] \in {"start", "lock"} /\ LockAct(p) /\ UNCHANGED gone
    BY <1>10 DEF OpenUserDir, Locked, Goto, dirVars, LockAct
  <2>2. \A u \in Unmounters : u # p => pc[u] = pc'[u]
    BY OthersStay
  <2> QED
    BY <1>2, <2>1, <2>2 DEF Unbroken
<1>11. CASE p \in Unmounters /\ (\/ Crash(p) \/ OpenDir(p) \/ CloseDir(p) \/ Clean(p) \/ CloseUnmounted(p)
                                \/ Rmdir(p) \/ UnlinkLock(p))
  BY <1>1, <1>2, <1>11 DEF Crash, OpenDir, CloseDir, Clean, CloseUnmounted, Rmdir, UnlinkLock, Goto
<1>12. CASE p \in Unmounters /\ (VisitLock(p) \/ (\E r \in Res : VisitDir(p, r)))
  BY <1>2, <1>12 DEF VisitLock, VisitDir
<1> QED
  BY <1>5, <1>6, <1>7, <1>8, <1>9, <1>10, <1>11, <1>12 DEF StepOf, RunnerStep, UnmounterStep

LEMMA LockGoodStep ==
  ASSUME UserTypeOK, LockGood, NEW p \in Procs, StepOf(p)
  PROVE  LockGood'
<1> SUFFICES ASSUME Unbroken'
             PROVE  LockInv' /\ gone' = {}
  BY DEF LockGood
<1>1. Unbroken => LockInv /\ gone = {}
  BY DEF LockGood
<1>2. Unbroken
  BY UnbrokenStep, <1>1
<1> QED
  BY <1>1, <1>2, UnbrokenStep, LockNextInv DEF LockAct, LockNext

\* Until somebody has broken the lock, those who need it are alone.
LEMMA AloneWithLock ==
  ASSUME SetupHasLock, LockGood, Unbroken, NEW p \in Procs, NEW q \in Procs,
         pc[p] \in Setup \cup {"umount"}, pc[q] \in Setup \cup {"umount"}
  PROVE  p = q
  BY LockInvExclusive DEF LockGood, SetupHasLock, MutualExclusion

LEMMA AloneWithUmount ==
  ASSUME SetupHasLock, LockGood, OneTeardown, NEW u \in Unmounters, pc[u] = "umount",
         NEW p \in Procs, pc[p] \in Setup
  PROVE  FALSE
<1>1. Unbroken
  BY DEF OneTeardown, Unbroken
<1>2. p = u
  BY <1>1, AloneWithLock, ProcsAssumption
<1> QED
  BY <1>2 DEF Setup

-----------------------------------------------------------------------------
(* What is held stays mounted *)

LEMMA HeldStep ==
  ASSUME UserTypeOK, HeldStaysMounted, NEW p \in Procs, StepOf(p)
  PROVE  HeldStaysMounted'
<1>1. /\ mnt \in [Res -> Seq(Procs)] /\ res[p] \in Res
      /\ hold \in [Procs -> [Res -> Procs \cup {None}]]
  BY DEF UserTypeOK
<1>2. CASE UNCHANGED << hold, mnt >>
  BY <1>2 DEF HeldStaysMounted
<1>3. CASE NoPins(p) /\ UNCHANGED mnt
  BY <1>3, NoPinsTyped DEF HeldStaysMounted
<1>4. CASE Pin(p, Top(res[p])) /\ UNCHANGED mnt
  <2>1. /\ hold'[p][res[p]] = Top(res[p])
        /\ \A r \in Res \ {res[p]} : hold'[p][r] = hold[p][r]
        /\ \A q \in Procs \ {p} : hold'[q] = hold[q]
    <3>1. res[p] \in Res /\ Top(res[p]) \in Procs \cup {None}
      BY TopTyped DEF UserTypeOK
    <3> QED
      BY <1>4, <3>1, PinTyped
  <2> SUFFICES ASSUME NEW q \in Procs, NEW r \in Res, hold'[q][r] # None
               PROVE  hold'[q][r] \in ToSet(mnt[r])
    BY <1>4 DEF HeldStaysMounted
  <2>2. CASE q = p /\ r = res[p]
    <3>1. hold'[q][r] = Top(r)
      BY <2>1, <2>2
    <3>2. Top(r) # None => Top(r) \in ToSet(mnt[r])
      BY TopTyped
    <3> QED
      BY <1>4, <3>1, <3>2
  <2>3. CASE ~(q = p /\ r = res[p])
    <3>1. hold'[q][r] = hold[q][r]
      BY <2>1, <2>3
    <3> QED
      BY <3>1 DEF HeldStaysMounted
  <2> QED
    BY <2>2, <2>3
<1>5. CASE Move(p)
  <2>1. \A r \in Res : ToSet(mnt'[r]) = IF r = res[p] THEN ToSet(mnt[r]) \cup {p} ELSE ToSet(mnt[r])
    BY <1>1, <1>5, OnTop DEF Move
  <2>2. CASE UNCHANGED hold
    BY <2>1, <2>2 DEF HeldStaysMounted
  <2>3. CASE Pin(p, p)
    <3>1. /\ hold'[p][res[p]] = p
          /\ \A r \in Res \ {res[p]} : hold'[p][r] = hold[p][r]
          /\ \A q \in Procs \ {p} : hold'[q] = hold[q]
      BY <2>3, PinTyped
    <3> SUFFICES ASSUME NEW q \in Procs, NEW r \in Res, hold'[q][r] # None
                 PROVE  hold'[q][r] \in ToSet(mnt'[r])
      BY DEF HeldStaysMounted
    <3>2. CASE q = p /\ r = res[p]
      BY <2>1, <3>1, <3>2
    <3>3. CASE ~(q = p /\ r = res[p])
      <4>1. hold'[q][r] = hold[q][r]
        BY <3>1, <3>3
      <4> QED
        BY <2>1, <4>1 DEF HeldStaysMounted
    <3> QED
      BY <3>2, <3>3
  <2> QED
    BY <1>5, <2>2, <2>3 DEF Move
<1>6. ASSUME NEW s \in Res, Umount(p, s), UNCHANGED mnt
      PROVE  HeldStaysMounted'
  BY <1>2, <1>6 DEF Umount, runVars
<1>7. ASSUME NEW s \in Res, Umount(p, s), mnt' # mnt
      PROVE  HeldStaysMounted'
  <2>1. mnt[s] # << >> /\ ~Busy(Last(mnt[s])) /\ mnt' = [mnt EXCEPT ![s] = Front(@)] /\ hold' = hold
    BY <1>7 DEF Umount, Mounted, Top, runVars
  <2>2. ToSet(mnt[s]) \subseteq ToSet(mnt'[s]) \cup {Last(mnt[s])}
    BY <1>1, <2>1, TopOfStack
  <2>3. \A q \in Procs, r \in Res : hold[q][r] # Last(mnt[s])
    BY <2>1 DEF Busy
  <2> QED
    BY <1>1, <2>1, <2>2, <2>3 DEF HeldStaysMounted
<1>8. CASE \/ OpenUserDir(p) \/ LockInterrupted(p) \/ LockCall(p) \/ GetInvalid(p) \/ GetLocked(p)
           \/ Create(p) \/ Fail(p) \/ UnlinkLock(p)
  BY <1>2, <1>8 DEF OpenUserDir, LockInterrupted, LockCall, GetInvalid, GetLocked, Create, Fail,
                    UnlinkLock, dirVars, runVars
<1>9. CASE \/ LockAgain(p) \/ Locked(p) \/ OpenDir(p) \/ VisitLock(p) \/ CloseDir(p) \/ Clean(p)
            \/ CloseUnmounted(p) \/ Rmdir(p) \/ (\E r \in Res : VisitDir(p, r))
  BY <1>2, <1>9 DEF LockAgain, Locked, OpenDir, VisitLock, CloseDir, Clean, CloseUnmounted, Rmdir,
                     VisitDir, dirVars, runVars
<1>10. CASE Crash(p) \/ LockGone(p) \/ Exit(p)
  BY <1>3, <1>10 DEF Crash, LockGone, Exit, dirVars
<1>11. CASE GetValid(p) \/ Reopen(p)
  BY <1>4, <1>11 DEF GetValid, Reopen, dirVars
<1>12. CASE Ensure(p)
  BY <1>2, <1>4, <1>12 DEF Ensure
<1>13. CASE CloseLock(p)
  BY <1>2, <1>3, <1>13 DEF CloseLock, dirVars
<1> QED
  BY <1>5, <1>6, <1>7, <1>8, <1>9, <1>10, <1>11, <1>12, <1>13 DEF StepOf, RunnerStep, UnmounterStep

-----------------------------------------------------------------------------
(* One overlay *)

LEMMA OverlayStep ==
  ASSUME UserTypeOK, SetupHasLock, LockGood, OverlayOnce, NEW p \in Procs, StepOf(p)
  PROVE  OverlayOnce'
<1> SUFFICES ASSUME NoTeardown'
             PROVE  /\ Len(mnt'["home"]) <= 1
                    /\ \A q \in Runners :
                         pc'[q] \in {"create", "move"} /\ res'[q] = "home" => mnt'["home"] = << >>
  BY DEF OverlayOnce, Mounted
<1> USE ProcsAssumption DEF Setup, Final
<1>1. pc \in [Procs -> RunnerLabels \cup UnmounterLabels] /\ res \in [Procs -> Res]
      /\ mnt \in [Res -> Seq(Procs)]
  BY DEF UserTypeOK
<1>2. \A u \in Unmounters : pc'[u] = "start"
  BY DEF NoTeardown
<1>3. NoTeardown /\ Unbroken
  <2>1. Unbroken'
    BY <1>2 DEF Unbroken
  <2>2. \A u \in Unmounters : u # p => pc[u] = "start"
    BY <1>2, OthersStay
  <2>3. p \in Unmounters => pc[p] = "start"
    <3> SUFFICES ASSUME p \in Unmounters, pc[p] # "start"
                 PROVE  FALSE
      OBVIOUS
    <3>1. pc' = pc \/ pc'[p] # "start"
      BY NotBackToStart
    <3> QED
      BY <1>2, <3>1
  <2> QED
    BY <2>1, <2>2, <2>3, UnbrokenStep DEF NoTeardown
<1>4. /\ Len(mnt["home"]) <= 1
      /\ \A q \in Runners : pc[q] \in {"create", "move"} /\ res[q] = "home" => mnt["home"] = << >>
  BY <1>3 DEF OverlayOnce, Mounted
<1>5. \A q \in Procs : q # p => pc'[q] = pc[q]
  BY OthersStay
<1>6. ASSUME UNCHANGED << mnt, res >>, pc'[p] \in {"create", "move"} => pc[p] \in {"create", "move"}
      PROVE  /\ Len(mnt'["home"]) <= 1
             /\ \A q \in Runners :
                  pc'[q] \in {"create", "move"} /\ res'[q] = "home" => mnt'["home"] = << >>
  BY <1>4, <1>5, <1>6
<1>7. CASE \/ OpenUserDir(p) \/ LockInterrupted(p) \/ Crash(p) \/ LockCall(p) \/ LockGone(p)
           \/ GetInvalid(p) \/ GetLocked(p) \/ UnlinkLock(p) \/ Exit(p)
  BY <1>1, <1>6, <1>7 DEF OpenUserDir, LockInterrupted, Crash, LockCall, LockGone, GetInvalid, GetLocked,
              UnlinkLock, Exit, Goto, dirVars, runVars
<1>8. CASE Create(p) \/ Reopen(p) \/ Fail(p)
  BY <1>1, <1>6, <1>8 DEF Create, Reopen, Fail, Goto, dirVars, runVars
<1>9. CASE GetValid(p) \/ CloseLock(p)
  <2>1. UNCHANGED mnt /\ pc'[p] \notin {"create", "move"}
    BY <1>1, <1>9 DEF GetValid, CloseLock, Proceed, dirVars
  <2>2. \A q \in Procs : q # p => res'[q] = res[q]
    BY <1>1, <1>9 DEF GetValid, CloseLock, Proceed
  <2> QED
    BY <1>4, <1>5, <2>1, <2>2
<1>10. CASE Ensure(p)
  <2>1. UNCHANGED << mnt, res >> /\ (pc'[p] = "create" => mnt[res[p]] = << >>) /\ pc'[p] # "move"
    BY <1>1, <1>10 DEF Ensure, Goto, Mounted
  <2> QED
    BY <1>4, <1>5, <2>1
<1>11. CASE p \in Runners /\ Move(p)
  <2>1. pc[p] = "move" /\ pc'[p] = "reopen" /\ UNCHANGED res
    BY <1>1, <1>11 DEF Move, Goto
  <2>2. \A q \in Runners : q # p => pc[q] \notin {"create", "move"}
    BY <1>3, <2>1, AloneWithLock
  <2>3. \A q \in Runners : pc'[q] \notin {"create", "move"}
    BY <1>5, <2>1, <2>2
  <2>4. CASE res[p] = "home"
    <3>1. mnt["home"] = << >> /\ mnt'["home"] = Append(<< >>, p)
      BY <1>1, <1>4, <1>11, <2>1, <2>4 DEF Move
    <3>2. Len(mnt'["home"]) = 1
      BY <3>1
    <3> QED
      BY <2>3, <3>2
  <2>5. CASE res[p] # "home"
    BY <1>1, <1>4, <1>11, <2>3, <2>5 DEF Move
  <2> QED
    BY <2>4, <2>5
<1>12. CASE p \in Unmounters /\ UnmounterStep(p)
  <2>1. pc[p] = "start" /\ pc'[p] = "start"
    BY <1>2, <1>3, <1>12 DEF NoTeardown
  <2> QED
    BY <1>7, <1>12, <2>1 DEF UnmounterStep, LockAgain, Locked, Umount, OpenDir, VisitDir, VisitLock,
                     CloseDir, Clean, CloseUnmounted, Rmdir, Goto
<1> QED
  BY <1>7, <1>8, <1>9, <1>10, <1>11, <1>12 DEF StepOf, RunnerStep

-----------------------------------------------------------------------------
(* Failures *)

LEMMA UnwindStep ==
  ASSUME UserTypeOK, FailedUnwinds, NEW p \in Procs, StepOf(p)
  PROVE  FailedUnwinds'
<1> DEFINE Unwinds(q) == pc[q] \in {"unlink", "close"} \cup Final
<1> USE ProcsAssumption DEF Final, Setup
<1>1. pc \in [Procs -> RunnerLabels \cup UnmounterLabels]
  BY DEF UserTypeOK
<1>2. \A q \in Procs \ {p} : pc'[q] = pc[q]
  BY OthersStay
<1>3. ASSUME err' = err, p \in Runners \cap err => Unwinds(p)'
      PROVE  FailedUnwinds'
  BY <1>2, <1>3 DEF FailedUnwinds
<1>4. p \in Runners \cap err => Unwinds(p)
  BY DEF FailedUnwinds
<1>5. CASE Fail(p)
  BY <1>1, <1>2, <1>5 DEF Fail, FailedUnwinds
<1>6. CASE OpenUserDir(p) \/ LockInterrupted(p) \/ LockCall(p) \/ UnlinkLock(p)
  BY <1>1, <1>3, <1>4, <1>6 DEF OpenUserDir, LockInterrupted, LockCall, UnlinkLock, Goto, runVars
<1>7. CASE Crash(p) \/ LockGone(p) \/ (p \in Runners /\ Exit(p))
  BY <1>1, <1>3, <1>4, <1>7 DEF Crash, LockGone, Exit, Goto
<1>8. CASE p \in Runners /\ (\/ GetInvalid(p) \/ GetLocked(p) \/ Ensure(p) \/ Create(p) \/ Move(p)
                            \/ Reopen(p))
  BY <1>1, <1>3, <1>4, <1>8 DEF GetInvalid, GetLocked, Ensure, Create, Move, Reopen, Goto, runVars
<1>9. CASE p \in Runners /\ (GetValid(p) \/ CloseLock(p))
  BY <1>1, <1>3, <1>4, <1>9 DEF GetValid, CloseLock, Proceed
<1>10. ASSUME p \in Unmounters, err' = err
       PROVE  FailedUnwinds'
  BY <1>3, <1>10
<1>11. CASE p \in Unmounters /\ UnmounterStep(p)
  BY <1>6, <1>7, <1>10, <1>11 DEF UnmounterStep, LockAgain, Locked, Umount, OpenDir, VisitDir, VisitLock,
                     CloseDir, Clean, CloseUnmounted, Rmdir, runVars
<1> QED
  BY <1>5, <1>6, <1>7, <1>8, <1>9, <1>11 DEF StepOf, RunnerStep

-----------------------------------------------------------------------------
(* One process that tears down *)

LEMMA OneTeardownStep ==
  ASSUME UserTypeOK, NEW p \in Procs, StepOf(p), OneTeardown'
  PROVE  OneTeardown
<1>1. \A u \in Unmounters : pc[u] # "start" => pc'[u] # "start"
  BY NotBackToStart, OthersStay, ProcsAssumption
<1> QED
  BY <1>1 DEF OneTeardown

LEMMA OthersPins ==
  ASSUME UserTypeOK, NEW p \in Procs, StepOf(p), NEW q \in Procs \ {p}
  PROVE  hold'[q] = hold[q] /\ res'[q] = res[q] /\ snap'[q] = snap[q] /\ ok'[q] = ok[q]
<1>1. CASE UNCHANGED << hold, res, snap, ok >>
  BY <1>1
<1>2. res \in [Procs -> Res] /\ Top(res[p]) \in Procs \cup {None}
  BY TopTyped DEF UserTypeOK
<1>3. CASE \/ OpenUserDir(p) \/ LockInterrupted(p) \/ LockCall(p) \/ GetInvalid(p) \/ GetLocked(p)
           \/ Create(p) \/ Fail(p) \/ UnlinkLock(p)
  BY <1>1, <1>3 DEF OpenUserDir, LockInterrupted, LockCall, GetInvalid, GetLocked, Create, Fail,
                    UnlinkLock, runVars, unVars
<1>4. CASE \/ LockAgain(p) \/ OpenDir(p) \/ VisitLock(p) \/ CloseDir(p) \/ Clean(p)
           \/ CloseUnmounted(p) \/ Rmdir(p) \/ (\E r \in Res : VisitDir(p, r))
  BY <1>1, <1>4 DEF LockAgain, OpenDir, VisitLock, CloseDir, Clean, CloseUnmounted, Rmdir,
                    VisitDir, runVars, unVars
<1>5. CASE Crash(p) \/ LockGone(p) \/ Exit(p)
  BY <1>5, NoPinsTyped DEF Crash, LockGone, Exit, unVars
<1>6. CASE GetValid(p) \/ Ensure(p) \/ Reopen(p)
  BY <1>1, <1>2, <1>6, PinTyped DEF GetValid, Ensure, Reopen, Proceed, unVars
<1>7. CASE Move(p)
  BY <1>1, <1>7, PinTyped DEF Move, unVars
<1>8. CASE CloseLock(p)
  BY <1>1, <1>2, <1>8, NoPinsTyped DEF CloseLock, Proceed, unVars
<1>9. CASE Locked(p)
  BY <1>9 DEF Locked, runVars, UserTypeOK
<1>10. ASSUME NEW r \in Res, Umount(p, r)
       PROVE  hold'[q] = hold[q] /\ res'[q] = res[q] /\ snap'[q] = snap[q] /\ ok'[q] = ok[q]
  BY <1>10 DEF Umount, runVars, UserTypeOK
<1> QED
  BY <1>3, <1>4, <1>5, <1>6, <1>7, <1>8, <1>9, <1>10 DEF StepOf, RunnerStep, UnmounterStep

\* The visible mount of an entry is only taken away by an unmounter that has
\* the lock.
LEMMA MountedStep ==
  ASSUME UserTypeOK, NEW p \in Procs, StepOf(p), NEW r \in Res, Mounted(r), ~Mounted(r)'
  PROVE  p \in Unmounters /\ pc[p] = "umount"
<1>1. mnt' # mnt /\ mnt \in [Res -> Seq(Procs)] /\ res[p] \in Res
  BY DEF Mounted, UserTypeOK
<1>2. ~Move(p)
  <2>1. \A s \in Res : Len(Append(mnt[s], p)) = Len(mnt[s]) + 1 /\ Len(mnt[s]) \in Nat
    BY <1>1, OnTop
  <2>2. \A s \in Res : Append(mnt[s], p) # << >>
    <3> SUFFICES ASSUME NEW s \in Res, Append(mnt[s], p) = << >>
                 PROVE  FALSE
      OBVIOUS
    <3>1. Len(Append(mnt[s], p)) = 0
      OBVIOUS
    <3> QED
      BY <2>1, <3>1
  <2> QED
    BY <1>1, <2>2 DEF Move, Mounted
<1>3. p \in Unmounters /\ \E s \in Res : Umount(p, s)
  BY <1>1, <1>2 DEF StepOf, RunnerStep, UnmounterStep, OpenUserDir, LockInterrupted, Crash, LockCall,
     LockGone, UnlinkLock, GetValid, GetInvalid, GetLocked, Ensure, Create, Reopen, Fail, CloseLock,
     Exit, LockAgain, Locked, OpenDir, VisitDir, VisitLock, CloseDir, Clean, CloseUnmounted, Rmdir,
     dirVars
<1> QED
  BY <1>3 DEF Umount

LEMMA PinsStep ==
  ASSUME UserTypeOK, SetupHasLock, LockGood, HeldStaysMounted, OneTeardown, PinsInTime,
         NEW p \in Procs, StepOf(p)
  PROVE  PinsInTime'
<1> DEFINE InTime(q) ==
      /\ res[q] = "home" => pc[q] # "start" /\ (pc[q] \in Final \/ hold[q]["tmp"] # None)
      /\ pc[q] \in {"unlink", "close"} => hold[q][res[q]] # None
      /\ pc[q] = "run" => hold[q][res[q]] # None
      /\ pc[q] = "reopen" =>
           IF res[q] = "home" THEN hold[q]["home"] # None ELSE Mounted("tmp")
<1>1. err \subseteq err'
  BY DEF StepOf, RunnerStep, UnmounterStep, OpenUserDir, LockInterrupted, Crash, LockCall,
     LockGone, UnlinkLock, GetValid, GetInvalid, GetLocked, Ensure, Create, Move, Reopen, Fail, CloseLock,
     Exit, LockAgain, Locked, Umount, OpenDir, VisitDir, VisitLock, CloseDir, Clean, CloseUnmounted, Rmdir,
     runVars
<1>2. ASSUME NEW q \in Runners, q \notin err'
      PROVE  q \notin err /\ InTime(q)
  BY <1>1, <1>2 DEF PinsInTime
<1>3. ASSUME NEW q \in Runners \ {p}, q \notin err'
      PROVE  InTime(q)'
  <2>1. pc'[q] = pc[q] /\ hold'[q] = hold[q] /\ res'[q] = res[q]
    BY OthersStay, OthersPins, ProcsAssumption
  <2>2. pc[q] = "reopen" /\ Mounted("tmp") => Mounted("tmp")'
    BY MountedStep, AloneWithUmount, ProcsAssumption DEF Res, Setup
  <2> QED
    BY <1>2, <1>3, <2>1, <2>2
<1>4. ASSUME p \in Runners, p \notin err'
      PROVE  InTime(p)'
  <2> DEFINE r == res[p]
  <2>1. InTime(p) /\ p \notin err
    BY <1>2, <1>4
  <2>2. /\ pc \in [Procs -> RunnerLabels \cup UnmounterLabels] /\ res \in [Procs -> Res]
        /\ r \in Res
    BY DEF UserTypeOK
  <2>3. Top(r) \in Procs \cup {None} /\ (Mounted(r) => Top(r) # None)
    BY <2>2, TopTyped
  <2>4. p \notin Unmounters
    BY <1>4, ProcsAssumption
  <2>5. CASE UNCHANGED << pc, res, hold, mnt >>
    BY <2>1, <2>5 DEF Mounted
  <2>6. CASE LockInterrupted(p) \/ LockCall(p) \/ GetInvalid(p)
    BY <2>5, <2>6 DEF LockInterrupted, LockCall, GetInvalid, dirVars, runVars
  <2>7. CASE OpenUserDir(p) \/ GetLocked(p) \/ Create(p)
    BY <2>1, <2>2, <2>4, <2>7, <1>4 DEF OpenUserDir, GetLocked, Create, Goto, dirVars, runVars, Setup, Final
  <2>8. CASE Crash(p) \/ LockGone(p) \/ Exit(p)
    BY <2>1, <2>2, <2>8 DEF Crash, LockGone, Exit, Goto, Final
  <2>9. CASE UnlinkLock(p)
    BY <2>1, <2>2, <2>9 DEF UnlinkLock, Goto, runVars, Final
  <2>10. CASE Fail(p)
    BY <1>4, <2>10 DEF Fail
  <2>11. CASE CloseLock(p)
    <3>1. pc[p] = "close" /\ Proceed(p) /\ UNCHANGED hold
      BY <2>1, <2>11 DEF CloseLock
    <3> QED
      BY <2>1, <2>2, <3>1 DEF Proceed, Final, Res
  <2>12. ASSUME Pin(p, Top(r)), Mounted(r)
         PROVE  /\ hold'[p][r] # None
                /\ \A s \in Res \ {r} : hold'[p][s] = hold[p][s]
    BY <2>3, <2>12, PinTyped
  <2>13. CASE GetValid(p)
    <3>1. pc[p] = "get" /\ Pin(p, Top(r)) /\ Mounted(r)
      BY <2>13 DEF GetValid, Valid
    <3>2. \/ pc' = [pc EXCEPT ![p] = "close"] /\ UNCHANGED res
          \/ Proceed(p)
      BY <2>13 DEF GetValid
    <3> QED
      BY <2>1, <2>2, <2>12, <3>1, <3>2 DEF Proceed, Final, Res
  <2>14. CASE Ensure(p)
    <3>1. CASE Mounted(r)
      <4>1. /\ pc[p] = "ensure" /\ Pin(p, Top(r)) /\ UNCHANGED << res, mnt >>
            /\ pc'[p] = (IF r = "tmp" THEN "reopen" ELSE "unlink")
        BY <2>2, <2>14, <3>1 DEF Ensure, Goto
      <4> QED
        BY <2>1, <2>2, <2>12, <3>1, <4>1 DEF Final, Res, Mounted
    <3>2. CASE ~Mounted(r)
      BY <2>1, <2>2, <2>14, <3>2 DEF Ensure, Goto, Final
    <3> QED
      BY <3>1, <3>2
  <2>15. CASE Move(p)
    <3>1. pc[p] = "move" /\ pc'[p] = "reopen" /\ UNCHANGED res
      BY <2>2, <2>15 DEF Move, Goto
    <3>2. CASE r = "home"
      <4>1. hold'[p]["home"] = p /\ hold'[p]["tmp"] = hold[p]["tmp"]
        BY <2>2, <2>15, <3>2, PinTyped DEF Move, Res
      <4> QED
        BY <2>1, <3>1, <3>2, <4>1, NoneAssumption DEF Final
    <3>3. CASE r = "tmp"
      <4>1. mnt' = [mnt EXCEPT !["tmp"] = Append(mnt["tmp"], p)]
        BY <2>15, <3>3 DEF Move
      <4>2. /\ mnt["tmp"] \in Seq(Procs) /\ Len(Append(mnt["tmp"], p)) = Len(mnt["tmp"]) + 1
            /\ Len(mnt["tmp"]) \in Nat /\ mnt'["tmp"] = Append(mnt["tmp"], p)
        BY <4>1, OnTop DEF UserTypeOK, Res
      <4>3. Mounted("tmp")'
        BY <4>2 DEF Mounted
      <4> QED
        BY <3>1, <3>3, <4>3
    <3> QED
      BY <2>2, <3>2, <3>3 DEF Res
  <2>16. CASE Reopen(p)
    <3>1. /\ pc[p] = "reopen" /\ pc'[p] = "unlink" /\ UNCHANGED res
          /\ Pin(p, Top(r))
      BY <2>2, <2>16 DEF Reopen, Goto
    <3>2. Mounted(r)
      <4>1. r = "home" => hold[p][r] \in ToSet(mnt[r])
        BY <2>1, <3>1 DEF HeldStaysMounted, Res
      <4>2. mnt[r] = << >> => ToSet(mnt[r]) = {}
        BY DEF ToSet
      <4> QED
        BY <2>1, <2>2, <3>1, <4>1, <4>2 DEF Mounted, Res
    <3> QED
      BY <2>1, <2>2, <2>12, <3>1, <3>2 DEF Final, Res
  <2> QED
    BY <1>4, <2>4, <2>6, <2>7, <2>8, <2>9, <2>10, <2>11, <2>13, <2>14, <2>15, <2>16 DEF StepOf, RunnerStep
<1> QED
  <2> SUFFICES ASSUME NEW q \in Runners, q \notin err'
               PROVE  InTime(q)'
    BY DEF PinsInTime
  <2> QED
    BY <1>3, <1>4

LEMMA CountStep ==
  ASSUME UserTypeOK, SetupHasLock, LockGood, OneTeardown', NoMoreThanCounted,
         NEW p \in Procs, StepOf(p)
  PROVE  NoMoreThanCounted'
<1> SUFFICES ASSUME NEW u \in Unmounters, pc'[u] = "umount", ok'[u], NEW r \in Res
             PROVE  Len(mnt'[r]) <= snap'[u][r]
  BY DEF NoMoreThanCounted
<1>1. /\ OneTeardown /\ u \in Procs
      /\ pc \in [Procs -> RunnerLabels \cup UnmounterLabels] /\ ok \in [Procs -> BOOLEAN]
      /\ mnt \in [Res -> Seq(Procs)] /\ snap \in [Procs -> [Res -> Nat]]
  BY OneTeardownStep, ProcsAssumption DEF UserTypeOK
<1>2. ASSUME UNCHANGED << mnt, snap >>, pc[u] = "umount", ok[u]
      PROVE  Len(mnt'[r]) <= snap'[u][r]
  BY <1>2 DEF NoMoreThanCounted
<1>3. CASE p # u
  <2>1. pc[u] = "umount" /\ snap'[u] = snap[u] /\ ok[u]
    BY <1>1, <1>3, OthersStay, OthersPins
  <2>2. ~Move(p)
    <3>1. pc[p] # "move"
      BY <1>1, <2>1, AloneWithUmount DEF Setup
    <3> QED
      BY <3>1 DEF Move, Goto
  <2>3. ASSUME NEW s \in Res
        PROVE  ~(p \in Unmounters /\ Umount(p, s))
    BY <1>1, <1>3, <2>1 DEF Umount, OneTeardown
  <2>4. mnt' = mnt
    BY <2>2, <2>3 DEF StepOf, RunnerStep, UnmounterStep, OpenUserDir, LockInterrupted, Crash, LockCall,
       LockGone, UnlinkLock, GetValid, GetInvalid, GetLocked, Ensure, Create, Reopen, Fail, CloseLock,
       Exit, LockAgain, Locked, OpenDir, VisitDir, VisitLock, CloseDir, Clean, CloseUnmounted, Rmdir,
       dirVars
  <2> QED
    BY <2>1, <2>4 DEF NoMoreThanCounted
<1>4. CASE p = u
  <2>1. p \notin Runners
    BY <1>4, ProcsAssumption
  <2>2. CASE Locked(p)
    <3>1. Len(mnt[r]) \in Nat
      BY <1>1
    <3> QED
      BY <1>1, <1>4, <2>2, <3>1 DEF Locked, dirVars
  <2>3. ASSUME NEW s \in Res, Umount(p, s)
        PROVE  Len(mnt'[r]) <= snap'[u][r]
    <3>1. /\ pc[u] = "umount" /\ snap[u][s] > 0 /\ snap' = [snap EXCEPT ![u][s] = snap[u][s] - 1]
          /\ mnt[s] # << >> /\ mnt' = [mnt EXCEPT ![s] = Front(mnt[s])] /\ ok[u]
      BY <1>1, <1>4, <2>3 DEF Umount, Mounted
    <3>2. snap'[u][s] = snap[u][s] - 1 /\ \A t \in Res \ {s} : snap'[u][t] = snap[u][t]
      BY <1>1, <3>1, OneField
    <3>3. Len(mnt[r]) <= snap[u][r] /\ Len(mnt[r]) \in Nat /\ snap[u][r] \in Nat
      BY <1>1, <3>1 DEF NoMoreThanCounted
    <3>4. CASE r = s
      <4>1. Len(mnt'[r]) = Len(mnt[r]) - 1
        BY <1>1, <3>1, <3>4, TopOfStack
      <4> QED
        BY <3>2, <3>3, <3>4, <4>1
    <3>5. CASE r # s
      BY <1>1, <3>1, <3>2, <3>3, <3>5
    <3> QED
      BY <3>4, <3>5
  <2>4. CASE LockInterrupted(p) \/ LockCall(p) \/ LockAgain(p)
    BY <1>2, <1>4, <2>4 DEF LockInterrupted, LockCall, LockAgain, dirVars, unVars
  <2>5. CASE OpenUserDir(p) \/ Crash(p) \/ LockGone(p) \/ UnlinkLock(p)
    BY <1>1, <1>4, <2>1, <2>5 DEF OpenUserDir, Crash, LockGone, UnlinkLock, Goto
  <2>6. CASE OpenDir(p) \/ CloseDir(p) \/ Clean(p) \/ CloseUnmounted(p) \/ Rmdir(p)
    BY <1>1, <1>4, <2>6 DEF OpenDir, CloseDir, Clean, CloseUnmounted, Rmdir, Goto
  <2>7. CASE VisitLock(p) \/ (\E s \in Res : VisitDir(p, s))
    BY <1>4, <2>7 DEF VisitLock, VisitDir
  <2> QED
    BY <2>1, <2>2, <2>3, <2>4, <2>5, <2>6, <2>7 DEF StepOf, UnmounterStep
<1> QED
  BY <1>3, <1>4

-----------------------------------------------------------------------------
(* The invariant *)

LEMMA UserInitInv ==
  ASSUME Init
  PROVE  UserInv
<1> USE ProcsAssumption DEF Init
<1>1. LockInv /\ LockTypeOK
  BY LockInitInv DEF LockInv
<1>2. UserTypeOK
  BY <1>1 DEF UserTypeOK, LabelsOf, RunnerLabels, UnmounterLabels, Res
<1>3. SetupHasLock /\ HeldStaysMounted
  BY DEF SetupHasLock, HeldStaysMounted, Setup
<1>4. LockGood
  BY <1>1 DEF LockGood
<1>5. mnt["home"] = << >> /\ Len(mnt["home"]) = 0
  BY DEF Res
<1>6. OverlayOnce /\ FailedUnwinds /\ PinsInTime /\ NoMoreThanCounted
  BY <1>5 DEF OverlayOnce, FailedUnwinds, PinsInTime, NoMoreThanCounted, Mounted, Final
<1> QED
  BY <1>2, <1>3, <1>4, <1>6 DEF UserInv

LEMMA UserNextInv ==
  ASSUME UserInv, [Next]_vars
  PROVE  UserInv'
<1>1. CASE UNCHANGED vars
  <2>1. UNCHANGED << lockVars, pc, gone, mnt, res, hold, err, snap, ok >>
    BY <1>1 DEF vars, dirVars, runVars, unVars
  <2>2. UserTypeOK' /\ SetupHasLock'
    BY <2>1 DEF lockVars, UserInv, UserTypeOK, LockTypeOK, SetupHasLock
  <2>3. Unbroken' => Unbroken
    BY <2>1 DEF Unbroken
  <2>4. LockGood'
    BY <2>1, <2>3, LockNextInv DEF UserInv, LockGood
  <2>5. HeldStaysMounted' /\ OverlayOnce' /\ FailedUnwinds'
    BY <2>1 DEF UserInv, FailedUnwinds, HeldStaysMounted, OverlayOnce, NoTeardown, Mounted
  <2>6. OneTeardown' => OneTeardown
    BY <2>1 DEF OneTeardown
  <2>7. PinsInTime => PinsInTime'
    BY <2>1 DEF PinsInTime, Mounted
  <2>8. NoMoreThanCounted => NoMoreThanCounted'
    BY <2>1 DEF NoMoreThanCounted
  <2> QED
    BY <2>2, <2>4, <2>5, <2>6, <2>7, <2>8 DEF UserInv
<1>2. CASE Next
  <2>1. PICK p \in Procs : StepOf(p)
    BY <1>2, NextIsAStep
  <2>2. UserTypeOK' /\ SetupHasLock' /\ LockGood' /\ HeldStaysMounted' /\ OverlayOnce'
        /\ FailedUnwinds'
    BY <2>1, TypeStep, HasLockStep, LockGoodStep, HeldStep, OverlayStep, UnwindStep DEF UserInv
  <2>3. ASSUME OneTeardown'
        PROVE  PinsInTime' /\ NoMoreThanCounted'
    BY <2>1, <2>3, OneTeardownStep, PinsStep, CountStep DEF UserInv
  <2> QED
    BY <2>2, <2>3 DEF UserInv
<1> QED
  BY <1>1, <1>2

THEOREM UserInvariant == Spec => []UserInv
<1>1. Init => UserInv
  BY UserInitInv
<1>2. UserInv /\ [Next]_vars => UserInv'
  BY UserNextInv
<1> QED
  BY <1>1, <1>2, PTL DEF Spec

-----------------------------------------------------------------------------
(* What the invariant is for *)

(***************************************************************************)
(* HeldStaysMounted for every number of jails and tear-downs: what a jail  *)
(* keeps a descriptor of (mp_holder_) is never unmounted, since the umount *)
(* of unmountall is not a lazy one.                                        *)
(***************************************************************************)
THEOREM AlwaysHeld == Spec => []HeldStaysMounted
<1>1. UserInv => HeldStaysMounted
  BY DEF UserInv
<1> QED
  BY <1>1, UserInvariant, PTL

(***************************************************************************)
(* RunsOnMounts for every number of jails: with at most one tear-down at   *)
(* work, a jail runs on the mounts that make_private_tmp and               *)
(* make_home_overlay made or found, and not on the directories under them. *)
(***************************************************************************)
THEOREM AlwaysOnMounts == Spec => []RunsOnMounts
<1>1. ASSUME UserInv
      PROVE  RunsOnMounts
  <2> SUFFICES ASSUME OneTeardown, NEW p \in Runners, pc[p] = "run"
               PROVE  /\ hold[p]["tmp"] # None
                      /\ res[p] = "home" => hold[p]["home"] # None
    BY DEF RunsOnMounts
  <2>1. p \notin err /\ res[p] \in {"tmp", "home"}
    BY <1>1, ProcsAssumption DEF UserInv, FailedUnwinds, UserTypeOK, Res, Final
  <2> QED
    BY <1>1, <2>1 DEF UserInv, PinsInTime, Final
<1> QED
  BY <1>1, UserInvariant, PTL

(***************************************************************************)
(* OneOverlay for every number of jails, failures and deaths: the changes  *)
(* directory of a jail name is not under two live overlays as long as no   *)
(* unmountall breaks the lock.                                             *)
(***************************************************************************)
THEOREM AlwaysOneOverlay == Spec => []OneOverlay
<1>1. ASSUME UserInv
      PROVE  OneOverlay
  <2> SUFFICES ASSUME NoTeardown, NEW m \in LiveOverlays, NEW n \in LiveOverlays
               PROVE  m = n
    BY DEF OneOverlay
  <2> DEFINE Moving == {p \in Runners : pc[p] = "move" /\ res[p] = "home"}
  <2>1. /\ UserTypeOK /\ SetupHasLock /\ LockGood /\ Unbroken
        /\ Len(mnt["home"]) <= 1 /\ mnt["home"] \in Seq(Procs)
        /\ \A p \in Moving : mnt["home"] = << >>
    BY <1>1 DEF UserInv, UserTypeOK, OverlayOnce, NoTeardown, Unbroken, Res, Mounted
  <2>2. \A p \in Procs : hold[p]["home"] # None => hold[p]["home"] \in ToSet(mnt["home"])
    BY <1>1 DEF UserInv, HeldStaysMounted, Res
  <2>3. LiveOverlays \subseteq ToSet(mnt["home"]) \cup Moving
    BY <2>2 DEF LiveOverlays
  <2>4. \A a, b \in Moving : a = b
    BY <2>1, AloneWithLock, ProcsAssumption DEF Setup
  <2>5. \A a, b \in ToSet(mnt["home"]) : a = b
    BY <2>1 DEF ToSet
  <2>6. Moving # {} => ToSet(mnt["home"]) = {}
    BY <2>1 DEF ToSet
  <2> QED
    BY <2>3, <2>4, <2>5, <2>6
<1> QED
  BY <1>1, UserInvariant, PTL

(***************************************************************************)
(* UnmountComplete for every number of jails: an unmountall that was told  *)
(* of no failure, and that no other one raced with, leaves no mount under  *)
(* the user's directory when it begins to empty it.                        *)
(***************************************************************************)
THEOREM AlwaysComplete == Spec => UnmountComplete
<1> DEFINE Complete ==
      OneTeardown =>
        \A u \in Unmounters :
          pc[u] = "umount" /\ pc'[u] = "readdir" /\ ok[u] => \A r \in Res : ~Mounted(r)
<1>1. ASSUME UserInv, [Next]_vars
      PROVE  [Complete]_vars
  <2> SUFFICES ASSUME OneTeardown, NEW u \in Unmounters, pc[u] = "umount", pc'[u] = "readdir", ok[u],
                      NEW r \in Res
               PROVE  mnt[r] = << >>
    BY DEF Mounted
  <2>1. /\ u \in Procs /\ pc \in [Procs -> RunnerLabels \cup UnmounterLabels]
        /\ mnt[r] \in Seq(Procs) /\ UserTypeOK
    BY <1>1, ProcsAssumption DEF UserInv, UserTypeOK
  <2>2. PICK p \in Procs : StepOf(p)
    BY <1>1, NextIsAStep DEF vars
  <2>3. p = u
    BY <2>1, <2>2, OthersStay
  <2>4. \A s \in Res : snap[u][s] = 0
    BY <2>1, <2>2, <2>3, ProcsAssumption DEF StepOf, UnmounterStep, OpenUserDir, LockInterrupted, Crash,
       LockCall, LockGone, UnlinkLock, LockAgain, Locked, Umount, OpenDir, VisitDir, VisitLock,
       CloseDir, Clean, CloseUnmounted, Rmdir, Goto
  <2>5. Len(mnt[r]) <= 0
    BY <1>1, <2>4 DEF UserInv, NoMoreThanCounted
  <2> QED
    BY <2>1, <2>5
<1> QED
  BY <1>1, UserInvariant, PTL DEF Spec, UnmountComplete

=============================================================================
