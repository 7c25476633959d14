----------------------------- MODULE FilesProofs -----------------------------
(***************************************************************************)
(* Theorems about EnsureDir and Files, for any number of processes,        *)
(* directories, inodes, kills and edits, paths of any length and files of  *)
(* any size.                                                               *)
(***************************************************************************)
EXTENDS Files, EnsureDir, TLAPS

-----------------------------------------------------------------------------
(* ensure_dir *)

\* mkdirat and the user make a directory that was not there.
LEMMA NewIsNew ==
  ASSUME Dirs \ made # {}
  PROVE  New \in Dirs /\ New \notin made
  BY DEF New

LEMMA DirInitInv == DirInit => DirInv
<1> SUFFICES ASSUME DirInit
             PROVE  DirInv
  OBVIOUS
<1> USE EnsureDirAssumption DEF DirInit
<1>1. DirTypeOK /\ OnlyMade /\ LeftInTime /\ OwnerChecked /\ ReturnsOwnDir
  BY DEF DirTypeOK, OnlyMade, LeftInTime, OwnerChecked, ReturnsOwnDir, Refuses, AllDirs,
        Entries
<1>2. OnePath
  <2> DEFINE path == [k \in 0 .. 0 |-> Top]
  <2>1. path \in [0 .. 0 -> AllDirs]
    BY DEF AllDirs
  <2>2. Chain(0, path)
    BY DEF Chain, AllDirs
  <2>3. \A p \in Walkers : OnChain(0, path, p)
    BY DEF OnChain, Opened
  <2> HIDE DEF path
  <2>4. \E p \in [0 .. 0 -> AllDirs] : Chain(0, p) /\ \A q \in Walkers : OnChain(0, p, q)
    BY <2>1, <2>2, <2>3
  <2>5. 0 \in 0 .. Depth
    OBVIOUS
  <2> QED
    BY <2>4, <2>5 DEF OnePath
<1> QED
  BY <1>1, <1>2 DEF DirInv

\* Every step preserves the parts of DirInv that do not depend on changes.
LEMMA DirNextSafe ==
  ASSUME DirTypeOK, OnlyMade, LeftInTime, OwnerChecked, ReturnsOwnDir, [DirNext]_dirVars
  PROVE  DirTypeOK' /\ OnlyMade' /\ LeftInTime' /\ OwnerChecked' /\ ReturnsOwnDir'
<1> USE EnsureDirAssumption
    DEF DirTypeOK, OnlyMade, LeftInTime, OwnerChecked, ReturnsOwnDir, Refuses, AllDirs,
        Entries, To, Stay, tree_
<1>1. CASE UNCHANGED dirVars
  BY <1>1 DEF dirVars
<1>2. ASSUME NEW p \in Walkers, OpenComponent(p)
      PROVE  DirTypeOK' /\ OnlyMade' /\ LeftInTime' /\ OwnerChecked' /\ ReturnsOwnDir'
  BY <1>2 DEF OpenComponent, Found
<1>3. ASSUME NEW p \in Walkers, MakeComponent(p)
      PROVE  DirTypeOK' /\ OnlyMade' /\ LeftInTime' /\ OwnerChecked' /\ ReturnsOwnDir'
  BY <1>3, NewIsNew DEF MakeComponent
<1>4. ASSUME NEW p \in Walkers, StatComponent(p)
      PROVE  DirTypeOK' /\ OnlyMade' /\ LeftInTime' /\ OwnerChecked' /\ ReturnsOwnDir'
  BY <1>4 DEF StatComponent
<1>5. ASSUME NEW p \in Walkers, CheckDir(p)
      PROVE  DirTypeOK' /\ OnlyMade' /\ LeftInTime' /\ OwnerChecked' /\ ReturnsOwnDir'
  BY <1>5 DEF CheckDir
<1>5a. ASSUME NEW p \in Walkers, ChmodDir(p)
       PROVE  DirTypeOK' /\ OnlyMade' /\ LeftInTime' /\ OwnerChecked' /\ ReturnsOwnDir'
  BY <1>5a DEF ChmodDir
<1>6. ASSUME NEW p \in Walkers, WalkFails(p)
      PROVE  DirTypeOK' /\ OnlyMade' /\ LeftInTime' /\ OwnerChecked' /\ ReturnsOwnDir'
  BY <1>6 DEF WalkFails
<1>7. CASE UserMakesDir
  BY <1>7, NewIsNew DEF UserMakesDir, Changing
<1>8. CASE UserMakesOther
  BY <1>8 DEF UserMakesOther, Changing
<1>9. CASE UserRemovesEntry
  BY <1>9 DEF UserRemovesEntry, Changing
<1> QED
  BY <1>1, <1>2, <1>3, <1>4, <1>5, <1>5a, <1>6, <1>7, <1>8, <1>9
     DEF DirNext, WalkStep

\* A step of one process that changes no entry leaves the path as it was,
\* if it leaves the process on it.
LEMMA PathStays ==
  ASSUME DirTypeOK, NEW n \in 0 .. Depth, NEW path, Chain(n, path),
         \A q \in Walkers : OnChain(n, path, q),
         NEW p \in Walkers, UNCHANGED entry, OnChain(n, path, p)',
         \A q \in Walkers \ {p} : dpc'[q] = dpc[q] /\ at'[q] = at[q] /\ left'[q] = left[q]
  PROVE  Chain(n, path)' /\ \A q \in Walkers : OnChain(n, path, q)'
<1>1. Chain(n, path)'
  BY DEF Chain
<1>2. ASSUME NEW q \in Walkers \ {p}
      PROVE  OnChain(n, path, q)'
  BY <1>2 DEF OnChain, Opened
<1> QED
  BY <1>1, <1>2

\* Every step leaves one path, which mkdirat alone makes longer.
LEMMA DirNextPath == DirInv /\ [DirNext]_dirVars => OnePath'
<1> SUFFICES ASSUME DirInv, [DirNext]_dirVars, changes' = 0
             PROVE  OnePath'
  BY DEF OnePath
<1> USE EnsureDirAssumption
<1>1. DirTypeOK /\ OnlyMade /\ LeftInTime /\ OnePath
  BY DEF DirInv
<1>2. ~Changing
  BY <1>1 DEF DirTypeOK, Changing
<1>3. \/ UNCHANGED dirVars
      \/ \E p \in Walkers : WalkStep(p) \/ WalkFails(p)
  BY <1>2 DEF DirNext, UserMakesDir, UserMakesOther, UserRemovesEntry
<1>4. changes = 0 /\ UNCHANGED << gone, alien >>
  BY <1>3 DEF dirVars, tree_, WalkStep, OpenComponent, MakeComponent, StatComponent,
              CheckDir, ChmodDir, WalkFails, Stay
<1>5. gone = {} /\ alien = {}
  BY <1>1, <1>4 DEF OnePath
<1>6. PICK n \in 0 .. Depth :
        \E path \in [0 .. n -> AllDirs] :
          Chain(n, path) /\ \A p \in Walkers : OnChain(n, path, p)
  BY <1>1, <1>4 DEF OnePath
<1>7. PICK path \in [0 .. n -> AllDirs] :
        Chain(n, path) /\ \A p \in Walkers : OnChain(n, path, p)
  BY <1>6
<1>8. \A m \in 0 .. Depth : \A w \in [0 .. m -> AllDirs] :
        Chain(m, w)' /\ (\A p \in Walkers : OnChain(m, w, p)') => OnePath'
  BY <1>4, <1>5 DEF OnePath
<1>9. \A k \in 0 .. n - 1 : entry[path[k]] = path[k + 1] /\ path[k + 1] \in AllDirs
  BY <1>7 DEF Chain
<1>10. \A p \in Walkers :
         /\ left[p] \in 0 .. Depth /\ Opened(p) \in 0 .. n /\ at[p] = path[Opened(p)]
         /\ Opened(p) = n => entry[at[p]] = "none"
         /\ Opened(p) < n => entry[at[p]] = path[Opened(p) + 1] /\ entry[at[p]] \in AllDirs
  BY <1>1, <1>7, <1>9 DEF DirTypeOK, OnChain, Opened, Chain
<1>11. "none" \notin AllDirs
  BY DEF AllDirs
<1>12. CASE UNCHANGED dirVars
  <2>1. Chain(n, path)' /\ \A p \in Walkers : OnChain(n, path, p)'
    BY <1>7, <1>12 DEF dirVars, tree_, Chain, OnChain, Opened
  <2> QED
    BY <1>8, <2>1
<1>13. ASSUME NEW p \in Walkers, OpenComponent(p)
       PROVE  OnePath'
  <2>1. CASE Opened(p) = n
    <3>1. dpc' = [dpc EXCEPT ![p] = "mkdir"] /\ UNCHANGED << at, left, entry >>
      BY <1>10, <1>11, <1>13, <2>1 DEF OpenComponent, Found, To, tree_
    <3>2. OnChain(n, path, p)'
      BY <1>1, <1>7, <3>1 DEF DirTypeOK, OnChain, Opened
    <3> QED
      BY <1>1, <1>7, <1>8, <3>1, <3>2, PathStays DEF DirTypeOK
  <2>2. CASE Opened(p) < n
    <3>1. Found(entry[at[p]], follow) = entry[at[p]]
      BY <1>10, <2>2 DEF Found, AllDirs
    <3>2. /\ at' = [at EXCEPT ![p] = path[Opened(p) + 1]]
          /\ left' = [left EXCEPT ![p] = @ - 1]
          /\ \E s \in {"check", "open"} : dpc' = [dpc EXCEPT ![p] = s]
          /\ UNCHANGED entry
      BY <1>10, <1>13, <2>2, <3>1 DEF OpenComponent, To, tree_
    <3>3. Opened(p)' = Opened(p) + 1
      BY <1>1, <1>10, <3>2 DEF DirTypeOK, Opened
    <3>4. OnChain(n, path, p)'
      BY <1>1, <1>10, <2>2, <3>2, <3>3 DEF DirTypeOK, OnChain
    <3> QED
      BY <1>1, <1>7, <1>8, <3>2, <3>4, PathStays DEF DirTypeOK
  <2> QED
    BY <1>10, <2>1, <2>2
<1>14. ASSUME NEW p \in Walkers, MakeComponent(p)
       PROVE  OnePath'
  <2>1. /\ dpc' = [dpc EXCEPT ![p] = "stat"] /\ UNCHANGED << at, left >>
        /\ left[p] > 0
    BY <1>1, <1>5, <1>14 DEF MakeComponent, LeftInTime, To, Stay
  <2>2. CASE Opened(p) < n
    <3>1. UNCHANGED entry
      BY <1>5, <1>10, <1>11, <1>14, <2>2 DEF MakeComponent
    <3>2. OnChain(n, path, p)'
      BY <1>1, <1>10, <2>1, <2>2 DEF DirTypeOK, OnChain, Opened
    <3> QED
      BY <1>1, <1>7, <1>8, <2>1, <3>1, <3>2, PathStays DEF DirTypeOK
  <2>3. CASE Opened(p) = n
    <3>1. PICK d : d = New
      OBVIOUS
    <3> DEFINE longer == [k \in 0 .. n + 1 |-> IF k = n + 1 THEN d ELSE path[k]]
    <3>2. n < Depth /\ at[p] = path[n] /\ entry[at[p]] = "none"
      BY <1>10, <2>1, <2>3 DEF Opened
    <3>3. Dirs \ made # {} /\ entry' = [entry EXCEPT ![path[n]] = d]
      BY <1>5, <1>14, <3>1, <3>2 DEF MakeComponent
    <3>4. d \in Dirs /\ entry[d] = "none" /\ d # at[p]
      BY <1>1, <3>1, <3>3, NewIsNew DEF OnlyMade
    <3>5. n + 1 \in 0 .. Depth /\ longer \in [0 .. n + 1 -> AllDirs]
      BY <3>2, <3>4 DEF AllDirs
    <3>6. longer[n + 1] = d /\ \A k \in 0 .. n : longer[k] = path[k]
      BY <3>2
    <3> HIDE DEF longer
    <3>7. \A k \in 0 .. n - 1 : path[k] # path[n]
      BY <1>9, <1>11, <3>2
    <3>8. Chain(n + 1, longer)'
      <4>1. longer[0] = Top
        BY <1>7, <3>6 DEF Chain
      <4>2. \A k \in 0 .. n : entry'[longer[k]] = longer[k + 1]
        <5>1. entry'[path[n]] = d /\ \A k \in 0 .. n - 1 : entry'[path[k]] = entry[path[k]]
          BY <1>1, <3>2, <3>3, <3>7 DEF DirTypeOK
        <5>2. ASSUME NEW k \in 0 .. n - 1
              PROVE  longer[k] = path[k] /\ longer[k + 1] = path[k + 1]
          BY <3>6
        <5> QED
          BY <1>9, <3>6, <5>1, <5>2
      <4>3. entry'[longer[n + 1]] = "none"
        BY <1>1, <3>2, <3>3, <3>4, <3>6 DEF DirTypeOK, AllDirs
      <4> QED
        BY <4>1, <4>2, <4>3 DEF Chain
    <3>9. \A q \in Walkers : OnChain(n + 1, longer, q)'
      <4>1. ASSUME NEW q \in Walkers
            PROVE  OnChain(n + 1, longer, q)'
        <5>1. Opened(q)' = Opened(q) /\ at'[q] = at[q] /\ Opened(q) \in 0 .. n
          BY <1>10, <2>1 DEF Opened
        <5>2. at[q] = longer[Opened(q)]
          BY <1>10, <3>6
        <5>3. dpc'[q] # "refused"
          BY <1>1, <1>7, <2>1 DEF DirTypeOK, OnChain
        <5> QED
          BY <5>1, <5>2, <5>3 DEF OnChain
      <4> QED
        BY <4>1
    <3> QED
      BY <1>8, <3>5, <3>8, <3>9
  <2> QED
    BY <1>10, <2>2, <2>3
<1>15. ASSUME NEW p \in Walkers, StatComponent(p)
       PROVE  OnePath'
  <2>1. Opened(p) < n
    BY <1>7, <1>15 DEF StatComponent, OnChain
  <2>2. /\ dpc' = [dpc EXCEPT ![p] = "open"] /\ UNCHANGED << at, left, entry >>
    BY <1>10, <1>15, <2>1 DEF StatComponent, Found, To, Stay, tree_, AllDirs
  <2>3. OnChain(n, path, p)'
    BY <1>1, <1>7, <2>2 DEF DirTypeOK, OnChain, Opened
  <2> QED
    BY <1>1, <1>7, <1>8, <2>2, <2>3, PathStays DEF DirTypeOK
<1>16. ASSUME NEW p \in Walkers, CheckDir(p) \/ ChmodDir(p) \/ WalkFails(p)
       PROVE  OnePath'
  <2>1. /\ \E s \in {"chmod", "done", "failed"} : dpc' = [dpc EXCEPT ![p] = s]
        /\ UNCHANGED << at, left, entry >>
    BY <1>5, <1>16 DEF CheckDir, Refuses, ChmodDir, WalkFails, To, Stay, tree_
  <2>2. OnChain(n, path, p)'
    BY <1>1, <1>7, <2>1 DEF DirTypeOK, OnChain, Opened
  <2> QED
    BY <1>1, <1>7, <1>8, <2>1, <2>2, PathStays DEF DirTypeOK
<1> QED
  BY <1>3, <1>12, <1>13, <1>14, <1>15, <1>16 DEF WalkStep

(***************************************************************************)
(* The inductive invariant holds in every reachable state.                 *)
(***************************************************************************)
THEOREM DirInvariant == DirSpec => []DirInv
<1>1. DirInit => DirInv
  BY DirInitInv
<1>2. DirInv /\ [DirNext]_dirVars => DirInv'
  BY DirNextSafe, DirNextPath DEF DirInv
<1> QED
  BY <1>1, <1>2, PTL DEF DirSpec

(***************************************************************************)
(* ensure_dir returns the last component, its caller's own and closed to   *)
(* whom it should be closed, whatever other processes and the user do on   *)
(* the way.                                                                *)
(***************************************************************************)
THEOREM OwnDirReturned == DirSpec => []ReturnsOwnDir
<1>1. DirInv => ReturnsOwnDir
  BY DEF DirInv
<1> QED
  BY <1>1, DirInvariant, PTL

(***************************************************************************)
(* Any number of calls that make the same path at the same time, and       *)
(* nothing but that, are not refused and return the same directory.        *)
(***************************************************************************)
THEOREM WalksDoNotInterfere == DirSpec => []WalkRaceHarmless
<1>1. DirInv => WalkRaceHarmless
  BY EnsureDirAssumption
     DEF DirInv, DirTypeOK, OnePath, OnChain, Opened, LeftInTime, WalkRaceHarmless
<1> QED
  BY <1>1, DirInvariant, PTL

-----------------------------------------------------------------------------
(* ensure_file and make_private_passwd *)

\* Allocate takes an inode that nothing refers to.
LEMMA AllocateTakesUnused ==
  ASSUME NEW size, Allocate(size)
  PROVE  /\ Free \in Inodes /\ Unused(Free)
         /\ len' = [len EXCEPT ![Free] = size]
         /\ synced' = [synced EXCEPT ![Free] = size]
  BY DEF Allocate, Free

LEMMA FilesInitInv == FilesInit => FilesInv
  BY FilesAssumption
     DEF FilesInit, FilesInv, FilesTypeOK, FilePcs, MakesOwnFile, WholeInTime, Excused,
         NamedFilesWhole, RaceHarmless, Over

\* Every step preserves FilesInv.
LEMMA FilesNextInv == FilesInv /\ [FilesNext]_filesVars => FilesInv'
<1> SUFFICES ASSUME FilesInv, [FilesNext]_filesVars
             PROVE  FilesInv'
  OBVIOUS
<1> USE FilesAssumption
<1> USE DEF FilesInv, FilesTypeOK, MakesOwnFile, WholeInTime, Excused,
            NamedFilesWhole, RaceHarmless, Whole, names, data, Uncounted, Goto
<1>1. CASE UNCHANGED filesVars
  BY <1>1 DEF filesVars
<1>2. ASSUME NEW p \in Procs, OpenFile(p)
      PROVE  FilesInv'
  BY <1>2 DEF OpenFile, FilePcs, Over
<1>3. ASSUME NEW p \in Procs, UnlinkStale(p)
      PROVE  FilesInv'
  BY <1>3 DEF UnlinkStale, FilePcs, Over
<1>4. ASSUME NEW p \in Procs, CreateTmp(p)
      PROVE  FilesInv'
  BY <1>4, AllocateTakesUnused DEF CreateTmp, Unused, FilePcs, Over
<1>5. ASSUME NEW p \in Procs, WriteTmp(p)
      PROVE  FilesInv'
  BY <1>5 DEF WriteTmp
<1>6. ASSUME NEW p \in Procs, SyncTmp(p)
      PROVE  FilesInv'
  BY <1>6 DEF SyncTmp, FilePcs, Over
<1>7. ASSUME NEW p \in Procs, RenameTmp(p)
      PROVE  FilesInv'
  BY <1>7 DEF RenameTmp, FilePcs, Over
<1>8. ASSUME NEW p \in Procs, ReopenFile(p)
      PROVE  FilesInv'
  BY <1>8 DEF ReopenFile, FilePcs, Over
<1>9. ASSUME NEW p \in Procs, OpenPasswd(p)
      PROVE  FilesInv'
  BY <1>9 DEF OpenPasswd, FilePcs, Over
<1>10. ASSUME NEW p \in Procs, CreateUnnamed(p)
       PROVE  FilesInv'
  BY <1>10, AllocateTakesUnused DEF CreateUnnamed, Unused, FilePcs, Over
<1>11. ASSUME NEW p \in Procs, PutPasswd(p)
       PROVE  FilesInv'
  BY <1>11 DEF PutPasswd
<1>12. ASSUME NEW p \in Procs, FlushPasswd(p)
       PROVE  FilesInv'
  BY <1>12 DEF FlushPasswd, FilePcs, Over
<1>13. ASSUME NEW p \in Procs, LinkPasswd(p)
       PROVE  FilesInv'
  BY <1>13 DEF LinkPasswd, FilePcs, Over
<1>14. ASSUME NEW p \in Procs, ReopenPasswd(p)
       PROVE  FilesInv'
  BY <1>14 DEF ReopenPasswd, FilePcs, Over
<1>15. ASSUME NEW p \in Procs, FileFails(p)
       PROVE  FilesInv'
  BY <1>15 DEF FileFails, FilePcs, Over
<1>16. ASSUME NEW p \in Procs, Killed(p)
       PROVE  FilesInv'
  BY <1>16 DEF Killed, FilePcs, Over
<1>17. ASSUME NEW p \in Procs, Restart(p)
       PROVE  FilesInv'
  BY <1>17 DEF Restart, FilePcs, Over
<1>18. CASE PowerFails
  BY <1>18 DEF PowerFails, FilePcs, Over
<1>19. CASE UserRemoves
  BY <1>19 DEF UserRemoves
<1>20. CASE UserWrites
  BY <1>20, AllocateTakesUnused DEF UserWrites, Unused
<1> QED
  BY <1>1, <1>2, <1>3, <1>4, <1>5, <1>6, <1>7, <1>8, <1>9, <1>10, <1>11, <1>12,
     <1>13, <1>14, <1>15, <1>16, <1>17, <1>18, <1>19, <1>20
     DEF FilesNext, FileStep, PasswdStep

(***************************************************************************)
(* The inductive invariant holds in every reachable state.                 *)
(***************************************************************************)
THEOREM FilesInvariant == FilesSpec => []FilesInv
<1>1. FilesInit => FilesInv
  BY FilesInitInv
<1>2. FilesInv /\ [FilesNext]_filesVars => FilesInv'
  BY FilesNextInv
<1> QED
  BY <1>1, <1>2, PTL DEF FilesSpec

(***************************************************************************)
(* However many processes race, are killed and start again, and however    *)
(* often the power fails: no name refers to a file that is not whole, and  *)
(* ensure_file and make_private_passwd return none.                        *)
(***************************************************************************)
THEOREM NamesWholeFiles == FilesSpec => []NamedFilesWhole
<1>1. FilesInv => NamedFilesWhole
  BY DEF FilesInv
<1> QED
  BY <1>1, FilesInvariant, PTL

(***************************************************************************)
(* ensure_file renames the very file that it wrote, and fails for no other *)
(* reason than a system call or the user.                                  *)
(***************************************************************************)
THEOREM FileRaceHarmless == FilesSpec => []RaceHarmless
<1>1. FilesInv => RaceHarmless
  BY DEF FilesInv
<1> QED
  BY <1>1, FilesInvariant, PTL

(***************************************************************************)
(* Only a process that was killed leaves a temporary file behind.          *)
(***************************************************************************)
THEOREM LeavesNoLitter == FilesSpec => []NoLitter
<1>1. FilesInv => NoLitter
  BY DEF FilesInv, Excused, NoLitter, Over
<1> QED
  BY <1>1, FilesInvariant, PTL

(***************************************************************************)
(* No process takes the name of the passwd file from another's.            *)
(***************************************************************************)
THEOREM PasswdStays == FilesSpec => PasswdKept
<1>1. ASSUME [FilesNext]_filesVars
      PROVE  [passwd # None => passwd' \in {passwd, None}]_filesVars
  BY <1>1 DEF FilesNext, FileStep, PasswdStep, OpenFile, UnlinkStale, CreateTmp, WriteTmp,
              SyncTmp, RenameTmp, ReopenFile, OpenPasswd, CreateUnnamed, PutPasswd,
              FlushPasswd, LinkPasswd, ReopenPasswd, FileFails, Killed, Restart,
              PowerFails, UserRemoves, UserWrites, names, filesVars
<1> QED
  BY <1>1, PTL DEF FilesSpec, PasswdKept
=============================================================================
