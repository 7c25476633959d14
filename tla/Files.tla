-------------------------------- MODULE Files --------------------------------
(***************************************************************************)
(* The files that jai makes when they are missing: ensure_file (fs.cc),    *)
(* which writes a temporary file and renames it, and make_private_passwd   *)
(* (jai.cc), which writes a file without a name and links it.  Processes   *)
(* race one system call at a time; they fail and are killed between any    *)
(* two, and started again under the same process id; the machine may lose  *)
(* power; and the user may edit or remove the file of ensure_file.         *)
(*                                                                         *)
(* An inode holds Size units of content when it is whole.  What write has  *)
(* written is lost with the power unless fsync has returned since; the     *)
(* changes of names are not lost.                                          *)
(***************************************************************************)
EXTENDS Integers, FiniteSets

CONSTANTS
  Procs,     \* process ids: those of live processes differ
  Inodes,    \* what the files may be, on one file system
  None,      \* no inode
  Size,      \* the units of content of a whole file
  MaxKills,  \* the processes that are killed, and losses of power
  MaxEdits   \* the changes that the user makes to the file

ASSUME FilesAssumption ==
  /\ None \notin Inodes
  /\ Size \in Nat \ {0}
  /\ MaxKills \in Nat /\ MaxEdits \in Nat

VARIABLES
  fpc,      \* where each process is
  fd,       \* the inode that it has open
  file,     \* the inode that the name given to ensure_file refers to
  tmp,      \* those that the temporary names refer to, by process id
  passwd,   \* the inode that the name of make_private_passwd refers to
  len,      \* what has been written to each inode
  synced,   \* what of it would survive a loss of power
  kills, edits

names == << file, tmp, passwd >>
data == << len, synced >>
filesVars == << fpc, fd, names, data, kills, edits >>

Over == {"done", "failed", "refused", "dead"}

FilesInit ==
  /\ fpc \in [Procs -> {"open", "p_open"}]
  /\ fd = [p \in Procs |-> None]
  /\ file = None
  /\ tmp = [p \in Procs |-> None]
  /\ passwd = None
  /\ len = [i \in Inodes |-> 0]
  /\ synced = [i \in Inodes |-> 0]
  /\ kills = 0 /\ edits = 0

Goto(p, from, to) == fpc[p] = from /\ fpc' = [fpc EXCEPT ![p] = to]
Unused(i) ==
  /\ i # file /\ i # passwd
  /\ \A p \in Procs : i # tmp[p] /\ i # fd[p]
\* One inode that is not in use is as good as another.
Free == CHOOSE i \in Inodes : Unused(i)
Uncounted == UNCHANGED << kills, edits >>
Allocate(size) ==
  /\ \E i \in Inodes : Unused(i)
  /\ len' = [len EXCEPT ![Free] = size]
  /\ synced' = [synced EXCEPT ![Free] = size]

-----------------------------------------------------------------------------
(* ensure_file *)

\* The file is there, and is opened; or it is not.
OpenFile(p) ==
  /\ fpc[p] = "open"
  /\ fpc' = [fpc EXCEPT ![p] = IF file = None THEN "unlink" ELSE "done"]
  /\ fd' = [fd EXCEPT ![p] = file]
  /\ UNCHANGED << names, data >> /\ Uncounted

\* What an earlier process with the same id has left goes first.
UnlinkStale(p) ==
  /\ Goto(p, "unlink", "create")
  /\ tmp' = [tmp EXCEPT ![p] = None]
  /\ UNCHANGED << fd, file, passwd, data >> /\ Uncounted

\* Two processes with one temporary name: the name of the other refers to
\* the new file too.
CreateTmp_OneName(p) ==
  /\ Goto(p, "create", "write")
  /\ Allocate(0)
  /\ fd' = [fd EXCEPT ![p] = Free]
  /\ tmp' = [q \in Procs |-> Free]
  /\ UNCHANGED << file, passwd >> /\ Uncounted

\* O_CREAT | O_EXCL.
CreateTmp(p) ==
  /\ Goto(p, "create", "write")
  /\ tmp[p] = None
  /\ Allocate(0)
  /\ fd' = [fd EXCEPT ![p] = Free]
  /\ tmp' = [tmp EXCEPT ![p] = Free]
  /\ UNCHANGED << file, passwd >> /\ Uncounted

\* write may take less than it was given.
WriteTmp(p) ==
  /\ fpc[p] = "write"
  /\ len[fd[p]] < Size
  /\ \E n \in len[fd[p]] + 1 .. Size : len' = [len EXCEPT ![fd[p]] = n]
  /\ UNCHANGED << fpc, fd, names, synced >> /\ Uncounted

\* No fsync.
SyncTmp_Skipped(p) ==
  /\ Goto(p, "write", "rename")
  /\ len[fd[p]] = Size
  /\ UNCHANGED << fd, names, data >> /\ Uncounted

SyncTmp(p) ==
  /\ Goto(p, "write", "rename")
  /\ len[fd[p]] = Size
  /\ synced' = [synced EXCEPT ![fd[p]] = Size]
  /\ UNCHANGED << fd, names, len >> /\ Uncounted

\* rename takes the inode that has the temporary name.
RenameTmp(p) ==
  /\ Goto(p, "rename", "reopen")
  /\ tmp[p] # None
  /\ file' = tmp[p]
  /\ tmp' = [tmp EXCEPT ![p] = None]
  /\ UNCHANGED << fd, passwd, data >> /\ Uncounted

\* Whatever file is there by now; none, when the user has removed it.
ReopenFile(p) ==
  /\ fpc[p] = "reopen"
  /\ fpc' = [fpc EXCEPT ![p] = IF file = None THEN "refused" ELSE "done"]
  /\ fd' = [fd EXCEPT ![p] = file]
  /\ UNCHANGED << names, data >> /\ Uncounted

-----------------------------------------------------------------------------
(* make_private_passwd *)

OpenPasswd(p) ==
  /\ fpc[p] = "p_open"
  /\ fpc' = [fpc EXCEPT ![p] = IF passwd = None THEN "p_create" ELSE "done"]
  /\ fd' = [fd EXCEPT ![p] = passwd]
  /\ UNCHANGED << names, data >> /\ Uncounted

\* O_TMPFILE.
CreateUnnamed(p) ==
  /\ Goto(p, "p_create", "p_write")
  /\ Allocate(0)
  /\ fd' = [fd EXCEPT ![p] = Free]
  /\ UNCHANGED names /\ Uncounted

\* putpwent, as far as the buffer is flushed on the way.
PutPasswd(p) ==
  /\ fpc[p] = "p_write"
  /\ \E n \in len[fd[p]] + 1 .. Size - 1 : len' = [len EXCEPT ![fd[p]] = n]
  /\ UNCHANGED << fpc, fd, names, synced >> /\ Uncounted

FlushPasswd(p) ==
  /\ Goto(p, "p_write", "p_link")
  /\ len' = [len EXCEPT ![fd[p]] = Size]
  /\ UNCHANGED << fd, names, synced >> /\ Uncounted

\* rename instead of linkat, which takes the name from another's file.
LinkPasswd_Replaces(p) ==
  /\ Goto(p, "p_link", "p_reopen")
  /\ passwd' = fd[p]
  /\ UNCHANGED << fd, file, tmp, data >> /\ Uncounted

\* Another process may have linked its file first: EEXIST is no error.
LinkPasswd(p) ==
  /\ Goto(p, "p_link", "p_reopen")
  /\ passwd' = IF passwd = None THEN fd[p] ELSE passwd
  /\ UNCHANGED << fd, file, tmp, data >> /\ Uncounted

ReopenPasswd(p) ==
  /\ Goto(p, "p_reopen", "done")
  /\ fd' = [fd EXCEPT ![p] = passwd]
  /\ UNCHANGED << names, data >> /\ Uncounted

-----------------------------------------------------------------------------
(* Failures, and the user *)

\* A cleanup that is released before the rename.
FileFails_Released(p) ==
  /\ fpc[p] \notin Over
  /\ fpc' = [fpc EXCEPT ![p] = "failed"]
  /\ fd' = [fd EXCEPT ![p] = None]
  /\ tmp' = IF fpc[p] = "write" THEN [tmp EXCEPT ![p] = None] ELSE tmp
  /\ UNCHANGED << file, passwd, data >> /\ Uncounted

\* A system call fails, and the exception runs cleanup.
FileFails(p) ==
  /\ fpc[p] \notin Over
  /\ fpc' = [fpc EXCEPT ![p] = "failed"]
  /\ fd' = [fd EXCEPT ![p] = None]
  /\ tmp' = IF fpc[p] \in {"create", "write", "rename"}
              THEN [tmp EXCEPT ![p] = None] ELSE tmp
  /\ UNCHANGED << file, passwd, data >> /\ Uncounted

Killed(p) ==
  /\ kills < MaxKills
  /\ kills' = kills + 1
  /\ fpc[p] \notin Over
  /\ fpc' = [fpc EXCEPT ![p] = "dead"]
  /\ fd' = [fd EXCEPT ![p] = None]
  /\ UNCHANGED << names, data, edits >>

\* The process id is used again.
Restart(p) ==
  /\ fpc[p] = "dead"
  /\ \E start \in {"open", "p_open"} : fpc' = [fpc EXCEPT ![p] = start]
  /\ UNCHANGED << fd, names, data >> /\ Uncounted

\* /run/jai, where passwd is, does not outlive the system.
PowerFails ==
  /\ kills < MaxKills
  /\ kills' = kills + 1
  /\ fpc' = [p \in Procs |-> "dead"]
  /\ fd' = [p \in Procs |-> None]
  /\ passwd' = None
  /\ \E lost \in SUBSET {i \in Inodes : i = file \/ \E p \in Procs : i = tmp[p]} :
       len' = [i \in Inodes |-> IF i \in lost THEN synced[i] ELSE len[i]]
  /\ UNCHANGED << file, tmp, synced, edits >>

\* The user removes the file, or writes another in its place.
UserRemoves ==
  /\ edits < MaxEdits
  /\ edits' = edits + 1
  /\ file # None
  /\ file' = None
  /\ UNCHANGED << fpc, fd, tmp, passwd, data, kills >>

UserWrites ==
  /\ edits < MaxEdits
  /\ edits' = edits + 1
  /\ Allocate(Size)
  /\ file' = Free
  /\ UNCHANGED << fpc, fd, tmp, passwd, kills >>

FileStep(p) ==
  \/ OpenFile(p) \/ UnlinkStale(p) \/ CreateTmp(p) \/ WriteTmp(p) \/ SyncTmp(p)
  \/ RenameTmp(p) \/ ReopenFile(p)
PasswdStep(p) ==
  \/ OpenPasswd(p) \/ CreateUnnamed(p) \/ PutPasswd(p) \/ FlushPasswd(p)
  \/ LinkPasswd(p) \/ ReopenPasswd(p)

FilesNext ==
  \/ \E p \in Procs : FileStep(p) \/ PasswdStep(p) \/ FileFails(p) \/ Killed(p) \/ Restart(p)
  \/ PowerFails \/ UserRemoves \/ UserWrites

FilesSpec == FilesInit /\ [][FilesNext]_filesVars

-----------------------------------------------------------------------------
(* Properties *)

FilePcs == {"open", "unlink", "create", "write", "rename", "reopen",
            "p_open", "p_create", "p_write", "p_link", "p_reopen"} \cup Over

FilesTypeOK ==
  /\ fpc \in [Procs -> FilePcs]
  /\ fd \in [Procs -> Inodes \cup {None}]
  /\ file \in Inodes \cup {None}
  /\ tmp \in [Procs -> Inodes \cup {None}]
  /\ passwd \in Inodes \cup {None}
  /\ len \in [Inodes -> 0 .. Size] /\ synced \in [Inodes -> 0 .. Size]
  /\ kills \in 0 .. MaxKills /\ edits \in 0 .. MaxEdits

Whole(i) == len[i] = Size

(***************************************************************************)
(* A name that other processes look up never refers to a file that is not  *)
(* whole, not while its content is written and not after a kill or a loss  *)
(* of power; and what ensure_file and make_private_passwd return is open   *)
(* on a whole file (the temporary file, the loop on write, fsync and       *)
(* rename; the flush before linkat).                                       *)
(***************************************************************************)
NamedFilesWhole ==
  /\ file # None => Whole(file)
  /\ passwd # None => Whole(passwd)
  /\ \A p \in Procs : fpc[p] = "done" => fd[p] # None /\ Whole(fd[p])

(***************************************************************************)
(* The passwd file is never replaced by another while a jail may run on    *)
(* it, whoever won the race for the name (EEXIST after linkat).            *)
(***************************************************************************)
PasswdKept == [][passwd # None => passwd' \in {passwd, None}]_filesVars

(***************************************************************************)
(* A call that has returned or failed has left no temporary file behind:   *)
(* only one that was killed does (cleanup in ensure_file).                 *)
(***************************************************************************)
NoLitter == kills = 0 => \A p \in Procs : fpc[p] \in Over => tmp[p] = None

(***************************************************************************)
(* Processes that make the same file do not get in each other's way: each  *)
(* finds the temporary file that it wrote under its name, and the call     *)
(* fails only when the user removes the file under it (the process id in   *)
(* the temporary name).                                                    *)
(***************************************************************************)
RaceHarmless ==
  \A p \in Procs :
    /\ fpc[p] \in {"write", "rename"} => tmp[p] = fd[p]
    /\ fpc[p] = "refused" => edits > 0

-----------------------------------------------------------------------------
(***************************************************************************)
(* The inductive invariant.  A file that a process still makes is open in  *)
(* no other process and has no name but its temporary one; and how much of *)
(* it has reached the disk goes with where the process is.                 *)
(***************************************************************************)
MakesOwnFile ==
  \A p \in Procs : fpc[p] \in {"write", "rename", "p_write", "p_link"} =>
    /\ fd[p] \in Inodes \ {file, passwd}
    /\ \A q \in Procs \ {p} : fd[q] # fd[p]
WholeInTime ==
  /\ \A p \in Procs : /\ fpc[p] \in {"rename", "p_link"} => Whole(fd[p])
                      /\ fpc[p] = "rename" => synced[fd[p]] = Size
                      /\ fpc[p] = "p_reopen" => passwd # None
  /\ file # None => synced[file] = Size
Excused ==
  \A p \in Procs :
    /\ fpc[p] = "reopen" /\ file = None => edits > 0
    /\ fpc[p] = "dead" => kills > 0
    /\ kills = 0 /\ fpc[p] \notin {"write", "rename"} => tmp[p] = None
FilesInv ==
  /\ FilesTypeOK /\ MakesOwnFile /\ WholeInTime /\ Excused
  /\ NamedFilesWhole /\ RaceHarmless
=============================================================================
