------------------------------ MODULE EnsureDir ------------------------------
(***************************************************************************)
(* ensure_dir (fs.cc), which opens a path component by component and makes *)
(* what is missing, one system call at a time, while other processes do    *)
(* the same and the user changes the directories on the way.               *)
(*                                                                         *)
(* Each directory has one name that matters, the next component of the     *)
(* path; entry tells what the name refers to.                              *)
(***************************************************************************)
EXTENDS Integers, FiniteSets

CONSTANTS
  Walkers,    \* the processes that call ensure_dir, for one path
  Dirs,       \* the directories there may be
  Top,        \* the one that the path starts in, which nobody changes
  Elsewhere,  \* one that only a symbolic link leads to
  Depth,      \* the number of components of the path
  MaxChanges  \* the changes that the user makes

ASSUME EnsureDirAssumption ==
  /\ Top \notin Dirs /\ Elsewhere \notin Dirs /\ Top # Elsewhere
  /\ (Dirs \cup {Top, Elsewhere}) \cap {"dangling", "link", "file", "none"} = {}
  /\ Depth \in Nat \ {0}
  /\ MaxChanges \in Nat

VARIABLES
  dpc,    \* where each process is
  at,     \* the directory that it has open
  left,   \* the components that it has not opened yet
  follow, \* whether the calls follow symbolic links
  okay_if_other_owner,
  entry,  \* what the name in each directory refers to
  made,   \* the directories that have been made so far
  gone,   \* those that have been removed
  wide,   \* those with permissions that the call does not allow
  alien,  \* those that belong to another user
  changes

tree_ == << entry, made, gone, wide, alien >>
dirVars == << dpc, at, left, follow, okay_if_other_owner, tree_, changes >>

AllDirs == Dirs \cup {Top, Elsewhere}
\* A symbolic link to nothing, one to Elsewhere, a file, or no such name.
Entries == Dirs \cup {"dangling", "link", "file", "none"}

\* What a lookup that follows links, or does not, finds under a name.
Found(e, following) ==
  IF e = "link" THEN IF following THEN Elsewhere ELSE "link"
  ELSE IF e = "dangling" THEN IF following THEN "none" ELSE "link"
  ELSE e

DirInit ==
  /\ dpc = [p \in Walkers |-> "open"]
  /\ at = [p \in Walkers |-> Top]
  /\ left = [p \in Walkers |-> Depth]
  /\ follow \in BOOLEAN
  /\ okay_if_other_owner \in BOOLEAN
  /\ entry = [i \in AllDirs |-> "none"]
  /\ made = {} /\ gone = {} /\ wide = {} /\ alien = {}
  /\ changes = 0

To(p, s) == dpc' = [dpc EXCEPT ![p] = s]
Stay(p) == UNCHANGED << at, left, follow, okay_if_other_owner, changes >>

\* openat(dfd, component, O_DIRECTORY).
OpenComponent(p) ==
  LET e == Found(entry[at[p]], follow)
  IN  /\ dpc[p] = "open"
      /\ IF e \in AllDirs
           THEN /\ at' = [at EXCEPT ![p] = e]
                /\ left' = [left EXCEPT ![p] = @ - 1]
                /\ To(p, IF left[p] = 1 THEN "check" ELSE "open")
           ELSE /\ To(p, IF e = "none" THEN "mkdir" ELSE "refused")
                /\ UNCHANGED << at, left >>
      /\ UNCHANGED << follow, okay_if_other_owner, tree_, changes >>

\* One new directory is as good as another.
New == CHOOSE i \in Dirs : i \notin made

\* mkdirat whose EEXIST is an error.
MakeComponent_Strict(p) ==
  /\ dpc[p] = "mkdir"
  /\ IF entry[at[p]] = "none" /\ at[p] \notin gone
       THEN /\ Dirs \ made # {}
            /\ entry' = [entry EXCEPT ![at[p]] = New]
            /\ made' = made \cup {New}
            /\ To(p, "stat")
       ELSE To(p, "refused") /\ UNCHANGED << entry, made >>
  /\ UNCHANGED << gone, wide, alien >> /\ Stay(p)

\* mkdirat: a name that is there by now, even of a dangling link, is no
\* error, but there are no names in a directory that has been removed.
MakeComponent(p) ==
  /\ dpc[p] = "mkdir"
  /\ \/ /\ entry[at[p]] = "none" /\ at[p] \notin gone
        /\ Dirs \ made # {}
        /\ entry' = [entry EXCEPT ![at[p]] = New]
        /\ made' = made \cup {New}
        /\ To(p, "stat")
     \/ /\ entry[at[p]] # "none"
        /\ To(p, "stat")
        /\ UNCHANGED << entry, made >>
     \/ /\ at[p] \in gone
        /\ To(p, "refused")
        /\ UNCHANGED << entry, made >>
  /\ UNCHANGED << gone, wide, alien >> /\ Stay(p)

\* No fstatat: whatever mkdir said, the component is opened again.
StatComponent_Skipped(p) ==
  /\ dpc[p] = "stat"
  /\ To(p, "open")
  /\ UNCHANGED tree_ /\ Stay(p)

\* fstatat, which follows links, keeps the loop from going round for ever.
StatComponent(p) ==
  /\ dpc[p] = "stat"
  /\ To(p, IF Found(entry[at[p]], TRUE) \in AllDirs THEN "open" ELSE "refused")
  /\ UNCHANGED tree_ /\ Stay(p)

Refuses(i) == ~okay_if_other_owner /\ i \in alien

\* No fchmod of a directory that was there.
CheckDir_KeepsMode(p) ==
  /\ dpc[p] = "check"
  /\ To(p, IF Refuses(at[p]) THEN "refused" ELSE "done")
  /\ UNCHANGED tree_ /\ Stay(p)

\* fstat: the owner of what the path leads to, and whether its permissions
\* are to change.  (The group, which root sets to 0, is left out.)
CheckDir(p) ==
  /\ dpc[p] = "check"
  /\ To(p, IF Refuses(at[p]) THEN "refused"
            ELSE IF at[p] \in wide THEN "chmod" ELSE "done")
  /\ UNCHANGED tree_ /\ Stay(p)

ChmodDir(p) ==
  /\ dpc[p] = "chmod"
  /\ wide' = wide \ {at[p]}
  /\ To(p, "done")
  /\ UNCHANGED << entry, made, gone, alien >> /\ Stay(p)

WalkStep(p) ==
  \/ OpenComponent(p) \/ MakeComponent(p) \/ StatComponent(p)
  \/ CheckDir(p) \/ ChmodDir(p)

\* A system call fails.
WalkFails(p) ==
  /\ dpc[p] \in {"open", "mkdir", "stat", "check", "chmod"}
  /\ To(p, "failed")
  /\ UNCHANGED tree_ /\ Stay(p)

-----------------------------------------------------------------------------
(* The user makes a directory, a link or a file, or removes one: the        *)
(* directories with contents stay.                                          *)

Changing ==
  /\ changes < MaxChanges
  /\ changes' = changes + 1
  /\ UNCHANGED << dpc, at, left, follow, okay_if_other_owner >>

UserMakesDir ==
  /\ Changing
  /\ Dirs \ made # {}
  /\ \E i \in (made \ gone) \cup {Top} :
       /\ entry[i] = "none"
       /\ entry' = [entry EXCEPT ![i] = New]
  /\ made' = made \cup {New}
  /\ wide' = wide \cup {New}
  /\ alien' \in {alien, alien \cup {New}}
  /\ UNCHANGED gone

UserMakesOther ==
  /\ Changing
  /\ \E i \in (made \ gone) \cup {Top}, e \in {"dangling", "link", "file"} :
       /\ entry[i] = "none"
       /\ entry' = [entry EXCEPT ![i] = e]
  /\ UNCHANGED << made, gone, wide, alien >>

UserRemovesEntry ==
  /\ Changing
  /\ \E i \in (made \ gone) \cup {Top} :
       /\ entry[i] # "none"
       /\ entry[i] \in Dirs => entry[entry[i]] = "none"
       /\ entry' = [entry EXCEPT ![i] = "none"]
       /\ gone' = gone \cup ({entry[i]} \cap Dirs)
  /\ UNCHANGED << made, wide, alien >>

DirNext ==
  \/ \E p \in Walkers : WalkStep(p) \/ WalkFails(p)
  \/ UserMakesDir \/ UserMakesOther \/ UserRemovesEntry

DirSpec == DirInit /\ [][DirNext]_dirVars /\ \A p \in Walkers : WF_dirVars(WalkStep(p))

-----------------------------------------------------------------------------
(* Properties *)

DirTypeOK ==
  /\ dpc \in [Walkers -> {"open", "mkdir", "stat", "check", "chmod", "done", "refused",
                      "failed"}]
  /\ at \in [Walkers -> AllDirs]
  /\ left \in [Walkers -> 0 .. Depth]
  /\ follow \in BOOLEAN /\ okay_if_other_owner \in BOOLEAN
  /\ entry \in [AllDirs -> Entries]
  /\ gone \subseteq made /\ made \subseteq Dirs
  /\ wide \subseteq made /\ alien \subseteq made
  /\ changes \in 0 .. MaxChanges

(***************************************************************************)
(* What ensure_dir returns is the last component, the caller's own unless  *)
(* it does not mind, and with no permission but those it asked for, also   *)
(* when another process or the user made it (fstat and fchmod at the end). *)
(***************************************************************************)
ReturnsOwnDir ==
  \A p \in Walkers : dpc[p] = "done" =>
    left[p] = 0 /\ at[p] \notin wide /\ ~Refuses(at[p])

(***************************************************************************)
(* Processes that make the same directories do not get in each other's     *)
(* way: without a change by the user no call is refused, and all return    *)
(* the same directory (EEXIST after mkdirat).                              *)
(***************************************************************************)
WalkRaceHarmless ==
  changes = 0 => \A p \in Walkers :
    /\ dpc[p] # "refused"
    /\ \A q \in Walkers : dpc[p] = "done" /\ dpc[q] = "done" => at[p] = at[q]

(***************************************************************************)
(* Every call of ensure_dir ends: no entry, in particular no dangling      *)
(* link, keeps it between openat and mkdirat, once the user leaves the     *)
(* directories alone (fstatat).                                            *)
(***************************************************************************)
EnsureDirReturns ==
  \A p \in Walkers : <>(dpc[p] \in {"done", "refused", "failed"})

-----------------------------------------------------------------------------
(***************************************************************************)
(* The inductive invariant.  Only what has been made can be found, and     *)
(* nothing is in what has not been made.  As long as the user changes      *)
(* nothing, there is one path from Top, which mkdirat makes longer and     *)
(* never changes, and a process that has opened k components is at its     *)
(* k-th directory.                                                         *)
(***************************************************************************)
OnlyMade ==
  /\ \A i \in AllDirs : entry[i] \in Dirs => entry[i] \in made
  /\ \A i \in Dirs \ made : entry[i] = "none"
  /\ \A p \in Walkers : at[p] \in made \cup {Top, Elsewhere}
LeftInTime ==
  \A p \in Walkers :
    /\ dpc[p] \in {"open", "mkdir", "stat"} => left[p] > 0
    /\ dpc[p] \in {"check", "chmod", "done"} => left[p] = 0
OwnerChecked == \A p \in Walkers : dpc[p] = "chmod" => ~Refuses(at[p])
Chain(n, path) ==
  /\ path[0] = Top
  /\ \A k \in 0 .. n - 1 : entry[path[k]] = path[k + 1]
  /\ entry[path[n]] = "none"
Opened(p) == Depth - left[p]
OnChain(n, path, p) ==
  /\ Opened(p) <= n /\ at[p] = path[Opened(p)]
  /\ dpc[p] = "stat" => Opened(p) < n
  /\ dpc[p] # "refused"
OnePath ==
  changes = 0 =>
    /\ gone = {} /\ alien = {}
    /\ \E n \in 0 .. Depth : \E path \in [0 .. n -> AllDirs] :
         Chain(n, path) /\ \A p \in Walkers : OnChain(n, path, p)
DirInv == DirTypeOK /\ OnlyMade /\ LeftInTime /\ OwnerChecked /\ ReturnsOwnDir /\ OnePath
=============================================================================
