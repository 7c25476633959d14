----------------------------- MODULE MCLibrary -----------------------------
(***************************************************************************)
(* jai's library functions (fs.cc, options.cc, jai.cc).  A process calls   *)
(* ensure_dir, ensure_file, make_private_passwd and the option parser one  *)
(* after the other, on names and texts that have nothing to do with each   *)
(* other: the modules are checked side by side.                            *)
(***************************************************************************)
EXTENDS Files, EnsureDir, MCOptions

\* What is not called is in one of its initial states.
NoFiles == FilesInit /\ fpc = [p \in Procs |-> "open"]
NoDirs == DirInit /\ follow /\ okay_if_other_owner

Init ==
  \/ call = "ensure_file" /\ FilesInit /\ NoDirs /\ NoText /\ NoArgs
  \/ call = "ensure_dir" /\ DirInit /\ NoFiles /\ NoText /\ NoArgs
  \/ OptionsInit /\ NoFiles /\ NoDirs
Walk(p) ==
  call = "ensure_dir" /\ WalkStep(p) /\ UNCHANGED << filesVars, optionsVars >>
Next ==
  \/ call = "ensure_file" /\ FilesNext /\ UNCHANGED << dirVars, optionsVars >>
  \/ call = "ensure_dir" /\ DirNext /\ UNCHANGED << filesVars, optionsVars >>
  \/ OptionsNext /\ UNCHANGED << filesVars, dirVars >>
vars == << filesVars, dirVars, optionsVars >>
Spec == Init /\ [][Next]_vars /\ \A p \in Walkers : WF_vars(Walk(p))

(***************************************************************************)
(* EnsureDirReturns, where ensure_dir is called.                           *)
(***************************************************************************)
WalksEnd == call = "ensure_dir" => EnsureDirReturns
=============================================================================
