----------------------------- MODULE JobControl -----------------------------
(***************************************************************************)
(* Config::exec: the three processes of a running jail and the job control *)
(* between them.                                                           *)
(*                                                                         *)
(*   J  the jai process that the user's shell started (parent_loop)        *)
(*   I  PID 1 of the jail's PID namespace (pid1)                           *)
(*   C  the jailed program (pid2)                                          *)
(*                                                                         *)
(* I sees what happens to C, J sees what happens to I.  I cannot stop      *)
(* itself, so it asks J over a pipe, and J stops I and then itself.        *)
(*                                                                         *)
(* The kernel's part is modelled as far as the code depends on it: stop    *)
(* and continue cancel each other while pending, a SIGSTOP from another    *)
(* process takes effect a little later, a blocked SIGCHLD stays pending    *)
(* until somebody takes it, and no signal that PID 1 sends to itself with  *)
(* the default action has any effect.                                      *)
(***************************************************************************)
EXTENDS SequencesExt, Naturals

CONSTANT MaxStops  \* bound: how many times the program or the terminal stops

ASSUME MaxStopsAssumption == MaxStops \in Nat

None == "none"  \* no signal
StopSigs == {"TSTP", "STOP"}  \* SIGTTIN and SIGTTOU are treated like SIGTSTP

\* How a process can end: an exit status or a signal.
Exit(code) == << "exit", code >>
Killed(sig) == << "killed", sig >>
Alive == << "alive", None >>
Ends == {Exit("0"), Exit("1"), Exit("255"), Killed("TERM"), Killed("KILL")}

VARIABLES
  orphaned,   \* J's process group is orphaned (no job-control shell)
  same,       \* C stays in J's process group
  jpc,        \* where J is in exec and parent_loop
  jstop,      \* what J is stopped by: a signal, or None when it runs
  nextSig,    \* my_next_stop_sig
  raising,    \* the signal that J is about to raise
  continued,  \* the flag that J's SIGCONT handler sets
  jcont,      \* a SIGCONT whose handler J has yet to run
  sigchld,    \* SIGCHLD is pending for J: its signalfd is readable
  jend,       \* how J ended, or Alive
  pipe,       \* the stop_me pipe
  ipc,        \* where I is in pid1
  istop,      \* "no", "pending" (SIGSTOP sent), "stopped", "waited" (and J knows)
  icont,      \* a SIGCONT whose handler I has yet to run
  isig,       \* the stop signal that I is about to write
  iend,       \* how I ended, or Alive
  deathsig,   \* I has set PR_SET_PDEATHSIG
  cstop,      \* what C is stopped by, or None
  creport,    \* C's stop is yet to be waited for
  cend,       \* how C ended, or Alive
  stops       \* how many stops there have been

jVars == << jpc, jstop, nextSig, raising, continued, jcont, sigchld, jend >>
iVars == << ipc, istop, icont, isig, iend, deathsig >>
cVars == << cstop, creport, cend >>
topology == << orphaned, same >>
vars == << topology, jVars, pipe, iVars, cVars, stops >>

Init ==
  /\ orphaned \in BOOLEAN
  /\ same \in BOOLEAN
  /\ jpc = "read" /\ jstop = None /\ nextSig = None /\ raising = None
  /\ continued = FALSE /\ jcont = FALSE /\ sigchld = FALSE /\ jend = Alive
  /\ pipe = << >>
  /\ ipc = "prctl" /\ istop = "no" /\ icont = FALSE /\ isig = None
  /\ iend = Alive /\ deathsig = FALSE
  /\ cstop = None /\ creport = FALSE /\ cend = Alive
  /\ stops = 0

Forked == ipc \in {"sigaction", "wait", "write"}
CRuns == Forked /\ cend = Alive /\ cstop = None
JReady == jend = Alive /\ jstop = None /\ ~jcont
IReady == iend = Alive /\ istop \in {"no", "pending"} /\ ~icont

\* SIGCHLD for J, which is discarded as long as J has not blocked it.
NotifyJ == sigchld' = (sigchld \/ jpc \notin {"read", "setup"})

-----------------------------------------------------------------------------
(* J: exec after the fork, then parent_loop *)

\* The first byte of the pipe, or end of file when I is gone already.
ReadProbe ==
  /\ JReady
  /\ jpc = "read"
  /\ pipe # << >> \/ iend # Alive
  /\ jpc' = "setup"
  /\ pipe' = IF pipe = << >> THEN << >> ELSE Tail(pipe)
  /\ UNCHANGED << topology, jstop, nextSig, raising, continued, jcont, sigchld,
                  jend, iVars, cVars, stops >>

\* Block SIGCHLD, open the signalfd, install the SIGCONT handler.
SetUp ==
  /\ JReady
  /\ jpc = "setup"
  /\ jpc' = "poll"
  /\ UNCHANGED << topology, jstop, nextSig, raising, continued, jcont, sigchld,
                  jend, pipe, iVars, cVars, stops >>

\* J keeps the write end of the pipe, so that it never sees a hang-up.
Poll_NoHangup ==
  /\ JReady
  /\ jpc = "poll"
  /\ pipe # << >> \/ sigchld
  /\ jpc' = "wait"
  /\ UNCHANGED << topology, jstop, nextSig, raising, continued, jcont, sigchld,
                  jend, pipe, iVars, cVars, stops >>

\* The pipe is readable or has lost its last writer, or SIGCHLD is pending.
\* Nobody ever reads the signalfd, so that sigchld stays TRUE once it is.
Poll ==
  /\ JReady
  /\ jpc = "poll"
  /\ pipe # << >> \/ iend # Alive \/ sigchld
  /\ jpc' = "wait"
  /\ UNCHANGED << topology, jstop, nextSig, raising, continued, jcont, sigchld,
                  jend, pipe, iVars, cVars, stops >>

\* waitpid reports that I has stopped.
WaitStopped ==
  /\ JReady
  /\ jpc = "wait"
  /\ iend = Alive /\ istop = "stopped"
  /\ istop' = "waited"
  /\ raising' = IF nextSig = None THEN "STOP" ELSE nextSig
  /\ nextSig' = None
  /\ continued' = FALSE
  /\ jpc' = "raise"
  /\ UNCHANGED << topology, jstop, jcont, sigchld, jend, pipe, ipc, icont, isig,
                  iend, deathsig, cVars, stops >>

\* waitpid reports that I has ended; propagate_termination_status ends J alike.
WaitEnded ==
  /\ JReady
  /\ jpc = "wait"
  /\ iend # Alive
  /\ jend' = iend
  /\ UNCHANGED << topology, jpc, jstop, nextSig, raising, continued, jcont,
                  sigchld, pipe, iVars, cVars, stops >>

WaitNothing ==
  /\ JReady
  /\ jpc = "wait"
  /\ iend = Alive /\ istop # "stopped"
  /\ jpc' = "drain"
  /\ UNCHANGED << topology, jstop, nextSig, raising, continued, jcont, sigchld,
                  jend, pipe, iVars, cVars, stops >>

\* raise(sig), which an orphaned process group ignores unless it is SIGSTOP.
Raise ==
  /\ JReady
  /\ jpc = "raise"
  /\ jstop' = IF orphaned /\ raising # "STOP" THEN None ELSE raising
  /\ jpc' = "check"
  /\ UNCHANGED << topology, nextSig, raising, continued, jcont, sigchld, jend,
                  pipe, iVars, cVars, stops >>

\* No SIGSTOP for a raise that an orphaned process group ignored.
Check_NoFallback ==
  /\ JReady
  /\ jpc = "check"
  /\ jpc' = "wait"
  /\ UNCHANGED << topology, jstop, nextSig, raising, continued, jcont, sigchld,
                  jend, pipe, iVars, cVars, stops >>

\* if (continued == 0) raise(SIGSTOP)
Check ==
  /\ JReady
  /\ jpc = "check"
  /\ jstop' = IF continued THEN None ELSE "STOP"
  /\ jpc' = "wait"
  /\ UNCHANGED << topology, nextSig, raising, continued, jcont, sigchld, jend,
                  pipe, iVars, cVars, stops >>

\* my_next_stop_sig = drain_pipe()
Drain ==
  /\ JReady
  /\ jpc = "drain"
  /\ nextSig' = IF pipe = << >> THEN None ELSE Last(pipe)
  /\ pipe' = << >>
  /\ jpc' = IF pipe = << >> THEN "poll" ELSE "kill"
  /\ UNCHANGED << topology, jstop, raising, continued, jcont, sigchld, jend,
                  iVars, cVars, stops >>

\* kill(pid, SIGSTOP), which also cancels a SIGCONT that I has not handled.
Kill ==
  /\ JReady
  /\ jpc = "kill"
  /\ istop' = IF istop = "no" /\ iend = Alive THEN "pending" ELSE istop
  /\ icont' = FALSE
  /\ jpc' = "poll"
  /\ UNCHANGED << topology, jstop, nextSig, raising, continued, jcont, sigchld,
                  jend, pipe, ipc, isig, iend, deathsig, cVars, stops >>

\* J's SIGCONT handler runs before anything else J does.
JHandler ==
  /\ jend = Alive /\ jstop = None
  /\ jcont
  /\ jcont' = FALSE
  /\ continued' = TRUE
  /\ pipe' = << >>
  /\ UNCHANGED << topology, jpc, jstop, nextSig, raising, sigchld, jend, iVars,
                  cVars, stops >>

-----------------------------------------------------------------------------
(* I: pid1 *)

\* xsetns throws, or fix_proc gives up.
StartFails ==
  /\ IReady
  /\ ipc = "prctl"
  /\ iend' = Exit("1")
  /\ NotifyJ
  /\ UNCHANGED << topology, jpc, jstop, nextSig, raising, continued, jcont, jend,
                  pipe, ipc, istop, icont, isig, deathsig, cVars, stops >>

Prctl ==
  /\ IReady
  /\ ipc = "prctl"
  /\ deathsig' = TRUE
  /\ ipc' = "probe"
  /\ UNCHANGED << topology, jVars, pipe, istop, icont, isig, iend, cVars, stops >>

\* A write whose result nobody looks at.
Probe_Unchecked ==
  /\ IReady
  /\ ipc = "probe"
  /\ pipe' = Append(pipe, "probe")
  /\ ipc' = "fork"
  /\ UNCHANGED << topology, jVars, istop, icont, isig, iend, deathsig, cVars,
                  stops >>

\* One byte that nobody can read any more if J ended before the prctl.
Probe ==
  /\ IReady
  /\ ipc = "probe"
  /\ \/ /\ jend = Alive
        /\ pipe' = Append(pipe, "probe")
        /\ ipc' = "fork"
        /\ UNCHANGED << iend, sigchld >>
     \/ /\ jend # Alive
        /\ iend' = Exit("1")
        /\ NotifyJ
        /\ UNCHANGED << pipe, ipc >>
  /\ UNCHANGED << topology, jpc, jstop, nextSig, raising, continued, jcont, jend,
                  istop, icont, isig, deathsig, cVars, stops >>

\* C starts, or xfork throws.
Fork ==
  /\ IReady
  /\ ipc = "fork"
  /\ \/ ipc' = "sigaction" /\ UNCHANGED << iend, sigchld >>
     \/ iend' = Exit("1") /\ NotifyJ /\ UNCHANGED ipc
  /\ UNCHANGED << topology, jpc, jstop, nextSig, raising, continued, jcont, jend,
                  pipe, istop, icont, isig, deathsig, cVars, stops >>

Sigaction ==
  /\ IReady
  /\ ipc = "sigaction"
  /\ ipc' = "wait"
  /\ UNCHANGED << topology, jVars, pipe, istop, icont, isig, iend, deathsig,
                  cVars, stops >>

\* wait_propagate returns the signal that stopped C.
WaitC ==
  /\ IReady
  /\ ipc = "wait"
  /\ cend = Alive /\ creport
  /\ isig' = cstop
  /\ creport' = FALSE
  /\ ipc' = "write"
  /\ UNCHANGED << topology, jVars, pipe, istop, icont, iend, deathsig, cstop,
                  cend, stops >>

\* WIFEXITED and WIFSIGNALED mixed up.
EndOfInit_Swapped(end) == IF end[1] = "exit" THEN Exit("255") ELSE end

\* propagate_termination_status in PID 1: the signal it raises has no effect,
\* and _exit(-1) follows.
EndOfInit(end) == IF end[1] = "killed" THEN Exit("255") ELSE end

WaitCEnded ==
  /\ IReady
  /\ ipc = "wait"
  /\ cend # Alive
  /\ iend' = EndOfInit(cend)
  /\ NotifyJ
  /\ UNCHANGED << topology, jpc, jstop, nextSig, raising, continued, jcont, jend,
                  pipe, ipc, istop, icont, isig, deathsig, cVars, stops >>

Write ==
  /\ IReady
  /\ ipc = "write"
  /\ pipe' = Append(pipe, isig)
  /\ ipc' = "wait"
  /\ UNCHANGED << topology, jVars, istop, icont, isig, iend, deathsig, cVars,
                  stops >>

\* I's SIGCONT handler passes the signal on to C's own process group.
IHandler ==
  /\ iend = Alive /\ istop \in {"no", "pending"}
  /\ icont
  /\ icont' = FALSE
  /\ cstop' = IF same THEN cstop ELSE None
  /\ creport' = (creport /\ same)
  /\ UNCHANGED << topology, jVars, pipe, ipc, istop, isig, iend, deathsig, cend,
                  stops >>

\* The SIGSTOP from J takes effect.
IStops ==
  /\ iend = Alive /\ istop = "pending"
  /\ istop' = "stopped"
  /\ NotifyJ
  /\ UNCHANGED << topology, jpc, jstop, nextSig, raising, continued, jcont, jend,
                  pipe, ipc, icont, isig, iend, deathsig, cVars, stops >>

-----------------------------------------------------------------------------
(* C, the terminal, the shell and whoever kills *)

CStops(sig) ==
  /\ CRuns
  /\ stops < MaxStops
  /\ orphaned /\ same => sig = "STOP"
  /\ cstop' = sig
  /\ creport' = TRUE
  /\ stops' = stops + 1
  /\ UNCHANGED << topology, jVars, pipe, iVars, cend >>

CEnds(end) ==
  /\ CRuns
  /\ cend' = end
  /\ UNCHANGED << topology, jVars, pipe, iVars, cstop, creport, stops >>

\* The terminal sends SIGTSTP to J's process group; PID 1 does not notice.
CtrlZ ==
  /\ jend = Alive /\ jstop = None
  /\ stops < MaxStops
  /\ ~orphaned
  /\ same \/ ~Forked
  /\ stops' = stops + 1
  /\ jstop' = "tty"
  /\ jcont' = FALSE
  /\ cstop' = IF CRuns THEN "TSTP" ELSE cstop
  /\ creport' = (creport \/ CRuns)
  /\ UNCHANGED << topology, jpc, nextSig, raising, continued, sigchld, jend, pipe,
                  iVars, cend >>

\* fg: the shell sends SIGCONT to J's process group once J is stopped.
Fg ==
  /\ jend = Alive /\ jstop # None
  /\ jstop' = None
  /\ jcont' = (jpc \notin {"read", "setup"})
  /\ istop' = "no"
  /\ icont' = (icont \/ (iend = Alive /\ ipc \in {"wait", "write"}))
  /\ IF iend = Alive /\ istop \in {"stopped", "waited"}
       THEN NotifyJ
       ELSE UNCHANGED sigchld
  /\ cstop' = IF same THEN None ELSE cstop
  /\ creport' = (creport /\ ~same)
  /\ UNCHANGED << topology, jpc, nextSig, raising, continued, jend, pipe, ipc,
                  isig, iend, deathsig, cend, stops >>

\* J is killed; the kernel kills I if it asked for it, and all of the jail.
JKilled ==
  /\ jend = Alive
  /\ jend' = Killed("KILL")
  /\ IF deathsig /\ iend = Alive
       THEN /\ iend' = Killed("KILL")
            /\ cend' = IF Forked /\ cend = Alive THEN Killed("KILL") ELSE cend
       ELSE UNCHANGED << iend, cend >>
  /\ UNCHANGED << topology, jpc, jstop, nextSig, raising, continued, jcont,
                  sigchld, pipe, ipc, istop, icont, isig, deathsig, cstop,
                  creport, stops >>

-----------------------------------------------------------------------------
JStep ==
  \/ ReadProbe
  \/ SetUp
  \/ Poll
  \/ WaitStopped
  \/ WaitEnded
  \/ WaitNothing
  \/ Raise
  \/ Check
  \/ Drain
  \/ Kill
  \/ JHandler

IStep ==
  \/ StartFails
  \/ Prctl
  \/ Probe
  \/ Fork
  \/ Sigaction
  \/ WaitC
  \/ WaitCEnded
  \/ Write
  \/ IHandler

Next ==
  \/ JStep
  \/ IStep
  \/ IStops
  \/ \E sig \in StopSigs : CStops(sig)
  \/ \E end \in {Exit("0"), Exit("1"), Killed("TERM")} : CEnds(end)
  \/ CtrlZ
  \/ Fg
  \/ JKilled

Spec == Init /\ [][Next]_vars

\* J, I and the kernel keep going; C, the terminal and the shell may do nothing.
FairSpec == Spec /\ WF_vars(JStep) /\ WF_vars(IStep) /\ WF_vars(IStops)

-----------------------------------------------------------------------------
(***************************************************************************)
(* jai exits with the status of the program, however it was stopped and    *)
(* continued before.                                                       *)
(***************************************************************************)
ExitStatusKept ==
  jend # Alive /\ cend[1] = "exit" => jend \in {cend, Killed("KILL")}

(***************************************************************************)
(* When the program ends, or PID 1 before there is one, jai ends (or is    *)
(* stopped, and the shell has to continue it first), although SIGCHLD is   *)
(* lost until parent_loop has blocked it.                                  *)
(***************************************************************************)
JaiEnds == cend # Alive \/ iend # Alive ~> jend # Alive \/ jstop # None

(***************************************************************************)
(* No jail outlives the jai that started it, even when that one is killed  *)
(* before PID 1 has asked for its death signal.                            *)
(***************************************************************************)
NoJailWithoutJai ==
  jend # Alive ~> iend # Alive /\ (Forked => cend # Alive)

(***************************************************************************)
(* "if the jailed program stops, it uses a pipe to request that the        *)
(* original jai process stop it" (exec): the shell gets to see that the    *)
(* job is stopped, unless the program goes on first.  For the first stop   *)
(* only: the SIGCONT handler may discard a later request.                  *)
(***************************************************************************)
FirstStopFollows ==
  stops = 1 /\ cstop # None
    ~> jstop # None \/ cstop = None \/ cend # Alive \/ jend # Alive

(***************************************************************************)
(* "exit or kill ourselves if the child terminated on a signal"            *)
(* (propagate_termination_status).                                         *)
(***************************************************************************)
TermSignalKept ==
  jend # Alive /\ cend = Killed("TERM") => jend \in {cend, Killed("KILL")}

(***************************************************************************)
(* "shell job-control topology should preserve SIGTSTP exactly"            *)
(* (tests/job-control-sigtstp-preserve.sh).                                *)
(***************************************************************************)
StopSignalKept ==
  jstop \in StopSigs /\ cstop = "TSTP" /\ ~orphaned => jstop = "TSTP"

-----------------------------------------------------------------------------
(***************************************************************************)
(* The program never runs without its jai: the safety half of              *)
(* NoJailWithoutJai, which leaves to the liveness half the PID 1 that has  *)
(* not forked yet.                                                         *)
(***************************************************************************)
ProgramHasJai == jend # Alive /\ Forked => cend # Alive

(***************************************************************************)
(* The inductive invariant behind the safety properties: which end each of *)
(* the three processes has passed on, and what PID 1 has asked for when it *)
(* forks.                                                                  *)
(***************************************************************************)
EndsPassedOn ==
  /\ ~Forked => cend = Alive
  /\ jend # Alive => jend = Killed("KILL") \/ (iend # Alive /\ jend = iend)
  /\ iend # Alive => \/ jend = Killed("KILL")
                     \/ ~Forked
                     \/ cend # Alive /\ iend = EndOfInit(cend)

DeathSignalAsked ==
  /\ ipc \in {"prctl", "probe", "fork", "sigaction", "wait", "write"}
  /\ ipc # "prctl" => deathsig
  /\ iend # Alive /\ Forked => cend # Alive
  /\ jend # Alive /\ ipc \notin {"prctl", "probe"} => iend # Alive

JobInv == EndsPassedOn /\ DeathSignalAsked
=============================================================================
